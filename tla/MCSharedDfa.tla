----------------------------- MODULE MCSharedDfa -----------------------------
(* Instances of SharedDfa for TLC.                                         *)
EXTENDS SharedDfa

CONSTANT stripe

\* All the regexes hash to one stripe.
OneStripe == [a \in Addresses |-> stripe]

Symmetry == Permutations(Threads) \cup Permutations(Addresses)

=============================================================================
