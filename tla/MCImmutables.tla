----------------------------- MODULE MCImmutables -----------------------------
(* Instances of Immutables. *)
EXTENDS Immutables, TLC

\* The shapes of programs: routes that keep a DFA, with the extractor on top of them, and
\* routes that keep none.
WithDfa == {"byte_prog", "op_table", "anchored", "il"}
WithoutDfa == Rows \cup {"ac", "alt_pairs"}
MCRouteSets == {WithDfa, WithoutDfa}

Symmetry == Permutations(Threads) \cup Permutations(Buffers) \cup Permutations(Rows)

=============================================================================
