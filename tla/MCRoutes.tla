------------------------------- MODULE MCRoutes -------------------------------
(***************************************************************************)
(* Both engines of the general loop on small patterns and subjects.        *)
(***************************************************************************)
EXTENDS Routes, MCPatterns

NoAnswer == [matched |-> FALSE, slots |-> <<>>]
VMAnswer == IF Done THEN [matched |-> matched, slots |-> out_slots] ELSE NoAnswer
BTAnswer == IF BacktrackDone THEN [matched |-> bt_matched, slots |-> bt_out_slots] ELSE NoAnswer

Promise == INSTANCE Matching
  WITH Right <- MCRight,
       answer <- IF Taken(search) THEN BTAnswer ELSE VMAnswer

\* Every search of the general loop returns, once, and what the engine it goes to returns is the
\* reference matcher's answer: whether it matched, the span, and the captures where the
\* pattern fixes them.  The backtracker's is, whatever bytes its marks began with.
AnswersAsPromised == Promise!Spec

=============================================================================
