------------------------------- MODULE FindIter -------------------------------
(***************************************************************************)
(* What find_iter and count_matches promise: every match of the subject,   *)
(* in order, each once, and then the end.                                  *)
(***************************************************************************)
EXTENDS Integers, Sequences

VARIABLES
  matches,   \* the subject's matches
  yielded,   \* those the caller has had, or has been counted
  over

vars == <<matches, yielded, over>>

Init == yielded = <<>> /\ over = FALSE

\* The next match, or the next few at once where the caller only counts.
Yield ==
  /\ \E k \in Len(yielded) + 1 .. Len(matches) : yielded' = SubSeq(matches, 1, k)
  /\ UNCHANGED <<matches, over>>

Finish ==
  /\ ~over
  /\ yielded = matches
  /\ over' = TRUE
  /\ UNCHANGED <<matches, yielded>>

Spec == Init /\ [][Yield \/ Finish]_vars /\ WF_vars(Yield \/ Finish)

=============================================================================
