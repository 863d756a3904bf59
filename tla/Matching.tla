------------------------------- MODULE Matching -------------------------------
(***************************************************************************)
(* What a matcher promises: a search gets an answer, and a right one.      *)
(***************************************************************************)
CONSTANT Right(_, _)     \* Right(s, a): a answers the search s

VARIABLES search, answer

Pending == [matched |-> FALSE, slots |-> <<>>]

Init == answer = Pending

Decide ==
  /\ answer = Pending
  /\ answer' # Pending
  /\ Right(search, answer')
  /\ UNCHANGED search

Spec == Init /\ [][Decide]_<<search, answer>> /\ <>(answer # Pending)

=============================================================================
