------------------------------ MODULE Lookaround ------------------------------
(***************************************************************************)
(* Lookaround sub-programs: capture-free regions of the code the main walk *)
(* jumps over, evaluated by a simulation of their own.  A sub-program      *)
(* answers at a position; what answers, a thread set, has no priorities.   *)
(***************************************************************************)
EXTENDS Program

\* sub_add_thread: the closure of pcs at pos, a jump always taken.
SubSuccessors(code, text, pc, pos) ==
  LET in == code[pc] IN
  CASE in.op = "jump" -> {in.primary}
    [] in.op = "split" -> {in.primary, in.secondary}
    [] in.op = "assert_position" -> IF assertion_holds(in.kind, text, pos) THEN {pc + 1} ELSE {}
    [] OTHER -> {}

SubClosure(code, text, pcs, pos) ==
  LET reach[k \in 0 .. Len(code)] ==
        IF k = 0 THEN pcs
        ELSE UNION {{pc} \cup SubSuccessors(code, text, pc, pos) : pc \in reach[k - 1]}
  IN reach[Len(code)]

\* The threads one byte on.
SubStep(code, text, pcs, pos) ==
  SubClosure(code, text,
    UNION {Advanced(code, text, pc, pos) : pc \in {q \in pcs : code[q].op \in Consuming}}, pos + 1)

Holds(code, pcs) == \E pc \in pcs : code[pc].op = "match"

\* lookahead_matches: a match begins at pos, within l_max bytes if the sub-program is bounded.
lookahead_matches(code, text, sub, pos) ==
  LET window == IF sub.l_max < 0 THEN Len(text) - pos ELSE Min({sub.l_max, Len(text) - pos})
      threads[k \in 0 .. window] ==
        IF k = 0 THEN SubClosure(code, text, {sub.offset}, pos)
        ELSE SubStep(code, text, threads[k - 1], pos + k - 1)
  IN \E k \in 0 .. window : Holds(code, threads[k])

\* lookbehind_matches: a match ends at pos exactly; the walk starts a thread at every
\* position from the farthest start on.
lookbehind_matches(code, text, sub, pos) ==
  LET origin == IF pos > sub.l_max THEN pos - sub.l_max ELSE 0
      threads[p \in origin .. pos] ==
        LET seed == SubClosure(code, text, {sub.offset}, p)
        IN IF p = origin THEN seed ELSE seed \cup SubStep(code, text, threads[p - 1], p - 1)
  IN Holds(code, threads[pos])

lookaround_holds(code, text, sub, pos) ==
  sub.negative # (IF sub.behind THEN lookbehind_matches(code, text, sub, pos)
                                ELSE lookahead_matches(code, text, sub, pos))

=============================================================================
