-------------------------------- MODULE Program --------------------------------
(***************************************************************************)
(* NFA programs: what an instruction does to a position, the rule that     *)
(* ends empty loop iterations, the hints a search reads off the code, and  *)
(* the lookaround sub-programs.  A program is a sequence of instructions,  *)
(* so counters start at 1.                                                 *)
(***************************************************************************)
EXTENDS Text, FiniteSetsExt

npos == -1
max_loop_hops == 8

Consuming == {"byte", "klass", "klass_cp"}
Possessive == {"klass_loop_possessive", "klass_cp_loop_possessive"}

\* Where a consuming or possessive instruction at pc leads after one byte at pos: past
\* itself, or for a code point into the continuation slots its remaining bytes need.
Advanced(code, text, pc, pos) ==
  LET in == code[pc] IN
  IF in.op \in {"byte", "klass", "klass_loop_possessive"}
    THEN {pc + 1 : b \in {b \in in.class : HasByte(text, pos, {b})}}
    ELSE {pc + 1 + (4 - Len(Encode(c))) : c \in Decoded(text, pos) \cap in.class}

\* The bytes one repetition of a possessive loop's atom spans at pos.
AtomLength(code, text, pc, pos) ==
  IF code[pc].op = "klass_loop_possessive" THEN 1
  ELSE CHOOSE n \in {Len(Encode(c)) : c \in Decoded(text, pos) \cap code[pc].class} : TRUE

\* A jump to a loop head already entered here takes the loop's exit: chained jumps are
\* followed to the head, max_loop_hops of them.
JumpTarget(code, pc, entered) ==
  LET jumps == {h \in entered : code[h].op = "jump"}
      heads == {h \in entered : code[h].op = "split"}
      hop == [h \in DOMAIN code |-> IF h \in jumps THEN code[h].primary ELSE h]
      head[k \in 0 .. max_loop_hops] == IF k = 0 THEN code[pc].primary ELSE hop[head[k - 1]]
      target == [h \in DOMAIN code |->
                   IF h \in heads THEN code[h].secondary ELSE code[pc].primary]
  IN target[head[max_loop_hops]]

-----------------------------------------------------------------------------
(* Hints: analyze_program's anchoring, prefix and first-byte set.          *)

Anchor(code) ==
  LET in == code[Min({pc \in DOMAIN code : code[pc].op # "save"})] IN
  IF in.op = "assert_position" THEN in.kind ELSE "none"

\* The leading literal: saves and assertions are crossed.
Prefix(code) ==
  LET stop == Min({pc \in DOMAIN code : code[pc].op \notin {"byte", "save", "assert_position"}})
      lead == SelectSeq(SubSeq(code, 1, stop - 1), LAMBDA in : in.op = "byte")
  IN [k \in DOMAIN lead |-> CHOOSE b \in lead[k].class : TRUE]

EpsilonSuccessors(code, pc) ==
  LET in == code[pc] IN
  CASE in.op \in {"save", "assert_position", "assert_lookaround"} -> {pc + 1}
    [] in.op = "jump" -> {in.primary}
    [] in.op = "split" -> {in.primary, in.secondary}
    [] in.op \in Possessive -> {in.secondary}
    [] OTHER -> {}

\* Where an instruction may hand control to.
Successors(code, pc) ==
  LET in == code[pc] IN
  EpsilonSuccessors(code, pc) \cup
    CASE in.op \in {"byte", "klass", "klass_loop_possessive"} -> {pc + 1}
      [] in.op \in {"klass_cp", "klass_cp_loop_possessive"} -> {pc + 3, pc + 4}
      [] OTHER -> {}

EpsilonClosure(code) ==
  LET reach[k \in 0 .. Len(code)] ==
        IF k = 0 THEN {1}
        ELSE UNION {{pc} \cup EpsilonSuccessors(code, pc) : pc \in reach[k - 1]}
  IN reach[Len(code)]

FirstBytes(code) ==
  LET first == {pc \in EpsilonClosure(code) : code[pc].op \in Consuming \cup Possessive}
      classOf(in) == IF in.op \in {"klass_cp", "klass_cp_loop_possessive"}
                       THEN (in.class \cap Ascii) \cup {Lead} ELSE in.class
  IN UNION {classOf(code[pc]) : pc \in first}

EmptyMatchPossible(code) == \E pc \in EpsilonClosure(code) : code[pc].op = "match"

HintsOf(code, slot_count) ==
  [anchored_start |-> Anchor(code) = "text_start",
   line_anchored |-> Anchor(code) = "line_start",
   prefix |-> Prefix(code),
   first_bytes |-> FirstBytes(code),
   first_bytes_valid |-> ~EmptyMatchPossible(code) /\ FirstBytes(code) # {},
   capture_free_walk |-> slot_count = 2,
   bounded_backtrack |-> \A pc \in DOMAIN code : code[pc].op # "assert_lookaround"]

FirstByteOK(hints, text, pos) ==
  hints.first_bytes_valid => HasByte(text, pos, hints.first_bytes)

\* The starts from pos on that the sharpest hint leaves.  A line start is looked for only
\* past the region's start, and not where a single first byte is known.
Candidates(hints, text, pos, start) ==
  {p \in pos .. Len(text) :
     IF hints.anchored_start THEN p = start
     ELSE IF Len(hints.prefix) >= 2
       THEN IsPrefix(hints.prefix, SubSeq(text, p + 1, Len(text)))
     ELSE IF hints.line_anchored /\ pos # start /\ Cardinality(hints.first_bytes) # 1
       THEN AfterNewline(text, p) /\ (p < Len(text) => FirstByteOK(hints, text, p))
     ELSE FirstByteOK(hints, text, p)}

next_candidate(hints, text, pos, start) ==
  LET after == Candidates(hints, text, pos, start)
  IN IF after = {} THEN npos ELSE Min(after)

seed_viable(hints, text, pos, start) ==
  /\ hints.anchored_start => pos = start
  /\ Aligned(text, pos, start)
  /\ FirstByteOK(hints, text, pos)

=============================================================================
