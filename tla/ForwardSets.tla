------------------------------ MODULE ForwardSets ------------------------------
(***************************************************************************)
(* The sets the forward DFA is over: the ordered epsilon closure of a set  *)
(* of counters, a step over a byte, the cut at an accept and the           *)
(* resolution of pending assertions.  A set is a sequence of counters in   *)
(* order of preference, and with a pending assertion also the context it   *)
(* waits in.                                                               *)
(***************************************************************************)
EXTENDS ByteProgram

\* Control never leaves a code.
Contained(code) ==
  /\ Len(code) \in Nat \ {0} /\ DOMAIN code = 1 .. Len(code)
  /\ \A pc \in DOMAIN code :
       /\ code[pc].op \in Consuming \cup {"match", "split", "jump", "save", "assert_position"}
       /\ code[pc].op # "klass_cp"
       /\ Successors(code, pc) \subseteq DOMAIN code

\* What is known of the right side inside a step.
unknown == "unknown"

asserting(code) == {pc \in DOMAIN code : code[pc].op = "assert_position"}

Pending(code, set) == Range(set.pcs) \cap asserting(code) # {}

\* One entry off the stack.
CloseOne(code, c, left, right) ==
  LET pc == Head(c.stack)
      in == code[pc]
      seen == c.seen \cup {pc}
      kept == [c EXCEPT !.stack = Tail(@), !.seen = seen, !.out = Append(@, pc)]
      On(targets) == [c EXCEPT !.stack = targets \o Tail(@), !.seen = seen]
  IN IF pc \in c.seen THEN [c EXCEPT !.stack = Tail(@)]
     ELSE CASE in.op \in Consuming \cup {"match"} -> kept
            [] in.op = "split" -> On(<<in.primary, in.secondary>>)
            [] in.op = "jump" -> On(<<JumpTarget(code, pc, seen)>>)
            [] in.op = "save" -> On(<<pc + 1>>)
            [] in.op = "assert_position" ->
                 IF in.kind \notin LineStarts /\ right = unknown THEN kept
                 ELSE IF undecidable_word(in.kind, left, right) THEN [On(<<>>) EXCEPT !.quit = TRUE]
                 ELSE On(IF Holds(in.kind, left, right) THEN <<pc + 1>> ELSE <<>>)

\* close_look, and close_into for a program without assertions: the closure of the counters
\* in order.
Close(code, pcs, left, right) ==
  LET from == [stack |-> pcs, out |-> <<>>, seen |-> {}, quit |-> FALSE]
      after[k \in 0 .. 2 * Len(code) + Len(pcs)] ==
        IF k = 0 THEN from
        ELSE LET c == after[k - 1] IN IF c.stack = <<>> THEN c ELSE CloseOne(code, c, left, right)
  IN after[2 * Len(code) + Len(pcs)]

\* intern_any: the context is part of a set that waits.
Set(code, pcs, left) ==
  LET bare == [pcs |-> pcs, ctx |-> "none"]
  IN IF Pending(code, bare) THEN [bare EXCEPT !.ctx = left] ELSE bare

consumers(code, byte) ==
  {pc \in DOMAIN code : code[pc].op \in Consuming /\ byte \in code[pc].class}

Start(code, left) == Set(code, Close(code, <<1>>, left, unknown).out, left)

\* The takers of a byte move on, in order; a seed goes last.
MovedOn(set, takers, seeded) ==
  LET moved[k \in 0 .. Len(set.pcs)] ==
        IF k = 0 THEN <<>>
        ELSE IF set.pcs[k] \in takers THEN Append(moved[k - 1], set.pcs[k] + 1)
        ELSE moved[k - 1]
      last == moved[Len(set.pcs)]
  IN IF seeded THEN Append(last, 1) ELSE last

\* step and step_seeded.
Stepped(code, set, byte, seeded) ==
  LET left == class_ctx(alphabet(code, byte))
      moved == MovedOn(set, consumers(code, byte), seeded)
  IN Set(code, Close(code, moved, left, unknown).out, left)

Accepts(code, set) == {k \in DOMAIN set.pcs : code[set.pcs[k]].op = "match"}

\* cut: what is preferred to the first accept.
Cut(code, set) == Set(code, SubSeq(set.pcs, 1, Min(Accepts(code, set)) - 1), "none")

\* A resolution that met an undecidable boundary is none.
Resolution(code, set, right) == Close(code, set.pcs, set.ctx, right)

=============================================================================
