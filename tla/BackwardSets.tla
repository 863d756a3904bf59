----------------------------- MODULE BackwardSets -----------------------------
(***************************************************************************)
(* The sets the reverse DFA is over: counters that lead to the match over  *)
(* the text to the right, found over the program's edges transposed, and   *)
(* assertions that wait for the byte on their left.                        *)
(***************************************************************************)
EXTENDS ByteProgram

unknown == "unknown"

match_pc(code) == Max({pc \in DOMAIN code : code[pc].op = "match"})

\* rev_eps_: the counters with an epsilon edge to pc.
Predecessors(code, pc) ==
  {p \in DOMAIN code :
     CASE code[p].op = "split" -> pc \in {code[p].primary, code[p].secondary}
       [] code[p].op = "jump" -> pc = code[p].primary
       [] code[p].op \in {"save", "assert_position"} -> pc = p + 1
       [] OTHER -> FALSE}

Asserts(code, p) == code[p].op = "assert_position"
looks_left(code, p) ==
  Asserts(code, p) /\ code[p].kind \notin {"text_end", "text_end_or_final_newline", "line_end"}
Undecidable(code, p, left, right) ==
  Asserts(code, p) /\ left # unknown /\ undecidable_word(code[p].kind, left, right)

\* The counters back over which an edge exists here.
Crossed(code, left, right) ==
  {p \in DOMAIN code : Asserts(code, p) =>
     ~Undecidable(code, p, left, right) /\ Holds(code[p].kind, left, right)}

\* Those that wait while nothing is known of the left.
Waiting(code, left) == {p \in DOMAIN code : left = unknown /\ looks_left(code, p)}

\* rev_closure_look: what is reached back from the counters, what waits, and whether a
\* boundary was met that the bytes do not tell.
Back(code, from, left, right) ==
  LET edges == Crossed(code, left, right) \ Waiting(code, left)
      Met(pcs) == UNION {Predecessors(code, pc) : pc \in pcs}
      grown[k \in 0 .. Len(code)] ==
        IF k = 0 THEN from
        ELSE LET so_far == grown[k - 1] IN so_far \cup (Met(so_far) \cap edges)
      reached == grown[Len(code)]
  IN [pcs |-> reached,
      pending |-> (Met(reached) \cap Waiting(code, left)) \ reached,
      quit |-> \E p \in Met(reached) : Undecidable(code, p, left, right)]

\* mark_context: the context is part of a set that waits.
Set(closed, right) ==
  [pcs |-> closed.pcs, pending |-> closed.pending,
   ctx |-> IF closed.pending = {} THEN "none" ELSE right]

Nothing == [pcs |-> {}, pending |-> {}, ctx |-> "none"]

Start(code, right) == Set(Back(code, {match_pc(code)}, unknown, right), right)

\* The bytes read backward by the counters behind.
Takers(code, set, byte) ==
  {p \in {pc - 1 : pc \in set.pcs} \cap DOMAIN code :
     code[p].op \in Consuming /\ byte \in code[p].class}

\* step, and step_with for a newline that ends the text.
Stepped(code, set, byte, right) ==
  Set(Back(code, Takers(code, set, byte), unknown, right), right)

\* The waiting assertions the byte on the left decides true are members, as are those before.
Resolution(code, set, left) ==
  LET decided == set.pending \cap Crossed(code, left, set.ctx)
      closed == Back(code, set.pcs \cup decided, left, set.ctx)
  IN [closed EXCEPT !.quit = @ \/ \E p \in set.pending : Undecidable(code, p, left, set.ctx)]

=============================================================================
