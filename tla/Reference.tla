------------------------------ MODULE Reference ------------------------------
(***************************************************************************)
(* What a pattern means: a backtracking matcher on the tree, in the order  *)
(* of preference.  It follows the tree only, knows nothing of programs,    *)
(* threads or hints, and is what the matchers' answers are compared with.  *)
(***************************************************************************)
EXTENDS Compiler

\* Every way of carrying on from each of the outcomes, in order.
Then(outcomes, Continue(_)) == FlattenSeq([k \in DOMAIN outcomes |-> Continue(outcomes[k])])

At(p, c) == <<[pos |-> p, caps |-> c]>>

\* One code point of the class.
OneOf(class, text, pos, caps) ==
  LET here == Decoded(text, pos) \cap class
  IN IF here = {} THEN <<>> ELSE At(pos + Len(Encode(CHOOSE c \in here : TRUE)), caps)

RECURSIVE Outcomes(_, _, _, _), InTurn(_, _, _, _), Iterations(_, _, _, _, _)

\* The ends (with captures) that n reaches from pos, the preferred one first.
Outcomes(n, text, pos, caps) ==
  CASE n.kind = "empty" -> At(pos, caps)
    [] n.kind = "byte" -> IF HasByte(text, pos, {n.byte}) THEN At(pos + 1, caps) ELSE <<>>
    [] n.kind = "klass" -> OneOf(n.class, text, pos, caps)
    [] n.kind = "any" -> OneOf(CodePoints \ {Newline}, text, pos, caps)
    [] n.kind = "anchor" -> IF assertion_holds(n.assert, text, pos) THEN At(pos, caps) ELSE <<>>
    [] n.kind = "concat" -> InTurn(n.children, text, pos, caps)
    [] n.kind = "alternation" ->
         FlattenSeq([k \in DOMAIN n.children |-> Outcomes(n.children[k], text, pos, caps)])
    [] n.kind = "group" ->
         LET inner == Outcomes(n.child, text, pos, caps)
             kept == IF n.atomic /\ inner # <<>> THEN <<Head(inner)>> ELSE inner
             Close(o) == At(o.pos, IF n.group < 0 THEN o.caps
                                   ELSE [o.caps EXCEPT ![2 * n.group] = pos,
                                                       ![2 * n.group + 1] = o.pos])
         IN Then(kept, Close)
    [] n.kind = "repeat" ->
         LET all == Iterations(n, 0, text, pos, caps)
         IN IF n.possessive /\ all # <<>> THEN <<Head(all)>> ELSE all
    [] n.kind = "lookaround" ->
         LET ends(p) == {o.pos : o \in Range(Outcomes(n.child, text, p, caps))}
             found == IF n.behind THEN \E p \in 0 .. pos : pos \in ends(p) ELSE ends(pos) # {}
         IN IF found # n.negative THEN At(pos, caps) ELSE <<>>

InTurn(nodes, text, pos, caps) ==
  IF nodes = <<>> THEN At(pos, caps)
  ELSE LET Rest(o) == InTurn(Tail(nodes), text, o.pos, o.caps)
       IN Then(Outcomes(Head(nodes), text, pos, caps), Rest)

\* The repetitions past the k-th; an empty one is an unbounded loop's last.
Iterations(n, k, text, pos, caps) ==
  LET Again(o) == IF n.max = -1 /\ k >= n.min /\ o.pos = pos THEN <<o>>
                  ELSE Iterations(n, k + 1, text, o.pos, o.caps)
      more == IF k = n.max THEN <<>> ELSE Then(Outcomes(n.child, text, pos, caps), Again)
      stop == IF k < n.min THEN <<>> ELSE At(pos, caps)
  IN IF n.lazy THEN stop \o more ELSE more \o stop

-----------------------------------------------------------------------------
\* node_nullable.
RECURSIVE Nullable(_), Portable(_)
Nullable(n) ==
  CASE n.kind \in {"empty", "anchor", "lookaround"} -> TRUE
    [] n.kind = "concat" -> \A k \in DOMAIN n.children : Nullable(n.children[k])
    [] n.kind = "alternation" -> \E k \in DOMAIN n.children : Nullable(n.children[k])
    [] n.kind = "group" -> Nullable(n.child)
    [] n.kind = "repeat" -> n.min = 0 \/ Nullable(n.child)
    [] OTHER -> FALSE

\* No unbounded loop repeats what may be empty: where the matchers' rule for an empty
\* iteration, which is their own, has no part in the answer.
Portable(n) ==
  CASE n.kind \in {"concat", "alternation"} -> \A k \in DOMAIN n.children : Portable(n.children[k])
    [] n.kind = "repeat" -> (n.max = -1 => ~Nullable(n.child)) /\ Portable(n.child)
    [] n.kind \in {"group", "lookaround"} -> Portable(n.child)
    [] OTHER -> TRUE

-----------------------------------------------------------------------------
\* A byte that may begin a code point, or the end.
Boundaries(text) == {p \in 0 .. Len(text) : p < Len(text) => ByteAt(text, p) # Cont}

Starts(s) ==
  IF s.mode = "search" THEN {s.start} \cup {p \in Boundaries(s.text) : p > s.start} ELSE {s.start}

\* The matches a search may answer with, by their starts.
MatchesAt(root, none, s) ==
  [p \in Starts(s) |->
     SelectSeq(Outcomes(root, s.text, p, none),
               LAMBDA o : /\ s.mode = "full" => o.pos = Len(s.text)
                          /\ ~(o.pos = p /\ p < s.forbid))]

Spanning(start, o) == [o.caps EXCEPT ![0] = start, ![1] = o.pos]

\* The preferred one, or with longest semantics the preferred of those that end last.
Preferred(start, ends, sem) ==
  LET last == Max({o.pos : o \in Range(ends)})
  IN Spanning(start, IF sem = "first" THEN Head(ends)
                     ELSE Head(SelectSeq(ends, LAMBDA o : o.pos = last)))

Leftmost(ends, none, sem) ==
  LET found == {p \in DOMAIN ends : ends[p] # <<>>}
  IN IF found = {} THEN [matched |-> FALSE, slots |-> none]
     ELSE [matched |-> TRUE, slots |-> Preferred(Min(found), ends[Min(found)], sem)]

\* A search's answer: the preferred acceptable match at the leftmost start.
AnswerWith(root, none, s) == Leftmost(MatchesAt(root, none, s), none, s.sem)
Answer(root, slot_count, s) == AnswerWith(root, [k \in 0 .. slot_count - 1 |-> npos], s)

=============================================================================
