----------------------------- MODULE InnerLiteral -----------------------------
(***************************************************************************)
(* The inner literal of a pattern: bytes every match contains, somewhere   *)
(* behind the match's start.  What is extracted from the tree, when the    *)
(* extraction declines because a search for the literal would not find the *)
(* leftmost match, and the shapes the compiler reads off the program that  *)
(* place a match around the literal without an engine.                     *)
(***************************************************************************)
EXTENDS Compiler

CONSTANT inner_literal_max     \* the most bytes a literal keeps

Bytewise == INSTANCE ByteProgram

optional_literal_min_score == 1800

-----------------------------------------------------------------------------
(* The runs of bytes and the one that is kept.                             *)

NoLiteral == [bytes |-> <<>>, score |-> 0, top |-> -1]

\* run_top and top: the child of the root concatenation a run began at, -1 when nested.
Fresh ==
  [run |-> <<>>, run_top |-> -1, best |-> NoLiteral, frozen |-> FALSE, optional |-> FALSE,
   declined |-> FALSE]

\* Occurrences in 10000 bytes of text.
byte_frequency ==
  [byte \in Bytes |-> CASE byte = "a" -> 650 [] byte = "b" -> 150 [] byte = Newline -> 100
                        [] byte = "-" -> 40 [] byte = Lead -> 250 [] byte = Cont -> 200]

score_run(bytes) == FoldLeft(LAMBDA sum, byte : sum + 2000 - byte_frequency[byte], 0, bytes)

Inner(literal) == literal.top >= 1

\* A literal behind the first child before one at the head, then the rarer.
Beats(new, best) ==
  \/ best.bytes = <<>>
  \/ Inner(new) /\ ~Inner(best)
  \/ Inner(new) = Inner(best) /\ new.score > best.score

flush(st) ==
  LET kept == SubSeq(st.run, 1, Min({Len(st.run), inner_literal_max}))
      new == [bytes |-> kept, score |-> score_run(kept), top |-> st.run_top]
  IN [st EXCEPT !.run = <<>>,
                !.best = IF kept # <<>> /\ ~st.frozen /\ Beats(new, st.best) THEN new ELSE st.best]

Decline(st) == [st EXCEPT !.declined = TRUE]

\* Fixed bytes, and nothing else.
RECURSIVE is_pure_byte_run(_), byte_run_width(_)
is_pure_byte_run(n) ==
  CASE n.kind \in {"empty", "byte"} -> TRUE
    [] n.kind = "concat" -> \A k \in DOMAIN n.children : is_pure_byte_run(n.children[k])
    [] n.kind = "group" -> is_pure_byte_run(n.child)
    [] OTHER -> FALSE

byte_run_width(n) ==
  CASE n.kind = "byte" -> 1
    [] n.kind = "group" -> byte_run_width(n.child)
    [] n.kind = "concat" -> FoldLeft(LAMBDA sum, child : sum + byte_run_width(child), 0, n.children)
    [] OTHER -> 0

\* What may be left out breaks the run: with none kept yet a later one still is in every
\* match; behind a rare inner one nothing more is taken; behind any other, decline.
PastOptional(st) ==
  IF st.best.bytes = <<>> THEN [st EXCEPT !.optional = TRUE]
  ELSE IF Inner(st.best) /\ st.best.score >= optional_literal_min_score
    THEN [st EXCEPT !.frozen = TRUE]
  ELSE Decline(st)

\* One node's bytes added to the run; only the root's own children have a top.
RECURSIVE walk(_, _, _)
walk(n, st, top) ==
  CASE st.declined \/ n.kind = "empty" -> st
    [] n.kind = "byte" ->
         [st EXCEPT !.run = Append(@, n.byte), !.run_top = IF st.run = <<>> THEN top ELSE @]
    [] n.kind = "concat" -> FoldLeft(LAMBDA so_far, child : walk(child, so_far, -1), st, n.children)
    [] n.kind = "group" -> walk(n.child, st, -1)
    [] n.kind = "repeat" -> IF n.min = 0 THEN PastOptional(flush(st))
                            ELSE flush(walk(n.child, flush(st), -1))
    [] n.kind \in {"klass", "any"} -> flush(st)
    [] n.kind = "alternation" ->
         IF \A k \in DOMAIN n.children :
              is_pure_byte_run(n.children[k]) /\ byte_run_width(n.children[k]) > 0
           THEN flush(st) ELSE Decline(st)
    [] OTHER -> Decline(st)

-----------------------------------------------------------------------------
(* The prefix: what comes before the literal.                              *)

RECURSIVE Ungrouped(_), prefix_bytes(_), rigid(_)
Ungrouped(n) == IF n.kind = "group" THEN Ungrouped(n.child) ELSE n

is_unit(n) == Ungrouped(n).kind \in {"byte", "klass", "any"}

\* A class of word characters, once or more.
is_word_only_run(n) ==
  LET loop == Ungrouped(n) IN
  /\ loop.kind = "repeat" /\ loop.min >= 1
  /\ Ungrouped(loop.child).kind = "klass"
  /\ Ungrouped(loop.child).class \subseteq WordCodePoints

\* The bytes it may match, every byte outside ASCII with any class.
prefix_bytes(n) ==
  CASE n.kind = "byte" -> {n.byte}
    [] n.kind = "klass" -> (n.class \cap Ascii) \cup (Bytes \ Ascii)
    [] n.kind = "any" -> Bytes
    [] n.kind \in {"concat", "alternation"} ->
         UNION {prefix_bytes(n.children[k]) : k \in DOMAIN n.children}
    [] n.kind \in {"repeat", "group"} -> prefix_bytes(n.child)
    [] OTHER -> {}

\* Mutant: an alternation of unequal branches taken for one that reaches every start.
rigid_loops(n) == n.kind = "repeat" /\ n.max # n.min /\ ~is_unit(n.child)

\* Its width varies, and not by one unit at a time.
rigid(n) ==
  CASE n.kind = "concat" -> \E k \in DOMAIN n.children : rigid(n.children[k])
    [] n.kind = "alternation" ->
         \/ \E k \in DOMAIN n.children : rigid(n.children[k])
         \/ Cardinality({byte_run_width(n.children[k]) : k \in DOMAIN n.children}) > 1
    [] n.kind = "repeat" -> rigid(n.child) \/ (n.max # n.min /\ ~is_unit(n.child))
    [] n.kind = "group" -> rigid(n.child)
    [] OTHER -> FALSE

can_occur_in_prefix(literal, bytes) == Range(literal) \subseteq bytes

-----------------------------------------------------------------------------
(* extract_inner_literal.                                                  *)

is_top_wb_anchor(n) == n.kind = "anchor" /\ n.assert \in {"word_boundary", "not_word_boundary"}

TopLevel(root) == IF root.kind = "concat" THEN root.children ELSE <<root>>

\* The children without a boundary in front and one behind.
Leads(kids) == kids # <<>> /\ is_top_wb_anchor(Head(kids))
Trails(kids) == kids # <<>> /\ is_top_wb_anchor(Last(kids))
WithoutLead(kids) == IF Leads(kids) THEN Tail(kids) ELSE kids
WithoutTrail(kids) == IF Trails(kids) THEN Front(kids) ELSE kids
Body(root) == WithoutTrail(WithoutLead(TopLevel(root)))

Walked(body) ==
  flush(FoldLeftDomain(LAMBDA st, k : walk(body[k], st, k - 1), Fresh, body))

\* A boundary in front is tried at one start only, the leftmost the prefix has: it must be
\* the only one that can have it.
sound_lead(root, body, top) ==
  \/ ~Leads(TopLevel(root))
  \/ top = 0
  \/ top = 1 /\ Head(TopLevel(root)).assert = "word_boundary" /\ is_word_only_run(Head(body))

\* An occurrence in an earlier match's prefix would be confirmed from a later start.
Misleading(literal, prefix) ==
  /\ \E k \in DOMAIN prefix : rigid(prefix[k])
  /\ can_occur_in_prefix(literal, UNION {prefix_bytes(prefix[k]) : k \in DOMAIN prefix})

Extracted(root, body, st) ==
  IF \/ \E k \in DOMAIN body : is_top_wb_anchor(body[k])
     \/ st.declined
     \/ ~sound_lead(root, body, st.best.top)
     \/ st.optional /\ st.best.score < optional_literal_min_score
     \/ Misleading(st.best.bytes, SubSeq(body, 1, st.best.top))
    THEN NoLiteral ELSE st.best

extract_inner_literal(root) == Extracted(root, Body(root), Walked(Body(root)))

\* build_prefix_ast
PrefixOf(root, literal) == Concat(SubSeq(Body(root), 1, literal.top))

-----------------------------------------------------------------------------
(* The shapes: read off the code, from its counters on.                    *)

None == <<>>

Past(ops, code, pc) == Min({q \in pc .. Len(code) : code[q].op \notin ops})
PastSaves(code, pc) == Past({"save"}, code, pc)

\* A class and the split back to it; next is the counter behind.
ClassLoop(code, pc) ==
  LET split == pc + (IF code[pc].op = "klass_cp" THEN 4 ELSE 1) IN
  IF /\ code[pc].op \in {"klass", "klass_cp"}
     /\ code[split].op = "split" /\ code[split].primary = pc /\ code[split].secondary = split + 1
    THEN [class |-> code[pc].class, cp |-> code[pc].op = "klass_cp", next |-> split + 1]
    ELSE None

inner_literal_starts_at(code, pc, literal) ==
  /\ pc + Len(literal) <= Len(code)
  /\ \A k \in DOMAIN literal : code[pc + k - 1].op = "byte" /\ code[pc + k - 1].class = {literal[k]}

\* il_rev_class: a class loop, then the literal.
RevClass(code, literal) ==
  LET loop == ClassLoop(code, PastSaves(code, 1))
  IN IF literal.top = 1 /\ loop # None
          /\ inner_literal_starts_at(code, PastSaves(code, loop.next), literal.bytes)
       THEN loop ELSE None

class_bytes(loop) == IF loop.cp THEN (loop.class \cap Ascii) \cup (Bytes \ Ascii) ELSE loop.class

tail_covers(rev, fwd, literal) ==
  class_bytes(rev) \cup Range(literal.bytes) \subseteq class_bytes(fwd)

\* il_fwd_class: then a second loop and nothing more, where the greedy answer takes the
\* first run to its end or the second covers it all.
TwoRuns(code, rev, literal, at) ==
  LET behind == Past({"byte"}, code, at)
      fwd == ClassLoop(code, PastSaves(code, behind))
  IN IF /\ fwd # None
        /\ behind - at = Len(literal.bytes)
        /\ code[PastSaves(code, fwd.next)].op = "match"
        /\ ~can_occur_in_prefix(literal.bytes, class_bytes(rev)) \/ tail_covers(rev, fwd, literal)
       THEN fwd ELSE None

FwdClass(code, rev, literal) ==
  IF rev = None THEN None ELSE TwoRuns(code, rev, literal, PastSaves(code, rev.next))

\* il_cp_prefix_cps: the code points before the literal of a sequence without a choice.
CpShape(code, literal) ==
  LET shown == {pc \in DOMAIN code : ~Bytewise!Absorbed(code, pc)}
      first == Min({pc \in shown : code[pc].op = "byte"} \cup {Len(code)})
      before == {pc \in shown : pc < first /\ code[pc].op \in {"klass", "klass_cp"}}
  IN IF /\ literal.top >= 1
        /\ \A pc \in shown : code[pc].op \in {"save", "klass", "klass_cp", "byte", "match"}
        /\ inner_literal_starts_at(code, first, literal.bytes)
       THEN Cardinality(before) ELSE 0

\* Bytes and byte classes in a row, groups side by side, a boundary at either end.
fixed_shape(code) ==
  LET plain == SelectSeq(code, LAMBDA in : in.op # "save")
      inner == SelectSeq(code, LAMBDA in : in.op = "save" /\ in.slot >= 2)
  IN /\ \A k \in DOMAIN plain :
          \/ plain[k].op \in {"byte", "klass", "match"}
          \/ plain[k].op = "assert_position" /\ plain[k].kind \in {"word_boundary", "not_word_boundary"}
               /\ k \in {1, Len(plain) - 1}
     /\ \A k \in DOMAIN inner : inner[k].slot % 2 = (k + 1) % 2

\* What byte automata run: no assertion, no lookaround, no possessive loop.
eligible(code) ==
  \A pc \in DOMAIN code :
    code[pc].op \notin {"assert_position", "assert_lookaround"} \cup Possessive

\* The hints of a pattern and its prefix's byte program.
HintsWith(program, literal, prefix_code, rev) ==
  [literal |-> literal.bytes, inner |-> Inner(literal) /\ ~fixed_shape(program.code),
   rev |-> rev, fwd |-> FwdClass(program.code, rev, literal),
   fwd_last |-> rev # None /\ can_occur_in_prefix(literal.bytes, class_bytes(rev)),
   cps |-> CpShape(program.code, literal),
   prefix |-> IF eligible(prefix_code) THEN Bytewise!build_byte_program(prefix_code) ELSE None,
   code |-> program.code, slot_count |-> program.slot_count, may_give_way |-> eligible(program.code)]

HintsFor(root, program, literal) ==
  HintsWith(program, literal, Code(PrefixOf(root, literal)), RevClass(program.code, literal))

inner_hints(root, program) == HintsFor(root, program, extract_inner_literal(root))

=============================================================================
