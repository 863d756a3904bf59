------------------------------ MODULE MCMatchWalk ------------------------------
(***************************************************************************)
(* The patterns and subjects walked over, and what the reference matcher   *)
(* says their matches are.                                                 *)
(***************************************************************************)
EXTENDS MatchWalk, MCPatterns

\* The most bytes an inner literal keeps, and the bill for sweeping.
CONSTANTS inner_literal_max, per_candidate, per_read_byte, per_crossed, slack

Inner == INSTANCE InnerSweep

\* The lookarounds of a pattern, in the order of the code.
RECURSIVE Lookarounds(_)
Lookarounds(n) ==
  CASE n.kind \in {"concat", "alternation"} ->
         FlattenSeq([k \in DOMAIN n.children |-> Lookarounds(n.children[k])])
    [] n.kind \in {"repeat", "group"} -> Lookarounds(n.child)
    [] n.kind = "lookaround" -> <<n>>
    [] OTHER -> <<>>

SpanOf(answer) == IF answer.matched THEN Span(answer.slots[0], answer.slots[1]) ELSE None

\* The matches from the previous one on.  After an empty one, a non-empty match at its place
\* is next, and else the first one from the next character on.
RECURSIVE MatchesFrom(_, _, _)
MatchesFrom(find, t, previous) ==
  LET retry == IF previous.start = previous.end THEN find["prefix", previous.end, previous.end + 1]
                                                ELSE None
      from == IF previous.start = previous.end THEN NextBoundary(t, previous.end) ELSE previous.end
      next == IF retry # None THEN retry
              ELSE IF from > Len(t) THEN None ELSE find["search", from, 0]
  IN IF next = None THEN <<>> ELSE <<next>> \o MatchesFrom(find, t, next)

MatchesIn(find, t, first) == IF first = None THEN <<>> ELSE <<first>> \o MatchesFrom(find, t, first)

\* What may be asked of a text, and what answers it: a match at a place, and one that is not
\* empty; the first from there on, and from the next character on.
Questions(t) ==
  LET places == 0 .. Len(t)
  IN UNION {{<<"search", p, 0>>, <<"search", p, NextBoundary(t, p)>>,
             <<"prefix", p, 0>>, <<"prefix", p, p + 1>>} : p \in places}

Answers(pattern, slot_count, t, sem) ==
  [q \in Questions(t) |->
     Answer(pattern, slot_count,
            [text |-> t, start |-> q[2], mode |-> q[1], sem |-> sem, forbid |-> q[3]])]

HoldsAt(look, t, slot_count) ==
  {p \in 0 .. Len(t) : Outcomes(look, t, p, [k \in 0 .. slot_count - 1 |-> npos]) # <<>>}

\* A sweep from every place, where the iterator may sweep.
Sweeps(hints, t, sem, answers) ==
  IF ~hints.inner \/ sem # "first" THEN <<>>
  ELSE [p \in 0 .. Len(t) |->
          Inner!run_inner_literal(hints, t, p, [s \in 0 .. Len(t) |-> answers["prefix", s, 0]])]

WalkFound(program, lookarounds, asserts, t, start, sem, answers, find, sweep) ==
  [program |-> program, text |-> t, start |-> start, sem |-> sem, find |-> find, sweep |-> sweep,
   slots |-> [p \in 0 .. Len(t) |-> LET answer == answers["search", p, 0]
                                    IN IF answer.matched THEN answer.slots ELSE None],
   matches |-> MatchesIn(find, t, find["search", start, 0]),
   holds |-> [pc \in Range(asserts) |->
                HoldsAt(lookarounds[CHOOSE k \in DOMAIN asserts : asserts[k] = pc], t, program.slot_count)]]

WalkWith(program, lookarounds, asserts, hints, t, start, sem, answers) ==
  WalkFound(program, lookarounds, asserts, t, start, sem, answers,
            [q \in DOMAIN answers |-> SpanOf(answers[q])], Sweeps(hints, t, sem, answers))

WalkOf(pattern, program, t, start, sem) ==
  WalkWith(program, Lookarounds(pattern), SetToSortSeq(Asserts(program.code), <),
           Inner!inner_hints(pattern, program), t, start, sem,
           Answers(pattern, program.slot_count, t, sem))

Either == Klass(Letters)
Forward(n, lmax) == Look(n, lmax, FALSE, FALSE)
NotForward(n, lmax) == Look(n, lmax, FALSE, TRUE)
Behind(n, lmax) == Look(n, lmax, TRUE, FALSE)
NotBehind(n, lmax) == Look(n, lmax, TRUE, TRUE)

\* Lookbehinds of two lengths, side by side, with assertions in them; tables and atoms.
Looking ==
  {Alt(<<Concat(<<Plus(Either), Behind(Alt(<<ab, Concat(<<b, a>>)>>), 2), b>>), Either>>),
   Concat(<<Behind(Concat(<<a, Optional(b)>>), 2), NotBehind(Concat(<<b, Either>>), 2), Optional(b)>>),
   Concat(<<Behind(Concat(<<AnchorAt("word_boundary"), Word, Optional(a)>>), 5), Either>>),
   Concat(<<Forward(Concat(<<Star(Either), Byte("-")>>), -1), Optional(a)>>),
   Concat(<<NotForward(Concat(<<Plus(Alt(<<a, accent>>)), AnchorAt("word_end")>>), -1), AnyChar>>),
   Concat(<<Behind(Word, 4), NotForward(accent, 2), Star(a)>>)}
Watched == {<<"-", "a", "a", "b", "a">>, <<"b", "a", "b", "-">>, <<"a", Lead, Cont, "a">>, <<Cont, "a", "b">>}

\* A class and the lookahead that ends it.
Trailing ==
  {Concat(<<Plus(Either), Forward(ab, 2)>>), Concat(<<Plus(Either), NotForward(b, 1)>>),
   Concat(<<Plus(Word), Forward(Concat(<<Star(AnyChar), Byte("-")>>), -1)>>),
   Concat(<<Plus(Word), NotForward(Klass({Accented}), 2)>>),
   Concat(<<Plus(Word), Forward(Shorthand({"a", Accented}), 4)>>)}
Ended == {<<"a", "b", "a", "b">>, <<"a", Lead, Cont, "b", "-">>, <<"-", "b", Lead, Cont, Lead, Cont>>}

\* Without lookarounds: matches that may be empty, and matches to batch.
Plain ==
  {Star(a), Optional(ab), Alt(<<Empty, a>>), LazyStar(Group(1, a)), AnchorAt("word_boundary"),
   Plus(a), Alt(<<ab, b>>), Concat(<<Star(a), b>>), Concat(<<AnchorAt("text_start"), Star(a)>>)}
Strung == {<<"a", "b", "b", "a", "b", "a">>, <<"b", "a", "a", "a">>, <<Lead, Cont, "a", "-">>, <<>>}

Longest == {Alt(<<a, ab>>), Alt(<<Empty, Plus(a)>>)}

\* An inner literal: between classes, with groups; behind a code point; behind a boundary;
\* behind what may be left out; and patterns whose literal would mislead a sweep.
Dash == Byte("-")
Wide == Klass({"a", Accented})
Inland ==
  {Concat(<<Group(1, Plus(Either)), Dash, Group(2, Plus(Either))>>),
   Concat(<<Group(1, Plus(Word)), b, Group(2, Plus(Word))>>),
   Concat(<<Group(1, Plus(Wide)), b, Group(2, Plus(Klass({"a", "b", "-"})))>>),
   Concat(<<Group(1, Word), Dash, Wide>>),
   Concat(<<Either, Star(b), Dash, Optional(a)>>),
   Concat(<<AnchorAt("word_boundary"), Plus(Word), Dash, Star(a)>>),
   Concat(<<Group(1, Plus(Either)), b, AnchorAt("word_boundary")>>),
   Concat(<<NonCapturing(Alt(<<Concat(<<Dash, a, b>>), a>>)), b, b>>),
   Concat(<<Either, Plus(Klass({"a", "-"})), Dash, Klass({"b"})>>),
   Concat(<<Repeat(Either, 1, -1, "possessive"), Dash, a>>),
   Concat(<<Plus(Word), Dash, Dash, a, Plus(Either)>>)}
Spread ==
  {<<"a", "b", "-", "a", "b">>, <<"b", "b", "a", "b", "a">>, <<"a", Lead, Cont, "b", "-", "a">>,
   <<"-", "a", "b", "b", "b">>, <<"a", "-", "-", "a", "-">>,
   <<"a", "a", "a", "a", "a", "-", "b">>, <<Cont, "b", "-", Cont, "a">>}

\* The walks over each text with each pattern from each start.
Suite(patterns, texts, starts, sem) ==
  [patterns |-> patterns, texts |-> texts, starts |-> starts, sem |-> sem]

MCSuites ==
  {Suite(Looking, Watched, {0, 1, 2}, "first"), Suite(Trailing, Ended, {0, 1, 2}, "first"),
   Suite(Inland, Spread, {0, 1, 2}, "first"),
   Suite(Plain, Strung, {0, 1, 2}, "first"), Suite(Longest, Strung, {0}, "longest")}

Made(suite) ==
  {WalkOf(p, Compile(p, GroupCount(p)), r.text, r.start, suite.sem) :
     p \in suite.patterns,
     r \in {r \in [text : suite.texts, start : suite.starts] : r.start <= Len(r.text)}}

MCWalks == UNION {Made(suite) : suite \in MCSuites}

\* A second run that covers the first one's bytes, but takes code points.
TwoRunWalks ==
  Made(Suite({Concat(<<Plus(Klass({"a", "b", Accented})), b, Plus(Shorthand(Letters))>>)},
             {<<"a", "b", "a", Lead, Cont, "b", "b">>}, {0}, "first"))

\* A literal at every other byte, each with a prefix that reads far back and has no start.
Dashes(n) == FlattenSeq([k \in 1 .. n |-> <<"b", "-">>])
LinearWalks ==
  Made(Suite({Concat(<<a, Plus(Klass({"b", "-"})), Dash, Klass({"a"})>>)},
             {FlattenSeq([k \in 1 .. n |-> <<Newline>>]) \o Dashes(8) : n \in 2 .. 4}, {0}, "first"))

=============================================================================
