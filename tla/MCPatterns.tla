------------------------------ MODULE MCPatterns ------------------------------
(***************************************************************************)
(* The patterns, subjects and searches the matchers are run on, and the    *)
(* answers that are right for them.                                        *)
(***************************************************************************)
EXTENDS Reference

a == Byte("a")
b == Byte("b")
ab == Concat(<<a, b>>)
Star(n) == Repeat(n, 0, -1, "greedy")
LazyStar(n) == Repeat(n, 0, -1, "lazy")
Plus(n) == Repeat(n, 1, -1, "greedy")
Optional(n) == Repeat(n, 0, 1, "greedy")

\* The parser's count of capturing groups.
RECURSIVE GroupCount(_)
GroupCount(n) ==
  CASE n.kind \in {"concat", "alternation"} ->
         FoldLeft(LAMBDA sum, child : sum + GroupCount(child), 0, n.children)
    [] n.kind \in {"repeat", "lookaround"} -> GroupCount(n.child)
    [] n.kind = "group" -> GroupCount(n.child) + (IF n.group > 0 THEN 1 ELSE 0)
    [] OTHER -> 0

\* Pieces of patterns, each with a group of its own number where it has one.
Units(g) ==
  << a, Optional(b), Star(a), LazyStar(Group(g, a)),
     Group(g, Alt(<<a, ab>>)),
     Star(Group(g, Alt(<<a, b>>))),
     Plus(Group(g, Alt(<<ab, a>>))),
     Repeat(Group(g, a), 1, 2, "lazy"),
     Repeat(Group(g, a), 0, -1, "possessive"),
     Star(Group(g, Star(a))),
     Star(Group(g, Alt(<<Empty, a>>))),
     Plus(Group(g, Alt(<<Optional(b), a>>))) >>

\* Two pieces in a row, and one or the other.
Pairs ==
  FlattenSeq([j \in DOMAIN Units(1) |->
    LET first == Units(1)[j]
        seconds == Units(1 + GroupCount(first))
    IN FlattenSeq([k \in DOMAIN seconds |->
         << Concat(<<first, seconds[k]>>), Alt(<<first, seconds[k]>>) >>])])

Word == Shorthand(WordCodePoints)
accent == Literal(Accented)

\* Assertions, code points, possessive loops and lookarounds.
Special ==
  << Concat(<<AnchorAt("text_start"), Star(a), AnchorAt("text_end")>>),
     Concat(<<AnchorAt("line_start"), Group(1, Star(AnyChar)), AnchorAt("line_end")>>),
     Concat(<<AnchorAt("word_boundary"), Plus(Word)>>),
     Concat(<<AnchorAt("word_start"), Group(1, Optional(Klass({"a", Accented})))>>),
     Alt(<<AnchorAt("word_end"), AnchorAt("not_word_boundary")>>),
     Concat(<<Optional(Literal("-")), AnchorAt("text_end_or_final_newline")>>),
     Concat(<<AnyChar, accent>>),
     Plus(Group(1, Alt(<<accent, a>>))),
     Concat(<<Optional(Literal("-")), Repeat(Group(1, Word), 0, -1, "possessive")>>),
     Concat(<<Repeat(Klass({"a", Accented}), 1, 2, "possessive"), Group(1, Star(Word))>>),
     Atomic(Plus(Group(1, AnyChar))),
     Alt(<<Concat(<<Repeat(a, 0, -1, "possessive"), b>>), Group(1, a)>>),
     Concat(<<Look(Concat(<<Word, b>>), 5, FALSE, FALSE), Group(1, Plus(Word))>>),
     Concat(<<Group(1, Plus(Word)), Look(Star(a), -1, FALSE, TRUE)>>),
     Concat(<<Look(Alt(<<a, accent>>), 2, TRUE, FALSE), Star(Group(1, Word))>>),
     Concat(<<Look(Concat(<<Optional(a), AnyChar>>), 5, TRUE, TRUE), Optional(Group(1, b))>>),
     Star(Group(1, Alt(<<AnchorAt("word_boundary"), a>>))),
     Look(Star(Alt(<<AnchorAt("word_boundary"), a>>)), -1, FALSE, FALSE) >>

\* The suites of searches to run; a definition below.
CONSTANT Suites

\* What the patterns of a suite are asked: each text from each start on; where a suite
\* repeats, also with a match that may not be empty up to the next boundary.
AskedOf(suite) ==
  {r @@ [mode |-> m, sem |-> l, counting |-> c,
         forbid |-> IF again THEN NextBoundary(r.text, r.start) ELSE 0] :
     r \in {r \in [text : suite.texts, start : suite.starts] : r.start <= Len(r.text)},
     m \in suite.modes, l \in suite.semantics, c \in suite.counting, again \in suite.repeats}

\* Each pattern compiled, and each question, with its suite.
Compiled ==
  UNION {{[suite |-> suite.name, pattern |-> p, program |-> Compile(p, GroupCount(p))] :
            p \in Range(suite.patterns)} : suite \in Suites}
Asked ==
  UNION {{[suite |-> suite.name, question |-> s] : s \in AskedOf(suite)} : suite \in Suites}

\* The searches of the suites. expected is the reference's answer.
MCSearches ==
  {LET c == pair[1]
       s == pair[2].question
   IN [program |-> c.program, portable |-> Portable(c.pattern),
       expected |-> Answer(c.pattern, c.program.slot_count, s)] @@ s :
     pair \in {pair \in Compiled \X Asked : pair[1].suite = pair[2].suite}}

\* The reference's answer; where a loop repeats what may be empty only whether and where a
\* match begins, and a search without captures has a span only.
MCRight(s, answer) ==
  LET span(r) == <<r.slots[0], r.slots[1]>>
  IN /\ answer.matched = s.expected.matched
     /\ answer.slots[0] = s.expected.slots[0]
     /\ s.portable => span(answer) = span(s.expected)
     /\ s.portable /\ ~s.counting => answer.slots = s.expected.slots

Letters3 == {<<>>, <<"a", "b">>, <<"a", "a", "b">>, <<"b", "a", "b">>}
Letters2 == {<<"b", "b">>, <<"a", "a", "b">>}

\* Words with a code point of two bytes, lines, and malformed text.
Subjects ==
  {<<>>, <<"a", "b">>, <<"-", "a">>, <<"a", Newline, "b">>, <<"-", Newline>>,
   <<Lead, Cont>>, <<"a", Lead, Cont, "b">>, <<Lead, Cont, "a", "a">>,
   <<Cont, "a">>, <<"a", Lead, "b">>}

\* The pairs of pieces: leftmost-first, leftmost-longest, and again past an empty match.
FirstPairs ==
  [name |-> "first", patterns |-> Pairs,
   texts |-> Letters3, starts |-> {0}, modes |-> {"search", "full"},
   semantics |-> {"first"}, counting |-> {FALSE}, repeats |-> {FALSE}]
LongestPairs ==
  [FirstPairs EXCEPT !.texts = Letters2, !.modes = {"search"}, !.semantics = {"longest"},
                     !.name = "longest", !.counting = {FALSE, TRUE}]
RepeatedPairs ==
  [FirstPairs EXCEPT !.texts = Letters2, !.modes = {"search"}, !.repeats = {TRUE},
                     !.name = "again"]

\* The special patterns in every mode, counted and not, from the start and from within.
SpecialOnes ==
  [name |-> "special", patterns |-> Special, texts |-> Subjects, starts |-> {0, 1},
   modes |-> {"search", "prefix", "full"}, semantics |-> {"first"},
   counting |-> {FALSE, TRUE}, repeats |-> {FALSE, TRUE}]

\* The end of a subject with more positions than a row of four values has.
FarPairs ==
  [FirstPairs EXCEPT !.name = "far", !.texts = {<<"-", "-", "-", "-", "a", "a", "b">>},
                     !.starts = {4}, !.modes = {"search"}]

EngineSuites == {FirstPairs, RepeatedPairs, LongestPairs, SpecialOnes}
FarSuites == {FarPairs}

=============================================================================
