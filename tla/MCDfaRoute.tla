------------------------------ MODULE MCDfaRoute ------------------------------
(***************************************************************************)
(* The programs searched by the lazy DFAs' route, and the searches.        *)
(***************************************************************************)
EXTENDS DfaRoute, MCPatterns

\* A pattern's searches: in texts from starts, and those again that may not be empty up to
\* the next boundary.
AskedIn(texts, starts, modes) ==
  {s \in {[text |-> r.text, start |-> r.start, mode |-> m, sem |-> "first",
           forbid |-> IF again THEN NextBoundary(r.text, r.start) ELSE 0] :
            r \in {r \in [text : texts, start : starts] : r.start < Len(r.text)},
            m \in modes, again \in BOOLEAN} :
     s.mode = "search" \/ s.forbid = 0}

SearchesWith(pattern, compiled, asked) ==
  LET bytes == build_byte_program(compiled.code)
  IN [compiled EXCEPT !.code = bytes]
    @@ [pattern |-> pattern,
        table |-> onepass(bytes),
        searches |-> {s @@ [expected |-> Answer(pattern, compiled.slot_count, s),
                            portable |-> Portable(pattern)] : s \in asked}]

SearchesOf(pattern, texts, starts, grouped) ==
  LET modes == IF GroupCount(pattern) = 0 THEN {"search", "prefix"} ELSE grouped
  IN SearchesWith(pattern, Compile(pattern, GroupCount(pattern)), AskedIn(texts, starts, modes))

MCVM(p, s) == Answer(p.pattern, p.slot_count, s)

\* Loops and alternations where preference decides, on words of two letters.
Ordered ==
  {Concat(<<Alt(<<a, b>>), a, a>>), Plus(Alt(<<ab, a>>)), Star(Alt(<<ab, a>>)),
   Concat(<<Plus(Alt(<<a, b>>)), ab>>),
   Concat(<<Optional(a), Star(b), a>>), Concat(<<LazyStar(Alt(<<a, b>>)), b>>), Star(Group(1, a)),
   Alt(<<Concat(<<a, Star(b), Optional(Alt(<<ab, a>>))>>), ab>>),
   Concat(<<Group(1, Repeat(Alt(<<a, ab>>), 1, 2, "lazy")), Group(2, Star(b))>>),
   Star(Group(1, Alt(<<Empty, a>>))), Plus(Group(1, Alt(<<Optional(b), a>>)))}
Words == {<<"b", "a", "b", "b">>, <<"a", "b", "a", "a">>}

\* Lines and the ends of a text.
Positioned ==
  {Concat(<<AnchorAt("line_start"), Plus(a)>>), Concat(<<Star(AnyChar), AnchorAt("line_end")>>),
   Concat(<<AnchorAt("text_start"), Star(a), AnchorAt("text_end")>>),
   Concat(<<Optional(Group(1, b)), AnchorAt("text_end_or_final_newline")>>),
   Concat(<<Group(1, Star(Alt(<<a, b>>))), AnchorAt("line_end"), Optional(AnyChar)>>),
   Star(Alt(<<Concat(<<AnchorAt("line_end"), AnyChar>>), a>>)),
   Alt(<<AnchorAt("not_word_boundary"), Concat(<<a, AnchorAt("line_start")>>)>>)}
Lines == {<<"a", "b", Newline, "a">>, <<"b", "a", Newline>>}

\* Words, and code points of two bytes.
Worded ==
  {Concat(<<AnchorAt("word_boundary"), Plus(Word)>>),
   Concat(<<Plus(Shorthand({"a", "-", Accented})), AnchorAt("word_start"), Group(1, Star(Word))>>),
   Alt(<<AnchorAt("word_end"), Concat(<<Word, Word>>)>>),
   Concat(<<AnyChar, accent>>), Star(Alt(<<accent, a>>)), Plus(Group(1, Alt(<<accent, a>>)))}
Spoken == {<<"a", "-", "b", "a">>, <<"-", Lead, Cont, "a">>}

\* Groups: programs with a table, whose matches outrank their edges, or are outranked, or
\* both, and programs that have none for a byte with two edges, too many slots or
\* too many nodes.
Captured ==
  {Concat(<<Group(1, Star(a)), Group(2, Plus(b))>>),
   Concat(<<Group(1, a), Optional(Concat(<<b, Group(2, a), b>>))>>),
   Plus(Alt(<<Group(1, a), Group(2, b)>>)),
   Concat(<<Group(1, a), Repeat(Group(2, b), 0, -1, "lazy")>>),
   Concat(<<a, Alt(<<Group(1, b), Empty, Group(2, a)>>)>>),
   Concat(<<AnchorAt("word_boundary"), Group(1, Plus(a)), AnchorAt("not_word_boundary")>>),
   Concat(<<Optional(Group(1, AnchorAt("word_boundary"))), Plus(a)>>),
   Concat(<<Group(1, a), Optional(Concat(<<b, b, a, b>>))>>),
   Group(1, Group(2, Group(3, Group(4, Group(5, a)))))}

\* The second group is repeated no times: nothing of it is compiled.
MCNeverTaken ==
  {SearchesOf(Concat(<<Group(1, Plus(a)), b, Repeat(Group(2, a), 0, 0, "greedy")>>),
              Words, {0, 1}, {"search", "prefix", "full"})}

MCPrograms ==
  UNION {{SearchesOf(p, suite.texts, suite.starts, suite.grouped) : p \in suite.patterns} :
           suite \in
             {[patterns |-> Ordered, texts |-> Words, starts |-> {0, 1}, grouped |-> {"search"}],
              [patterns |-> Positioned, texts |-> Lines, starts |-> {0, 2}, grouped |-> {"search"}],
              [patterns |-> Worded, texts |-> Spoken, starts |-> {0, 1}, grouped |-> {"search"}],
              [patterns |-> Captured, texts |-> Words, starts |-> {0, 1},
               grouped |-> {"search", "prefix", "full"}]}}

=============================================================================
