------------------------------- MODULE MatchWalk -------------------------------
(***************************************************************************)
(* basic_match_iterator: the walk over a subject's matches, one search per *)
(* match or spans handed out of a batch that one of the fillers found      *)
(* ahead, and count_rest, which counts a batch without handing it out.     *)
(* The searches ask their lookarounds, whose scratch is the iterator's and *)
(* lives as long as the walk.                                              *)
(***************************************************************************)
EXTENDS LookWalks

CONSTANTS
  Walks,                \* the walks to make: program, text, start, sem, and by the
                        \* reference find (a search's span), slots, matches and holds;
                        \* sweep, by where it begins, if an inner literal is swept for
  batch_cap,            \* spans a batch holds
  lazy_dfa_min_input,   \* runway the lazy-DFA filler wants
  reads_per_byte        \* what a sweep may read, by the byte of the subject

VARIABLES
  walk,                 \* the walk made
  route,                \* how it searches: decided once
  counting,             \* the caller is count_rest
  pos, forbid_empty_until, done,
  batch,                \* the unread spans
  batch_eligible, batch_asks, batch_spent, batch_partial,
  il_abandoned,         \* the inner-literal route gave this subject up
  stage,                \* "walking" between searches, "searching" or "trying" within one
  frontier,             \* how far the search's lookaround queries are
  run,                  \* the trailing walk's class run, as far as its ends are still to try
  steps,                \* bytes the search's lookbehind walks stepped
  asked,                \* the last query and its answer
  yielded               \* the matches the caller has had

iterator == <<pos, forbid_empty_until, done, batch, batch_eligible, batch_asks, batch_spent,
              batch_partial, il_abandoned, yielded>>
scratch == <<behind, ahead, steps, asked>>
vars == <<walk, route, counting, iterator, stage, frontier, run, scratch>>

text == walk.text
code == walk.program.code
None == <<>>
Span(s, e) == [start |-> s, end |-> e]
NotAsked == [pc |-> 0]

\* A search's answer from p, with no empty match before forbid.
FindAt(w, p, forbid) == w.find["search", p, forbid]

-----------------------------------------------------------------------------
(* Which searches and fillers a walk may have.                             *)

TrailingSplit(c) == IF Len(c) > 1 /\ c[2].op = "klass_cp" THEN 6 ELSE 3

\* A greedy class+ with a lookahead for an end and nothing else.
trailing_lookaround(c) ==
  LET split == TrailingSplit(c)
  IN /\ Len(c) >= split + 5
     /\ c[2].op \in {"klass", "klass_cp"}
     /\ c[split].op = "split" /\ c[split].primary = 2 /\ c[split].secondary = split + 1
     /\ c[split + 1].op = "assert_lookaround"
     /\ ~c[split + 1].sub.behind
     /\ c[split + 2].primary + 1 = Len(c)

TrailingAssert(c) == TrailingSplit(c) + 1

\* decide_batching: the batched routes want leftmost-first and no anchor, the ones modelled
\* here no lookaround and no empty match either.  Which of them recognizes the shape is open.
decide_batching(w, counted) ==
  LET h == w.program.hints
      batchable == /\ w.sem = "first" /\ ~h.anchored_start /\ ~h.line_anchored
                   /\ Asserts(w.program.code) = {} /\ ~EmptyMatchPossible(w.program.code)
  IN IF trailing_lookaround(w.program.code) THEN {"trailing"}
     ELSE {"run"}
       \cup (IF batchable THEN {"scan", "alternation", "wide"} ELSE {})
       \cup (IF w.sweep # <<>> THEN {"inner_literal"} ELSE {})
       \cup (IF /\ batchable /\ h.first_bytes_valid /\ Len(w.text) >= lazy_dfa_min_input
                /\ w.program.slot_count = 2 \/ h.capture_free_walk \/ counted
               THEN {"lazy_dfa"} ELSE {})

Batched == {"scan", "alternation", "wide", "inner_literal", "lazy_dfa"}

\* The sweep's filler has room for a span only.
Armed(r, w) == r \in Batched /\ (r = "inner_literal" => w.program.slot_count = 2)

Init ==
  /\ walk \in Walks
  /\ counting \in BOOLEAN
  /\ route \in decide_batching(walk, counting)
  /\ pos = walk.start /\ forbid_empty_until = 0 /\ done = FALSE
  /\ batch = <<>> /\ batch_eligible = Armed(route, walk) /\ batch_asks = (route = "alternation")
  /\ batch_spent = FALSE /\ batch_partial = FALSE /\ il_abandoned = FALSE
  /\ stage = "walking" /\ frontier = 0 /\ run = None
  /\ ScratchInit(code)
  /\ steps = 0 /\ asked = NotAsked
  /\ yielded = <<>>

-----------------------------------------------------------------------------
(* The fillers: what each may leave in the batch.                          *)

\* The first n spans from p on, fewer if there are no more, each the next after the one before.
Chain(p, next) ==
  LET spans[n \in 0 .. batch_cap] ==
        IF n = 0 THEN <<>>
        ELSE LET before == spans[n - 1]
                 span == next[IF before = <<>> THEN p ELSE Last(before).end]
             IN IF Len(before) < n - 1 \/ span = None THEN before ELSE Append(before, span)
  IN spans

Ahead(p) == Chain(p, [from \in 0 .. Len(text) |-> FindAt(walk, from, 0)])

SweptTo(from) ==
  LET swept == walk.sweep[from]
  IN IF swept.outcome = "matched" THEN Span(swept.slots[0], swept.slots[1]) ELSE None
Swept(p) == Chain(p, [from \in 0 .. Len(text) |-> SweptTo(from)])

\* What a fill leaves: the spans, whether it stopped with matches possibly ahead, whether the
\* walk may fill again, and whether the inner-literal route gave up.
Filled(spans, partial) ==
  [spans |-> spans, partial |-> partial, eligible |-> TRUE, abandoned |-> il_abandoned]

\* The route declined the subject: it is left to run from here on.
Disarm == [Filled(<<>>, TRUE) EXCEPT !.eligible = FALSE]

\* The fillers that scan the whole subject.
Scanned == Filled(Ahead(pos)[batch_cap], FALSE)

\* Those that may stop after any number of spans, and else prove that no more are left.  They
\* look on from the positions they reach.
Stopped(reached) ==
  LET end(n) == IF n = 0 THEN pos ELSE Last(Ahead(pos)[n]).end
      found == {n \in 0 .. batch_cap :
                  Len(Ahead(pos)[n]) = n /\ \A k \in 0 .. n - 1 : end(k) \in reached}
      exhausted == {n \in found : n < batch_cap /\ end(n) \in reached /\ Len(Ahead(pos)[n + 1]) = n}
  IN {Filled(Ahead(pos)[n], TRUE) : n \in found} \cup {Filled(Ahead(pos)[n], FALSE) : n \in exhausted}

Spent_short(fill) == Len(fill.spans) < batch_cap

\* The fill stopped short of the buffer at the end of the subject.
Spent(fill) == ~fill.partial /\ Len(fill.spans) < batch_cap

Runway == {p \in 0 .. Len(text) : Len(text) - p >= lazy_dfa_min_input}

\* The sweeps' matches until the batch is full, no occurrence is left, or a sweep gives the
\* subject up; the guards at a sweep's first candidate leave it to run for now.
SweepFills(spans, sweep) ==
  {Filled(spans, FALSE) : x \in {sweep.outcome} \cap {"spent"}}
    \cup {[Filled(spans, TRUE) EXCEPT !.abandoned = TRUE] : x \in {sweep.outcome} \cap {"given_up"}}
    \cup {Filled(spans, TRUE) : x \in {sweep.tried} \cap {TRUE}}

fill_inner_literal_spans ==
  LET end(spans) == IF spans = <<>> THEN pos ELSE Last(spans).end
      found == {spans \in {Swept(pos)[n] : n \in 0 .. batch_cap} : TRUE}
  IN IF il_abandoned THEN {Disarm}
     ELSE UNION {IF Len(spans) = batch_cap THEN {Filled(spans, TRUE)}
                 ELSE SweepFills(spans, walk.sweep[end(spans)]) : spans \in found}

Fills ==
  CASE route = "scan" -> {Scanned}
    [] route = "alternation" -> {Scanned} \cup (IF batch_asks THEN {Disarm} ELSE {})
    [] route = "wide" -> {Scanned, Disarm}
    [] route = "lazy_dfa" -> Stopped(Runway)
    [] route = "inner_literal" -> fill_inner_literal_spans

\* refill_batch: a batch known to be the last is not followed by another.
refill_batch == IF batch_spent THEN {Filled(<<>>, batch_partial)} ELSE Fills

-----------------------------------------------------------------------------
(* advance.                                                                *)

HandOut_far(span) ==
  /\ yielded' = Append(yielded, span)
  /\ pos' = span.end
  /\ forbid_empty_until' = IF span.start = span.end THEN span.end + 4 ELSE 0

HandOut_repeatable(span) ==
  /\ yielded' = Append(yielded, span)
  /\ pos' = span.end
  /\ forbid_empty_until' = 0

\* The match becomes the current one, and the walk goes on from its end; after an empty one
\* the next may not be empty before the next character boundary.
HandOut(span) ==
  /\ yielded' = Append(yielded, span)
  /\ pos' = span.end
  /\ forbid_empty_until' = IF span.start = span.end THEN NextBoundary(text, span.end) ELSE 0

Stay == UNCHANGED <<yielded, pos, forbid_empty_until>>

BeginSearch ==
  /\ stage' = IF route = "trailing" THEN "trying" ELSE "searching"
  /\ frontier' = pos
  /\ steps' = 0 /\ asked' = NotAsked
  /\ UNCHANGED <<done, run, behind, ahead>>

NoSearch == UNCHANGED <<stage, frontier, run, scratch>>

Chosen == UNCHANGED <<walk, route, counting>>

Idle == stage = "walking" /\ ~done

\* A span of the batch; one call of advance each, for a caller that iterates.
HandBuffered ==
  /\ Idle /\ batch_eligible /\ batch # <<>> /\ ~counting
  /\ HandOut(Head(batch))
  /\ batch' = Tail(batch)
  /\ UNCHANGED <<done, batch_eligible, batch_asks, batch_spent, batch_partial, il_abandoned>>
  /\ NoSearch /\ Chosen

\* count_rest: the batch is counted, and the walk is where handing it out would leave it.
CountBuffered ==
  /\ Idle /\ batch # <<>> /\ counting
  /\ yielded' = yielded \o batch
  /\ pos' = Last(batch).end
  /\ batch' = <<>>
  /\ UNCHANGED <<forbid_empty_until, done, batch_eligible, batch_asks, batch_spent,
                 batch_partial, il_abandoned>>
  /\ NoSearch /\ Chosen

\* The batch is drained: fill it and hand out its first span.  With none the walk is over, or
\* where the filler proved nothing, this match is searched for.
Refill ==
  /\ Idle /\ batch_eligible /\ batch = <<>>
  /\ \E fill \in refill_batch :
       /\ batch_eligible' = fill.eligible
       /\ batch_partial' = fill.partial
       /\ batch_spent' = (batch_spent \/ Spent(fill))
       /\ il_abandoned' = fill.abandoned
       /\ batch_asks' = FALSE
       /\ IF fill.spans # <<>>
            THEN HandOut(Head(fill.spans)) /\ batch' = Tail(fill.spans) /\ done' = done /\ NoSearch
          ELSE /\ batch' = <<>>
               /\ Stay
               /\ IF fill.partial THEN BeginSearch ELSE done' = TRUE /\ NoSearch
  /\ Chosen

\* No batch: one search.
Search ==
  /\ Idle /\ ~batch_eligible
  /\ BeginSearch
  /\ Stay
  /\ UNCHANGED <<batch, batch_eligible, batch_asks, batch_spent, batch_partial, il_abandoned>>
  /\ Chosen

-----------------------------------------------------------------------------
(* Within a search.                                                        *)

Query(pc, p) ==
  /\ Ask(code, text, pc, p)
  /\ asked' = [pc |-> pc, pos |-> p, holds |-> Told(code, text, pc, p, behind', ahead')]
  /\ steps' = steps + IF pc \in Lookbehinds(code) /\ ~single_atom_body(code, code[pc].sub)
                        THEN WalkSteps(code[pc].sub, behind[pc], p) ELSE 0

UnchangedBatch == UNCHANGED <<batch, batch_eligible, batch_asks, batch_spent, batch_partial>>

\* The engine asks at positions that never go back, each lookaround once at each.
AskLookaround ==
  /\ stage = "searching"
  /\ \E p \in frontier .. Len(text), pc \in Asserts(code) :
       /\ asked # NotAsked /\ asked.pos = p => pc > asked.pc
       /\ Query(pc, p)
       /\ frontier' = p
  /\ Stay /\ UnchangedBatch /\ Chosen
  /\ UNCHANGED <<done, il_abandoned, stage, run>>

\* The sweep is asked first, while it has not given the subject up.
Sweeping == route = "inner_literal" /\ ~il_abandoned

Conclude(found) ==
  /\ IF found = None THEN done' = TRUE /\ Stay ELSE HandOut(found) /\ done' = done
  /\ stage' = "walking"
  /\ UnchangedBatch /\ Chosen
  /\ UNCHANGED <<frontier, run, scratch>>

\* run's answer.  The sweep has left the search to the core at a candidate, the bill, the
\* guards or the density gate having decided so; but for the guards it is for good.
Answered ==
  /\ stage = "searching"
  /\ Sweeping => walk.sweep[pos].tried
  /\ Conclude(FindAt(walk, pos, forbid_empty_until))
  /\ il_abandoned' \in {il_abandoned, route = "inner_literal"}

AnsweredBySweep ==
  /\ stage = "searching"
  /\ Sweeping /\ walk.sweep[pos].outcome \in {"matched", "spent"}
  /\ Conclude(SweptTo(pos))
  /\ UNCHANGED il_abandoned

\* trailing_la_walk, one maximal run of the class after another.  The bytes of the class
\* member at p, none if zero.
Width(c, t, p) ==
  IF c[2].op = "klass" THEN IF HasByte(t, p, c[2].class) THEN 1 ELSE 0
  ELSE Max({0} \cup {Len(Encode(x)) : x \in Decoded(t, p) \cap c[2].class})

\* Where a run may start from p on, and where one that does ends.
RunStarts(c, t, p) == {q \in p .. Len(t) : Width(c, t, q) > 0}

RunFrom(c, t, p) ==
  LET end[k \in 0 .. Len(t)] == IF k = 0 THEN p ELSE end[k - 1] + Width(c, t, end[k - 1])
  IN end

ScanEnd(c, t, p) == RunFrom(c, t, p)[Len(t)]

\* The candidate end before e.
PrevEnd(c, t, e) ==
  IF c[2].op = "klass" THEN e - 1 ELSE Max({p \in 0 .. e - 1 : ~HasByte(t, p, {Cont})})

ScanRun ==
  /\ stage = "trying" /\ run = None
  /\ LET starts == RunStarts(code, text, frontier)
     IN IF starts = {}
          THEN done' = TRUE /\ stage' = "walking" /\ UNCHANGED run
          ELSE /\ run' = Span(Min(starts), ScanEnd(code, text, Min(starts)))
               /\ UNCHANGED <<done, stage>>
  /\ Stay /\ UnchangedBatch /\ Chosen
  /\ UNCHANGED <<il_abandoned, frontier, scratch>>

\* The ends of the run, from the farthest back: the first the lookahead holds at is the match's.
TryEnd ==
  /\ stage = "trying" /\ run # None
  /\ Query(TrailingAssert(code), run.end)
  /\ IF asked'.holds
       THEN HandOut(run) /\ stage' = "walking" /\ run' = None /\ UNCHANGED frontier
     ELSE /\ Stay /\ UNCHANGED stage
          /\ IF PrevEnd(code, text, run.end) > run.start
               THEN run' = [run EXCEPT !.end = PrevEnd(code, text, @)] /\ UNCHANGED frontier
               ELSE run' = None /\ frontier' = ScanEnd(code, text, run.start)
  /\ UnchangedBatch /\ Chosen
  /\ UNCHANGED <<done, il_abandoned>>

Step ==
  \/ HandBuffered \/ CountBuffered \/ Refill \/ Search
  \/ AskLookaround \/ Answered \/ AnsweredBySweep \/ ScanRun \/ TryEnd

\* The end: nothing more comes.
Over == done /\ UNCHANGED vars

Next == Step \/ Over

\* The caller asks for the next match until there is none.  A step is possible until then,
\* so this is WF_vars(Step), spelled without ENABLED.
Fairness == []<>done \/ []<><<Step>>_vars

Spec == Init /\ [][Next]_vars /\ Fairness

-----------------------------------------------------------------------------
(* What the walks and their answers are: the constants' assumptions.       *)

SpansIn(t) == {s \in [start : 0 .. Len(t), end : 0 .. Len(t)] : s.start <= s.end}

\* Programs that match no empty text.
NeverEmpty(w) ==
  \/ w.sweep # <<>>
  \/ ~EmptyMatchPossible(w.program.code)
  \/ trailing_lookaround(w.program.code)

Findable(w, s) == s = None \/ (s \in SpansIn(w.text) /\ (NeverEmpty(w) => s.start < s.end))

ASSUME CapAssumption == batch_cap \in Nat \ {0}

\* What is asked from a place is answered by a span of the subject or by none.
ASSUME WalksAssumption ==
  \A w \in Walks :
    LET places == 0 .. Len(w.text)
    IN /\ w.text \in Seq(Bytes) /\ w.start \in places
       /\ Len(w.program.code) \in Nat /\ DOMAIN w.program.code = 1 .. Len(w.program.code)
       /\ \A p \in places : \A f \in {0, NextBoundary(w.text, p)} : Findable(w, FindAt(w, p, f))

\* The subject's matches are the searches' answers, one from the end of another: after an empty
\* one no empty one is looked for before the next character.
PosAfter(w, n) == IF n = 0 THEN w.start ELSE w.matches[n].end
ForbidAfter(w, n) ==
  IF n > 0 /\ w.matches[n].start = w.matches[n].end THEN NextBoundary(w.text, w.matches[n].end) ELSE 0

ASSUME MatchesAssumption ==
  \A w \in Walks :
    /\ w.matches \in Seq(SpansIn(w.text))
    /\ \A n \in 0 .. Len(w.matches) :
         FindAt(w, PosAfter(w, n), ForbidAfter(w, n)) =
           IF n < Len(w.matches) THEN w.matches[n + 1] ELSE None

\* A search that has slots has them at the ends of its span; so has a sweep that matched.
ASSUME SweepsAssumption ==
  \A w \in Walks : w.sweep # <<>> =>
    \A p \in 0 .. Len(w.text) :
      LET swept == w.sweep[p]
      IN /\ FindAt(w, p, 0) =
              IF w.slots[p] = None THEN None ELSE Span(w.slots[p][0], w.slots[p][1])
         /\ swept.outcome = "matched" =>
              swept.slots # None /\ Findable(w, Span(swept.slots[0], swept.slots[1]))
         /\ swept.tried \in BOOLEAN

\* Where a run of the class from s on has been.
Stops(c, t, s) == {RunFrom(c, t, s)[k] : k \in 0 .. Len(t)}

\* A class run matches from the leftmost start there is to the farthest end at which the
\* lookahead holds.
Ends(w, s) ==
  LET c == w.program.code
  IN {e \in Stops(c, w.text, s) : s < e /\ e \in w.holds[TrailingAssert(c)]}

ASSUME TrailingAssumption ==
  \A w \in Walks : trailing_lookaround(w.program.code) =>
    \A p \in 0 .. Len(w.text) :
      LET starts == {s \in p .. Len(w.text) : Ends(w, s) # {}}
      IN FindAt(w, p, 0) =
           IF starts = {} THEN None ELSE Span(Min(starts), Max(Ends(w, Min(starts))))

\* A lookaround is answered right when nothing was asked before, and no match of a
\* lookbehind's body is longer than its bound.
ASSUME LooksAssumption ==
  \A w \in Walks :
    LET c == w.program.code
    IN \A pc \in Asserts(c), p \in 0 .. Len(w.text) :
         /\ p \in w.holds[pc] <=> FirstTold(c, w.text, pc, p)
         /\ pc \in Lookbehinds(c) =>
              /\ c[pc].sub.l_max \in Nat
              /\ \A s \in 0 .. p - c[pc].sub.l_max - 1 : ~Lone(c, w.text, c[pc].sub, s, p).holds

-----------------------------------------------------------------------------
TypeOK ==
  /\ route \in Batched \cup {"run", "trailing"}
  /\ pos \in 0 .. Len(text)
  /\ forbid_empty_until \in 0 .. Len(text) + 1
  /\ {done, counting, batch_eligible, batch_asks, batch_spent, batch_partial, il_abandoned} \subseteq BOOLEAN
  /\ Len(batch) < batch_cap
  /\ stage \in {"walking", "searching", "trying"}
  /\ frontier \in 0 .. Len(text)
  /\ DOMAIN behind = Lookbehinds(code) /\ DOMAIN ahead = Unbounded(code)

\* Every answer given is the lookaround's own, whatever the queries before it left in the
\* scratch: a search that starts behind the walk, one that leaps past it, ends tried backward.
AnswersHold ==
  asked # NotAsked => (asked.holds <=> asked.pos \in walk.holds[asked.pc])

\* What is buffered continues what was handed out, and once the walk takes it that no batch
\* will follow, nothing else was left: no partial fill is taken for the end.
BatchContinues ==
  /\ IsPrefix(yielded \o batch, walk.matches)
  /\ batch_spent => yielded \o batch = walk.matches

\* A sweep's answer is the search's, its groups included: the leftmost match, though it is
\* looked for from an occurrence inside it, and none only if there is none.
SweepAnswers ==
  route = "inner_literal" =>
    \A p \in 0 .. Len(text) :
      LET swept == walk.sweep[p]
      IN /\ swept.outcome = "matched" => swept.slots = walk.slots[p]
         /\ swept.outcome = "spent" => walk.slots[p] = None

\* A sweep's candidates read the subject a bounded number of times over.
LinearWork ==
  route = "inner_literal" /\ ~done => walk.sweep[pos].read <= reads_per_byte * Len(text)

\* A search steps a lookbehind over each byte at most once, however large its bound.
ReadsEachByteOnce == steps <= Len(text) * Cardinality(Lookbehinds(code))

\* Every match is handed out, or counted, once, and then the walk ends.
FI == INSTANCE FindIter WITH matches <- walk.matches, over <- done
HandsOutEveryMatch == FI!Spec

=============================================================================
