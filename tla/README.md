# A verification development of REAL

REAL is a header-only C++20 regular-expression engine with a linear-time
guarantee. This directory holds TLA+ modules translated from its source, TLC
configurations that check them, and proofs that TLAPS checks. Paths below are
relative to `src/include/real/` unless they start with `src/`.

Contents: [the system](#the-system), [hard behaviours](#hard-behaviours),
[modules](#modules), [runs and bounds](#runs-and-bounds),
[fairness](#fairness), [proofs](#proofs), [disagreements](#disagreements-found),
[not modelled](#not-modelled), [plan](#plan).

## The system

A pattern is parsed to a tree (`frontend/ast.hpp`), compiled to a Thompson NFA
(`frontend/compiler.hpp`), analysed for hints (`engine/prefilter.hpp`), and
searched by one `pike_vm` per call (`engine/pike.hpp`). `pike_vm::run` tries
specialised routes in order (among them the inner literal's sweep), then the lazy
DFAs and the one-pass table, then `run_general`: a bounded backtracker for short subjects and the Pike VM for the
rest. A regex is immutable once built and may be searched by many threads; what
searches build on demand is kept in its `regex_immutables` and in a process-wide
map of lazy DFAs.

| Component | State | Operations | Interacts through | Correct when |
|---|---|---|---|---|
| Per-regex cache (`automata/onepass.hpp`, `engine/pike.hpp` 1850-2550) | identity keys, products, row flags, two counters | ensure_immutables, ensure_op_table, ac_ready, alternation_pairs_ready, ensure_membership_rows, fill_row, assignment | acquire loads, a striped mutex | a search reads whole products of its own program |
| Shared DFAs and leases (`automata/onepass.hpp` 1110-1530) | address map, slots, pools, generations, thread-local cache and last hit | lease, give back, resolve, reset, erase, drop, thread exit | three levels of mutex, thread-locals, reused addresses | a walk's DFAs are its program's and nobody else's |
| Compiler | the program emitted so far | one emitter per node kind | the program | the program means what the tree does |
| Program and hints | instructions, hints | analysis | read by every engine | a hint never hides a start |
| Pike VM | two thread lists, closure stack, capture pool | seed, closure, step, release | the program, the subject | leftmost match of preference, balanced capture blocks |
| Bounded backtracker | marks, job stack, slots | starts, branches, restores | the same | the VM's answer |
| Lookarounds | a walk per lookbehind, a table per unbounded lookahead, kept by the search's owner across calls | holds at a position | called from the closure, from the iterator's trailing walk | answers do not depend on what was asked before; a byte is stepped once per sweep |
| Lazy DFAs (`automata/lazy_dfa.hpp`) | two caches of states, memoised edges, resolutions and cuts, epoch, window and thrash counters | resolve, step, cut, intern, flush, quit | leased by a search, one after another | the VM's span, or a quit |
| DFA route (`engine/pike.hpp` 1026-1060, 2016-2260) | candidate, bill, stage | anchored walks, one pass and a walk back, the VM's parts | the DFAs, the VM | the VM's answer, always an answer |
| Inner-literal route (`frontend/inner_literal.hpp`, `engine/pike.hpp` 1334-1602) | hints, next candidate, earliest start, bill | extract, sweep, reverse, confirm, give up | the compiler, the program, the iterator | the search's match and groups, in linear work |
| One-pass table (`automata/onepass.hpp` 40-900) | nodes, edges with slots and assertions | build, extract, extract_leftmost | the DFA route's windows, anchored and full matches, the sweep | the VM's groups; no table where a byte has two ways |
| Some forty fast paths | read-only tables | one search each | `pike_vm::run` | the VM's answer |
| Regex handle, iterators (`real.hpp`) | position, forbidden-empty bound, a batch of spans, whether it is the last | advance, refill_batch, count_rest | every route, one scratch per walk | no match lost or repeated |
| Tokenizer DFA (`dfa.hpp`), regex set (`regex_set.hpp`) | eager automata, a deferred build | scan | the handles | the members' answers |
| `std::regex` and RE2 layers (`compat/`) | translated handles, a lazily built fallback | match, search, replace, iterate | the handles | the standard's answers where both are defined |
| Bindings (`src/bindings/`) | handles, iterators, finalizers | open, search, close | the C interface | no use of a closed handle |

## Hard behaviours

`PROJECT.json` lists each hazard at its line with the properties that cover it.
The groups:

* Interleaving and stale keys. Five products are built by double-checked
  locking and keyed by `code.data()`, an address that an assignment may reuse
  for another program. Membership rows are published flag by flag. DFA sets
  are keyed by a regex's address, which a new regex may get; threads keep sets
  and slots across all of it.
* Nesting. A callback may search, assign, construct or destroy inside a scan.
* Allocation failure in the middle of a lease.
* Ordering. The VM's answer is decided by the order of threads in a list,
  which the order of the closure walk decides, across seeds, possessive loops
  and loops whose body may be empty.
* Reference counts. Every path that drops a thread gives its capture block
  back; the assertion that says so is compiled out of release builds.
* Many engines, one answer. A subject's length, its bytes and what earlier
  searches left decide which runs: the VM, the backtracker, the lazy DFAs, the
  inner literal's sweep, or a batch filled ahead by one of them and continued
  by another.
* State kept between searches: the DFAs' caches, whose ids a flush makes stale
  in the middle of a step; a sticky thrash flag; the lookarounds' scratch.
* Giving up in the middle: a walk that quits, a sweep that abandons its
  subject, a batch that is partial or wrongly taken for the last.
* Linear work: the bills that make the candidate routes give way.
* Boundaries: the 64th row flag, the 32-bit job row, the inline job array,
  continuation bytes, malformed text, the forbidden empty match, the newline
  that ends the text, word boundaries next to non-ASCII bytes, class runs
  compared by bytes.

## Modules

`Immutables` models the per-regex cache. An action is one atomic access or one
critical-section step of a thread: `Load` (acquire), `LockStripe`, `Recheck`,
the builders' steps, the publishing store, `UnlockStripe`. The warm-up state is
read and written the same way: the load of `op_table_for` (`AnchoredMatch`) and the
`fetch_add` of `prefix_calls` (`CountAnchored`), the load of `built_for`
(`InnerLiteralScan`) and the `fetch_add` of `il_short_bytes` (`CountShort`), the load
of `il_warmed` (`FloorDecision`) and its store (`Warm`, or `Abandon` on the way out).
Another thread may act between any two of them. A program has a
version (which the properties compare) and a buffer (which the code compares);
an assignment moves the version and may reuse the buffer. A product holds the
version it was built from, or `Torn` while it is being written.

`BuildOnce` is what the cache promises: a product is built once per program,
after what it rests on, and consulted only while built. `BuildsOnce` states
that `Immutables` implements it.

`SharedDfa` models slots, pools, generations and leases. A thread has a stack
of calls, so scans nest; construction and assignment happen between the steps
of others where the code allows it. `sets` is a function over the DFA sets in
being: one made extends its domain, one freed leaves it, so that a set that a
step loses, and one named after it was freed, both show. Sets carry the program
their DFAs were built from. Any allocation may fail when `AllocFails` is set.
The stripes are locks of the model, as a build holds its own over several steps. The
map's mutex and the pools' are not: each of their critical sections is one step, and
`slot_for`, `take`, `give`, `reset_shared_dfas` and `erase_shared_dfas` take no lock
inside one, so they close no cycle of waits.

The matching modules share one subject alphabet and one instruction set:

* `Text`: bytes, the two-byte code point, strict decoding, character
  boundaries, word assertions.
* `Program`: instructions, how a byte advances one, the loop-exit rule of a
  jump, the hints and the search for the next candidate.
* `Lookaround`: a lookaround's answer at a position, by a set simulation.
* `Compiler`: tree to program, emitter by emitter, text mode.
* `Reference`: what a tree means, as a preference-ordered backtracker that
  never looks at programs.
* `Matching`: the abstract promise. A search gets one answer and a right one.
* `GeneralSearch`: what `run_general` is called with, which calls go to its
  backtracker, and what both engines take for granted in a compiled program:
  control stays in the code, saved slots are in the block. It declares the call
  that both engines' variables are about.
* `PikeVM`: `run_general`'s loop. One stack entry of `add_thread` is one
  action, one thread of `step` is one action. Capture blocks, reference counts
  and the free list are the code's.
* `BoundedBacktrack`: `run_bounded_backtrack`. One instruction is one action.
  The mark bitmap starts with either value, as the uninitialized frame may.
  Where the VM has a variable of the same name, the backtracker's is `bt_...`.
* `Routes`: both engines on the same search.

The lazy DFAs:

* `ByteProgram`: the program over bytes (code-point classes become tries), the
  classes of bytes nothing tells apart, what a class says of the byte before or
  after, and which word boundaries a byte does not decide.
* `ForwardSets`: what the forward DFA's states are sets of. The ordered epsilon
  closure, entry by entry as `close_look` pops them; a step over a byte, the cut
  at an accept, the resolution of what waits.
* `BackwardSets`: the same of the backward one, over the transposed edges, where
  an assertion that looks left waits for its byte.
* `LazyDfa`: the forward DFA. An action is one resolution, one cut, one edge or
  the end of a scan; each may build a state, and building may flush or be
  refused. The cache is a sequence of states (counters in order of preference,
  and the context of what waits) and five tables of what has been asked.
* `ReverseDfa`: the backward one, whose cache is flushed but never refuses.
* `OnePass`: the table of a program, or why it has none: the paths out of a node
  in order of preference, the slots and assertions they cross, what their order
  says of a match and the edges beside it; and the two walks that fill groups.
* `DfaRoute`: a series of searches on one pair of DFAs, by
  `try_shared_lazy_dfa_search` and `try_anchored_prefix_dfa`: walks from
  candidates, their bill, the single pass, the walk back, the groups filled by
  the table or the VM, what is left to the VM; and the anchored and full matches
  that are the table's alone.

The iterator:

* `LookWalks`: a lookbehind's parked threads and where they stand, a lookahead's
  table, and the queries that move the first and fill the second.
* `InnerLiteral`: the literal taken from a tree, its score, the prefix's shape,
  and the hints the compiler derives from them.
* `InnerSweep`: `run_inner_literal`. Candidates in order, each with its start by
  a class run, by code points or by the reverse automaton (cut by an allowance),
  its confirmation by two runs or by the program, and its bill.
* `MatchWalk`: `basic_match_iterator`. Spans handed out of a batch, refills by
  six kinds of filler, per-match searches that ask their lookarounds in any
  order a forward engine may, the trailing-lookaround walk that asks them
  backward, the sweep's answers and its abandonment, and `count_rest`.
* `FindIter`: what the iterator promises: all matches, in order, each once, then
  the end. `HandsOutEveryMatch` states that `MatchWalk` implements it.

`MCPatterns` makes the patterns, the subjects and the searches, each with the
reference's answer. `MCImmutables`, `MCImmutablesLive`, `MCSharedDfa`,
`MCSharedScenarios`, `MCBacktrack`, `MCRoutes`, `MCDfaRoute` and `MCMatchWalk`
instantiate the specifications. `ImmutablesProofs`, `SharedDfaProofs`,
`BacktrackProofs`, `PikeVMProofs`, `PikeVMOrder`, `DfaRouteProofs` and
`MatchWalkProofs` hold the theorems, `EngineLemmas` what the proofs about the engines
share.
Definitions called mutants (`..._bare`, `...Unshared` and so on) are plausible
bugs, used to show that each property can fail.

Abstractions that matter when reading the matching modules:

* Bytes are model strings; a class is the set of code points it has once
  folded. Program counters start at 1.
* The next candidate is the sharpest hint's. The rare-byte, SIMD and density
  scans return a subset of the same positions, refiltered by `seed_viable`.
* A search's inputs include the position below which an empty match is
  refused, as the iterator sets it after an empty match.
* The reference takes an empty iteration as a loop's last. Where a loop
  repeats what may be empty the engines follow a rule of their own
  (`docs/divergences.dox`); there only whether and where a match begins is
  compared with the reference, and the engines are compared with each other
  in full.
* Each DFA cache holds a few states instead of thousands; the byte budget's
  flush is the state budget's. Its counts are of
  256 values, so that a difference below zero wraps as the code's does.
* The DFA route's groups, where the program has no one-pass table, are the VM's
  answer in the window the DFAs found; the run-shape walk, tried between the two,
  is abstracted to that answer. A node of the table is the counter it was made
  for: the merging of equivalent nodes changes no answer. A table is warm.
* The shape routes' fillers are the reference's spans, with every stop the code
  allows: a filler that may decline, stop part way or prove the end may do each
  wherever its guards allow. The sweep's fillers run the sweep.
* The sweep's density gate and its guards at a first candidate are a choice, at
  a search or a refill that met a candidate, to leave it to the core.

## Runs and bounds

| Run | Question | Bounds |
|---|---|---|
| `immutables` | Is every product read whole and current, across two assignments? Is the cache a `BuildOnce`? | 2 threads, 2 buffers, 3 programs with a DFA or without, warm-up after 1 call |
| `immutables_live` | Does every call get past its builds? | 2 threads, 2 buffers, 2 programs without a DFA |
| `shared_dfa_scenarios` | Is a walk's set current and owned once when addresses are assigned, destroyed and reused, scans nest, and any allocation may fail? | 2 threads on 1 address, depth 2; 2 threads on 2 addresses; 1 thread on 2 addresses, depth 2; 2 programs |
| `shared_dfa_live` | Is every queued search served? | 2 threads, 2 programs; 1 address, depth 2; 2 addresses of one stripe that are never destroyed, depth 1 |
| `shared_dfa_null` | Does a failed allocation leave null behind? (violated) | 2 threads, 2 addresses, 2 programs |
| `engines` | Do the VM and the backtracker answer as the reference does, and alike, with balanced and whole captures? Are the marks the backtracker keeps between starts safe to keep? | four suites, below; 3 inline jobs |
| `bt_far_end` | Is the first match reached the answer past 2^32 bytes? (violated) | a row has 4 values instead of 2^32 |
| `dfa_route` | Does the lazy DFAs' route answer as the VM would, whatever its caches hold, and always? | 33 patterns, caches of 4 states, 3 searches in a row, tables of 5 nodes |
| `short_groups` | Does every match have its pattern's groups? (violated) | 1 pattern, the same |
| `match_walk` | Are all matches handed out in order and once, whichever route finds them? Does the sweep find what the search does? Do the lookarounds answer for themselves, at a byte's cost a byte? | 33 patterns, batches of 2, literals of 2 bytes |
| `two_runs` | Does the sweep's two-run shortcut find the search's match where the second run takes code points? (violated) | 1 pattern, 1 subject |
| `linear_sweep` | Does a sweep read each byte a bounded number of times? (violated) | 1 pattern, 3 subjects |

The suites of `MCPatterns` for `engines`: every concatenation and alternation of
two pieces, searched and matched in full in four subjects (`FirstPairs`); the
same leftmost-longest, with and without captures, and with an empty match
refused, in two (`LongestPairs`, `RepeatedPairs`); patterns with assertions, code
points, possessive loops and lookarounds in ten subjects, some malformed, from
two starts, in three modes, with and without captures and with an empty match
refused (`SpecialOnes`).

Why these are enough. In the caches a hazard needs a writer, a reader and an
identity that comes back: two threads, two buffers (or one address) and two
programs give it, and a third program lets a stale object be older than the
one replaced. Two nested calls are the least that nest. In the matchers the
pairs are of a loop, a lazy loop, a counted or possessive loop, a nullable or
nested loop, or a group, so each meets each on both sides. Subjects of up to
three letters let loops iterate, stop, fail a start and begin later. Three
inline jobs make the stack spill. The real bounds (256 jobs, 8192 marks) are
only larger.

A cache of four states (of which the dead state and the start are two) flushes
within a scan of four bytes, in steps, cuts and resolutions alike, and three
searches let one find what two others left; the real budgets are only reached
later. `lazy_dfa_min_input` is 1 or 2 instead of 512, the bill's slack 16
instead of 64, the bytes a state must pay for 1 instead of 10 and a table's
nodes 5 instead of 65000, so that short subjects take the route and walks give
way to the pass. A walk over a subject of up to seven bytes with batches of two instead of
four spans drains and refills several times, stops part way, and is abandoned
with spans in hand. The sweep's bill (80 and 10 a candidate, 9 a byte crossed,
640 of slack) is 8, 10, 5 and 24, so that on such subjects a reverse is cut, a
bill is overspent and a rejected candidate is survived; in `linear_sweep` it is
8, 10, 9 and 10. Three reads a byte are what a sweep that respects its bill
needs on every subject of `match_walk`.

Deadlock is checked in `immutables`, `immutables_live`, `dfa_route` and
`match_walk` and their violated variants, where only a finished behaviour
stands still. The others turn it off: a search ends, and in `SharedDfa` a
bounded number of programs runs out.

## Fairness

`Immutables` and `SharedDfa` assume weak fairness of each thread's own steps:
an operating-system scheduler runs every thread. `std::mutex` promises no order,
so locking gets no strong fairness. The properties hold all the same because a
build happens once per program and then nobody queues. Starting a search,
assigning and destroying are the callers' choice and are never fair.
`PikeVM`, `BoundedBacktrack`, `DfaRoute` and `MatchWalk` are sequential code: weak fairness of the next
step says it runs until it returns, and `AnswersAsPromised`,
`SearchesAreAnswered` and `HandsOutEveryMatch` then include termination. In the
last two modules a step is possible until the end (the deadlock check says so),
so the weak fairness is spelled as "the end, or infinitely many steps". Asking
for the next search of a `DfaRoute` is not fair; the caller of an iterator asks
until there is no match left, as `find_iter`'s loop does.

## Proofs

`ImmutablesProofs` proves, for any sets of threads, buffers, rows and routes:

* `TypeCorrect`: the type invariant.
* `Safety`: the inductive invariant `IInv`.
* `ReadsAreCurrent`, `ExtractorSafe`, `PoolSafe`: `UseIsCurrent`,
  `ExtractorSpansLiveProgram`, `PoolResetBeforeKey`.
* `Implements`: the cache implements `BuildOnce`.
* `CountBounded`: `PrefixCallsBounded`.

`UseIsCurrent` is not inductive: that a thread past its load reads a whole
product depends on what a published key means, and that depends on what the
thread in the critical section has written so far. `IInv` adds the four
missing facts, each a named conjunct: the stripe is held exactly by the thread
in the critical section; a key is null or the current buffer; a published key or
flag names a whole, current product, for `byte_prog` with the pool already
reset; and what each control point of a call knows. The proof has a step per
action, first for the thread that moves, then for the others, whose knowledge
only an assignment could take away, and an assignment waits for them to be
idle. `Implements` maps the publishing store to `Build`, the step into `use` to
`Use`, and every other step to a stutter.

`CountBounded` is a count of calls. A call that loads the table's key unpublished counts
itself later, and another thread may publish the table in between, so the counter may
still move after the publication. `CountInv` says that what the counter has beyond the
threshold is at most the number of `Payers`. Before the publication these are the
`Buyers`, the threads on their way to the table: a call that counts past the threshold
makes its thread a buyer, and none turns back before the table is published. From the
publication on they are the threads that are not between their load and their count
(`Counting`), which the buyers are among: no thread sets out to count again before the
next assignment, which resets the counter, and each late one that counts joins the
payers. The threads are finitely many (`ThreadsAssumption`).

`SharedDfaProofs` proves, for any finite set of threads, any addresses, stripes,
programs and depth of nesting, whichever allocations fail:

* `TypeCorrect`: the type invariant, with its bounds.
* `Safety`: the inductive invariant `IInv`.
* `WalksAreCurrent`, `SetsHaveOneOwner`, `OwnersAreMapped`,
  `RetiredSlotsStayEmpty`, `PoolsAreBounded`: the safety properties
  `WalkIsCurrent`, `OneOwner`, `OwnerIsMapped`, `RetiredStaysEmpty`,
  `SetsBounded`.
* `DestroyersKeepNothing`: the action property `DestroyerKeepsNothing`.

None of these is inductive alone. `IInv` has six parts:

* `Typing`: the variables' types; what is on a thread's stack by its kind.
* `Phases`: what a call's step says of its regex and its stripe; a regex that is
  being destroyed is in no other call.
* `Ownership`: the slot a call works on is its regex's; the map and the owners
  agree, but for a slot being retired; a retired slot is empty or being drained.
* `Leases`: a thread's outermost lease has its cache's set, a nested one its own;
  the cache is busy exactly then.
* `Owned`: every set in being has exactly one owner among the slots' pools, the
  threads' caches and the nested leases.
* `Currency`: a set's generation never runs ahead of its slot's; it is behind
  between a build's bump and its publication, and afterwards a set that is not
  behind has DFAs of the program built, or none yet; a walk's is not behind.

A step touches few sets. `Fate` says how: a set is where it was, moves from one
owner to another under one slot, is made, or is freed with nobody left who has
it. Each action is shown to give every set one of these fates, and `Owned` and
`Few` follow once for all of them. `SetsBounded` needs
a count: `Few` says that a slot's sets inject into pairs of a thread and a depth
whenever its pool is empty, which is when one is made, and the threads are
finite.

The assumptions are the modules' named `ASSUME`s: names are distinct, bounds are
positive, the threads of `SharedDfa` are finitely many and an address has one
stripe.

`BacktrackProofs` proves, for any programs that are well formed, any subjects and
starts, any inline capacity and any width of a row that short subjects fit:

* `TypeCorrect`: `FrameTypeOK`, the frame's arrays are never indexed past their
  ends.
* `SpillsOnlyWhenFull`: `SpillsWhenFull`.
* `FailedStartsClosed`: `FailedStartsAreClosed`.
* `Safety`: the inductive invariant `IInv`.

`FailedStartsAreClosed` speaks of the moments between two starts; what holds all
along is `Closed`: every way on from a marked pair is marked or owed, that is,
pending among the jobs or where the walk is. Pushing keeps what is pending,
popping makes a pending branch the walk, entering turns the walk into a mark
and owes its ways on; when no job is left nothing is owed. The one instruction
that does not go where its way on leads is a jump that takes a loop's exit:
`JumpTargetFacts` shows, through the bounded chain of hops, that the head it
skips was entered, so that its marks stand for it. The other lemmas the proof
rests on: a position has at most one code point, so a walk has one way on;
the jobs array and its spill are one stack; a branch's row is its position,
where the remainder does not wrap. A restored slot's type survives the wrap
that `bt_far_end` shows to change its value.

The assumptions there: `SearchesAssumption`, programs are well formed (TLC
evaluates it on every program the checked patterns compile to), and
`BacktrackAssumption`, a search the backtracker takes has less text before it
than a row has values (the code's cap of 8192 marks is far below 2^32).

`PikeVMProofs` proves, under `SearchesAssumption` alone:

* `TypeCorrect`: `TypeOK`.
* `ReferencesBalanced`: `RefsBalanced`.
* `PoolStaysSound`: `PoolSound`.
* `Inductive`: the inductive invariant `VMInv`.

The three support each other: a count may be lowered because a holder is known,
a block may be written in place because its count is one, the free list is exact
because a count that reaches zero puts its block there once. `VMInv` has four
parts beside the search: `Control`, what each control point says of the position
and of the carried start; `Rests`, when the stack and the next list are empty;
`Structure`, lists whose threads stand at seen counters, no two at one (so a list
is never longer than the code, and `i` is bounded), and a pool whose free list is
exact; `Balanced`, the counts. The lemmas go from the pool outward: `IncrefFacts`,
`DecrefFacts`, `AllocateFacts` and `WriteFacts` for one block; `CowFacts` for a
write, which leaves its writer the only holder, so that a possessive loop's two
writes compose; `ReleaseFacts`, by induction on the position in a list, for
`cow_release_blocks`. Visits are of three kinds (`DropStep`, `ContinueStep`,
`VisitLeafStep`), and `Seed`, `Consume` and `ConsumePossessive` are one
(`LaunchStep`).

`PikeVMOrder` adds `PreferredNeverLater`: `PreferredStartsFirst`, which makes the
first match reached the leftmost one. It assumes `StartAssumption` besides: slot 0
is saved by the first instruction, to which no other leads, and by no other, as
`compile()` emits every program (`frontend/compiler.hpp:346`; TLC evaluates it on
the checked programs). The order alone is not inductive. `Order` adds that no start
is past the position; that every pending entry of a closure carries the start the
closure began with (a seed's first entry, which has none yet, is the exception);
and that the next list's threads started no later than those of the current list
still to step. It needs `VMInv` at each step, because the start is a slot of a
shared block: a block the pool hands out again, or writes in place, would move the
start of a thread that holds it, and the counts say there is none (`WrittenKeeps`,
`TierKeeps`, `KeptStarts`). TLC checked `Order` on the searches of `engines` first.

Its second half proves `GroupsWhole`: `CapturesAreWhole`, that a group which took part
in a match lies in it and is whole. `GroupsAssumption` says how the compiler lays out
groups: every way through the code opens a group before it closes it and closes all
it opens, group 0 last, because `emit_node` puts a group's body between its two
saves (`frontend/compiler.hpp:1142`), and a possessive loop's group is written by its
test, outside any save of its own (`:1736`). TLC evaluates it on the checked programs;
lookaround sub-programs, which the loop never enters, are left out (`Proper`). The
invariant `Grouped` reads each thread's block by where the thread stands
(`GroupsFit`): a group that is open there has begun after slot 0, any other is whole
or unset, and nothing lies past the position, except that a possessive loop's code
point ends up to a byte after it (`Overhang`). The lemmas `FitCrosses`, `FitTakes`,
`FitSaves`, `FitRepeats` and `FitMatches` say what one instruction does to a block;
`StepBeside` and `VisitBeside` say that every other thread or entry is a second holder
of whatever block it shares with the writer, so that the write copies and leaves its
block alone. That is where `ReferencesBalanced` is needed: with one count too low,
a branch's slots would reach another's answer. TLC checked `GroupsAssumption` and
`Grouped` on the searches of `engines` before the proof.

`EngineLemmas` holds what both engines' proofs use: at most one code point starts
at a position, a byte's way on stays in the code, a jump's target is its own or a
skipped head's exit, the least element of a set, a sequence's front and last.

`DfaRouteProofs` proves, for any byte programs that control never leaves
(`ProgramsAssumption`, which TLC evaluates on every compiled program), any budget
of states, any policy of quitting and any searches:

* `EdgesExact`: `EdgesAreExact`.
* `ReverseEdgesExact`: `ReverseEdgesAreExact`.
* `ScanTyped`: `TypeOK`.
* `QuitsCaused`: `QuitsHaveCause`.
* `CacheSound`, `ReverseCacheSound`, `ScansFit`: the invariants these rest on.

What is remembered names rows by their number, and a flush gives the numbers to
other sets, so the invariant is about the rows too: the tables name rows that the
cache has, each row is what its key asks for (`Means`), the dead row is the empty
set's, and the scan stands on a row (`Sound`). Meaning survives what keeps rows
(`MeansKept`): an appended row does (`RowAdded`), a flush does not, and starts from
what `Flushed` holds (`FlushedOK`). `InternFacts` and `FetchFacts` say what a miss
leaves in each of its fates: found, appended, flushed, refused; the epoch test is
what makes the third harmless to the tables, and that nothing is remembered of a
refusal the fourth. The other half is that a key is enough: the bytes of a class
take the same consumers and say the same of an assertion (`SteppedAlike`,
`ContextAlike`, `KeyTells`). For the reverse cache a class tells the context only
where something asserts; where nothing does, no edge asks (`SeesNoContext`), and
only a program that asserts has a set that waits (`BackSetsMayWait`).

`RouteFits` adds to `Sound` what the scans need: rows hold counters of the code,
a scan is inside its text, and a row that waits where a scan reads it waits in the
context of what is left of the position. The first is a fact about the closure,
entry by entry (`CloseOneStays`, `CloseFacts`), and about what moves on over a byte
(`MovedFacts`); it also gives that a closure quits only at a boundary its sides do
not decide. The third makes the sides of a waiting row those of the text. A quit that
is remembered was built under the same row and key (`Means`), and the key, which is
never empty, tells the byte ahead, so it has the cause a quit has that is built now.
`SubjectsAssumption` says that subjects are of bytes and positions naturals.

`MatchWalkProofs` proves, for any walks, size of batch and runway of the lazy DFA:

* `TypesHold`: `TypeOK`.
* `AnswersRight`: `AnswersHold`.
* `BytesReadOnce`: `ReadsEachByteOnce`.
* `BatchesContinue`: `BatchContinues`, if `SweepAnswers` holds.
* `HandsOut`: the safety half of `HandsOutEveryMatch`, if `SweepAnswers` holds: the
  walk starts as `FindIter` does, and each step is a `Yield`, a `Finish` or a stutter.
* `TypedAlways`, `OrderedAlways`: the invariants these rest on.

`SweepAnswers` is a hypothesis because it compares the sweep with the search, both
recursive, and because it does not hold of every program: `two_runs` violates it.
`match_walk` checks it at every position of every subject. What a search answers
and what the matches are is assumed: `WalksAssumption` (an answer is a span of the
subject or none), `MatchesAssumption` (the matches are the searches' answers, one
from the end of another), `SweepsAssumption` (the slots are at the span's ends),
`TrailingAssumption` (which span a class run with a lookahead matches, from the
places at which the lookahead holds) and `LooksAssumption` (a lookaround asked first
answers right, and no match of a lookbehind's body is longer than its bound). TLC
evaluates each on the walks of `match_walk`. None is about a walk's state: how the
batch, the scratch and the run's ends are used is what is proved.

`WalkTyped` says of each lookbehind that its walk began no later than the window of
the place where it stands and was taken on from there (`FitWalk`), and of each
unbounded lookahead that its table is whole or not filled. A walk starts one thread
more at every position; `StartsAlike` takes it apart: its threads are those of each
start followed alone, and it holds where one of them does. A match from before the
window would be longer than the bound, so a walk that began before its window holds
where one that begins with it does (`WindowEnough`). That is why a walk kept from
another search answers as a new one, and why one behind the window is begun anew.

`StepsFit` bounds the cost: the bytes stepped are at most the pairs of a lookbehind
and a byte before the place where its walk stands, if the search has come so far.
A search's queries never go back, so each byte a query steps over is a new pair.

`InOrder` says that for some `n` the first `n` matches are handed out, with the
position and the empty-match rule of the last of them (`Handed`); that the buffered
ones are the next, and all the rest once a batch is spent (`Buffered`); that a walk
which is over has handed out all (`Closed`); and, in a class run, that no run before
it has an end and none farther back in it (`Tried`). `Handed` at the place of the
last match is what makes a search's answer the next one. `FillsOrdered` shows each
filler's spans to be the next matches, wherever it stopped; a program with no empty
match, which is the condition of every batched route, may be searched from a span's
end without the rule. `TryEndOrdered` shows that the first end to hold, from the
farthest back, is the match's.

Model-checked only:

* Liveness: `CallServed`, `SearchServed`, termination of the matchers and the walks,
  the fairness half of `HandsOutEveryMatch`, and what needs `ENABLED`.
* `RoutesAgree`, `RouteIsRight`, `BackReachesAStart`, `SweepAnswers` and
  `AnswersAsPromised`, which compare an answer with the reference's or with another
  engine's. The compiler and the reference are recursive, and what they compute for
  every tree needs induction over data, so their agreement stays a matter of bounded
  checking.
* That every program brackets its groups (`GroupsAssumption`) or opens with slot 0's
  save (`StartAssumption`): facts about what a recursive compiler emits for every
  tree, evaluated on the programs of the checked patterns.

## Disagreements found

* `engine/pike.hpp:306`. A restored slot is an absolute position kept in 32
  bits. Rows are relative to the search's start, slots are not: a search of the
  end of a subject longer than 2^32 bytes reports a truncated group start. Run
  `bt_far_end`.
* `automata/onepass.hpp:1302`. `take()` may throw after the thread's cache
  recorded the slot; the next lease takes the null set. Run `shared_dfa_null`.
* `automata/onepass.hpp:1246`. `make_shared` may throw after the map entry was
  inserted; the destructor dereferences it. Run `shared_dfa_null`.
* `automata/lazy_dfa.hpp:2475`. A flush outside a step counts the scan's bytes
  from a position an earlier scan missed at, so the window holds bytes nobody
  read, and a cache that should be refused its flush gets it. Only speed is at
  stake, so no run states it; the model counts as the code does.
* `automata/onepass.hpp:481`. The table counts slots by the highest one saved,
  against "Twice the group count plus two" (204): a group repeated `{0}` is not
  compiled, so the matches the table fills have one group less than those of the
  VM, and `size()` depends on the route. Run `short_groups`; the patterns of
  `dfa_route` enter all their groups.
* `frontend/compiler.hpp:468`. Whether the second of two runs covers the first
  is asked of bytes, where a class of code points counts as every byte outside
  ASCII: `[abé]+b[abĀ]+` over `abaébb` gives the whole subject or its first
  three bytes, as the subject's length selects. Run `two_runs`.
* `engine/pike.hpp:1531`. A candidate whose reverse finds no start is not
  billed, against "Two guards keep it linear" (1321): `a[bx]+x[0-9]` reads
  quadratically behind a stretch without candidates. Run `linear_sweep`.
* `engine/pike.hpp:1871`. A build after an assignment is taken for a first
  build, so the warm mark another program's scans left is kept, against the
  comment at 1912. Only speed is at stake, so no run states it.

## Not modelled

* The parser and the size limits: pure functions, enumerated by the tests; the
  patterns here start from the tree.
* Unicode tables, case folding and SIMD scans: generated data and vectorised
  loops. Case-folded inner literals go with them.
* The routes for recognized shapes (literal alternations, class runs, counted
  and fixed shapes) and their fillers: pure scans; `MatchWalk` takes their spans
  from the reference. The run-shape walk, which fills groups in a window:
  abstracted to the VM's answer. The variant plans.
* Of the one-pass table: the merging of equivalent nodes, with its caps on work
  and memory. The sweep's confirmations take the reference's groups.
* In the lazy DFAs: the byte budget, the trie of long literal alternations,
  byte mode and ASCII word-ness, programs that open on a continuation byte.
* In the iterator: replace and split, named groups.
* The sets, the tokenizer DFA, the compatibility layers and the bindings, which
  the plan takes next.
* Relaxed memory: an acquire load that meets a release store is one atomic
  read, and a product's plain words are torn until the store.
* ECMAScript line ends and ASCII islands. Test hooks, counters and profiling.

## Plan

1. Done: `Immutables`, `BuildOnce`, their proofs; `SharedDfa`; the general loop's
   two engines against the reference; the lazy DFAs and their route, with the
   one-pass table; the lookarounds' scratch; the iterator and its promise; the
   inner literal.
2. Done: `SharedDfaProofs`, `BacktrackProofs`, `PikeVMProofs`, `PikeVMOrder`,
   `DfaRouteProofs`, `MatchWalkProofs`. None of these modules reaches a recursive
   operator.
3. `RegexSet`: the deferred fused build, and that both shapes answer alike.
4. `Handles`: the C interface and the bindings, lifetimes of iterators.
