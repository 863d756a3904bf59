------------------------------ MODULE Immutables ------------------------------
(***************************************************************************)
(* The per-regex immutable cache (`regex_immutables`) of one const regex   *)
(* shared by threads: products keyed by program identity and built on      *)
(* demand under a striped mutex by double-checked locking, membership rows *)
(* published one flag at a time, and the assignment that invalidates them. *)
(*                                                                         *)
(* A program is its version, which every assignment moves; `code` is its   *)
(* buffer, `code.data()`, which an assignment may reuse: the keys compare  *)
(* buffers, and the properties compare versions.  A product's value is the *)
(* version it was built from, Empty when it holds nothing (never built, or *)
(* declined by its builder), Torn while its builder is writing it.         *)
(***************************************************************************)
EXTENDS Integers, FiniteSets

CONSTANTS
  Threads,      \* threads that search the regex
  Buffers,      \* addresses `code.data()` can have
  Rows,         \* membership rows (byte class, ASCII half, page)
  RouteSets,    \* what the routes of a program may consult: its shape decides which
  NullPtr,      \* the null identity key
  NoThread,     \* the stripe is not locked
  MaxVersion,   \* bound: programs assigned, the first included
  PrefixWarm,   \* onepass_prefix_warm_calls
  ShortBudget   \* il_short_scan_budget, in short subjects

Lazy == {"byte_prog", "op_table", "ac", "alt_pairs"}
Keyed == Lazy \cup {"rows"}

ASSUME ThreadsAssumption == NoThread \notin Threads /\ IsFiniteSet(Threads)
ASSUME BuffersAssumption == NullPtr \notin Buffers
ASSUME RowsAssumption ==
  Rows \cap (Keyed \cup {"il", "none"}) = {}
ASSUME RoutesAssumption ==
  \A s \in RouteSets : s \subseteq Lazy \cup Rows \cup {"anchored", "il"}
ASSUME BoundsAssumption ==
  /\ MaxVersion \in Nat \ {0} /\ PrefixWarm \in Nat /\ ShortBudget \in Nat \ {0}

Empty == 0
Torn == -1

\* A subject's size against the two floors of the inner-literal route.
Sizes == {"below_warm", "below_cold", "large"}
NoScan == [size |-> "large", built |-> FALSE]

VARIABLES
  code,           \* the program's buffer, `prog_.code.data()`
  version,        \* which program that is
  routes,         \* what its routes consult
  carries,        \* the products its builders do not decline (one-pass, automaton)
  key,            \* built_for, op_table_for, ac_for, alt_pairs_for, rows_for
  product,        \* byte_prog, op_table, ac, alt_pairs
  row,            \* the membership rows
  row_ready,      \* their flags
  mu,             \* who holds this cache's stripe of immut_build_mu
  prefix_calls,   \* anchored matches counted towards the one-pass table
  il_short_bytes, \* short subjects the inner-literal route declined
  il_warmed,      \* shared_dfa_slot::il_warmed
  pool_for,       \* the program the slot's DFA sets can be built for
  pc, goal, slot, \* where a call is, what it wants, what it is ensuring
  first_build,    \* the builder found built_for null
  scan            \* an inner-literal scan's subject size, and its read of built_for

program == <<code, version, routes, carries>>
cells == <<key, product, row, row_ready>>
counters == <<prefix_calls, il_short_bytes>>
shared_slot == <<il_warmed, pool_for>>
locals == <<pc, goal, slot, first_build, scan>>
vars == <<program, cells, mu, counters, shared_slot, locals>>

-----------------------------------------------------------------------------
Init ==
  /\ code \in Buffers
  /\ version = 1
  /\ routes \in RouteSets
  /\ carries \in SUBSET {"op_table", "ac"}
  /\ key = [k \in Keyed |-> NullPtr]
  /\ product = [k \in Lazy |-> Empty]
  /\ row = [r \in Rows |-> Empty]
  /\ row_ready = [r \in Rows |-> FALSE]
  /\ mu = NoThread
  /\ prefix_calls = 0
  /\ il_short_bytes = 0
  /\ il_warmed = FALSE
  /\ pool_for = 1
  /\ pc = [t \in Threads |-> "idle"]
  /\ goal = [t \in Threads |-> "none"]
  /\ slot = [t \in Threads |-> "none"]
  /\ first_build = [t \in Threads |-> FALSE]
  /\ scan = [t \in Threads |-> NoScan]

-----------------------------------------------------------------------------
(* Double-checked locking, as every builder writes it.                     *)

Published(s) == IF s \in Rows THEN row_ready[s] ELSE key[s] = code

\* What a call that wants g ensures first.
FirstOf(g) ==
  IF g \in Rows THEN "rows"
  ELSE IF g \in {"op_table", "il"} THEN "byte_prog" ELSE g

\* Where a call that found its slot published goes on: to the inner-literal floor,
\* from the immutables to the extractor on top of them, from the rows' sizing to the
\* row, or to the search itself.
Onward(t) ==
  IF goal[t] = "il" THEN "floor" ELSE IF slot[t] # goal[t] THEN "load" ELSE "use"
\* Mutant: the floor is not a slot of its own.
NextSlotIsGoal(t) == goal[t]

NextSlot(t) == IF goal[t] = "il" THEN slot[t] ELSE goal[t]

Proceed(t) ==
  /\ pc' = [pc EXCEPT ![t] = Onward(t)]
  /\ slot' = [slot EXCEPT ![t] = NextSlot(t)]

\* The acquire load of the identity key (or of the row's flag).
Load(t) ==
  /\ pc[t] = "load"
  /\ \/ Published(slot[t]) /\ Proceed(t)
     \/ /\ ~Published(slot[t])
        /\ pc' = [pc EXCEPT ![t] = "wait"]
        /\ UNCHANGED slot
  /\ UNCHANGED <<program, cells, mu, counters, shared_slot, goal, first_build, scan>>

LockStripe(t) ==
  /\ pc[t] = "wait"
  /\ mu = NoThread
  /\ mu' = t
  /\ pc' = [pc EXCEPT ![t] = "check"]
  /\ UNCHANGED <<program, cells, counters, shared_slot, goal, slot, first_build, scan>>

\* Mutant: single-checked.
BuildUnchecked(t) ==
  /\ pc[t] = "check"
  /\ pc' = [pc EXCEPT ![t] = "clear"]
  /\ first_build' = [first_build EXCEPT ![t] = key["byte_prog"] = NullPtr]
  /\ UNCHANGED <<program, cells, mu, counters, shared_slot, goal, slot, scan>>

\* The double check: another thread may have built it while this one waited.
Recheck(t) ==
  /\ pc[t] = "check"
  /\ pc' = [pc EXCEPT ![t] = IF Published(slot[t]) THEN "unlock" ELSE "clear"]
  /\ first_build' = [first_build EXCEPT ![t] = key["byte_prog"] = NullPtr]
  /\ UNCHANGED <<program, cells, mu, counters, shared_slot, goal, slot, scan>>

\* Mutant: the stripe is never unlocked.
KeepStripe(t) ==
  /\ pc[t] = "unlock"
  /\ Proceed(t)
  /\ first_build' = [first_build EXCEPT ![t] = FALSE]
  /\ UNCHANGED <<program, cells, mu, counters, shared_slot, goal, scan>>

UnlockStripe(t) ==
  /\ pc[t] = "unlock"
  /\ mu' = NoThread
  /\ Proceed(t)
  /\ first_build' = [first_build EXCEPT ![t] = FALSE]
  /\ UNCHANGED <<program, cells, counters, shared_slot, goal, scan>>

-----------------------------------------------------------------------------
(* The bodies the lock guards.                                             *)

\* A body's step of thread t on slot s, from one pc to the next.
Body(t, s, from, to) ==
  /\ pc[t] = from
  /\ slot[t] = s
  /\ pc' = [pc EXCEPT ![t] = to]
  /\ UNCHANGED <<program, mu, counters, goal, slot, first_build, scan>>

\* What a builder leaves for the current program.
Built(k) == IF k \in {"op_table", "ac"} \ carries THEN Empty ELSE version

Publish(s) == key' = [key EXCEPT ![s] = code]

\* Mutant: only the extractor's key goes.
DropExtractorKey(t) ==
  /\ Body(t, "byte_prog", "clear", "fill")
  /\ key' = [key EXCEPT !["op_table"] = NullPtr]
  /\ UNCHANGED <<product, row, row_ready, shared_slot>>

\* The extractor goes before the program its spans point into.
DropExtractor(t) ==
  /\ Body(t, "byte_prog", "clear", "fill")
  /\ product' = [product EXCEPT !["op_table"] = Empty]
  /\ key' = [key EXCEPT !["op_table"] = NullPtr]
  /\ UNCHANGED <<row, row_ready, shared_slot>>

ReplaceByteProgram(t) ==
  /\ Body(t, "byte_prog", "fill", "filling")
  /\ product' = [product EXCEPT !["byte_prog"] = Torn]
  /\ UNCHANGED <<key, row, row_ready, shared_slot>>

BuildByteProgram(t) ==
  /\ Body(t, "byte_prog", "filling", "reset")
  /\ product' = [product EXCEPT !["byte_prog"] = version]
  /\ UNCHANGED <<key, row, row_ready, shared_slot>>

\* Mutant: a first build keeps the pool with the warm mark.
ResetOnRebuild(t) ==
  /\ Body(t, "byte_prog", "reset", "publish")
  /\ pool_for' = IF first_build[t] THEN pool_for ELSE version
  /\ il_warmed' = (il_warmed /\ first_build[t])
  /\ UNCHANGED cells

\* reset_shared_dfas: the slot's generation moves and its free sets go, so no set
\* built for an earlier program is leased again; the warm mark survives a first build.
ResetSharedDfas(t) ==
  /\ Body(t, "byte_prog", "reset", "publish")
  /\ pool_for' = version
  /\ il_warmed' = (il_warmed /\ first_build[t])
  /\ UNCHANGED cells

PublishImmutables(t) ==
  /\ Body(t, "byte_prog", "publish", "unlock")
  /\ Publish("byte_prog")
  /\ UNCHANGED <<product, row, row_ready, shared_slot>>

ensure_immutables(t) ==
  \/ DropExtractor(t)
  \/ ReplaceByteProgram(t)
  \/ BuildByteProgram(t)
  \/ ResetSharedDfas(t)
  \/ PublishImmutables(t)

\* The extractor is only emplaced when the program is one-pass; a decline leaves it as it is.
ensure_op_table(t) ==
  \/ /\ Body(t, "op_table", "clear", "publish")
     /\ product' = IF "op_table" \in carries
                     THEN [product EXCEPT !["op_table"] = product["byte_prog"]] ELSE product
     /\ UNCHANGED <<key, row, row_ready, shared_slot>>
  \/ /\ Body(t, "op_table", "publish", "unlock")
     /\ Publish("op_table")
     /\ UNCHANGED <<product, row, row_ready, shared_slot>>

\* The automaton and the probe pairs: cleared, then pushed unless declined.
ClearThenPush(t, s) ==
  \/ /\ Body(t, s, "clear", "fill")
     /\ product' = [product EXCEPT ![s] = Torn]
     /\ UNCHANGED <<key, row, row_ready, shared_slot>>
  \/ /\ Body(t, s, "fill", "publish")
     /\ product' = [product EXCEPT ![s] = Built(s)]
     /\ UNCHANGED <<key, row, row_ready, shared_slot>>
  \/ /\ Body(t, s, "publish", "unlock")
     /\ Publish(s)
     /\ UNCHANGED <<product, row, row_ready, shared_slot>>

ac_ready(t) == ClearThenPush(t, "ac")
alternation_pairs_ready(t) == ClearThenPush(t, "alt_pairs")

ensure_membership_rows(t) ==
  \/ /\ Body(t, "rows", "clear", "publish")
     /\ row' = [r \in Rows |-> Empty]
     /\ row_ready' = [r \in Rows |-> FALSE]
     /\ UNCHANGED <<key, product, shared_slot>>
  \/ /\ Body(t, "rows", "publish", "unlock")
     /\ Publish("rows")
     /\ UNCHANGED <<product, row, row_ready, shared_slot>>

\* Mutant: the flag is set before the row is filled.
PublishThenFill(t) ==
  \E r \in Rows :
    \/ /\ Body(t, r, "clear", "fill")
       /\ row_ready' = [row_ready EXCEPT ![r] = TRUE]
       /\ UNCHANGED <<key, product, row, shared_slot>>
    \/ /\ Body(t, r, "fill", "unlock")
       /\ row' = [row EXCEPT ![r] = version]
       /\ UNCHANGED <<key, product, row_ready, shared_slot>>

fill_row(t) ==
  \E r \in Rows :
    \/ /\ Body(t, r, "clear", "fill")
       /\ row' = [row EXCEPT ![r] = Torn]
       /\ UNCHANGED <<key, product, row_ready, shared_slot>>
    \/ /\ Body(t, r, "fill", "publish")
       /\ row' = [row EXCEPT ![r] = version]
       /\ UNCHANGED <<key, product, row_ready, shared_slot>>
    \/ /\ Body(t, r, "publish", "unlock")
       /\ row_ready' = [row_ready EXCEPT ![r] = TRUE]
       /\ UNCHANGED <<key, product, row, shared_slot>>

-----------------------------------------------------------------------------
(* The calls.                                                              *)

\* The call returns, and its locals with it.
Leave(t) ==
  /\ pc' = [pc EXCEPT ![t] = "idle"]
  /\ goal' = [goal EXCEPT ![t] = "none"]
  /\ slot' = [slot EXCEPT ![t] = "none"]
  /\ first_build' = [first_build EXCEPT ![t] = FALSE]
  /\ scan' = [scan EXCEPT ![t] = NoScan]

Ensure(t, g) ==
  /\ goal' = [goal EXCEPT ![t] = g]
  /\ slot' = [slot EXCEPT ![t] = FirstOf(g)]
  /\ pc' = [pc EXCEPT ![t] = "load"]

\* A search on a route that consults product g.
Search(t, g) ==
  /\ g \in routes
  /\ pc[t] = "idle"
  /\ Ensure(t, g)
  /\ UNCHANGED <<program, cells, mu, counters, shared_slot, first_build, scan>>

\* Mutant: a call that finds the table built is counted too.
CountEveryMatch(t) ==
  /\ "anchored" \in routes
  /\ pc[t] = "idle"
  /\ pc' = [pc EXCEPT ![t] = "count"]
  /\ UNCHANGED <<program, cells, mu, counters, shared_slot, goal, slot, first_build, scan>>

\* An anchored match with groups uses the one-pass table if it loads its key as
\* published; otherwise it counts itself, and another thread may publish in between.
AnchoredMatch(t) ==
  /\ "anchored" \in routes
  /\ pc[t] = "idle"
  /\ IF Published("op_table")
       THEN Ensure(t, "op_table")
       ELSE /\ pc' = [pc EXCEPT ![t] = "count"]
            /\ UNCHANGED <<goal, slot>>
  /\ UNCHANGED <<program, cells, mu, counters, shared_slot, first_build, scan>>

\* The fetch_add: the match buys the table once enough of them have rented the VM.
CountAnchored(t) ==
  /\ pc[t] = "count"
  /\ prefix_calls' = prefix_calls + 1
  /\ IF prefix_calls >= PrefixWarm
       THEN Ensure(t, "op_table")
       ELSE /\ pc' = [pc EXCEPT ![t] = "idle"]
            /\ UNCHANGED <<goal, slot>>
  /\ UNCHANGED <<program, cells, mu, il_short_bytes, shared_slot, first_build, scan>>

\* run_inner_literal's small-haystack guard at its first candidate: the load of
\* built_for, and whether the subject counts towards the build.
InnerLiteralScan(t) ==
  \E size \in Sizes :
    LET built == Published("byte_prog")
    IN /\ "il" \in routes
       /\ pc[t] = "idle"
       /\ scan' = [scan EXCEPT ![t] = [size |-> size, built |-> built]]
       /\ IF ~built /\ size = "below_warm"
            THEN /\ pc' = [pc EXCEPT ![t] = "short"]
                 /\ UNCHANGED <<goal, slot>>
            ELSE Ensure(t, "il")
       /\ UNCHANGED <<program, cells, mu, counters, shared_slot, first_build>>

\* The fetch_add: short subjects pay for the build together.
CountShort(t) ==
  /\ pc[t] = "short"
  /\ il_short_bytes' = il_short_bytes + 1
  /\ IF il_short_bytes + 1 < ShortBudget
       THEN /\ pc' = [pc EXCEPT ![t] = "abandon"]
            /\ UNCHANGED <<goal, slot>>
       ELSE Ensure(t, "il")
  /\ UNCHANGED <<program, cells, mu, prefix_calls, shared_slot, first_build, scan>>

BelowFloor(size) ==
  IF il_warmed THEN size = "below_warm" ELSE size # "large"

\* The floor decision proper, after the immutables are built: the load of the warm
\* mark, which decides whether the scan that marks it next goes on.
FloorDecision(t) ==
  /\ pc[t] = "floor"
  /\ pc' = [pc EXCEPT ![t] =
       IF ~scan[t].built /\ BelowFloor(scan[t].size) THEN "abandon" ELSE "warm"]
  /\ UNCHANGED <<program, cells, mu, counters, shared_slot, goal, slot, first_build, scan>>

\* The store of the warm mark, by a scan that leaves the route.
Abandon(t) ==
  /\ pc[t] = "abandon"
  /\ il_warmed' = TRUE
  /\ Leave(t)
  /\ UNCHANGED <<program, cells, mu, counters, pool_for>>

\* The store of the warm mark, by a scan that goes on.
Warm(t) ==
  /\ pc[t] = "warm"
  /\ il_warmed' = TRUE
  /\ pc' = [pc EXCEPT ![t] = "use"]
  /\ UNCHANGED <<program, cells, mu, counters, pool_for, goal, slot, first_build, scan>>

\* The search that consulted the product returns.
Return(t) ==
  /\ pc[t] = "use"
  /\ Leave(t)
  /\ UNCHANGED <<program, cells, mu, counters, shared_slot>>

\* Every key, as the buffer may be reused; the automaton's memory; the two counters.
InvalidateAllBut(kept) ==
  /\ key' = [k \in Keyed |-> IF k = kept THEN key[k] ELSE NullPtr]
  /\ product' = [product EXCEPT !["ac"] = Empty]
  /\ prefix_calls' = 0
  /\ il_short_bytes' = 0

\* Mutant: one key is forgotten.
invalidate_all_misses_built_for == InvalidateAllBut("byte_prog")

invalidate_all == InvalidateAllBut("none")

\* Assignment, which no search may overlap: a new program in a buffer that may be the
\* old one.
Assign ==
  /\ version < MaxVersion
  /\ \A t \in Threads : pc[t] = "idle"
  /\ version' = version + 1
  /\ code' \in Buffers
  /\ routes' \in RouteSets
  /\ carries' \in SUBSET {"op_table", "ac"}
  /\ invalidate_all
  /\ UNCHANGED <<row, row_ready, mu, shared_slot, locals>>

Step(t) ==
  \/ Load(t) \/ LockStripe(t) \/ Recheck(t) \/ UnlockStripe(t)
  \/ ensure_immutables(t) \/ ensure_op_table(t)
  \/ ac_ready(t) \/ alternation_pairs_ready(t)
  \/ ensure_membership_rows(t) \/ fill_row(t)
  \/ CountAnchored(t) \/ CountShort(t)
  \/ FloorDecision(t) \/ Abandon(t) \/ Warm(t) \/ Return(t)

Next ==
  \/ \E t \in Threads :
       \/ Step(t)
       \/ \E g \in Lazy \cup Rows : Search(t, g)
       \/ AnchoredMatch(t)
       \/ InnerLiteralScan(t)
  \/ Assign

Spec == Init /\ [][Next]_vars

\* Threads are scheduled: a thread that can take its next step eventually does.
\* std::mutex is not fair, so the lock gets weak fairness only.
FairSpec == Spec /\ \A t \in Threads : WF_vars(Step(t))

-----------------------------------------------------------------------------
(* The cache as BuildOnce sees it.                                         *)

available ==
  {k \in Keyed : key[k] = code}
    \cup {r \in Rows : key["rows"] = code /\ row_ready[r]}
consults == [t \in Threads |-> IF pc[t] = "use" THEN slot[t] ELSE "none"]
RestsOn(p) ==
  IF p \in Rows THEN {"rows"}
  ELSE IF p = "op_table" THEN {"byte_prog"} ELSE {}

Promise == INSTANCE BuildOnce WITH
  Products <- Keyed \cup Rows, Base <- RestsOn, None <- "none",
  built <- available, using <- consults

\* However threads interleave, the cache builds once per program and product, in
\* order, and serves only what it has built for the current program.
BuildsOnce == Promise!Spec

-----------------------------------------------------------------------------
PcSet == {"idle", "load", "wait", "check", "clear", "fill", "filling", "reset",
          "publish", "unlock", "count", "short", "floor", "abandon", "warm", "use"}
\* Where a call rests on no product.
Early == {"idle", "count", "short", "abandon"}
Critical == {"check", "clear", "fill", "filling", "reset", "publish", "unlock"}

TypeOK ==
  /\ code \in Buffers
  /\ version \in 1 .. MaxVersion
  /\ routes \in RouteSets
  /\ carries \in SUBSET {"op_table", "ac"}
  /\ key \in [Keyed -> Buffers \cup {NullPtr}]
  /\ product \in [Lazy -> Nat \cup {Torn}]
  /\ row \in [Rows -> Nat \cup {Torn}]
  /\ row_ready \in [Rows -> BOOLEAN]
  /\ mu \in Threads \cup {NoThread}
  /\ prefix_calls \in Nat
  /\ il_short_bytes \in Nat
  /\ il_warmed \in BOOLEAN
  /\ pool_for \in 1 .. MaxVersion
  /\ pc \in [Threads -> PcSet]
  /\ goal \in [Threads -> Lazy \cup Rows \cup {"il", "none"}]
  /\ slot \in [Threads -> Keyed \cup Rows \cup {"none"}]
  /\ first_build \in [Threads -> BOOLEAN]
  /\ scan \in [Threads -> [size : Sizes, built : BOOLEAN]]

\* A search that consults a product reads it whole and built for the program it
\* is running, or reads that this program has none, whatever the other threads build.
UseIsCurrent ==
  \A t \in Threads : pc[t] = "use" =>
    /\ goal[t] \in Lazy => product[goal[t]] = Built(goal[t])
    /\ goal[t] = "il" => product["byte_prog"] = version
    /\ goal[t] \in Rows => row[goal[t]] = version

\* The one-pass extractor keeps spans over the byte program: while it exists, the
\* program it was built from is the one still there.
ExtractorSpansLiveProgram ==
  product["op_table"] # Empty => product["op_table"] = product["byte_prog"]

\* A search that passed ensure_immutables can only lease DFAs of its own program:
\* the slot was reset before the key it passed on was published.
PoolResetBeforeKey == key["byte_prog"] = code => pool_for = version

\* The inductive invariant.  The stripe excludes builders; a key is null or names the
\* current program; what a key or a flag publishes is whole; and a call is past a
\* product only once it is published.
StripeExcludes == \A t \in Threads : pc[t] \in Critical <=> mu = t

KeysCurrent ==
  /\ \A k \in Keyed : key[k] \in {NullPtr, code}
  /\ key["op_table"] = code => key["byte_prog"] = code

PublishedIsWhole ==
  /\ key["byte_prog"] = code =>
       /\ product["byte_prog"] = version
       /\ pool_for = version
       /\ "op_table" \notin carries => product["op_table"] = Empty
  /\ \A k \in {"op_table", "ac", "alt_pairs"} :
       key[k] = code => product[k] = Built(k)
  /\ key["rows"] = code => \A r \in Rows : row_ready[r] => row[r] = version

CallInv(t) ==
  /\ goal[t] \in {"byte_prog", "ac", "alt_pairs"} => slot[t] = goal[t]
  /\ goal[t] = "il" => slot[t] = "byte_prog"
  /\ goal[t] = "op_table" => slot[t] \in {"byte_prog", "op_table"}
  /\ goal[t] \in Rows => slot[t] \in {"rows", goal[t]}
  /\ pc[t] \in {"idle", "count", "short"} => goal[t] = "none"
  /\ pc[t] = "abandon" => goal[t] \in {"none", "il"}
  /\ pc[t] \in {"floor", "warm"} => goal[t] = "il"
  /\ pc[t] \notin Early =>
       /\ goal[t] # "none" /\ slot[t] # "none"
       /\ slot[t] = "op_table" => key["byte_prog"] = code
       /\ slot[t] \in Rows => key["rows"] = code
  /\ pc[t] \in {"unlock", "floor", "warm", "use"} => Published(slot[t])
  /\ pc[t] = "use" => goal[t] \in {slot[t], "il"}

\* What the lock holder has written so far.
BuilderInv(t) ==
  /\ pc[t] \in Critical \ {"check", "unlock"} => ~Published(slot[t])
  /\ slot[t] = "byte_prog" =>
       /\ pc[t] \in {"fill", "filling", "reset", "publish"} => product["op_table"] = Empty
       /\ pc[t] \in {"reset", "publish"} => product["byte_prog"] = version
       /\ pc[t] = "publish" => pool_for = version
  /\ slot[t] \in {"op_table", "ac", "alt_pairs"} /\ pc[t] = "publish" =>
       product[slot[t]] = Built(slot[t])
  /\ slot[t] = "rows" /\ pc[t] = "publish" => \A r \in Rows : ~row_ready[r]
  /\ slot[t] \in Rows /\ pc[t] = "publish" => row[slot[t]] = version

IInv ==
  /\ StripeExcludes
  /\ KeysCurrent
  /\ PublishedIsWhole
  /\ ExtractorSpansLiveProgram
  /\ \A t \in Threads : CallInv(t) /\ BuilderInv(t)

\* The count of anchored matches passes its threshold by at most one call of each
\* thread, so it never wraps: a call that counts past it goes for the table, and its
\* thread finds the table built from then on, but a thread that had loaded the key
\* unpublished before may still count once after the table is there.
PrefixCallsBounded == prefix_calls <= PrefixWarm + Cardinality(Threads)

\* Every call that starts ensuring a product gets past it, although the mutex
\* promises no order: each product is built once per program, so the lock is free again.
CallServed ==
  \A t \in Threads : pc[t] = "load" ~> pc[t] \in {"use", "idle"}

=============================================================================
