-------------------------------- MODULE PikeVM --------------------------------
(***************************************************************************)
(* The general matching loop: one search of a subject by the Pike VM.  A   *)
(* list of threads in order of preference is carried from position to      *)
(* position; each byte moves the list's threads one by one, and each       *)
(* moved thread enters the next list through its epsilon closure, a        *)
(* depth-first walk that takes one stack entry per action.  Threads share  *)
(* capture blocks, copied when a shared one is written.                    *)
(***************************************************************************)
EXTENDS GeneralSearch

VARIABLES
  at,        \* where in the loop: loop, closure, check, step, drain, done
  pos,       \* the position of clist
  i,         \* the thread of clist that steps next
  lists,     \* clist and nlist: threads in order of preference and the counters seen
  into,      \* the list the closure in progress fills
  stack,     \* its pending entries, the next one last
  carried,   \* without captures: the group-0 start every thread of this closure carries
  pool,      \* capture blocks: their slots, reference counts and the free list
  matched,
  out_slots

vars == <<search, at, pos, i, lists, into, stack, carried, pool, matched, out_slots>>

clist == lists.clist
nlist == lists.nlist

-----------------------------------------------------------------------------
(* The capture pool.  Block 1 is the all-npos block every seed shares.     *)

npos_block == 1
Unset(slots) == [s \in slots |-> npos]
pool_reset(slots) == [data |-> <<Unset(slots)>>, refcount |-> <<1>>, free |-> <<>>]

incref(p, b) == [p EXCEPT !.refcount[b] = @ + 1]
decref(p, b) ==
  [p EXCEPT !.refcount[b] = @ - 1,
            !.free = IF p.refcount[b] = 1 THEN Append(@, b) ELSE @]

\* A block with one reference: the one freed last, its old contents left in it, or a new one.
allocate(p) ==
  IF p.free # <<>>
    THEN [block |-> Last(p.free),
          pool |-> [p EXCEPT !.free = Front(@), !.refcount[Last(p.free)] = 1]]
    ELSE [block |-> Len(p.refcount) + 1,
          pool |-> [p EXCEPT !.refcount = Append(@, 1),
                             !.data = Append(@, Unset(DOMAIN p.data[npos_block]))]]

\* Mutants: a shared block written in place, and a copy that takes the new slot alone.
write_in_place(p, b, slot, value) == [block |-> b, pool |-> [p EXCEPT !.data[b][slot] = value]]

cow_write_bare(p, b, slot, value) ==
  IF p.refcount[b] > 1
    THEN LET fresh == allocate(p)
         IN [block |-> fresh.block,
             pool |-> decref([fresh.pool EXCEPT !.data[fresh.block][slot] = value], b)]
    ELSE write_in_place(p, b, slot, value)

\* The only write to a block: a shared one is copied first.
cow_write(p, b, slot, value) ==
  IF p.refcount[b] > 1
    THEN LET fresh == allocate(p)
             copied == [fresh.pool EXCEPT !.data[fresh.block] = [p.data[b] EXCEPT ![slot] = value]]
         IN [block |-> fresh.block, pool |-> decref(copied, b)]
    ELSE [block |-> b, pool |-> [p EXCEPT !.data[b][slot] = value]]

\* Without captures the pool is never touched.
Share(p, b) == IF capture_free THEN p ELSE incref(p, b)
Release(p, b) == IF capture_free THEN p ELSE decref(p, b)
cow_release_blocks(p, list) ==
  LET released[k \in 0 .. Len(list.threads)] ==
        IF k = 0 THEN p ELSE decref(released[k - 1], list.threads[k].carry)
  IN IF capture_free THEN p ELSE released[Len(list.threads)]

-----------------------------------------------------------------------------
(* Lists and the closure's stack.                                          *)

EmptyList == [threads |-> <<>>, seen |-> {}]

\* A thread, or an entry: a counter and the block it holds, or without captures a start.
Entry(pc, carry) == [pc |-> pc, carry |-> carry]

\* Starts the closure of pc0 into a list with what the thread carries.
add_thread(list, pc0, carry) ==
  /\ at' = "closure"
  /\ into' = list
  /\ stack' = <<Entry(pc0, IF capture_free THEN 0 ELSE carry)>>
  /\ carried' = IF capture_free THEN carry ELSE npos

-----------------------------------------------------------------------------
Init ==
  /\ search \in Searches
  /\ at = "loop"
  /\ pos = search.start
  /\ i = 1
  /\ lists = [clist |-> EmptyList, nlist |-> EmptyList]
  /\ into = "clist"
  /\ stack = <<>>
  /\ carried = npos
  /\ pool = pool_reset(Slots)
  /\ matched = FALSE
  /\ out_slots = Unset(Slots)

(* The top of the loop: with no thread alive a search jumps to the next    *)
(* viable start, with fresh marks; a start is seeded by the all-npos block.*)

Searching == search.mode = "search" /\ ~matched
Seeding == pos = search.start \/ Searching
Skipping == Searching /\ clist.threads = <<>>
Arrival == IF Skipping THEN next_candidate(hints, text, pos, search.start) ELSE pos

Exhausted ==
  /\ at = "loop"
  /\ pos > size \/ Arrival = npos
  /\ at' = "drain"
  /\ UNCHANGED <<search, pos, i, lists, into, stack, carried, pool, matched, out_slots>>

Seed ==
  /\ at = "loop"
  /\ pos <= size
  /\ Arrival # npos
  /\ Seeding /\ seed_viable(hints, text, Arrival, search.start)
  /\ pos' = Arrival
  /\ lists' = [lists EXCEPT !.clist = IF Skipping THEN EmptyList ELSE @]
  /\ pool' = Share(pool, npos_block)
  /\ add_thread("clist", 1, IF capture_free THEN Arrival ELSE npos_block)
  /\ UNCHANGED <<search, i, matched, out_slots>>

NoSeed ==
  /\ at = "loop"
  /\ pos <= size
  /\ Arrival # npos
  /\ ~(Seeding /\ seed_viable(hints, text, Arrival, search.start))
  /\ pos' = Arrival
  /\ lists' = [lists EXCEPT !.clist = IF Skipping THEN EmptyList ELSE @]
  /\ at' = "check"
  /\ UNCHANGED <<search, i, into, stack, carried, pool, matched, out_slots>>

\* No thread survived: the search goes on one byte further, with fresh marks.
NoThread ==
  /\ at = "check"
  /\ clist.threads = <<>>
  /\ IF matched \/ search.mode # "search" \/ pos >= size
       THEN at' = "drain" /\ UNCHANGED <<pos, lists>>
       ELSE at' = "loop" /\ pos' = pos + 1 /\ lists' = [lists EXCEPT !.clist = EmptyList]
  /\ UNCHANGED <<search, i, into, stack, carried, pool, matched, out_slots>>

BeginStep ==
  /\ at = "check"
  /\ clist.threads # <<>>
  /\ at' = "step"
  /\ i' = 1
  /\ UNCHANGED <<search, pos, lists, into, stack, carried, pool, matched, out_slots>>

-----------------------------------------------------------------------------
(* add_thread's walk: one entry per action.  An entry holds one reference. *)

top == Last(stack)
\* Mutant: the seed's closure runs at the position after it.
here_past == pos + 1

\* The list's position: the next list is the next position's.
here == IF into = "clist" THEN pos ELSE pos + 1

Visiting(ops) ==
  /\ at = "closure"
  /\ stack # <<>>
  /\ top.pc \notin lists[into].seen
  /\ code[top.pc].op \in ops
  /\ UNCHANGED <<search, at, pos, i, into, matched, out_slots>>

Mark == [lists EXCEPT ![into].seen = @ \cup {top.pc}]
Continue(pc, carry) == stack' = Append(Front(stack), Entry(pc, carry))

VisitSeen ==
  /\ at = "closure"
  /\ stack # <<>>
  /\ top.pc \in lists[into].seen
  /\ stack' = Front(stack)
  /\ pool' = Release(pool, top.carry)
  /\ UNCHANGED <<search, at, pos, i, lists, into, carried, matched, out_slots>>

VisitJump ==
  /\ Visiting({"jump"})
  /\ lists' = Mark
  /\ Continue(JumpTarget(code, top.pc, Mark[into].seen), top.carry)
  /\ UNCHANGED <<carried, pool>>

\* Mutant: both branches hold the one reference the entry had.
VisitSplitUnshared ==
  /\ Visiting({"split"})
  /\ lists' = Mark
  /\ stack' = Append(Append(Front(stack), Entry(code[top.pc].secondary, top.carry)),
                     Entry(code[top.pc].primary, top.carry))
  /\ UNCHANGED <<carried, pool>>

VisitSplit ==
  /\ Visiting({"split"})
  /\ lists' = Mark
  /\ stack' = Append(Append(Front(stack), Entry(code[top.pc].secondary, top.carry)),
                     Entry(code[top.pc].primary, top.carry))
  /\ pool' = Share(pool, top.carry)
  /\ UNCHANGED carried

VisitSave ==
  /\ Visiting({"save"})
  /\ lists' = Mark
  /\ LET slot == code[top.pc].slot
         written == cow_write(pool, top.carry, slot, here)
     IN IF capture_free
          THEN /\ Continue(top.pc + 1, top.carry)
               /\ carried' = IF slot = 0 THEN here ELSE carried
               /\ UNCHANGED pool
          ELSE /\ Continue(top.pc + 1, written.block)
               /\ pool' = written.pool
               /\ UNCHANGED carried

Passes(in) ==
  IF in.op = "assert_position" THEN assertion_holds(in.kind, text, here)
  ELSE lookaround_holds(code, text, in.sub, here)

VisitAssertion ==
  /\ Visiting({"assert_position", "assert_lookaround"})
  /\ lists' = Mark
  /\ IF Passes(code[top.pc])
       THEN Continue(top.pc + 1, top.carry) /\ UNCHANGED pool
       ELSE stack' = Front(stack) /\ pool' = Release(pool, top.carry)
  /\ UNCHANGED carried

\* A thread to step, or a match: its reference goes into the list.  A possessive loop is
\* decided here, at its own preference: it parks where its atom matches and leaves at once
\* where it does not.
Parks == code[top.pc].op \in Possessive => Advanced(code, text, top.pc, here) # {}

VisitLeaf ==
  /\ Visiting(Consuming \cup Possessive \cup {"match"})
  /\ Parks
  /\ lists' = [Mark EXCEPT ![into].threads =
                 Append(@, Entry(top.pc, IF capture_free THEN carried ELSE top.carry))]
  /\ stack' = Front(stack)
  /\ UNCHANGED <<carried, pool>>

VisitLoopExit ==
  /\ Visiting(Possessive)
  /\ ~Parks
  /\ lists' = Mark
  /\ Continue(code[top.pc].secondary, top.carry)
  /\ UNCHANGED <<carried, pool>>

ClosureDone ==
  /\ at = "closure"
  /\ stack = <<>>
  /\ at' = IF into = "clist" THEN "check" ELSE "step"
  /\ UNCHANGED <<search, pos, i, lists, into, stack, carried, pool, matched, out_slots>>

-----------------------------------------------------------------------------
(* step: clist's threads over the byte at pos, in order of preference.     *)

thread == clist.threads[i]
instruction == code[thread.pc]

Stepping(ops) ==
  /\ at = "step"
  /\ i <= Len(clist.threads)
  /\ instruction.op \in ops
  /\ UNCHANGED <<search, pos>>

\* advance_thread: the continuation's closure holds a reference of its own.
advance_thread(carry, p) ==
  /\ \E pc \in Advanced(code, text, thread.pc, pos) : add_thread("nlist", pc, carry)
  /\ pool' = Share(p, carry)
  /\ i' = i + 1

Consume ==
  /\ Stepping(Consuming)
  /\ advance_thread(thread.carry, pool)
  /\ UNCHANGED <<lists, matched, out_slots>>

Die ==
  /\ Stepping(Consuming)
  /\ Advanced(code, text, thread.pc, pos) = {}
  /\ i' = i + 1
  /\ UNCHANGED <<at, lists, into, stack, carried, pool, matched, out_slots>>

\* Mutant: the slots are written, the block they were copied to is dropped.
capture_and_drop(p, block, slot, end) ==
  LET opened == cow_write(p, block, slot, pos)
      closed == cow_write(opened.pool, opened.block, slot + 1, end)
  IN [block |-> block, pool |-> closed.pool]

\* A possessive loop's repetition: its group's two slots are written in the thread's block.
tier1_capture_on_match(p, block, slot, end) ==
  LET opened == cow_write(p, block, slot, pos)
  IN cow_write(opened.pool, opened.block, slot + 1, end)

ConsumePossessive ==
  /\ Stepping(Possessive)
  /\ LET slot == instruction.slot
         end == pos + AtomLength(code, text, thread.pc, pos)
         written == IF slot < 0 \/ capture_free
                      THEN [block |-> thread.carry, pool |-> pool]
                      ELSE tier1_capture_on_match(pool, thread.carry, slot, end)
     IN /\ lists' = [lists EXCEPT !.clist.threads[i].carry = written.block]
        /\ advance_thread(written.block, written.pool)
  /\ UNCHANGED <<matched, out_slots>>

\* What the thread found: the end is pos, its start what it carries.
Found ==
  IF capture_free THEN [out_slots EXCEPT ![0] = thread.carry, ![1] = pos]
                  ELSE pool.data[thread.carry]

Acceptable ==
  /\ search.mode = "full" => pos = size
  /\ ~(pos = Found[0] /\ Found[0] < search.forbid)

Reject ==
  /\ Stepping({"match"})
  /\ ~Acceptable
  /\ i' = i + 1
  /\ UNCHANGED <<at, lists, into, stack, carried, pool, matched, out_slots>>

\* First-match semantics drop the threads preferred less.
MatchFirst ==
  /\ Stepping({"match"})
  /\ search.sem = "first"
  /\ Acceptable
  /\ matched' = TRUE
  /\ out_slots' = Found
  /\ i' = Len(clist.threads) + 1
  /\ UNCHANGED <<at, lists, into, stack, carried, pool>>

\* Mutant: the longest match wins wherever it starts.
MatchLongestAnywhere ==
  /\ Stepping({"match"})
  /\ search.sem = "longest"
  /\ Acceptable
  /\ matched' = TRUE
  /\ out_slots' = IF ~matched \/ Found[1] - Found[0] > out_slots[1] - out_slots[0]
                    THEN Found ELSE out_slots
  /\ i' = i + 1
  /\ UNCHANGED <<at, lists, into, stack, carried, pool>>

\* Longest semantics keep every thread, and the leftmost match that ends last.
MatchLongest ==
  /\ Stepping({"match"})
  /\ search.sem = "longest"
  /\ Acceptable
  /\ matched' = TRUE
  /\ out_slots' = IF \/ ~matched
                     \/ Found[0] < out_slots[0]
                     \/ Found[0] = out_slots[0] /\ Found[1] > out_slots[1]
                    THEN Found ELSE out_slots
  /\ i' = i + 1
  /\ UNCHANGED <<at, lists, into, stack, carried, pool>>

\* The next list becomes the current one; the threads stepped give their blocks back.
Rotate ==
  /\ at = "step"
  /\ i > Len(clist.threads)
  /\ at' = "loop"
  /\ pos' = pos + 1
  /\ lists' = [clist |-> nlist, nlist |-> EmptyList]
  /\ pool' = cow_release_blocks(pool, clist)
  /\ UNCHANGED <<search, i, into, stack, carried, matched, out_slots>>

Drain ==
  /\ at = "drain"
  /\ at' = "done"
  /\ pool' = cow_release_blocks(cow_release_blocks(pool, clist), nlist)
  /\ UNCHANGED <<search, pos, i, lists, into, stack, carried, matched, out_slots>>

-----------------------------------------------------------------------------
Done == at = "done"

Next ==
  \/ Exhausted \/ Seed \/ NoSeed \/ NoThread \/ BeginStep
  \/ VisitSeen \/ VisitJump \/ VisitSplit \/ VisitSave \/ VisitAssertion
  \/ VisitLeaf \/ VisitLoopExit \/ ClosureDone
  \/ Consume \/ Die \/ ConsumePossessive \/ Reject \/ MatchFirst \/ MatchLongest
  \/ Rotate \/ Drain

\* The loop is sequential: it runs on until it returns.
Spec == Init /\ [][Next]_vars /\ WF_vars(Next)

-----------------------------------------------------------------------------
(* Properties.                                                             *)

Carry == IF capture_free THEN 0 .. size ELSE DOMAIN pool.refcount
Threads == [pc : DOMAIN code, carry : Carry]

TypeOK ==
  /\ at \in {"loop", "closure", "check", "step", "drain", "done"}
  /\ pos \in 0 .. size + 1
  /\ i \in 1 .. Len(code) + 1 /\ (at = "step" => i <= Len(clist.threads) + 1)
  /\ lists \in [{"clist", "nlist"} -> [threads : Seq(Threads), seen : SUBSET DOMAIN code]]
  /\ into \in {"clist", "nlist"}
  /\ stack \in Seq(Threads)
  /\ carried \in npos .. size
  /\ pool \in [data : Seq([Slots -> npos .. size]), refcount : Seq(Nat),
               free : Seq(DOMAIN pool.refcount)]
  /\ DOMAIN pool.refcount = DOMAIN pool.data
  /\ matched \in BOOLEAN
  /\ out_slots \in [Slots -> npos .. size]

\* Every reference count is the number of threads and stack entries that hold the block (the
\* all-npos block has one more), and once the call has drained its lists no block is held:
\* the balance run_general asserts as it returns, at every step of the loop.
Held(s, b) == Cardinality({k \in DOMAIN s : s[k].carry = b})
Holders(b) ==
  IF at = "done" THEN 0 ELSE Held(clist.threads, b) + Held(nlist.threads, b) + Held(stack, b)

RefsBalanced ==
  ~capture_free =>
    \A b \in DOMAIN pool.refcount :
      pool.refcount[b] = Holders(b) + (IF b = npos_block THEN 1 ELSE 0)

\* A block is on the free list exactly when nothing refers to it, and once only; the block
\* all seeds share is never written.
PoolSound ==
  /\ Range(pool.free) = {b \in DOMAIN pool.refcount : pool.refcount[b] = 0}
  /\ Cardinality(Range(pool.free)) = Len(pool.free)
  /\ pool.data[npos_block] = Unset(Slots)

\* A thread preferred to another never started to the right of it, in either list: what
\* lets the first match reached be the leftmost one.
StartOf(t) == IF capture_free THEN t.carry ELSE pool.data[t.carry][0]

PreferredStartsFirst ==
  \A l \in {clist, nlist} : \A j, k \in DOMAIN l.threads :
    at # "done" /\ j <= k => StartOf(l.threads[j]) <= StartOf(l.threads[k])

\* A group that took part in the match lies in the matched span and is whole: the blocks
\* threads share never leak one branch's slots into another's, whatever the program.
CapturesAreWhole ==
  Done /\ matched /\ ~capture_free =>
    \A g \in {s \in Slots : s % 2 = 0} :
      \/ out_slots[g] = npos /\ out_slots[g + 1] = npos
      \/ /\ out_slots[0] <= out_slots[g]
         /\ out_slots[g] <= out_slots[g + 1]
         /\ out_slots[g + 1] <= out_slots[1]

=============================================================================
