------------------------------ MODULE PikeVMOrder ------------------------------
(***************************************************************************)
(* The order of PikeVM's threads, and the groups in their blocks: a thread *)
(* preferred to another never started to its right, and the groups of an   *)
(* answer are whole.                                                       *)
(***************************************************************************)
EXTENDS PikeVMProofs

\* The start a thread carries, and the one the closure's entries carry.
StartIn(p, t) == IF capture_free THEN t.carry ELSE p.data[t.carry][0]
EntryStart(p, k, e) == IF capture_free THEN k ELSE p.data[e.carry][0]

\* Starts never fall along a list's threads, and none is past s.
Rising(p, t) == \A j, k \in 1 .. Len(t) : j <= k => StartIn(p, t[j]) <= StartIn(p, t[k])
UpTo(p, t, s) == \A k \in 1 .. Len(t) : StartIn(p, t[k]) <= s

\* The next list's threads started no later than those of the current one still to step.
Before(p, n, c, from) ==
  \A m \in 1 .. Len(n), k \in 1 .. Len(c) : k >= from => StartIn(p, n[m]) <= StartIn(p, c[k])

\* Every entry of a closure carries the start s, and none stands at the first instruction.
Carrying(p, k, s, start) ==
  \A e \in 1 .. Len(s) : s[e].pc # 1 /\ EntryStart(p, k, s[e]) = start

\* But a seed's first entry, which has none yet.
SeedEntry == Entry(1, IF capture_free THEN 0 ELSE npos_block)

\* What the loop keeps of the pool p, the threads c and n of the two lists, the closure's
\* stack s and start k, where control stands (a, and w for the list it fills), the position x
\* and the thread m.
OrderIn(p, c, n, s, k, a, w, x, m) ==
  /\ Rising(p, c) /\ Rising(p, n) /\ UpTo(p, c, x) /\ UpTo(p, n, x)
  /\ a = "closure" /\ w = "clist" =>
       /\ capture_free => k = x
       /\ Carrying(p, k, s, x) \/ s = <<SeedEntry>>
  /\ a = "closure" /\ w = "nlist" =>
       /\ m - 1 \in 1 .. Len(c)
       /\ Carrying(p, k, s, StartIn(p, c[m - 1]))
       /\ Before(p, n, c, m - 1)
  /\ a = "step" => Before(p, n, c, m)

Order == OrderIn(pool, clist.threads, nlist.threads, stack, carried, at, into, pos, i)

LEMMA OrderArrives ==
  ASSUME UNCHANGED search, NEW p, NEW c, NEW n, NEW s, NEW k, NEW a, NEW w, NEW x, NEW m,
         p = pool', c = clist'.threads, n = nlist'.threads, s = stack', k = carried',
         a = at', w = into', x = pos', m = i', OrderIn(p, c, n, s, k, a, w, x, m)
  PROVE  Order'
  BY Kept DEF Order, OrderIn, Rising, UpTo, Before, Carrying, StartIn, EntryStart, SeedEntry, Entry

-----------------------------------------------------------------------------
(* The first instruction.                                                  *)

LEMMA SeedFacts ==
  ASSUME search \in Searches
  PROVE  /\ 1 \in DOMAIN code /\ code[1].op = "save" /\ code[1].slot = 0
         /\ \A pc \in DOMAIN code :
              /\ 1 \notin Successors(code, pc)
              /\ pc # 1 /\ code[pc].op \in {"save"} \cup Possessive => code[pc].slot # 0
  <1>1. SavesStartFirst(search.program)
    BY StartAssumption
  <1>2. 1 \in DOMAIN code
    BY CallFacts
  <1>3. QED
    BY <1>1, <1>2 DEF SavesStartFirst, code, prog

\* No instruction hands control back to the first.
LEMMA WaysOnFacts ==
  ASSUME search \in Searches, NEW pc \in DOMAIN code
  PROVE  /\ code[pc].op = "jump" => code[pc].primary # 1
         /\ code[pc].op = "split" => code[pc].primary # 1 /\ code[pc].secondary # 1
         /\ code[pc].op \in Possessive => code[pc].secondary # 1
         /\ code[pc].op \in {"save", "assert_position", "assert_lookaround"} => pc + 1 # 1
  <1>1. 1 \notin EpsilonSuccessors(code, pc)
    BY SeedFacts DEF Successors
  <1>2. code[pc].op \in Possessive => EpsilonSuccessors(code, pc) = {code[pc].secondary}
    BY DEF EpsilonSuccessors, Possessive
  <1>3. code[pc].op = "jump" => EpsilonSuccessors(code, pc) = {code[pc].primary}
    BY DEF EpsilonSuccessors, Possessive
  <1>4. code[pc].op = "split" => EpsilonSuccessors(code, pc) = {code[pc].primary, code[pc].secondary}
    BY DEF EpsilonSuccessors, Possessive
  <1>5. code[pc].op \in {"save", "assert_position", "assert_lookaround"} =>
          EpsilonSuccessors(code, pc) = {pc + 1}
    BY DEF EpsilonSuccessors, Possessive
  <1>6. QED
    BY <1>1, <1>2, <1>3, <1>4, <1>5

-----------------------------------------------------------------------------
(* Pools in which held blocks keep their starts.                           *)

\* A start is kept by every block something refers to.
Keeps(p, q) ==
  ~capture_free => \A b \in BlocksOf(p) : Count(p, b) >= 1 => q.data[b][0] = p.data[b][0]

\* Starts are compared as integers.
LEMMA StartsFit ==
  ASSUME search \in Searches, NEW p, PoolOK(p), NEW t, t.carry \in CarryIn(p)
  PROVE  StartIn(p, t) \in Int
  <1>1. size \in Nat /\ 0 \in Slots
    BY CallFacts
  <1>2. CASE capture_free
    BY <1>1, <1>2 DEF StartIn, CarryIn
  <1>3. CASE ~capture_free
    <2>1. p.data[t.carry] \in Blocks
      BY <1>3, ExactFacts DEF CarryIn, PoolOK, BlocksOf
    <2>2. p.data[t.carry][0] \in npos .. size
      BY <1>1, <2>1 DEF Blocks
    <2>3. QED
      BY <1>1, <1>3, <2>2 DEF StartIn, npos
  <1>4. QED
    BY <1>2, <1>3

LEMMA ThreadStarts ==
  ASSUME VMInv, NEW t \in {clist.threads, nlist.threads}
  PROVE  Len(t) \in Nat /\ \A k \in 1 .. Len(t) : StartIn(pool, t[k]) \in Int
  <1>1. search \in Searches /\ PoolOK(pool) /\ t \in Seq(ThreadsIn(pool))
    BY Parts, ListFacts
  <1>2. Len(t) \in Nat /\ \A k \in 1 .. Len(t) : t[k] \in ThreadsIn(pool)
    BY <1>1, LenProperties, ElementOfSeq
  <1>3. \A k \in 1 .. Len(t) : t[k].carry \in CarryIn(pool)
    BY <1>2 DEF ThreadsIn
  <1>4. QED
    BY <1>1, <1>2, <1>3, StartsFit

\* A thread's or an entry's block is held.
LEMMA HeldThreads ==
  ASSUME VMInv, at # "done", ~capture_free,
         NEW t \in {clist.threads, nlist.threads, stack}, NEW k \in 1 .. Len(t)
  PROVE  t[k].carry \in BlocksOf(pool) /\ Count(pool, t[k].carry) >= 1
  <1>1. /\ clist.threads \in Seq(ThreadsIn(pool)) /\ nlist.threads \in Seq(ThreadsIn(pool))
        /\ stack \in Seq(ThreadsIn(pool)) /\ t \in Seq(ThreadsIn(pool))
        /\ Balance(pool, clist.threads, nlist.threads, stack)
    BY Parts, ListFacts
  <1>2. PICK b : b = t[k].carry
    OBVIOUS
  <1>3. b \in BlocksOf(pool)
    <2>1. t[k] \in ThreadsIn(pool)
      BY <1>1, ElementOfSeq
    <2>2. QED
      BY <1>2, <2>1 DEF ThreadsIn, CarryIn
  <1>4. PICK c, n, s, o \in Nat : /\ c = Held(clist.threads, b) /\ n = Held(nlist.threads, b)
                                  /\ s = Held(stack, b) /\ o = One(b, npos_block)
    BY <1>1, HeldFacts DEF One
  <1>5. Held(t, b) >= 1
    BY <1>1, <1>2, HeldFacts
  <1>6. c >= 1 \/ n >= 1 \/ s >= 1
    BY <1>4, <1>5
  <1>7. Count(pool, b) = c + n + s + o
    BY <1>1, <1>3, <1>4 DEF Balance
  <1>8. PICK x : x = c + n + s + o
    OBVIOUS
  <1>9. x >= 1
    BY <1>6, <1>8
  <1>10. QED
    BY <1>2, <1>3, <1>7, <1>8, <1>9

LEMMA KeptStarts ==
  ASSUME VMInv, at # "done", NEW q, Keeps(pool, q),
         NEW t \in {clist.threads, nlist.threads, stack}, NEW k \in 1 .. Len(t)
  PROVE  /\ StartIn(q, t[k]) = StartIn(pool, t[k])
         /\ \A s : EntryStart(q, s, t[k]) = EntryStart(pool, s, t[k])
  <1>1. CASE capture_free
    BY <1>1 DEF StartIn, EntryStart
  <1>2. CASE ~capture_free
    <2>1. t[k].carry \in BlocksOf(pool) /\ Count(pool, t[k].carry) >= 1
      BY <1>2, HeldThreads
    <2>2. q.data[t[k].carry][0] = pool.data[t[k].carry][0]
      BY <1>2, <2>1 DEF Keeps
    <2>3. QED
      BY <1>2, <2>2 DEF StartIn, EntryStart
  <1>3. QED
    BY <1>1, <1>2

\* Two lists whose threads started at the same positions, one by one.
SameStarts(p, t, q, u) ==
  Len(u) = Len(t) /\ \A k \in 1 .. Len(t) : StartIn(q, u[k]) = StartIn(p, t[k])

LEMMA SameOrder ==
  ASSUME NEW p, NEW q, NEW t, NEW u, SameStarts(p, t, q, u)
  PROVE  /\ Rising(p, t) => Rising(q, u)
         /\ \A s : UpTo(p, t, s) => UpTo(q, u, s)
         /\ \A n, m, from : SameStarts(p, n, q, m) /\ Before(p, n, t, from) => Before(q, m, u, from)
  BY DEF SameStarts, Rising, UpTo, Before

LEMMA KeptLists ==
  ASSUME VMInv, at # "done", NEW q, Keeps(pool, q), NEW t \in {clist.threads, nlist.threads}
  PROVE  SameStarts(pool, t, q, t)
  BY KeptStarts DEF SameStarts

\* A list without threads is in order.
LEMMA NoneOrder ==
  ASSUME NEW p, NEW t, t = <<>>
  PROVE  /\ Rising(p, t) /\ \A s : UpTo(p, t, s)
         /\ \A c, from : Before(p, t, c, from)
  <1>1. Len(t) = 0
    BY EmptySeq
  <1>2. QED
    BY <1>1 DEF Rising, UpTo, Before

\* Later positions, and threads further on, ask less.
LEMMA LaterOrder ==
  ASSUME VMInv, NEW t \in {clist.threads, nlist.threads}, NEW x \in Int, NEW y \in Int, x <= y
  PROVE  /\ UpTo(pool, t, x) => UpTo(pool, t, y)
         /\ \A n : Before(pool, n, t, x) => Before(pool, n, t, y)
  <1>1. UpTo(pool, t, x) => UpTo(pool, t, y)
    BY ThreadStarts DEF UpTo
  <1>2. \A k \in 1 .. Len(t) : k >= y => k >= x
    OBVIOUS
  <1>3. QED
    BY <1>1, <1>2 DEF Before

-----------------------------------------------------------------------------
(* Steps that leave the threads and their starts as they are.              *)

\* Only the position, the thread that steps and where control stands move.
LEMMA QuietOrder ==
  ASSUME VMInv, Order, UNCHANGED <<search, stack, pool, into>>, carried' = carried,
         clist'.threads = clist.threads, nlist'.threads = nlist.threads,
         pos' \in Int, pos' >= pos, i' \in Int,
         at' # "closure",
         at' = "step" => Before(pool, nlist.threads, clist.threads, i')
  PROVE  Order'
  <1>1. PICK p, c, n, s, k, a, w, x, m :
          /\ p = pool' /\ c = clist'.threads /\ n = nlist'.threads /\ s = stack' /\ k = carried'
          /\ a = at' /\ w = into' /\ x = pos' /\ m = i'
    OBVIOUS
  <1>2. p = pool /\ c = clist.threads /\ n = nlist.threads /\ pos \in Int /\ x \in Int /\ pos <= x
    BY <1>1, Parts, CallFacts DEF Control
  <1>3. Rising(p, c) /\ Rising(p, n) /\ UpTo(p, c, x) /\ UpTo(p, n, x)
    BY <1>2, LaterOrder DEF Order, OrderIn
  <1>4. OrderIn(p, c, n, s, k, a, w, x, m)
    BY <1>1, <1>2, <1>3 DEF OrderIn
  <1>5. QED
    BY <1>1, <1>4, OrderArrives

LEMMA LoopOrder ==
  ASSUME VMInv, Order, Exhausted \/ NoSeed \/ NoThread \/ BeginStep \/ ClosureDone
  PROVE  Order'
  <1>1. pos \in Int /\ i \in Int /\ size \in Int
    BY Parts, CallFacts DEF Control
  <1>2. CASE Exhausted
    BY <1>1, <1>2, QuietOrder DEF Exhausted, clist, nlist
  <1>3. CASE NoSeed
    <2>1. /\ Arrival \in pos .. size /\ pos' = Arrival /\ at' = "check"
          /\ UNCHANGED <<search, i, into, stack, carried, pool>>
      BY <1>3, ArrivalFits DEF NoSeed
    <2>2. clist'.threads = clist.threads /\ nlist'.threads = nlist.threads
      <3>1. lists' = [lists EXCEPT !.clist = IF Skipping THEN EmptyList ELSE @]
        BY <1>3 DEF NoSeed
      <3>2. lists = [clist |-> clist, nlist |-> nlist]
        BY Parts
      <3>3. QED
        BY <3>1, <3>2 DEF clist, nlist, Skipping, EmptyList
    <2>3. QED
      BY <1>1, <2>1, <2>2, QuietOrder
  <1>4. CASE NoThread
    <2>1. clist'.threads = clist.threads /\ nlist'.threads = nlist.threads
      <3>1. clist.threads = <<>> /\ (lists' = lists \/ lists' = [lists EXCEPT !.clist = EmptyList])
        BY <1>4 DEF NoThread
      <3>2. lists = [clist |-> clist, nlist |-> nlist]
        BY Parts
      <3>3. QED
        BY <3>1, <3>2 DEF clist, nlist, EmptyList
    <2>2. /\ pos' \in {pos, pos + 1} /\ at' \in {"drain", "loop"}
          /\ UNCHANGED <<search, i, into, stack, carried, pool>>
      BY <1>4 DEF NoThread
    <2>3. pos' \in Int /\ pos' >= pos
      BY <1>1, <2>2
    <2>4. QED
      BY <1>1, <2>1, <2>2, <2>3, QuietOrder
  <1>5. CASE BeginStep
    <2>1. /\ at = "check" /\ at' = "step" /\ i' = 1
          /\ UNCHANGED <<search, pos, lists, into, stack, carried, pool>>
      BY <1>5 DEF BeginStep
    <2>2. Before(pool, nlist.threads, clist.threads, 1)
      BY <2>1, Parts, NoneOrder DEF Rests, Stepped
    <2>3. QED
      BY <1>1, <2>1, <2>2, QuietOrder DEF clist, nlist
  <1>6. CASE ClosureDone
    <2>1. /\ at = "closure" /\ at' = IF into = "clist" THEN "check" ELSE "step"
          /\ UNCHANGED <<search, pos, i, lists, into, stack, carried, pool>>
      BY <1>6 DEF ClosureDone
    <2>2. into = "nlist" => Before(pool, nlist.threads, clist.threads, i)
      <3>1. into = "nlist" => Before(pool, nlist.threads, clist.threads, i - 1)
        BY <2>1 DEF Order, OrderIn
      <3>2. i - 1 \in Int /\ i - 1 <= i
        BY <1>1
      <3>3. QED
        BY <1>1, <3>1, <3>2, LaterOrder
    <2>3. into \in {"clist", "nlist"}
      BY Parts DEF Control
    <2>4. QED
      BY <1>1, <2>1, <2>2, <2>3, QuietOrder DEF clist, nlist
  <1>7. QED
    BY <1>2, <1>3, <1>4, <1>5, <1>6

LEMMA ThreadEndsOrder ==
  ASSUME VMInv, Order, Die \/ Reject \/ MatchFirst \/ MatchLongest
  PROVE  Order'
  <1>1. /\ at = "step" /\ i <= Len(clist.threads) /\ i' \in {i + 1, Len(clist.threads) + 1}
        /\ UNCHANGED <<search, pos>> /\ UNCHANGED <<at, lists, into, stack, carried, pool>>
    BY DEF Die, Reject, MatchFirst, MatchLongest, Stepping
  <1>2. i \in Int /\ pos \in Int /\ Len(clist.threads) \in Nat
    BY Parts, CallFacts, ListFacts DEF Control
  <1>3. i' \in Int /\ i <= i'
    BY <1>1, <1>2
  <1>4. Before(pool, nlist.threads, clist.threads, i)
    BY <1>1 DEF Order, OrderIn
  <1>5. Before(pool, nlist.threads, clist.threads, i')
    <2>1. PICK m \in Int : m = i' /\ i <= m
      BY <1>3
    <2>2. Before(pool, nlist.threads, clist.threads, m)
      BY <1>2, <1>4, <2>1, LaterOrder
    <2>3. QED
      BY <2>1, <2>2
  <1>6. QED
    BY <1>1, <1>2, <1>3, <1>5, QuietOrder DEF clist, nlist

-----------------------------------------------------------------------------
(* Writes to the pool keep the starts of the blocks that are held.         *)

LEMMA DataKeeps ==
  ASSUME NEW p, NEW q, q.data = p.data
  PROVE  Keeps(p, q)
  BY DEF Keeps

\* A write of another slot than 0, or to a block that is not the writer's.
LEMMA WrittenKeeps ==
  ASSUME NEW p, PoolOK(p), NEW b \in BlocksOf(p), NEW block, NEW q, NEW v, Written(p, b, block, q, v),
         block = b => v[0] = p.data[b][0]
  PROVE  /\ \A c \in BlocksOf(p) : Count(p, c) >= 1 =>
              /\ q.data[c][0] = p.data[c][0]
              /\ c \in BlocksOf(q) /\ Count(q, c) >= 1
         /\ block \in BlocksOf(q) /\ Count(q, block) >= 1 /\ q.data[block] = v
  <1>1. /\ BlocksOf(q) = BlocksOf(p) \cup {block} /\ q.data[block] = v
        /\ \A c \in BlocksOf(p) : c # block => q.data[c] = p.data[c]
        /\ \A c : Count(q, c) = Count(p, c) - One(b, c) + One(block, c)
        /\ IF block = b THEN Count(p, b) = 1 ELSE Count(p, block) = 0 /\ Count(p, b) >= 2
    BY DEF Written
  <1>2. ASSUME NEW c \in BlocksOf(p), Count(p, c) >= 1
        PROVE  q.data[c][0] = p.data[c][0] /\ c \in BlocksOf(q) /\ Count(q, c) >= 1
    <2>1. PICK x, o, o1 \in Nat : x = Count(p, c) /\ o = One(b, c) /\ o1 = One(block, c)
      BY CountNat DEF One
    <2>2. Count(q, c) = x - o + o1
      BY <1>1, <2>1
    <2>3. CASE c = block
      <3>1. c = b
        BY <1>1, <1>2, <2>3
      <3>2. o = 1 /\ o1 = 1
        BY <2>1, <2>3, <3>1 DEF One
      <3>3. Count(q, c) = x
        BY <2>2, <3>2
      <3>4. QED
        BY <1>1, <1>2, <2>1, <2>3, <3>1, <3>3
    <2>4. CASE c # block
      <3>1. o1 = 0 /\ q.data[c] = p.data[c]
        BY <1>1, <2>1, <2>4 DEF One
      <3>2. CASE c = b
        <4>1. o = 1 /\ x >= 2
          BY <1>1, <2>1, <2>4, <3>2 DEF One
        <4>2. x - o + o1 >= 1
          BY <3>1, <4>1
        <4>3. QED
          BY <1>1, <2>2, <3>1, <4>2
      <3>3. CASE c # b
        <4>1. o = 0 /\ x >= 1
          BY <1>2, <2>1, <3>3 DEF One
        <4>2. x - o + o1 >= 1
          BY <3>1, <4>1
        <4>3. QED
          BY <1>1, <2>2, <3>1, <4>2
      <3>4. QED
        BY <3>2, <3>3
    <2>5. QED
      BY <2>3, <2>4
  <1>3. Count(q, block) >= 1
    <2>1. CASE block = b
      BY <1>1, <2>1 DEF One
    <2>2. CASE block # b
      BY <1>1, <2>2 DEF One
    <2>3. QED
      BY <2>1, <2>2
  <1>4. QED
    BY <1>1, <1>2, <1>3

\* A repetition's slots are never slot 0 or reach it.
LEMMA TierKeeps ==
  ASSUME NEW p, PoolOK(p), NEW b, Referred(p, b), NEW slot, slot \in Slots, slot + 1 \in Slots,
         slot # 0, pos \in npos .. size, NEW end \in npos .. size,
         NEW block, NEW q,
         block = tier1_capture_on_match(p, b, slot, end).block,
         q = tier1_capture_on_match(p, b, slot, end).pool
  PROVE  Keeps(p, q) /\ q.data[block][0] = p.data[b][0]
  <1>1. PICK b1, p1 : /\ b1 = cow_write(p, b, slot, pos).block
                      /\ p1 = cow_write(p, b, slot, pos).pool
    OBVIOUS
  <1>2. /\ block = cow_write(p1, b1, slot + 1, end).block
        /\ q = cow_write(p1, b1, slot + 1, end).pool
    BY <1>1 DEF tier1_capture_on_match
  <1>3. PICK v : v = [p.data[b] EXCEPT ![slot] = pos]
    OBVIOUS
  <1>4. Written(p, b, b1, p1, v)
    BY <1>1, <1>3, CowFacts
  <1>5. b \in BlocksOf(p) /\ p.data[b] \in Blocks /\ slot + 1 # 0
    <2>1. b \in BlocksOf(p)
      BY DEF Referred
    <2>2. slot + 1 # 0
      BY DEF Slots
    <2>3. QED
      BY <2>1, <2>2, SlotWritten
  <1>6. v[0] = p.data[b][0]
    BY <1>3, <1>5 DEF Blocks
  <1>7. /\ \A c \in BlocksOf(p) : Count(p, c) >= 1 =>
             /\ p1.data[c][0] = p.data[c][0]
             /\ c \in BlocksOf(p1) /\ Count(p1, c) >= 1
        /\ b1 \in BlocksOf(p1) /\ Count(p1, b1) >= 1 /\ p1.data[b1] = v
    BY <1>4, <1>5, <1>6, WrittenKeeps
  <1>8. PoolOK(p1) /\ b1 # npos_block
    BY <1>4 DEF Written
  <1>9. Referred(p1, b1)
    BY <1>7, <1>8 DEF Referred, Count
  <1>10. PICK w : w = [p1.data[b1] EXCEPT ![slot + 1] = end]
    OBVIOUS
  <1>11. Written(p1, b1, block, q, w)
    BY <1>2, <1>8, <1>9, <1>10, CowFacts
  <1>12. w[0] = p1.data[b1][0]
    <2>1. p1.data[b1] \in Blocks
      BY <1>7, <1>8, SlotWritten
    <2>2. QED
      BY <1>5, <1>10, <2>1 DEF Blocks
  <1>13. /\ \A c \in BlocksOf(p1) : Count(p1, c) >= 1 => q.data[c][0] = p1.data[c][0]
         /\ q.data[block] = w
    BY <1>7, <1>8, <1>11, <1>12, WrittenKeeps
  <1>14. Keeps(p, q)
    BY <1>7, <1>13 DEF Keeps
  <1>15. QED
    BY <1>6, <1>7, <1>12, <1>13, <1>14

-----------------------------------------------------------------------------
(* The closure's walk: every entry, and so every thread it adds, carries   *)
(* the start the closure began with.                                       *)

ClosureStart == IF into = "clist" THEN pos ELSE StartIn(pool, clist.threads[i - 1])

\* It is no less than those of the list it fills, and no greater than those still to step.
LEMMA ClosureFacts ==
  ASSUME VMInv, Order, at = "closure"
  PROVE  /\ ClosureStart \in Int /\ ClosureStart <= pos /\ pos \in Int /\ into \in {"clist", "nlist"}
         /\ UpTo(pool, lists[into].threads, ClosureStart)
         /\ lists[into].threads \in {clist.threads, nlist.threads}
         /\ into = "nlist" =>
              /\ i - 1 \in 1 .. Len(clist.threads)
              /\ \A k \in 1 .. Len(clist.threads) :
                   k >= i - 1 => ClosureStart <= StartIn(pool, clist.threads[k])
  <1>1. pos \in Int /\ into \in {"clist", "nlist"}
    BY Parts, CallFacts DEF Control
  <1>2. CASE into = "clist"
    <2>1. ClosureStart = pos /\ lists[into].threads = clist.threads
      BY <1>2 DEF ClosureStart, clist
    <2>2. UpTo(pool, clist.threads, pos)
      BY DEF Order, OrderIn
    <2>3. QED
      BY <1>1, <1>2, <2>1, <2>2
  <1>3. CASE into = "nlist"
    <2>1. PICK c, n, j : c = clist.threads /\ n = nlist.threads /\ j = i - 1
      OBVIOUS
    <2>2. /\ j \in 1 .. Len(c) /\ Before(pool, n, c, j) /\ Rising(pool, c) /\ UpTo(pool, c, pos)
      BY <1>3, <2>1 DEF Order, OrderIn
    <2>3. ClosureStart = StartIn(pool, c[j]) /\ lists[into].threads = n
      BY <1>3, <2>1 DEF ClosureStart, nlist
    <2>4. StartIn(pool, c[j]) \in Int /\ Len(c) \in Nat
      BY <2>1, <2>2, ThreadStarts
    <2>5. StartIn(pool, c[j]) <= pos
      BY <2>2 DEF UpTo
    <2>6. \A k \in 1 .. Len(c) : k >= j => StartIn(pool, c[j]) <= StartIn(pool, c[k])
      BY <2>2 DEF Rising
    <2>7. UpTo(pool, n, StartIn(pool, c[j]))
      BY <2>2, <2>4 DEF UpTo, Before
    <2>8. QED
      BY <1>1, <1>3, <2>1, <2>2, <2>3, <2>4, <2>5, <2>6, <2>7
  <1>4. QED
    BY <1>1, <1>2, <1>3

\* A thread with that start at the end of a list.
LEMMA GrownOrder ==
  ASSUME NEW p, NEW q, NEW S, NEW t \in Seq(S), NEW x \in S, NEW start \in Int,
         SameStarts(p, t, q, t), Rising(p, t), UpTo(p, t, start), StartIn(q, x) = start,
         \A k \in 1 .. Len(t) : StartIn(p, t[k]) \in Int,
         NEW u, u = Append(t, x)
  PROVE  /\ Rising(q, u) /\ UpTo(q, u, start)
         /\ \A k \in 1 .. Len(u) : StartIn(q, u[k]) \in Int
  <1>1. PICK n \in Nat : n = Len(t)
    BY LenProperties
  <1>2. Len(u) = n + 1 /\ (\A k \in 1 .. n : u[k] = t[k]) /\ u[n + 1] = x
    BY <1>1, AppendProperties
  <1>3. \A k \in 1 .. n : /\ StartIn(q, u[k]) = StartIn(p, t[k]) /\ StartIn(p, t[k]) \in Int
                          /\ StartIn(p, t[k]) <= start
    BY <1>1, <1>2 DEF SameStarts, UpTo
  <1>4. \A k \in 1 .. n + 1 : k \in 1 .. n \/ k = n + 1
    OBVIOUS
  <1>5. UpTo(q, u, start) /\ \A k \in 1 .. Len(u) : StartIn(q, u[k]) \in Int
    BY <1>2, <1>3, <1>4 DEF UpTo
  <1>6. ASSUME NEW j \in 1 .. n + 1, NEW k \in 1 .. n + 1, j <= k
        PROVE  StartIn(q, u[j]) <= StartIn(q, u[k])
    <2>1. CASE k = n + 1
      BY <1>2, <1>5, <2>1 DEF UpTo
    <2>2. CASE k \in 1 .. n
      <3>1. j \in 1 .. n
        BY <1>6, <2>2
      <3>2. StartIn(p, t[j]) <= StartIn(p, t[k])
        BY <1>1, <1>6, <2>2, <3>1 DEF Rising
      <3>3. QED
        BY <1>3, <2>2, <3>1, <3>2
    <2>3. QED
      BY <1>4, <2>1, <2>2
  <1>7. QED
    BY <1>2, <1>5, <1>6 DEF Rising

\* The list filled keeps its threads, or gains one that carries the closure's start.
Fills(q, t, u) ==
  u = t \/ \E x \in ThreadsIn(pool) : u = Append(t, x) /\ StartIn(q, x) = ClosureStart

LEMMA FillOrder ==
  ASSUME VMInv, Order, at = "closure", NEW q, Keeps(pool, q),
         NEW u, Fills(q, lists[into].threads, u)
  PROVE  Rising(q, u) /\ UpTo(q, u, ClosureStart) /\ \A k \in 1 .. Len(u) : StartIn(q, u[k]) \in Int
  <1>1. PICK t, start : t = lists[into].threads /\ start = ClosureStart
    OBVIOUS
  <1>2. /\ t \in {clist.threads, nlist.threads} /\ start \in Int /\ UpTo(pool, t, start)
    BY <1>1, ClosureFacts
  <1>3. SameStarts(pool, t, q, t) /\ \A k \in 1 .. Len(t) : StartIn(pool, t[k]) \in Int
    BY <1>2, KeptLists, ThreadStarts
  <1>4. Rising(pool, t)
    BY <1>2 DEF Order, OrderIn
  <1>5. t \in Seq(ThreadsIn(pool))
    BY <1>2, Parts, ListFacts
  <1>6. CASE u = t
    BY <1>1, <1>2, <1>3, <1>4, <1>6, SameOrder DEF SameStarts
  <1>7. CASE u # t
    <2>1. PICK x \in ThreadsIn(pool) : u = Append(t, x) /\ StartIn(q, x) = start
      BY <1>1, <1>7 DEF Fills
    <2>2. QED
      BY <1>1, <1>2, <1>3, <1>4, <1>5, <2>1, GrownOrder
  <1>8. QED
    BY <1>6, <1>7

LEMMA VisitedOrder ==
  ASSUME VMInv, Order, at = "closure", UNCHANGED search, UNCHANGED <<at, pos, i, into>>,
         NEW q, q = pool', Keeps(pool, q),
         NEW l, lists' = [lists EXCEPT ![into] = l], Fills(q, lists[into].threads, l.threads),
         NEW k, k = carried', capture_free /\ into = "clist" => k = pos,
         NEW s, s = stack', Carrying(q, k, s, ClosureStart)
  PROVE  Order'
  <1>1. PICK start, u, c, n, c1, n1 :
          /\ start = ClosureStart /\ u = l.threads /\ c = clist.threads /\ n = nlist.threads
          /\ c1 = clist'.threads /\ n1 = nlist'.threads
    OBVIOUS
  <1>2. PICK x, m, a, w : x = pos' /\ m = i' /\ a = at' /\ w = into'
    OBVIOUS
  <1>3. /\ start \in Int /\ start <= x /\ x \in Int /\ w \in {"clist", "nlist"} /\ w = into
        /\ m = i /\ x = pos /\ a = "closure"
    BY <1>1, <1>2, ClosureFacts
  <1>4. Rising(q, u) /\ UpTo(q, u, start) /\ \A j \in 1 .. Len(u) : StartIn(q, u[j]) \in Int
    BY <1>1, FillOrder
  <1>5. UpTo(q, u, x)
    BY <1>3, <1>4 DEF UpTo
  <1>6. /\ Rising(q, c) /\ UpTo(q, c, x) /\ Rising(q, n) /\ UpTo(q, n, x)
        /\ SameStarts(pool, c, q, c)
    <2>1. SameStarts(pool, c, q, c) /\ SameStarts(pool, n, q, n)
      BY <1>1, KeptLists
    <2>2. Rising(pool, c) /\ UpTo(pool, c, x) /\ Rising(pool, n) /\ UpTo(pool, n, x)
      BY <1>1, <1>3 DEF Order, OrderIn
    <2>3. QED
      BY <2>1, <2>2, SameOrder
  <1>7. c1 = (IF w = "clist" THEN u ELSE c) /\ n1 = (IF w = "nlist" THEN u ELSE n)
    <2>1. lists = [clist |-> clist, nlist |-> nlist]
      BY Parts
    <2>2. QED
      BY <1>1, <1>3, <2>1 DEF clist, nlist
  <1>8. CASE w = "clist"
    <2>1. start = x
      BY <1>1, <1>3, <1>8 DEF ClosureStart
    <2>2. OrderIn(q, c1, n1, s, k, a, w, x, m)
      BY <1>1, <1>3, <1>4, <1>5, <1>6, <1>7, <1>8, <2>1 DEF OrderIn
    <2>3. QED
      BY <1>1, <1>2, <2>2, OrderArrives
  <1>9. CASE w = "nlist"
    <2>1. PICK j : j = m - 1
      OBVIOUS
    <2>2. /\ j \in 1 .. Len(c) /\ start = StartIn(pool, c[j])
          /\ \A h \in 1 .. Len(c) : h >= j => start <= StartIn(pool, c[h])
      BY <1>1, <1>3, <1>9, <2>1, ClosureFacts DEF ClosureStart
    <2>3. \A h \in 1 .. Len(c) : StartIn(q, c[h]) = StartIn(pool, c[h]) /\ StartIn(pool, c[h]) \in Int
      BY <1>1, <1>6, ThreadStarts DEF SameStarts
    <2>4. start = StartIn(q, c[j])
      BY <2>2, <2>3
    <2>5. Before(q, u, c, j)
      BY <1>3, <1>4, <2>2, <2>3 DEF Before, UpTo
    <2>6. OrderIn(q, c1, n1, s, k, a, w, x, m)
      BY <1>1, <1>3, <1>4, <1>5, <1>6, <1>7, <1>9, <2>1, <2>2, <2>4, <2>5 DEF OrderIn
    <2>7. QED
      BY <1>1, <1>2, <2>6, OrderArrives
  <1>10. QED
    BY <1>3, <1>8, <1>9

\* The entry visited carries that start, unless it is a seed's first.
LEMMA TopStart ==
  ASSUME VMInv, Order, at = "closure", stack # <<>>
  PROVE  /\ capture_free => carried = ClosureStart
         /\ \/ top = SeedEntry /\ into = "clist" /\ Len(Front(stack)) = 0
            \/ Carrying(pool, carried, stack, ClosureStart)
         /\ top.pc # 1 /\ ~capture_free => pool.data[top.carry][0] = ClosureStart
         /\ top.pc = 1 => top = SeedEntry /\ into = "clist"
  <1>1. PICK n \in Nat : n = Len(stack)
    BY Parts, LenProperties
  <1>2. n \in 1 .. n /\ top = stack[n] /\ Len(Front(stack)) = n - 1
    <2>1. stack \in Seq(ThreadsIn(pool))
      BY Parts
    <2>2. n # 0
      BY <1>1, <2>1, EmptySeq
    <2>3. Last(stack) = stack[Len(stack)] /\ Len(Front(stack)) = Len(stack) - 1
      BY <2>1, FrontFacts
    <2>4. n \in 1 .. n
      BY <2>2
    <2>5. QED
      BY <1>1, <2>3, <2>4 DEF top
  <1>3. into \in {"clist", "nlist"}
    BY ClosureFacts
  <1>4. CASE into = "clist" /\ stack = <<SeedEntry>>
    <2>1. n = 1 /\ stack[1] = SeedEntry
      BY <1>1, <1>4
    <2>2. top = SeedEntry /\ Len(Front(stack)) = 0
      BY <1>2, <2>1
    <2>3. SeedEntry.pc = 1
      BY DEF SeedEntry, Entry
    <2>4. capture_free => carried = ClosureStart
      BY <1>4 DEF Order, OrderIn, ClosureStart
    <2>5. QED
      BY <1>4, <2>2, <2>3, <2>4
  <1>5. CASE ~(into = "clist" /\ stack = <<SeedEntry>>)
    <2>1. Carrying(pool, carried, stack, ClosureStart)
      BY <1>3, <1>5 DEF Order, OrderIn, ClosureStart
    <2>2. top.pc # 1 /\ EntryStart(pool, carried, top) = ClosureStart
      BY <1>1, <1>2, <2>1 DEF Carrying
    <2>3. QED
      BY <2>1, <2>2 DEF EntryStart
  <1>6. QED
    BY <1>4, <1>5

LEMMA FrontCarries ==
  ASSUME VMInv, Order, at = "closure", stack # <<>>, NEW q, Keeps(pool, q)
  PROVE  Carrying(q, carried, Front(stack), ClosureStart)
  <1>1. PICK f, start : f = Front(stack) /\ start = ClosureStart
    OBVIOUS
  <1>2. CASE Len(f) = 0
    BY <1>1, <1>2 DEF Carrying
  <1>3. CASE Len(f) # 0
    <2>1. Carrying(pool, carried, stack, start)
      BY <1>1, <1>3, TopStart
    <2>2. PICK n \in Nat : n = Len(stack)
      BY Parts, LenProperties
    <2>3. Len(f) = n - 1 /\ \A e \in 1 .. n - 1 : f[e] = stack[e]
      BY <1>1, <2>2, Parts, FrontFacts
    <2>4. ASSUME NEW e \in 1 .. n - 1
          PROVE  f[e].pc # 1 /\ EntryStart(q, carried, f[e]) = start
      <3>1. e \in 1 .. Len(stack) /\ f[e] = stack[e]
        BY <2>2, <2>3
      <3>2. stack[e].pc # 1 /\ EntryStart(pool, carried, stack[e]) = start
        BY <2>1, <3>1 DEF Carrying
      <3>3. EntryStart(q, carried, stack[e]) = EntryStart(pool, carried, stack[e])
        BY <3>1, KeptStarts
      <3>4. QED
        BY <3>1, <3>2, <3>3
    <2>5. QED
      BY <1>1, <2>3, <2>4 DEF Carrying
  <1>4. QED
    BY <1>2, <1>3

LEMMA PushCarries ==
  ASSUME NEW q, NEW k, NEW S, NEW f \in Seq(S), NEW start, Carrying(q, k, f, start),
         NEW pc, NEW carry, pc # 1, Entry(pc, carry) \in S,
         IF capture_free THEN k = start ELSE q.data[carry][0] = start
  PROVE  Carrying(q, k, Append(f, Entry(pc, carry)), start)
  <1>1. PICK e, s, n : e = Entry(pc, carry) /\ s = Append(f, e) /\ n = Len(f)
    OBVIOUS
  <1>2. e.pc # 1 /\ EntryStart(q, k, e) = start
    BY <1>1 DEF Entry, EntryStart
  <1>3. n \in Nat /\ Len(s) = n + 1 /\ (\A j \in 1 .. n : s[j] = f[j]) /\ s[n + 1] = e
    BY <1>1, AppendProperties, LenProperties
  <1>4. \A j \in 1 .. n + 1 : j \in 1 .. n \/ j = n + 1
    BY <1>3
  <1>5. \A j \in 1 .. n : f[j].pc # 1 /\ EntryStart(q, k, f[j]) = start
    BY <1>1 DEF Carrying
  <1>6. \A j \in 1 .. n + 1 : s[j].pc # 1 /\ EntryStart(q, k, s[j]) = start
    BY <1>2, <1>3, <1>4, <1>5
  <1>7. QED
    BY <1>1, <1>3, <1>6 DEF Carrying

\* A visit that adds no thread.
LEMMA WalkOrder ==
  ASSUME VMInv, Order, at = "closure", stack # <<>>, UNCHANGED search,
         UNCHANGED <<at, pos, i, into>>, lists' \in {lists, Mark}, carried' = carried,
         NEW q, q = pool', Keeps(pool, q), NEW s, s = stack', Carrying(q, carried, s, ClosureStart)
  PROVE  Order'
  <1>1. PICK l : l = IF lists' = lists THEN lists[into]
                     ELSE [threads |-> lists[into].threads, seen |-> lists[into].seen \cup {top.pc}]
    OBVIOUS
  <1>2. lists' = [lists EXCEPT ![into] = l] /\ l.threads = lists[into].threads
    BY <1>1, MarkFacts
  <1>3. Fills(q, lists[into].threads, l.threads)
    BY <1>2 DEF Fills
  <1>4. capture_free /\ into = "clist" => carried = pos
    BY DEF Order, OrderIn
  <1>5. PICK k : k = carried /\ k = carried'
    OBVIOUS
  <1>6. QED
    BY <1>2, <1>3, <1>4, <1>5, VisitedOrder

LEMMA DropOrder ==
  ASSUME VMInv, Order, at = "closure", stack # <<>>, UNCHANGED search,
         UNCHANGED <<at, pos, i, into, carried>>, lists' \in {lists, Mark},
         stack' = Front(stack), pool' = Release(pool, top.carry)
  PROVE  Order'
  <1>1. PICK q, s : q = pool' /\ s = stack' /\ q = Release(pool, top.carry) /\ s = Front(stack)
    OBVIOUS
  <1>2. Keeps(pool, q)
    BY <1>1, TopFacts, ReleaseOneFacts, DataKeeps
  <1>3. Carrying(q, carried, s, ClosureStart)
    BY <1>1, <1>2, FrontCarries
  <1>4. QED
    BY <1>1, <1>2, <1>3, WalkOrder

LEMMA ContinueOrder ==
  ASSUME VMInv, Order, at = "closure", stack # <<>>, UNCHANGED search,
         UNCHANGED <<at, pos, i, into>>, lists' \in {lists, Mark}, carried' = carried,
         NEW q, q = pool', Keeps(pool, q), NEW pc, NEW carry, Continue(pc, carry), pc # 1,
         ~capture_free => q.data[carry][0] = ClosureStart
  PROVE  Order'
  <1>1. PICK f, s, S : f = Front(stack) /\ s = stack' /\ s = Append(f, Entry(pc, carry))
                       /\ S = ThreadsIn(pool) \cup {Entry(pc, carry)}
    BY DEF Continue
  <1>2. f \in Seq(S) /\ Entry(pc, carry) \in S
    BY <1>1, TopFacts, SeqMonotonic
  <1>3. Carrying(q, carried, f, ClosureStart)
    BY <1>1, FrontCarries
  <1>4. IF capture_free THEN carried = ClosureStart ELSE q.data[carry][0] = ClosureStart
    BY TopStart
  <1>5. Carrying(q, carried, s, ClosureStart)
    BY <1>1, <1>2, <1>3, <1>4, PushCarries
  <1>6. QED
    BY <1>1, <1>5, WalkOrder

LEMMA MoveOnOrder ==
  ASSUME VMInv, Order, at = "closure", stack # <<>>, UNCHANGED search,
         UNCHANGED <<at, pos, i, into>>, lists' \in {lists, Mark}, UNCHANGED <<carried, pool>>,
         NEW pc, Continue(pc, top.carry), pc # 1, top.pc # 1
  PROVE  Order'
  <1>1. PICK q, carry : q = pool /\ q = pool' /\ carry = top.carry
    OBVIOUS
  <1>2. Keeps(pool, q)
    BY <1>1, DataKeeps
  <1>3. ~capture_free => q.data[carry][0] = ClosureStart
    BY <1>1, TopStart
  <1>4. QED
    BY <1>1, <1>2, <1>3, ContinueOrder

LEMMA VisitOrder ==
  ASSUME VMInv, Order, VisitSeen \/ VisitJump \/ VisitLoopExit \/ VisitAssertion
  PROVE  Order'
  <1>1. CASE VisitSeen
    <2>1. /\ at = "closure" /\ stack # <<>> /\ stack' = Front(stack) /\ lists' = lists
          /\ pool' = Release(pool, top.carry)
          /\ UNCHANGED search /\ UNCHANGED <<at, pos, i, into, carried>>
      BY <1>1 DEF VisitSeen
    <2>2. QED
      BY <2>1, DropOrder
  <1>2. ASSUME NEW ops, Visiting(ops), "save" \notin ops
        PROVE  /\ at = "closure" /\ stack # <<>> /\ top.pc \in DOMAIN code /\ code[top.pc].op \in ops
               /\ top.pc # 1 /\ search \in Searches
               /\ UNCHANGED search /\ UNCHANGED <<at, pos, i, into>>
    BY <1>2, VisitFacts, SeedFacts, Parts
  <1>3. CASE VisitJump
    <2>1. PICK target, entered : target = JumpTarget(code, top.pc, entered) /\ entered = Mark[into].seen
      OBVIOUS
    <2>2. /\ Visiting({"jump"}) /\ lists' = Mark /\ UNCHANGED <<carried, pool>>
          /\ Continue(target, top.carry)
      BY <1>3, <2>1 DEF VisitJump
    <2>3. /\ at = "closure" /\ stack # <<>> /\ top.pc \in DOMAIN code /\ code[top.pc].op = "jump"
          /\ top.pc # 1 /\ search \in Searches
          /\ UNCHANGED search /\ UNCHANGED <<at, pos, i, into>>
      BY <1>2, <2>2
    <2>4. entered \in SUBSET DOMAIN code
      BY <2>1, <2>3, MarkFacts DEF ListOK
    <2>5. \A h \in DOMAIN code : code[h].op = "jump" => code[h].primary \in DOMAIN code
      BY <2>3, ProgramFacts
    <2>6. \/ target = code[top.pc].primary
          \/ \E h \in entered : code[h].op = "split" /\ target = code[h].secondary
      BY <2>1, <2>3, <2>4, <2>5, JumpTargetFacts
    <2>7. target # 1
      <3>1. \A h \in DOMAIN code : code[h].op = "split" => code[h].secondary # 1
        BY <2>3, WaysOnFacts
      <3>2. code[top.pc].primary # 1
        BY <2>3, WaysOnFacts
      <3>3. QED
        BY <2>4, <2>6, <3>1, <3>2
    <2>8. QED
      BY <2>2, <2>3, <2>7, MoveOnOrder
  <1>4. CASE VisitLoopExit
    <2>1. /\ Visiting(Possessive) /\ lists' = Mark /\ UNCHANGED <<carried, pool>>
          /\ Continue(code[top.pc].secondary, top.carry)
      BY <1>4 DEF VisitLoopExit
    <2>2. "save" \notin Possessive
      BY DEF Possessive
    <2>3. /\ at = "closure" /\ stack # <<>> /\ top.pc # 1 /\ code[top.pc].secondary # 1
          /\ UNCHANGED search /\ UNCHANGED <<at, pos, i, into>>
      BY <1>2, <2>1, <2>2, WaysOnFacts
    <2>4. QED
      BY <2>1, <2>3, MoveOnOrder
  <1>5. CASE VisitAssertion
    <2>1. /\ Visiting({"assert_position", "assert_lookaround"}) /\ lists' = Mark
          /\ UNCHANGED carried
      BY <1>5 DEF VisitAssertion
    <2>2. /\ at = "closure" /\ stack # <<>> /\ top.pc # 1 /\ top.pc + 1 # 1
          /\ UNCHANGED search /\ UNCHANGED <<at, pos, i, into>>
      BY <1>2, <2>1, WaysOnFacts
    <2>3. \/ Continue(top.pc + 1, top.carry) /\ UNCHANGED pool
          \/ stack' = Front(stack) /\ pool' = Release(pool, top.carry)
      BY <1>5 DEF VisitAssertion
    <2>4. CASE Continue(top.pc + 1, top.carry) /\ UNCHANGED pool
      BY <2>1, <2>2, <2>4, MoveOnOrder
    <2>5. CASE stack' = Front(stack) /\ pool' = Release(pool, top.carry)
      BY <2>1, <2>2, <2>5, DropOrder
    <2>6. QED
      BY <2>3, <2>4, <2>5
  <1>6. QED
    BY <1>1, <1>3, <1>4, <1>5

LEMMA VisitSplitOrder ==
  ASSUME VMInv, Order, VisitSplit
  PROVE  Order'
  <1>1. /\ Visiting({"split"}) /\ lists' = Mark /\ UNCHANGED carried
        /\ pool' = Share(pool, top.carry)
        /\ stack' = Append(Append(Front(stack), Entry(code[top.pc].secondary, top.carry)),
                           Entry(code[top.pc].primary, top.carry))
    BY DEF VisitSplit
  <1>2. /\ at = "closure" /\ stack # <<>> /\ top.pc \in DOMAIN code /\ code[top.pc].op = "split"
        /\ search \in Searches /\ UNCHANGED search /\ UNCHANGED <<at, pos, i, into>>
    BY <1>1, VisitFacts, Parts
  <1>3. top.pc # 1 /\ code[top.pc].primary # 1 /\ code[top.pc].secondary # 1
    BY <1>2, SeedFacts, WaysOnFacts
  <1>4. PICK q, carry, f, first, second :
          /\ q = pool' /\ carry = top.carry /\ q = Share(pool, carry) /\ f = Front(stack)
          /\ first = Entry(code[top.pc].primary, carry)
          /\ second = Entry(code[top.pc].secondary, carry)
    BY <1>1
  <1>5. PICK m, s : m = Append(f, second) /\ s = Append(m, first) /\ s = stack'
    BY <1>1, <1>4
  <1>6. q.data = pool.data
    <2>1. ~capture_free => carry \in BlocksOf(pool) /\ pool.refcount[carry] >= 1
      BY <1>2, <1>4, TopFacts DEF Referred
    <2>2. QED
      BY <1>2, <1>4, <2>1, TopFacts, ShareFacts
  <1>7. Keeps(pool, q)
    BY <1>6, DataKeeps
  <1>8. Carrying(q, carried, f, ClosureStart)
    BY <1>2, <1>4, <1>7, FrontCarries
  <1>9. IF capture_free THEN carried = ClosureStart ELSE q.data[carry][0] = ClosureStart
    BY <1>2, <1>3, <1>4, <1>6, TopStart
  <1>10. PICK S : S = ThreadsIn(pool) \cup {first, second}
    OBVIOUS
  <1>11. f \in Seq(S) /\ first \in S /\ second \in S
    BY <1>2, <1>4, <1>10, TopFacts, SeqMonotonic
  <1>12. m \in Seq(S)
    BY <1>5, <1>11, AppendProperties
  <1>13. Carrying(q, carried, m, ClosureStart)
    BY <1>3, <1>4, <1>5, <1>8, <1>9, <1>11, PushCarries
  <1>14. Carrying(q, carried, s, ClosureStart)
    <2>1. PICK pc : pc = code[top.pc].primary /\ pc # 1 /\ first = Entry(pc, carry)
      BY <1>3, <1>4
    <2>2. Carrying(q, carried, Append(m, Entry(pc, carry)), ClosureStart)
      BY <1>9, <1>11, <1>12, <1>13, <2>1, PushCarries
    <2>3. QED
      BY <1>5, <2>1, <2>2
  <1>15. QED
    BY <1>1, <1>2, <1>4, <1>5, <1>7, <1>14, WalkOrder

\* The first instruction gives a seed's entry its start, the position its closure runs at.
LEMMA VisitSaveOrder ==
  ASSUME VMInv, Order, VisitSave
  PROVE  Order'
  <1>1. Visiting({"save"}) /\ lists' = Mark
    BY DEF VisitSave
  <1>2. PICK slot : slot = code[top.pc].slot
    OBVIOUS
  <1>3. /\ at = "closure" /\ stack # <<>> /\ top.pc \in DOMAIN code /\ code[top.pc].op = "save"
        /\ search \in Searches /\ UNCHANGED search /\ UNCHANGED <<at, pos, i, into>>
        /\ slot \in Slots /\ here \in 0 .. size /\ size \in Nat /\ 0 \in Slots
    BY <1>1, <1>2, VisitFacts, TopFacts, Parts, ProgramFacts, CallFacts
  <1>4. top.pc + 1 # 1 /\ (slot = 0 <=> top.pc = 1)
    BY <1>2, <1>3, SeedFacts, WaysOnFacts
  <1>5. slot = 0 => top = SeedEntry /\ into = "clist"
    BY <1>3, <1>4, TopStart
  <1>6. slot = 0 => here = ClosureStart
    BY <1>5 DEF here, ClosureStart
  <1>7. CASE capture_free
    <2>1. /\ Continue(top.pc + 1, top.carry) /\ UNCHANGED pool
          /\ carried' = IF slot = 0 THEN here ELSE carried
      BY <1>2, <1>7 DEF VisitSave
    <2>2. carried' = carried
      BY <1>3, <1>6, <1>7, <2>1, TopStart
    <2>3. PICK q, pc, carry : q = pool /\ q = pool' /\ pc = top.pc + 1 /\ carry = top.carry
      BY <2>1
    <2>4. Keeps(pool, q)
      BY <2>3, DataKeeps
    <2>5. QED
      BY <1>1, <1>3, <1>4, <1>7, <2>1, <2>2, <2>3, <2>4, ContinueOrder
  <1>8. CASE ~capture_free
    <2>1. PICK b, block, q : /\ b = top.carry /\ block = cow_write(pool, b, slot, here).block
                             /\ q = cow_write(pool, b, slot, here).pool
      OBVIOUS
    <2>2. Continue(top.pc + 1, block) /\ pool' = q /\ UNCHANGED carried
      BY <1>2, <1>8, <2>1 DEF VisitSave
    <2>3. PoolOK(pool) /\ Referred(pool, b) /\ here \in npos .. size /\ b \in BlocksOf(pool)
      BY <1>3, <1>8, <2>1, TopFacts DEF npos, Referred
    <2>4. PICK v : v = [pool.data[b] EXCEPT ![slot] = here]
      OBVIOUS
    <2>5. Written(pool, b, block, q, v)
      BY <1>3, <2>1, <2>3, <2>4, CowFacts
    <2>6. v[0] = IF slot = 0 THEN here ELSE pool.data[b][0]
      <3>1. pool.data[b] \in Blocks
        BY <1>3, <2>3, SlotWritten
      <3>2. QED
        BY <1>3, <2>4, <3>1 DEF Blocks
    <2>7. block = b => v[0] = pool.data[b][0]
      <3>1. block # npos_block
        BY <2>5 DEF Written
      <3>2. slot = 0 => b = npos_block
        BY <1>5, <1>8, <2>1 DEF SeedEntry, Entry
      <3>3. QED
        BY <2>6, <3>1, <3>2
    <2>8. Keeps(pool, q) /\ q.data[block] = v
      BY <2>3, <2>5, <2>7, WrittenKeeps DEF Keeps
    <2>9. v[0] = ClosureStart
      BY <1>3, <1>4, <1>6, <1>8, <2>1, <2>6, TopStart
    <2>10. PICK pc : pc = top.pc + 1
      OBVIOUS
    <2>11. QED
      BY <1>1, <1>3, <1>4, <2>2, <2>8, <2>9, <2>10, ContinueOrder
  <1>9. QED
    BY <1>7, <1>8

LEMMA VisitLeafOrder ==
  ASSUME VMInv, Order, VisitLeaf
  PROVE  Order'
  <1>1. PICK t : t = Entry(top.pc, IF capture_free THEN carried ELSE top.carry)
    OBVIOUS
  <1>2. /\ Visiting(Consuming \cup Possessive \cup {"match"}) /\ UNCHANGED <<carried, pool>>
        /\ lists' = [Mark EXCEPT ![into].threads = Append(@, t)]
        /\ stack' = Front(stack)
    BY <1>1 DEF VisitLeaf
  <1>3. "save" \notin Consuming \cup Possessive \cup {"match"}
    BY DEF Consuming, Possessive
  <1>4. /\ at = "closure" /\ stack # <<>> /\ top.pc \in DOMAIN code /\ into \in {"clist", "nlist"}
        /\ top.pc # 1 /\ top.carry \in CarryIn(pool)
        /\ UNCHANGED search /\ UNCHANGED <<at, pos, i, into>> /\ (capture_free => carried \in 0 .. size)
    BY <1>2, <1>3, VisitFacts, TopFacts, SeedFacts, Parts
  <1>5. PICK threads, marked, grown :
          /\ threads = lists[into].threads /\ marked = lists[into].seen \cup {top.pc}
          /\ grown = Append(threads, t)
    OBVIOUS
  <1>6. PICK l : l = [threads |-> grown, seen |-> marked]
    OBVIOUS
  <1>7. lists' = [lists EXCEPT ![into] = l]
    <2>1. lists = [clist |-> clist, nlist |-> nlist]
      BY Parts
    <2>2. PICK marks : marks = [threads |-> threads, seen |-> marked]
      OBVIOUS
    <2>3. Mark = [lists EXCEPT ![into] = marks] /\ Mark[into] = marks
      BY <1>4, <1>5, <2>2, MarkFacts
    <2>4. marks.threads = threads
      BY <2>2
    <2>5. lists' = [Mark EXCEPT ![into] = [marks EXCEPT !.threads = grown]]
      BY <1>2, <1>5, <2>3, <2>4
    <2>6. [marks EXCEPT !.threads = grown] = [threads |-> grown, seen |-> marked]
      BY <2>2
    <2>7. QED
      BY <1>4, <1>6, <2>1, <2>3, <2>5, <2>6
  <1>8. PICK q, k, s : /\ q = pool /\ q = pool' /\ k = carried /\ k = carried'
                       /\ s = stack' /\ s = Front(stack)
    BY <1>2
  <1>9. Keeps(pool, q)
    BY <1>8, DataKeeps
  <1>10. Carrying(q, k, s, ClosureStart)
    BY <1>4, <1>8, <1>9, FrontCarries
  <1>11. t \in ThreadsIn(pool)
    BY <1>1, <1>4 DEF ThreadsIn, CarryIn, Entry
  <1>12. StartIn(q, t) = ClosureStart
    BY <1>1, <1>4, <1>8, TopStart DEF StartIn, Entry
  <1>13. Fills(q, lists[into].threads, l.threads)
    BY <1>5, <1>6, <1>11, <1>12 DEF Fills
  <1>14. capture_free /\ into = "clist" => k = pos
    BY <1>4, <1>8 DEF Order, OrderIn
  <1>15. QED
    BY <1>4, <1>7, <1>8, <1>9, <1>10, <1>13, <1>14, VisitedOrder

-----------------------------------------------------------------------------
(* Steps that start a closure, and the loop's round.                       *)

\* A thread's closure starts with one entry, which carries its start.
LEMMA LaunchCarries ==
  ASSUME NEW q, NEW list, NEW pc, NEW carry, add_thread(list, pc, carry), NEW s, s = stack',
         NEW k, k = carried', NEW start,
         pc # 1, start = IF capture_free THEN carry ELSE q.data[carry][0]
  PROVE  at' = "closure" /\ into' = list /\ Carrying(q, k, s, start)
  <1>1. PICK e : e = Entry(pc, IF capture_free THEN 0 ELSE carry)
    OBVIOUS
  <1>2. /\ at' = "closure" /\ into' = list /\ s = <<e>>
        /\ k = IF capture_free THEN carry ELSE npos
    BY <1>1 DEF add_thread
  <1>3. e.pc # 1 /\ EntryStart(q, k, e) = start
    BY <1>1, <1>2 DEF Entry, EntryStart
  <1>4. Len(s) = 1 /\ s[1] = e
    BY <1>2
  <1>5. \A j \in 1 .. 1 : j = 1
    OBVIOUS
  <1>6. Carrying(q, k, s, start)
    BY <1>3, <1>4, <1>5 DEF Carrying
  <1>7. QED
    BY <1>2, <1>6

LEMMA SeedOrder ==
  ASSUME VMInv, Order, Seed
  PROVE  Order'
  <1>1. /\ at = "loop" /\ pos <= size /\ Arrival # npos /\ pos' = Arrival
        /\ lists' = [lists EXCEPT !.clist = IF Skipping THEN EmptyList ELSE @]
        /\ pool' = Share(pool, npos_block)
        /\ add_thread("clist", 1, IF capture_free THEN Arrival ELSE npos_block)
        /\ UNCHANGED <<search, i, matched, out_slots>>
    BY DEF Seed
  <1>2. PICK q, c, n, s, k, a, w, x, m :
          /\ q = pool' /\ c = clist'.threads /\ n = nlist'.threads /\ s = stack' /\ k = carried'
          /\ a = at' /\ w = into' /\ x = pos' /\ m = i'
    OBVIOUS
  <1>3. x \in Int /\ pos \in Int /\ pos <= x /\ x = Arrival
    BY <1>1, <1>2, ArrivalFits, Parts, CallFacts DEF Control
  <1>4. c = clist.threads /\ n = nlist.threads /\ n = <<>>
    <2>1. lists = [clist |-> clist, nlist |-> nlist] /\ nlist.threads = <<>>
      BY <1>1, Parts DEF Rests, Stepped
    <2>2. QED
      BY <1>1, <1>2, <2>1 DEF clist, nlist, Skipping, EmptyList
  <1>5. Keeps(pool, q)
    <2>1. PoolOK(pool) /\ npos_block \in BlocksOf(pool) /\ pool.refcount[npos_block] >= 1
      BY Parts, ExactFacts DEF PoolOK, Exact, BlocksOf, npos_block
    <2>2. QED
      BY <1>1, <1>2, <2>1, ShareFacts, DataKeeps
  <1>6. Rising(q, c) /\ UpTo(q, c, x)
    <2>1. UpTo(pool, c, x)
      BY <1>3, <1>4, LaterOrder DEF Order, OrderIn
    <2>2. SameStarts(pool, c, q, c)
      BY <1>1, <1>4, <1>5, KeptLists
    <2>3. QED
      BY <1>4, <2>1, <2>2, SameOrder DEF Order, OrderIn
  <1>7. Rising(q, n) /\ UpTo(q, n, x)
    BY <1>4, NoneOrder
  <1>8. /\ a = "closure" /\ w = "clist" /\ s = <<SeedEntry>> /\ (capture_free => k = x)
    BY <1>1, <1>2, <1>3 DEF add_thread, SeedEntry
  <1>9. OrderIn(q, c, n, s, k, a, w, x, m)
    BY <1>6, <1>7, <1>8 DEF OrderIn
  <1>10. QED
    BY <1>1, <1>2, <1>9, OrderArrives

\* A byte taken: the thread hands its start, in the block it writes if it writes one, to the
\* closure of the instruction after.
LEMMA LaunchOrder ==
  ASSUME VMInv, Order, at = "step", UNCHANGED search, pos' = pos, i' = i + 1,
         i \in 1 .. Len(clist.threads),
         NEW q, q.data = pool'.data, Keeps(pool, q), NEW block,
         IF capture_free THEN block = thread.carry
                         ELSE q.data[block][0] = pool.data[thread.carry][0],
         NEW c, c = clist'.threads, SameStarts(pool, clist.threads, q, c),
         nlist'.threads = nlist.threads,
         NEW pc, pc # 1, add_thread("nlist", pc, block)
  PROVE  Order'
  <1>1. PICK p, n, s, k, a, w, x, m :
          /\ p = pool' /\ n = nlist.threads /\ s = stack' /\ k = carried'
          /\ a = at' /\ w = into' /\ x = pos' /\ m = i'
    OBVIOUS
  <1>2. PICK start : start = IF capture_free THEN block ELSE p.data[block][0]
    OBVIOUS
  <1>3. at' = "closure" /\ into' = "nlist" /\ Carrying(p, k, s, start)
    BY <1>1, <1>2, LaunchCarries
  <1>4. start = StartIn(pool, clist.threads[i])
    BY <1>1, <1>2 DEF StartIn, thread
  <1>5. SameStarts(pool, clist.threads, p, c)
    BY <1>1 DEF SameStarts, StartIn
  <1>6. SameStarts(pool, n, p, n)
    <2>1. SameStarts(pool, n, q, n)
      BY <1>1, KeptLists
    <2>2. QED
      BY <1>1, <2>1 DEF SameStarts, StartIn
  <1>7. Rising(p, c) /\ Rising(p, n) /\ UpTo(p, c, x) /\ UpTo(p, n, x) /\ Before(p, n, c, i)
    BY <1>1, <1>5, <1>6, SameOrder DEF Order, OrderIn
  <1>8. PICK j : j = m - 1
    OBVIOUS
  <1>9. j = i /\ j \in 1 .. Len(c)
    BY <1>1, <1>5, <1>8 DEF SameStarts
  <1>10. start = StartIn(p, c[j])
    BY <1>4, <1>5, <1>9 DEF SameStarts
  <1>11. OrderIn(p, c, n, s, k, a, w, x, m)
    BY <1>1, <1>3, <1>7, <1>8, <1>9, <1>10 DEF OrderIn
  <1>12. QED
    BY <1>1, <1>11, OrderArrives

\* The byte's continuation is not the first instruction.
LEMMA AdvancedPast ==
  ASSUME VMInv, at = "step", i <= Len(clist.threads),
         code[thread.pc].op \in Consuming \cup Possessive,
         NEW pc \in Advanced(code, text, thread.pc, pos)
  PROVE  pc # 1
  <1>1. search \in Searches /\ thread.pc \in DOMAIN code /\ pos \in Nat
    BY ThreadFacts, Parts
  <1>2. text \in Seq(Bytes) /\ thread.pc \in Nat
    BY <1>1, CallFacts
  <1>3. pc \in Successors(code, thread.pc)
    BY <1>1, <1>2, AdvancedFits
  <1>4. QED
    BY <1>1, <1>3, SeedFacts

LEMMA ConsumeOrder ==
  ASSUME VMInv, Order, Consume
  PROVE  Order'
  <1>1. /\ at = "step" /\ i <= Len(clist.threads) /\ code[thread.pc].op \in Consuming
        /\ UNCHANGED <<search, pos>> /\ lists' = lists /\ advance_thread(thread.carry, pool)
    BY DEF Consume, Stepping, instruction
  <1>2. PICK pc : /\ pc \in Advanced(code, text, thread.pc, pos)
                  /\ add_thread("nlist", pc, thread.carry)
                  /\ pool' = Share(pool, thread.carry) /\ i' = i + 1
    BY <1>1 DEF advance_thread
  <1>3. i \in 1 .. Len(clist.threads) /\ pc # 1
    BY <1>1, <1>2, ThreadFacts, AdvancedPast
  <1>4. PICK q, c, block : q = pool /\ c = clist.threads /\ c = clist'.threads /\ block = thread.carry
    BY <1>1 DEF clist
  <1>5. q.data = pool'.data
    <2>1. ~capture_free => thread.carry \in BlocksOf(pool) /\ pool.refcount[thread.carry] >= 1
      BY <1>1, ThreadReferred DEF Referred
    <2>2. PoolOK(pool)
      BY Parts
    <2>3. QED
      BY <1>2, <1>4, <2>1, <2>2, ShareFacts
  <1>6. Keeps(pool, q) /\ SameStarts(pool, clist.threads, q, c)
    BY <1>4 DEF Keeps, SameStarts
  <1>7. IF capture_free THEN block = thread.carry
                        ELSE q.data[block][0] = pool.data[thread.carry][0]
    BY <1>4
  <1>8. nlist'.threads = nlist.threads /\ pos' = pos /\ UNCHANGED search
    BY <1>1 DEF nlist
  <1>9. QED
    BY <1>1, <1>2, <1>3, <1>4, <1>5, <1>6, <1>7, <1>8, LaunchOrder

\* A thread's block exchanged for one that keeps its start.
LEMMA CarryStarts ==
  ASSUME VMInv, at # "done", NEW q, Keeps(pool, q), NEW m \in 1 .. Len(clist.threads), NEW block,
         IF capture_free THEN block = clist.threads[m].carry
                         ELSE q.data[block][0] = pool.data[clist.threads[m].carry][0]
  PROVE  SameStarts(pool, clist.threads, q, WithCarry(clist, m, block).threads)
  <1>1. PICK t, n, x, u : /\ t = clist.threads /\ n = Len(t) /\ x = [t[m] EXCEPT !.carry = block]
                          /\ u = [t EXCEPT ![m] = x]
    OBVIOUS
  <1>2. t \in Seq(ThreadsIn(pool)) /\ DOMAIN t = 1 .. n /\ n \in Nat /\ t[m] \in ThreadsIn(pool)
    BY <1>1, Parts, ListFacts
  <1>3. WithCarry(clist, m, block).threads = u
    <2>1. clist = [threads |-> clist.threads, seen |-> clist.seen]
      BY Parts DEF ListOK
    <2>2. PICK e : e = clist.seen /\ clist = [threads |-> t, seen |-> e]
      BY <1>1, <2>1
    <2>3. WithCarry(clist, m, block) = [clist EXCEPT !.threads = u]
      BY <1>1 DEF WithCarry
    <2>4. [clist EXCEPT !.threads = u] = [threads |-> u, seen |-> e]
      BY <2>2
    <2>5. QED
      BY <2>3, <2>4
  <1>4. Len(u) = n /\ \A k \in 1 .. n : u[k] = IF k = m THEN x ELSE t[k]
    <2>1. PICK S : S = ThreadsIn(pool) \cup {x}
      OBVIOUS
    <2>2. t \in Seq(S) /\ x \in S
      BY <1>2, <2>1, SeqMonotonic
    <2>3. QED
      BY <1>1, <2>2, ExceptSeq
  <1>5. x.carry = block
    BY <1>1, <1>2 DEF ThreadsIn
  <1>6. StartIn(q, x) = StartIn(pool, t[m])
    BY <1>1, <1>5 DEF StartIn
  <1>7. ASSUME NEW k \in 1 .. n PROVE StartIn(q, u[k]) = StartIn(pool, t[k])
    BY <1>1, <1>4, <1>6, KeptStarts
  <1>8. QED
    BY <1>1, <1>3, <1>4, <1>7 DEF SameStarts

LEMMA ConsumePossessiveOrder ==
  ASSUME VMInv, Order, ConsumePossessive
  PROVE  Order'
  <1> DEFINE slot == instruction.slot
             end == pos + AtomLength(code, text, thread.pc, pos)
             written == IF slot < 0 \/ capture_free
                          THEN [block |-> thread.carry, pool |-> pool]
                          ELSE tier1_capture_on_match(pool, thread.carry, slot, end)
  <1>1. /\ at = "step" /\ i <= Len(clist.threads) /\ code[thread.pc].op \in Possessive
        /\ UNCHANGED <<search, pos>>
        /\ lists' = [lists EXCEPT !.clist.threads[i].carry = written.block]
        /\ advance_thread(written.block, written.pool)
    BY DEF ConsumePossessive, Stepping, instruction
  <1>2. PICK q, block, b : q = written.pool /\ block = written.block /\ b = thread.carry
    OBVIOUS
  <1>3. PICK pc : /\ pc \in Advanced(code, text, thread.pc, pos)
                  /\ add_thread("nlist", pc, block) /\ pool' = Share(q, block) /\ i' = i + 1
    BY <1>1, <1>2 DEF advance_thread
  <1>4. /\ search \in Searches /\ thread.pc \in DOMAIN code /\ i \in 1 .. Len(clist.threads)
        /\ pos \in 0 .. size /\ size \in Nat /\ pc # 1 /\ PoolOK(pool)
    BY <1>1, <1>3, ThreadFacts, AdvancedPast, Parts, CallFacts
  <1>5. text \in Seq(Bytes) /\ pos \in Nat /\ thread.pc \in Nat
    BY <1>4, CallFacts
  <1>6. end \in npos .. size /\ pos \in npos .. size
    <2>1. AtomLength(code, text, thread.pc, pos) \in {1, 2}
          /\ pos + AtomLength(code, text, thread.pc, pos) <= Len(text)
      BY <1>1, <1>3, <1>5, AtomFits
    <2>2. QED
      BY <1>4, <2>1 DEF size, npos
  <1>7. /\ Keeps(pool, q) /\ PoolOK(q) /\ (~capture_free => block \in BlocksOf(q) /\ q.refcount[block] >= 1)
        /\ IF capture_free THEN block = b ELSE q.data[block][0] = pool.data[b][0]
    <2>1. CASE slot < 0 \/ capture_free
      <3>1. q = pool /\ block = b
        BY <1>2, <2>1
      <3>2. ~capture_free => Referred(pool, b)
        BY <1>1, <1>2, ThreadReferred
      <3>3. QED
        BY <1>4, <3>1, <3>2 DEF Keeps, Referred
    <2>2. CASE ~(slot < 0 \/ capture_free)
      <3>1. /\ block = tier1_capture_on_match(pool, b, slot, end).block
            /\ q = tier1_capture_on_match(pool, b, slot, end).pool
        BY <1>2, <2>2
      <3>2. slot \in Slots /\ slot + 1 \in Slots
        BY <1>1, <1>4, <2>2, ProgramFacts DEF instruction
      <3>3. slot # 0
        <4>1. thread.pc # 1
          BY <1>1, <1>4, SeedFacts DEF Possessive
        <4>2. QED
          BY <1>1, <1>4, <4>1, SeedFacts DEF instruction
      <3>4. Referred(pool, b) /\ ~capture_free
        BY <1>1, <1>2, <2>2, ThreadReferred
      <3> HIDE DEF slot, end, written
      <3>5. Keeps(pool, q) /\ q.data[block][0] = pool.data[b][0]
        BY <1>4, <1>6, <3>1, <3>2, <3>3, <3>4, TierKeeps
      <3>6. PoolOK(q) /\ block \in BlocksOf(q) /\ q.refcount[block] >= 1
        BY <1>4, <1>6, <3>1, <3>2, <3>4, TierFacts
      <3>7. QED
        BY <3>4, <3>5, <3>6
    <2>3. QED
      BY <2>1, <2>2
  <1> HIDE DEF slot, end, written
  <1>8. PICK c : c = WithCarry(clist, i, block).threads
    OBVIOUS
  <1>9. SameStarts(pool, clist.threads, q, c)
    BY <1>1, <1>2, <1>4, <1>7, <1>8, CarryStarts DEF thread
  <1>10. c = clist'.threads /\ nlist'.threads = nlist.threads
    <2>1. lists = [clist |-> clist, nlist |-> nlist]
      BY Parts
    <2>2. lists' = [lists EXCEPT !.clist = WithCarry(clist, i, block)]
      BY <1>1, <1>2, <2>1 DEF WithCarry
    <2>3. QED
      BY <1>8, <2>1, <2>2 DEF clist, nlist
  <1>11. q.data = pool'.data
    BY <1>3, <1>7, ShareFacts
  <1>12. IF capture_free THEN block = thread.carry
                         ELSE q.data[block][0] = pool.data[thread.carry][0]
    BY <1>2, <1>7
  <1>13. UNCHANGED search /\ pos' = pos
    BY <1>1
  <1>14. QED
    BY <1>1, <1>3, <1>4, <1>7, <1>9, <1>10, <1>11, <1>12, <1>13, LaunchOrder

\* The next list's threads, and their starts, are the current one's.
LEMMA RotateOrder ==
  ASSUME VMInv, Order, Rotate
  PROVE  Order'
  <1>1. /\ at = "step" /\ at' = "loop" /\ pos' = pos + 1
        /\ lists' = [clist |-> nlist, nlist |-> EmptyList]
        /\ pool' = cow_release_blocks(pool, clist)
        /\ UNCHANGED <<search, i, into, stack, carried, matched, out_slots>>
    BY DEF Rotate
  <1>2. PICK q, c, n, s, k, a, w, x, m :
          /\ q = pool' /\ c = clist'.threads /\ n = nlist'.threads /\ s = stack' /\ k = carried'
          /\ a = at' /\ w = into' /\ x = pos' /\ m = i'
    OBVIOUS
  <1>3. /\ PoolOK(pool) /\ ListOK(clist, pool) /\ nlist.threads \in Seq(ThreadsIn(pool))
        /\ stack = <<>> /\ pos \in Int
    BY <1>1, Parts, ListFacts, CallFacts DEF Rests, Control
  <1>4. ~capture_free => Balance(pool, clist.threads, nlist.threads, <<>>)
    BY <1>1, <1>3, Parts
  <1>5. Keeps(pool, q)
    BY <1>1, <1>2, <1>3, <1>4, GiveBackFacts, DataKeeps DEF GivenBack
  <1>6. c = nlist.threads /\ n = <<>>
    BY <1>1, <1>2 DEF clist, nlist, EmptyList
  <1>7. UpTo(pool, c, x)
    <2>1. x \in Int /\ pos <= x
      BY <1>1, <1>2, <1>3
    <2>2. QED
      BY <1>3, <1>6, <2>1, LaterOrder DEF Order, OrderIn
  <1>8. Rising(q, c) /\ UpTo(q, c, x)
    <2>1. SameStarts(pool, c, q, c)
      BY <1>1, <1>5, <1>6, KeptLists
    <2>2. QED
      BY <1>6, <1>7, <2>1, SameOrder DEF Order, OrderIn
  <1>9. Rising(q, n) /\ UpTo(q, n, x)
    BY <1>6, NoneOrder
  <1>10. OrderIn(q, c, n, s, k, a, w, x, m)
    BY <1>1, <1>2, <1>8, <1>9 DEF OrderIn
  <1>11. QED
    BY <1>1, <1>2, <1>10, OrderArrives

LEMMA DrainOrder ==
  ASSUME VMInv, Order, Drain
  PROVE  Order'
  <1>1. /\ at = "drain" /\ at' = "done"
        /\ pool' = cow_release_blocks(cow_release_blocks(pool, clist), nlist)
        /\ UNCHANGED <<search, pos, i, lists, into, stack, carried, matched, out_slots>>
    BY DEF Drain
  <1>2. PICK p, q, c, n, s, k, a, w, x, m :
          /\ p = cow_release_blocks(pool, clist) /\ q = pool' /\ q = cow_release_blocks(p, nlist)
          /\ c = clist'.threads /\ n = nlist'.threads /\ s = stack' /\ k = carried'
          /\ a = at' /\ w = into' /\ x = pos' /\ m = i'
    BY <1>1
  <1>3. /\ PoolOK(pool) /\ ListOK(clist, pool) /\ ListOK(nlist, pool)
        /\ nlist.threads \in Seq(ThreadsIn(pool)) /\ stack = <<>>
    BY <1>1, Parts, ListFacts DEF Rests
  <1>4. ~capture_free => Balance(pool, clist.threads, nlist.threads, <<>>)
    BY <1>1, <1>3, Parts
  <1>5. GivenBack(pool, clist.threads, nlist.threads, p)
    BY <1>2, <1>3, <1>4, GiveBackFacts
  <1>6. /\ PoolOK(p) /\ BlocksOf(p) = BlocksOf(pool) /\ ListOK(nlist, p) /\ p.data = pool.data
        /\ ~capture_free => Balance(p, nlist.threads, <<>>, <<>>)
    BY <1>3, <1>5, ThreadsGrow DEF GivenBack
  <1>7. PICK e : e = <<>> /\ e \in Seq(ThreadsIn(p))
    BY EmptySeq
  <1>8. ~capture_free => Balance(p, nlist.threads, e, <<>>)
    BY <1>6, <1>7
  <1>9. GivenBack(p, nlist.threads, e, q)
    BY <1>2, <1>6, <1>7, <1>8, GiveBackFacts
  <1>10. Keeps(pool, q)
    BY <1>6, <1>9, DataKeeps DEF GivenBack
  <1>11. c = clist.threads /\ n = nlist.threads /\ x = pos
    BY <1>1, <1>2 DEF clist, nlist
  <1>12. SameStarts(pool, c, q, c) /\ SameStarts(pool, n, q, n)
    BY <1>1, <1>10, <1>11, KeptLists
  <1>13. Rising(q, c) /\ UpTo(q, c, x) /\ Rising(q, n) /\ UpTo(q, n, x)
    BY <1>11, <1>12, SameOrder DEF Order, OrderIn
  <1>14. OrderIn(q, c, n, s, k, a, w, x, m)
    BY <1>1, <1>2, <1>13 DEF OrderIn
  <1>15. QED
    BY <1>1, <1>2, <1>14, OrderArrives

LEMMA InitialOrder ==
  ASSUME Init
  PROVE  Order
  <1>1. clist.threads = <<>> /\ nlist.threads = <<>> /\ at = "loop"
    BY DEF Init, clist, nlist, EmptyList
  <1>2. QED
    BY <1>1, NoneOrder DEF Order, OrderIn

LEMMA StutterOrder ==
  ASSUME VMInv, Order, UNCHANGED vars
  PROVE  Order'
  <1>1. UNCHANGED <<search, at, pos, i, lists, into, stack, carried, pool, matched, out_slots>>
    BY DEF vars
  <1>2. PICK p, c, n, s, k, a, w, x, m :
          /\ p = pool' /\ c = clist'.threads /\ n = nlist'.threads /\ s = stack' /\ k = carried'
          /\ a = at' /\ w = into' /\ x = pos' /\ m = i'
    OBVIOUS
  <1>3. OrderIn(p, c, n, s, k, a, w, x, m)
    BY <1>1, <1>2 DEF Order, clist, nlist
  <1>4. QED
    BY <1>1, <1>2, <1>3, OrderArrives

-----------------------------------------------------------------------------
(* The theorem.                                                            *)

\* A thread preferred to another never started to the right of it, in either list, whatever
\* the program, the subject and the mode: the first match reached starts leftmost.
THEOREM PreferredNeverLater ==
  Spec => []PreferredStartsFirst
  <1>1. Init => Order
    BY InitialOrder
  <1>2. VMInv /\ Order /\ [Next]_vars => Order'
    <2>1. SUFFICES ASSUME VMInv, Order, [Next]_vars PROVE Order'
      OBVIOUS
    <2>2. CASE Exhausted \/ NoSeed \/ NoThread \/ BeginStep \/ ClosureDone
      BY <2>1, <2>2, LoopOrder
    <2>3. CASE Seed
      BY <2>1, <2>3, SeedOrder
    <2>4. CASE VisitSeen \/ VisitJump \/ VisitLoopExit \/ VisitAssertion
      BY <2>1, <2>4, VisitOrder
    <2>5. CASE VisitSplit
      BY <2>1, <2>5, VisitSplitOrder
    <2>6. CASE VisitSave
      BY <2>1, <2>6, VisitSaveOrder
    <2>7. CASE VisitLeaf
      BY <2>1, <2>7, VisitLeafOrder
    <2>8. CASE Consume
      BY <2>1, <2>8, ConsumeOrder
    <2>9. CASE ConsumePossessive
      BY <2>1, <2>9, ConsumePossessiveOrder
    <2>10. CASE Die \/ Reject \/ MatchFirst \/ MatchLongest
      BY <2>1, <2>10, ThreadEndsOrder
    <2>11. CASE Rotate
      BY <2>1, <2>11, RotateOrder
    <2>12. CASE Drain
      BY <2>1, <2>12, DrainOrder
    <2>13. CASE UNCHANGED vars
      BY <2>1, <2>13, StutterOrder
    <2>14. QED
      BY <2>1, <2>2, <2>3, <2>4, <2>5, <2>6, <2>7, <2>8, <2>9, <2>10, <2>11, <2>12, <2>13 DEF Next
  <1>3. VMInv /\ Order => PreferredStartsFirst
    <2>1. SUFFICES ASSUME VMInv, Order, NEW l \in {clist, nlist},
                          NEW j \in DOMAIN l.threads, NEW k \in DOMAIN l.threads, j <= k
                   PROVE  StartOf(l.threads[j]) <= StartOf(l.threads[k])
      BY DEF PreferredStartsFirst
    <2>2. DOMAIN l.threads = 1 .. Len(l.threads)
      BY <2>1, Parts, ListFacts
    <2>3. Rising(pool, l.threads)
      BY <2>1 DEF Order, OrderIn
    <2>4. StartIn(pool, l.threads[j]) <= StartIn(pool, l.threads[k])
      BY <2>1, <2>2, <2>3 DEF Rising
    <2>5. QED
      BY <2>4 DEF StartIn, StartOf
  <1>4. QED
    BY <1>1, <1>2, <1>3, Inductive, PTL DEF Spec

-----------------------------------------------------------------------------
(* Groups.  What a block has of them, by where its thread stands in the    *)
(* code: a group open there has begun, and any other is whole or unset.    *)

\* The group g of the block d took no part, or lies in what is matched so far and ends by y.
Whole(d, g, y) ==
  \/ d[g] = npos /\ d[g + 1] = npos
  \/ d[0] <= d[g] /\ d[g] <= d[g + 1] /\ d[g + 1] <= y

\* The furthest a slot can be of a thread that stands at pc, at position x.
Reach(program, pc, x) == x + Overhang(program.code, pc)

GroupsFit(program, d, pc, x) ==
  /\ pc \in Proper(program.code)
  /\ pc = 1 => d = Unset(0 .. program.slot_count - 1)
  /\ pc # 1 =>
       /\ \A g \in Groups(program) :
            IF g \in OpenAt(program, pc)
              THEN /\ d[0] <= d[g]
                   /\ d[g] <= Reach(program, pc, x) /\ d[g + 1] <= Reach(program, pc, x)
              ELSE Whole(d, g, Reach(program, pc, x))
       /\ 0 \notin OpenAt(program, pc) => \A s \in 0 .. program.slot_count - 1 : d[s] <= d[1]

LEMMA BracketFacts ==
  ASSUME search \in Searches, NEW pc \in Proper(code)
  PROVE  /\ \A q \in Successors(code, pc) :
              /\ q \in Proper(code)
              /\ OpenAt(prog, q) = IF code[pc].op # "save" THEN OpenAt(prog, pc)
                                   ELSE IF code[pc].slot % 2 = 0
                                     THEN OpenAt(prog, pc) \cup {code[pc].slot}
                                   ELSE OpenAt(prog, pc) \ {code[pc].slot - 1}
         /\ code[pc].op = "save" /\ code[pc].slot % 2 = 1 => code[pc].slot - 1 \in OpenAt(prog, pc)
         /\ code[pc].op \in Possessive /\ ~(code[pc].slot < 0) =>
              code[pc].slot \in Groups(prog) /\ code[pc].slot \notin OpenAt(prog, pc)
         /\ 0 \notin OpenAt(prog, pc) /\ pc # 1 => code[pc].op = "match"
         /\ code[pc].op = "match" => OpenAt(prog, pc) = {}
         /\ Overhang(code, pc) = 1 => code[pc].op \in Consuming
         /\ pc \in DOMAIN code
  <1> USE DEF code
  <1>1. BracketsGroups(prog)
    BY GroupsAssumption DEF prog
  <1> DEFINE open == [q \in Proper(code) |-> OpenAt(prog, q)]
  <1>2. \A q \in Proper(code) : open[q] = OpenAt(prog, q)
    OBVIOUS
  <1> HIDE DEF open
  <1>3. LET in == code[pc]
            past == IF in.op # "save" THEN open[pc]
                    ELSE IF in.slot % 2 = 0 THEN open[pc] \cup {in.slot}
                    ELSE open[pc] \ {in.slot - 1}
        IN /\ \A q \in Successors(code, pc) : q \in Proper(code) /\ open[q] = past
           /\ in.op = "save" /\ in.slot % 2 = 1 => in.slot - 1 \in open[pc]
           /\ in.op \in Possessive /\ ~(in.slot < 0) => in.slot \in Groups(prog) \ open[pc]
           /\ 0 \notin open[pc] /\ pc # 1 => in.op = "match"
           /\ in.op = "match" => open[pc] = {}
           /\ Overhang(code, pc) = 1 => in.op \in Consuming
    BY <1>1 DEF BracketsGroups, open
  <1>4. pc \in DOMAIN code
    BY DEF Proper
  <1>5. QED
    BY <1>2, <1>3, <1>4

\* Groups are named by slots, each with a slot after it.
LEMMA GroupFacts ==
  ASSUME search \in Searches
  PROVE  /\ 1 \in Proper(code) /\ 0 \in Groups(prog) /\ OpenAt(prog, 1) = {}
         /\ \A g \in Groups(prog) : g \in Nat /\ g \in Slots /\ g + 1 \in Slots /\ g % 2 = 0
         /\ \A s \in Slots : s \in Int /\ (s % 2 = 0 => s \in Groups(prog))
                             /\ (s % 2 # 0 => s - 1 \in Groups(prog) /\ s % 2 = 1)
         /\ \A pc : Overhang(code, pc) \in {0, 1} /\ OpenAt(prog, pc) \subseteq Groups(prog)
  <1>1. BracketsGroups(prog)
    BY GroupsAssumption DEF prog
  <1>2. 1 \in Proper(code) /\ \A g \in Groups(prog) : g + 1 \in Slots
    BY <1>1 DEF BracketsGroups, code, Slots
  <1>3. 0 \in Slots
    BY CallFacts
  <1>4. \A g \in Groups(prog) : g \in Nat /\ g \in Slots /\ g % 2 = 0
    BY DEF Groups, Slots
  <1>5. 0 \in Groups(prog)
    BY <1>3 DEF Groups, Slots
  <1>6. ASSUME NEW s \in Slots
        PROVE  /\ s \in Int /\ (s % 2 = 0 => s \in Groups(prog))
               /\ (s % 2 # 0 => s - 1 \in Groups(prog) /\ s % 2 = 1)
    <2>1. prog.slot_count \in Nat
      BY <1>1 DEF BracketsGroups
    <2>2. PICK n \in Nat : n = prog.slot_count
      BY <2>1
    <2>3. s \in 0 .. n - 1 /\ Groups(prog) = {g \in 0 .. n - 1 : g % 2 = 0}
      BY <2>2 DEF Groups, Slots
    <2>4. s \in Int /\ s >= 0 /\ s <= n - 1
      BY <2>3
    <2>5. s % 2 # 0 => s % 2 = 1 /\ (s - 1) % 2 = 0 /\ s - 1 \in 0 .. n - 1
      BY <2>4
    <2>6. QED
      BY <2>3, <2>4, <2>5
  <1>7. \A pc : Overhang(code, pc) \in {0, 1} /\ OpenAt(prog, pc) \subseteq Groups(prog)
    BY DEF Overhang, OpenAt
  <1>8. OpenAt(prog, 1) = {}
    <2>1. {q \in Proper(code) : q < 1 /\ code[q].op = "save"} = {}
      <3>1. \A q \in Proper(code) : q \in 1 .. Len(code) /\ Len(code) \in Nat
        BY CallFacts DEF Proper
      <3>2. QED
        BY <3>1
    <2>2. QED
      BY <2>1 DEF OpenAt, code
  <1>9. QED
    BY <1>2, <1>3, <1>4, <1>5, <1>6, <1>7, <1>8

\* A group whole by y is whole by any later position.
LEMMA WholeLater ==
  ASSUME search \in Searches, NEW d \in Blocks, NEW g \in Groups(prog),
         NEW y \in Int, NEW z \in Int, y <= z, Whole(d, g, y)
  PROVE  Whole(d, g, z)
  <1>1. d[g + 1] \in Int
    BY GroupFacts, CallFacts DEF Blocks, npos
  <1>2. QED
    BY <1>1 DEF Whole

\* A thread goes on at q where the same groups are open, and no nearer than it was.
LEMMA FitOn ==
  ASSUME search \in Searches, NEW d \in Blocks, NEW x \in Int, NEW y \in Int,
         NEW p, GroupsFit(prog, d, p, x), NEW q \in Proper(code), p # 1, q # 1,
         OpenAt(prog, q) = OpenAt(prog, p), Reach(prog, p, x) <= Reach(prog, q, y)
  PROVE  GroupsFit(prog, d, q, y)
  <1>1. PICK r, s \in Int : r = Reach(prog, p, x) /\ s = Reach(prog, q, y)
    BY GroupFacts DEF Reach, code
  <1>2. \A t \in Slots : d[t] \in Int
    BY CallFacts DEF Blocks, npos
  <1>3. ASSUME NEW g \in Groups(prog)
        PROVE  IF g \in OpenAt(prog, q) THEN d[0] <= d[g] /\ d[g] <= s /\ d[g + 1] <= s
                                        ELSE Whole(d, g, s)
    <2>1. d[g] \in Int /\ d[g + 1] \in Int
      BY <1>2, GroupFacts
    <2>2. IF g \in OpenAt(prog, q) THEN d[0] <= d[g] /\ d[g] <= r /\ d[g + 1] <= r
                                   ELSE Whole(d, g, r)
      BY <1>1 DEF GroupsFit, code, Slots
    <2>3. r <= s
      BY <1>1
    <2>4. QED
      BY <2>1, <2>2, <2>3, WholeLater
  <1>4. 0 \notin OpenAt(prog, q) => \A t \in Slots : d[t] <= d[1]
    BY DEF GroupsFit, code, Slots
  <1>5. QED
    BY <1>1, <1>3, <1>4 DEF GroupsFit, code, Slots

LEMMA FitLater ==
  ASSUME search \in Searches, NEW d \in Blocks, NEW x \in Int, NEW y \in Int, x <= y,
         NEW p, GroupsFit(prog, d, p, x)
  PROVE  GroupsFit(prog, d, p, y)
  <1>1. CASE p = 1
    BY <1>1 DEF GroupsFit, code, Slots
  <1>2. CASE p # 1
    <2>1. Reach(prog, p, x) <= Reach(prog, p, y)
      BY GroupFacts DEF Reach, code
    <2>2. p \in Proper(code)
      BY DEF GroupsFit, code, Slots
    <2>3. QED
      BY <1>2, <2>1, <2>2, FitOn
  <1>3. QED
    BY <1>1, <1>2

\* Control that crosses an instruction that saves nothing, at the same position.
LEMMA FitCrosses ==
  ASSUME search \in Searches, NEW d \in Blocks, NEW x \in Int,
         NEW p, GroupsFit(prog, d, p, x), code[p].op \notin {"save"} \cup Consuming,
         NEW q \in Successors(code, p)
  PROVE  GroupsFit(prog, d, q, x) /\ q # 1
  <1>1. p \in Proper(code) /\ p \in DOMAIN code
    BY BracketFacts DEF GroupsFit, code, Slots
  <1>2. p # 1 /\ q # 1
    BY <1>1, SeedFacts
  <1>3. q \in Proper(code) /\ OpenAt(prog, q) = OpenAt(prog, p)
    BY <1>1, BracketFacts
  <1>4. Overhang(code, p) = 0 /\ Overhang(code, q) \in {0, 1}
    BY <1>1, BracketFacts, GroupFacts
  <1>5. Reach(prog, p, x) <= Reach(prog, q, x)
    BY <1>4 DEF Reach, code
  <1>6. QED
    BY <1>2, <1>3, <1>5, FitOn

\* A byte taken, and nothing saved.
LEMMA FitTakes ==
  ASSUME search \in Searches, NEW d \in Blocks, NEW x \in Int,
         NEW p, GroupsFit(prog, d, p, x), code[p].op # "save", NEW q \in Successors(code, p)
  PROVE  GroupsFit(prog, d, q, x + 1)
  <1>1. p \in Proper(code) /\ p \in DOMAIN code
    BY BracketFacts DEF GroupsFit, code, Slots
  <1>2. p # 1 /\ q # 1
    BY <1>1, SeedFacts
  <1>3. q \in Proper(code) /\ OpenAt(prog, q) = OpenAt(prog, p)
    BY <1>1, BracketFacts
  <1>4. Overhang(code, p) \in {0, 1} /\ Overhang(code, q) \in {0, 1}
    BY GroupFacts
  <1>5. Reach(prog, p, x) <= Reach(prog, q, x + 1)
    BY <1>4 DEF Reach, code
  <1>6. QED
    BY <1>2, <1>3, <1>5, FitOn

\* Away from the first instruction and the match group 0 is open, so what is saved lies in it.
LEMMA FitInside ==
  ASSUME search \in Searches, NEW d \in Blocks, NEW x \in Int, x >= 0,
         NEW p, GroupsFit(prog, d, p, x), p # 1, code[p].op \notin Consuming \cup {"match"}
  PROVE  /\ 0 \in OpenAt(prog, p) /\ d[0] <= x
         /\ \A s \in Slots : d[s] \in Int /\ d[s] <= x
         /\ \A g \in Groups(prog) :
              IF g \in OpenAt(prog, p) THEN d[0] <= d[g] ELSE Whole(d, g, x)
  <1>1. p \in Proper(code)
    BY DEF GroupsFit, code, Slots
  <1>2. 0 \in OpenAt(prog, p)
    BY <1>1, BracketFacts
  <1>3. Reach(prog, p, x) = x
    <2>1. Overhang(code, p) = 0
      BY <1>1, BracketFacts, GroupFacts
    <2>2. QED
      BY <2>1 DEF Reach, code
  <1>4. \A s \in Slots : d[s] \in Int
    BY CallFacts DEF Blocks, npos
  <1>5. \A g \in Groups(prog) :
          IF g \in OpenAt(prog, p) THEN d[0] <= d[g] /\ d[g] <= x /\ d[g + 1] <= x
                                   ELSE Whole(d, g, x)
    BY <1>3 DEF GroupsFit, code, Slots
  <1>6. ASSUME NEW g \in Groups(prog)
        PROVE  d[g] <= x /\ d[g + 1] <= x
    <2>1. d[g] \in Int /\ d[g + 1] \in Int
      BY <1>4, GroupFacts
    <2>2. Whole(d, g, x) => d[g] <= x /\ d[g + 1] <= x
      BY <2>1 DEF Whole, npos
    <2>3. QED
      BY <1>5, <2>2
  <1>7. ASSUME NEW s \in Slots PROVE d[s] <= x
    <2>1. CASE s % 2 = 0
      BY <1>6, <2>1, GroupFacts
    <2>2. CASE s % 2 # 0
      <3>1. PICK g \in Groups(prog) : g = s - 1
        BY <2>2, GroupFacts
      <3>2. g + 1 = s
        BY <3>1, GroupFacts
      <3>3. QED
        BY <1>6, <3>2
    <2>3. QED
      BY <2>1, <2>2
  <1>8. d[0] <= x
    BY <1>7, CallFacts
  <1>9. QED
    BY <1>2, <1>4, <1>5, <1>7, <1>8

\* The first instruction opens group 0 in the all-npos block's copy.
LEMMA FitBegins ==
  ASSUME search \in Searches, NEW d \in Blocks, NEW x \in 0 .. size, GroupsFit(prog, d, 1, x),
         NEW v, v = [d EXCEPT ![0] = x]
  PROVE  GroupsFit(prog, v, 2, x)
  <1>1. 1 \in Proper(code) /\ code[1].op = "save" /\ code[1].slot = 0 /\ size \in Nat /\ 0 \in Slots
    BY GroupFacts, SeedFacts, CallFacts
  <1>2. 2 \in Successors(code, 1)
    BY <1>1, EpsilonKinds DEF Successors
  <1>3. 2 \in Proper(code) /\ OpenAt(prog, 2) = {0}
    BY <1>1, <1>2, BracketFacts, GroupFacts
  <1>4. v[0] = x /\ \A s \in Slots : s # 0 => v[s] = npos
    BY <1>1 DEF GroupsFit, code, Slots, Unset, Blocks
  <1>5. PICK r \in Int : r = Reach(prog, 2, x) /\ x <= r /\ 0 <= r
    BY GroupFacts, <1>1 DEF Reach, code
  <1>6. ASSUME NEW g \in Groups(prog)
        PROVE  IF g \in OpenAt(prog, 2) THEN v[0] <= v[g] /\ v[g] <= r /\ v[g + 1] <= r
                                        ELSE Whole(v, g, r)
    <2>1. g \in Nat /\ g \in Slots /\ g + 1 \in Slots /\ g + 1 # 0
      BY GroupFacts
    <2>2. CASE g = 0
      BY <1>3, <1>4, <1>5, <2>1, <2>2 DEF npos
    <2>3. CASE g # 0
      BY <1>3, <1>4, <2>1, <2>3 DEF Whole
    <2>4. QED
      BY <2>2, <2>3
  <1>7. PICK q : q = 2 /\ q # 1
    OBVIOUS
  <1>8. /\ q \in Proper(code) /\ 0 \in OpenAt(prog, q)
        /\ \A g \in Groups(prog) :
             IF g \in OpenAt(prog, q)
               THEN v[0] <= v[g] /\ v[g] <= Reach(prog, q, x) /\ v[g + 1] <= Reach(prog, q, x)
               ELSE Whole(v, g, Reach(prog, q, x))
    BY <1>3, <1>5, <1>6, <1>7
  <1>9. GroupsFit(prog, v, q, x)
    BY <1>7, <1>8 DEF GroupsFit, code, Slots
  <1>10. QED
    BY <1>7, <1>9

\* A save opens its group, which may have been whole before, or closes it.
LEMMA FitSaves ==
  ASSUME search \in Searches, NEW d \in Blocks, NEW x \in 0 .. size,
         NEW p, GroupsFit(prog, d, p, x), p # 1, code[p].op = "save",
         NEW v, v = [d EXCEPT ![code[p].slot] = x]
  PROVE  GroupsFit(prog, v, p + 1, x)
  <1>1. PICK slot, q, r : slot = code[p].slot /\ q = p + 1 /\ r = Reach(prog, q, x)
    OBVIOUS
  <1>2. p \in Proper(code) /\ p \in DOMAIN code /\ x \in Int /\ x >= 0 /\ size \in Nat
    BY BracketFacts, CallFacts DEF GroupsFit, code, Slots
  <1>3. slot \in Slots /\ q \in Successors(code, p)
    BY <1>1, <1>2, ProgramFacts, EpsilonKinds DEF Successors
  <1>4. /\ q \in Proper(code) /\ q # 1
        /\ OpenAt(prog, q) = IF slot % 2 = 0 THEN OpenAt(prog, p) \cup {slot}
                                             ELSE OpenAt(prog, p) \ {slot - 1}
        /\ slot % 2 = 1 => slot - 1 \in OpenAt(prog, p)
    BY <1>1, <1>2, <1>3, BracketFacts, SeedFacts
  <1>5. /\ 0 \in OpenAt(prog, p) /\ d[0] <= x
        /\ \A s \in Slots : d[s] \in Int /\ d[s] <= x
        /\ \A g \in Groups(prog) :
             IF g \in OpenAt(prog, p) THEN d[0] <= d[g] ELSE Whole(d, g, x)
    BY <1>2, FitInside DEF Consuming
  <1>6. r \in Int /\ x <= r
    BY <1>1, <1>2, GroupFacts DEF Reach, code
  <1>7. slot # 0
    BY <1>1, <1>2, SeedFacts
  <1>8. \A s \in Slots : v[s] = IF s = slot THEN x ELSE d[s]
    BY <1>1 DEF Blocks
  <1>9. v[0] = d[0]
    BY <1>7, <1>8, CallFacts
  <1>10. ASSUME NEW g \in Groups(prog)
         PROVE  IF g \in OpenAt(prog, q) THEN v[0] <= v[g] /\ v[g] <= r /\ v[g + 1] <= r
                                         ELSE Whole(v, g, r)
    <2>1. /\ g \in Nat /\ g \in Slots /\ g + 1 \in Slots /\ g % 2 = 0
          /\ d[g] \in Int /\ d[g + 1] \in Int /\ d[g] <= x /\ d[g + 1] <= x /\ d[0] \in Int
      BY <1>5, GroupFacts, CallFacts
    <2>2. slot \in Int /\ (slot % 2 # 0 => slot % 2 = 1)
      BY <1>3, GroupFacts
    <2>3. IF g \in OpenAt(prog, p) THEN d[0] <= d[g] ELSE Whole(d, g, x)
      BY <1>5
    <2>4. CASE slot = g
      <3>1. v[g] = x /\ v[g + 1] = d[g + 1] /\ g \in OpenAt(prog, q)
        BY <1>4, <1>8, <2>1, <2>4
      <3>2. QED
        BY <1>5, <1>6, <1>9, <2>1, <3>1
    <2>5. CASE slot = g + 1
      <3>1. v[g] = d[g] /\ v[g + 1] = x
        BY <1>8, <2>1, <2>5
      <3>2. slot % 2 = 1 /\ slot - 1 = g
        BY <2>1, <2>5
      <3>3. g \in OpenAt(prog, p) /\ g \notin OpenAt(prog, q)
        BY <1>4, <3>2
      <3>4. QED
        BY <1>6, <1>9, <2>1, <2>3, <3>1, <3>3 DEF Whole
    <2>6. CASE slot # g /\ slot # g + 1
      <3>1. v[g] = d[g] /\ v[g + 1] = d[g + 1]
        BY <1>8, <2>1, <2>6
      <3>2. g \in OpenAt(prog, q) <=> g \in OpenAt(prog, p)
        BY <1>4, <2>1, <2>2, <2>6
      <3>3. CASE g \in OpenAt(prog, p)
        BY <1>6, <1>9, <2>1, <2>3, <3>1, <3>2, <3>3
      <3>4. CASE g \notin OpenAt(prog, p)
        <4>1. Whole(d, g, r)
          BY <1>2, <1>6, <2>3, <3>4, WholeLater
        <4>2. QED
          BY <1>9, <3>1, <3>2, <3>4, <4>1 DEF Whole
      <3>5. QED
        BY <3>3, <3>4
    <2>7. QED
      BY <2>4, <2>5, <2>6
  <1>11. ASSUME 0 \notin OpenAt(prog, q) PROVE \A s \in Slots : v[s] <= v[1]
    <2>1. slot = 1
      <3>1. slot % 2 # 0 /\ slot - 1 = 0 /\ slot \in Int
        BY <1>3, <1>4, <1>5, <1>11, GroupFacts
      <3>2. QED
        BY <3>1
    <2>2. v[1] = x
      BY <1>3, <1>8, <2>1
    <2>3. QED
      BY <1>2, <1>5, <1>8, <2>2
  <1>12. QED
    BY <1>1, <1>4, <1>10, <1>11 DEF GroupsFit, code, Slots

\* A repetition ends where its atom does: a position later, or two with one byte still owed.
LEMMA AtomEnds ==
  ASSUME NEW c, NEW t \in Seq(Bytes), NEW p \in DOMAIN c, NEW x \in Nat,
         c[p].op \in Possessive, NEW q \in Advanced(c, t, p, x), p \in Nat
  PROVE  /\ AtomLength(c, t, p, x) \in {1, 2}
         /\ x + AtomLength(c, t, p, x) <= x + 1 + Overhang(c, q)
  <1>0. Overhang(c, q) \in {0, 1}
    BY DEF Overhang
  <1>1. AtomLength(c, t, p, x) \in {1, 2}
    BY AtomFits
  <1>2. CASE c[p].op = "klass_loop_possessive"
    <2>1. AtomLength(c, t, p, x) = 1
      BY <1>2 DEF AtomLength
    <2>2. QED
      BY <1>0, <2>1
  <1>3. CASE c[p].op = "klass_cp_loop_possessive"
    <2> DEFINE lengths == {Len(Encode(z)) : z \in Decoded(t, x) \cap c[p].class}
    <2>1. PICK y \in Decoded(t, x) \cap c[p].class : q = p + 1 + (4 - Len(Encode(y)))
      BY <1>3 DEF Advanced
    <2>2. AtomLength(c, t, p, x) \in lengths
      <3>1. AtomLength(c, t, p, x) = CHOOSE n \in lengths : TRUE
        BY <1>3 DEF AtomLength
      <3>2. lengths # {}
        BY <2>1
      <3>3. QED
        BY <3>1, <3>2
    <2>3. PICK z \in Decoded(t, x) : AtomLength(c, t, p, x) = Len(Encode(z))
      BY <2>2
    <2>4. z = y
      BY <2>1, DecodedOnce
    <2>5. PICK n : n = AtomLength(c, t, p, x) /\ n = Len(Encode(y))
      BY <2>3, <2>4
    <2>6. n \in {1, 2} /\ q = p + 1 + (4 - n)
      BY <1>1, <2>1, <2>5
    <2>7. n = 2 => Overhang(c, q) = 1
      <3>1. n = 2 => p + 3 = q
        BY <2>6
      <3>2. QED
        BY <1>3, <3>1 DEF Overhang
    <2>8. x + n <= x + 1 + Overhang(c, q)
      BY <1>0, <2>6, <2>7
    <2>9. QED
      BY <1>1, <2>5, <2>8
  <1>4. QED
    BY <1>2, <1>3 DEF Possessive

\* A possessive loop's repetition saves its whole group.
LEMMA FitRepeats ==
  ASSUME search \in Searches, NEW d \in Blocks, NEW x \in 0 .. size, NEW e \in Int,
         NEW p, GroupsFit(prog, d, p, x), code[p].op \in Possessive, ~(code[p].slot < 0),
         NEW q \in Successors(code, p), x <= e, e <= x + 1 + Overhang(code, q),
         NEW v, v = [[d EXCEPT ![code[p].slot] = x] EXCEPT ![code[p].slot + 1] = e]
  PROVE  GroupsFit(prog, v, q, x + 1)
  <1>1. PICK slot, r : slot = code[p].slot /\ r = Reach(prog, q, x + 1)
    OBVIOUS
  <1>2. p \in Proper(code) /\ p \in DOMAIN code /\ x \in Int /\ x >= 0 /\ size \in Nat
    BY BracketFacts, CallFacts DEF GroupsFit, code, Slots
  <1>3. slot \in Groups(prog) /\ slot \notin OpenAt(prog, p)
    BY <1>1, <1>2, BracketFacts
  <1>4. slot \in Nat /\ slot \in Slots /\ slot + 1 \in Slots /\ slot % 2 = 0
    BY <1>3, GroupFacts
  <1>5. code[p].op \notin {"save", "match"} \cup Consuming
    BY DEF Possessive, Consuming
  <1>6. p # 1 /\ q # 1
    BY <1>2, <1>5, SeedFacts
  <1>7. q \in Proper(code) /\ OpenAt(prog, q) = OpenAt(prog, p)
    BY <1>2, <1>5, BracketFacts
  <1>8. /\ 0 \in OpenAt(prog, p) /\ d[0] <= x
        /\ \A s \in Slots : d[s] \in Int /\ d[s] <= x
        /\ \A g \in Groups(prog) :
             IF g \in OpenAt(prog, p) THEN d[0] <= d[g] ELSE Whole(d, g, x)
    BY <1>2, <1>5, <1>6, FitInside
  <1>9. r \in Int /\ x <= r /\ e <= r
    <2>1. Overhang(code, q) \in {0, 1}
      BY GroupFacts
    <2>2. QED
      BY <1>1, <1>2, <2>1 DEF Reach, code
  <1>10. slot # 0
    BY <1>3, <1>8
  <1>11. \A s \in Slots : v[s] = IF s = slot + 1 THEN e ELSE IF s = slot THEN x ELSE d[s]
    BY <1>1 DEF Blocks
  <1>12. v[0] = d[0]
    <2>1. 0 \in Slots
      BY CallFacts
    <2>2. QED
      BY ONLY <1>4, <1>10, <1>11, <2>1
  <1>13. ASSUME NEW g \in Groups(prog)
         PROVE  IF g \in OpenAt(prog, q) THEN v[0] <= v[g] /\ v[g] <= r /\ v[g + 1] <= r
                                         ELSE Whole(v, g, r)
    <2>1. /\ g \in Nat /\ g \in Slots /\ g + 1 \in Slots /\ g % 2 = 0
          /\ d[g] \in Int /\ d[g + 1] \in Int /\ d[g] <= x /\ d[g + 1] <= x /\ d[0] \in Int
      BY <1>8, GroupFacts, CallFacts
    <2>2. IF g \in OpenAt(prog, p) THEN d[0] <= d[g] ELSE Whole(d, g, x)
      BY <1>8
    <2>3. CASE g = slot
      <3>1. v[g] = x /\ v[g + 1] = e
        BY ONLY <1>4, <1>11, <2>1, <2>3
      <3>2. Whole(v, g, r)
        BY <1>8, <1>9, <1>12, <3>1 DEF Whole
      <3>3. QED
        BY <1>3, <1>7, <2>3, <3>2
    <2>4. CASE g # slot
      <3>1. g # slot + 1 /\ g + 1 # slot
        BY <1>4, <2>1
      <3>2. v[g] = d[g] /\ v[g + 1] = d[g + 1]
        BY ONLY <1>4, <1>11, <2>1, <2>4, <3>1
      <3>3. CASE g \in OpenAt(prog, p)
        BY <1>2, <1>7, <1>9, <1>12, <2>1, <2>2, <3>2, <3>3
      <3>4. CASE g \notin OpenAt(prog, p)
        <4>1. Whole(d, g, r)
          BY <1>2, <1>9, <2>2, <3>4, WholeLater
        <4>2. QED
          BY <1>7, <1>12, <3>2, <3>4, <4>1 DEF Whole
      <3>5. QED
        BY <3>3, <3>4
    <2>5. QED
      BY <2>3, <2>4
  <1>14. QED
    BY <1>1, <1>6, <1>7, <1>8, <1>13 DEF GroupsFit, code, Slots

\* At the match every group is closed, group 0 last.
LEMMA FitMatches ==
  ASSUME search \in Searches, NEW d \in Blocks, NEW x \in Int,
         NEW p, GroupsFit(prog, d, p, x), code[p].op = "match"
  PROVE  \A g \in Groups(prog) : Whole(d, g, d[1])
  <1>1. p \in Proper(code) /\ p \in DOMAIN code
    BY BracketFacts DEF GroupsFit, code, Slots
  <1>2. OpenAt(prog, p) = {} /\ p # 1
    BY <1>1, BracketFacts, SeedFacts
  <1>3. \A s \in Slots : d[s] \in Int /\ d[s] <= d[1]
    BY <1>2, CallFacts DEF GroupsFit, code, Slots, Blocks, npos
  <1>4. ASSUME NEW g \in Groups(prog) PROVE Whole(d, g, d[1])
    <2>1. Whole(d, g, Reach(prog, p, x))
      BY <1>2 DEF GroupsFit, code, Slots
    <2>2. d[g + 1] <= d[1]
      BY <1>3, GroupFacts
    <2>3. QED
      BY <2>1, <2>2 DEF Whole
  <1>5. QED
    BY <1>4

-----------------------------------------------------------------------------
(* Threads and entries whose blocks fit where they stand.                  *)

Fit(p, t, x) == GroupsFit(prog, p.data[t.carry], t.pc, x)
FitsIn(p, s, from, x) == \A k \in 1 .. Len(s) : k >= from => Fit(p, s[k], x)

\* The current list's threads that have not stepped are those from this one on.
From == IF Stepped THEN i ELSE 1

GroupedIn(p, c, n, s, from, x, y) ==
  FitsIn(p, c, from, x) /\ FitsIn(p, n, 1, x + 1) /\ FitsIn(p, s, 1, y)

AnswerWhole == matched => \A g \in Groups(prog) : Whole(out_slots, g, out_slots[1])

Grouped ==
  ~capture_free =>
    /\ at # "done" => GroupedIn(pool, clist.threads, nlist.threads, stack, From, pos, here)
    /\ AnswerWhole

LEMMA GroupedArrives ==
  ASSUME UNCHANGED search, NEW p, NEW c, NEW n, NEW s, NEW from, NEW x, NEW y,
         p = pool', c = clist'.threads, n = nlist'.threads, s = stack', from = From',
         x = pos', y = here', at' # "done" => GroupedIn(p, c, n, s, from, x, y),
         AnswerWhole'
  PROVE  Grouped'
  BY Kept DEF Grouped, GroupedIn, FitsIn, Fit

LEMMA AnswerKept ==
  ASSUME AnswerWhole, UNCHANGED search, UNCHANGED <<matched, out_slots>>
  PROVE  AnswerWhole'
  BY Kept DEF AnswerWhole, Whole

\* A thread's block has its slots.
LEMMA BlockOf ==
  ASSUME search \in Searches, ~capture_free, NEW p, PoolOK(p), NEW t \in ThreadsIn(p)
  PROVE  p.data[t.carry] \in Blocks /\ t.carry \in BlocksOf(p) /\ t.pc \in DOMAIN code
  <1>1. t.carry \in BlocksOf(p) /\ t.pc \in DOMAIN code
    BY DEF ThreadsIn, CarryIn
  <1>2. p.data[t.carry] \in Blocks
    BY <1>1, ExactFacts DEF PoolOK, BlocksOf
  <1>3. QED
    BY <1>1, <1>2

LEMMA FitsLater ==
  ASSUME search \in Searches, ~capture_free, NEW p, PoolOK(p), NEW s \in Seq(ThreadsIn(p)),
         NEW from \in Int, NEW after \in Int, from <= after,
         NEW x \in Int, NEW y \in Int, x <= y, FitsIn(p, s, from, x)
  PROVE  FitsIn(p, s, after, y)
  <1>1. Len(s) \in Nat /\ \A k \in 1 .. Len(s) : s[k] \in ThreadsIn(p)
    BY LenProperties, ElementOfSeq
  <1>2. ASSUME NEW k \in 1 .. Len(s), k >= after PROVE Fit(p, s[k], y)
    <2>1. PICK d, pc : d = p.data[s[k].carry] /\ pc = s[k].pc
      OBVIOUS
    <2>2. d \in Blocks
      BY <1>1, <2>1, BlockOf
    <2>3. k >= from
      BY <1>1, <1>2
    <2>4. GroupsFit(prog, d, pc, x)
      BY <2>1, <2>3 DEF FitsIn, Fit
    <2>5. GroupsFit(prog, d, pc, y)
      BY <2>2, <2>4, FitLater
    <2>6. QED
      BY <2>1, <2>5 DEF Fit
  <1>3. QED
    BY <1>2 DEF FitsIn

\* Blocks unchanged fit as they did.
SameBlocks(p, q, s, from) ==
  \A k \in 1 .. Len(s) : k >= from => q.data[s[k].carry] = p.data[s[k].carry]

LEMMA FitsSame ==
  ASSUME NEW p, NEW q, NEW s, NEW from, SameBlocks(p, q, s, from), NEW x, FitsIn(p, s, from, x)
  PROVE  FitsIn(q, s, from, x)
  BY DEF SameBlocks, FitsIn, Fit

LEMMA FitsNone ==
  ASSUME NEW p, NEW s, s = <<>>, NEW from, NEW x
  PROVE  FitsIn(p, s, from, x)
  <1>1. Len(s) = 0
    BY EmptySeq
  <1>2. QED
    BY <1>1 DEF FitsIn

LEMMA FitsOne ==
  ASSUME NEW p, NEW e, NEW s, s = <<e>>, NEW x, Fit(p, e, x)
  PROVE  FitsIn(p, s, 1, x)
  <1>1. Len(s) = 1 /\ s[1] = e
    OBVIOUS
  <1>2. \A k \in 1 .. 1 : k = 1
    OBVIOUS
  <1>3. QED
    BY <1>1, <1>2 DEF FitsIn

LEMMA FitsAppend ==
  ASSUME NEW p, NEW S, NEW s \in Seq(S), NEW e \in S, NEW x,
         FitsIn(p, s, 1, x), Fit(p, e, x), NEW u, u = Append(s, e)
  PROVE  FitsIn(p, u, 1, x)
  <1>1. PICK n \in Nat : n = Len(s)
    BY LenProperties
  <1>2. Len(u) = n + 1 /\ (\A k \in 1 .. n : u[k] = s[k]) /\ u[n + 1] = e
    BY <1>1, AppendProperties
  <1>3. \A k \in 1 .. n + 1 : k \in 1 .. n \/ k = n + 1
    OBVIOUS
  <1>4. \A k \in 1 .. n : Fit(p, s[k], x)
    BY <1>1 DEF FitsIn
  <1>5. QED
    BY <1>2, <1>3, <1>4 DEF FitsIn

LEMMA FitsFront ==
  ASSUME VMInv, at = "closure", stack # <<>>, NEW p, NEW x, FitsIn(p, stack, 1, x)
  PROVE  FitsIn(p, Front(stack), 1, x) /\ Fit(p, top, x)
  <1>1. PICK n \in Nat : n = Len(stack)
    BY Parts, LenProperties
  <1>2. stack \in Seq(ThreadsIn(pool)) /\ n # 0
    BY <1>1, Parts, EmptySeq
  <1>3. Len(Front(stack)) = n - 1 /\ Last(stack) = stack[n]
        /\ \A k \in 1 .. n - 1 : Front(stack)[k] = stack[k]
    BY <1>1, <1>2, FrontFacts
  <1>4. \A k \in 1 .. n : Fit(p, stack[k], x)
    BY <1>1 DEF FitsIn
  <1>5. FitsIn(p, Front(stack), 1, x)
    BY <1>3, <1>4 DEF FitsIn
  <1>6. QED
    BY <1>2, <1>3, <1>4, <1>5 DEF top

\* What the invariant says, with the sets it speaks of.
LEMMA GroupedParts ==
  ASSUME VMInv, Grouped, ~capture_free, at # "done"
  PROVE  /\ FitsIn(pool, clist.threads, From, pos) /\ FitsIn(pool, nlist.threads, 1, pos + 1)
         /\ FitsIn(pool, stack, 1, here) /\ AnswerWhole
         /\ From \in Int /\ From >= 1 /\ i \in Int /\ pos \in Int /\ here \in Int
         /\ clist.threads \in Seq(ThreadsIn(pool)) /\ nlist.threads \in Seq(ThreadsIn(pool))
         /\ stack \in Seq(ThreadsIn(pool)) /\ PoolOK(pool) /\ search \in Searches
  <1>1. i \in 1 .. Len(code) + 1 /\ pos \in 0 .. size + 1 /\ size \in Nat /\ Len(code) \in Nat
    BY Parts, CallFacts DEF Control
  <1>2. From \in Int /\ From >= 1 /\ i \in Int /\ pos \in Int /\ here \in Int
    BY <1>1 DEF From, here
  <1>3. QED
    BY <1>2, Parts, ListFacts DEF Grouped, GroupedIn

-----------------------------------------------------------------------------
(* Writes keep the blocks of all the other holders.                        *)

\* The block c is held by more than the holder of b that writes.
Beside(p, b, c) == c \in BlocksOf(p) /\ Count(p, c) >= 1 + One(b, c)

LEMMA WrittenBeside ==
  ASSUME NEW p, PoolOK(p), NEW b \in BlocksOf(p), NEW block, NEW q, NEW v, Written(p, b, block, q, v),
         NEW c, Beside(p, b, c)
  PROVE  q.data[c] = p.data[c] /\ Beside(q, block, c)
  <1>1. /\ BlocksOf(q) = BlocksOf(p) \cup {block}
        /\ \A a \in BlocksOf(p) : a # block => q.data[a] = p.data[a]
        /\ \A a : Count(q, a) = Count(p, a) - One(b, a) + One(block, a)
        /\ IF block = b THEN Count(p, b) = 1 ELSE Count(p, block) = 0 /\ Count(p, b) >= 2
    BY DEF Written
  <1>2. PICK n \in Nat, o, o1 \in {0, 1} : n = Count(p, c) /\ o = One(b, c) /\ o1 = One(block, c)
    BY CountNat DEF One
  <1>3. c \in BlocksOf(p) /\ n >= 1 + o
    BY <1>2 DEF Beside
  <1>4. c # block
    <2>1. CASE block = b
      <3>1. c = b => o = 1 /\ n = 1
        BY <1>1, <1>2, <2>1 DEF One
      <3>2. QED
        BY <1>3, <2>1, <3>1
    <2>2. CASE block # b
      <3>1. c = block => n = 0
        BY <1>1, <1>2, <2>2
      <3>2. QED
        BY <1>2, <1>3, <3>1
    <2>3. QED
      BY <2>1, <2>2
  <1>5. o1 = 0
    BY <1>2, <1>4 DEF One
  <1>6. Count(q, c) = n - o + o1
    BY <1>1, <1>2
  <1>7. n - o + o1 >= 1 + o1
    BY <1>2, <1>3, <1>5
  <1>8. Count(q, c) >= 1 + One(block, c)
    BY <1>2, <1>6, <1>7
  <1>9. QED
    BY <1>1, <1>3, <1>4, <1>8 DEF Beside

\* A repetition's two writes, too, and its block has both slots.
LEMMA TierBeside ==
  ASSUME NEW p, PoolOK(p), NEW b, Referred(p, b), NEW slot, slot \in Slots, slot + 1 \in Slots,
         pos \in npos .. size, NEW end \in npos .. size,
         NEW block, NEW q,
         block = tier1_capture_on_match(p, b, slot, end).block,
         q = tier1_capture_on_match(p, b, slot, end).pool
  PROVE  /\ \A c : Beside(p, b, c) => q.data[c] = p.data[c]
         /\ q.data[block] = [[p.data[b] EXCEPT ![slot] = pos] EXCEPT ![slot + 1] = end]
  <1>1. PICK b1, p1 : /\ b1 = cow_write(p, b, slot, pos).block
                      /\ p1 = cow_write(p, b, slot, pos).pool
    OBVIOUS
  <1>2. /\ block = cow_write(p1, b1, slot + 1, end).block
        /\ q = cow_write(p1, b1, slot + 1, end).pool
    BY <1>1 DEF tier1_capture_on_match
  <1>3. PICK v : v = [p.data[b] EXCEPT ![slot] = pos]
    OBVIOUS
  <1>4. Written(p, b, b1, p1, v)
    BY <1>1, <1>3, CowFacts
  <1>5. b \in BlocksOf(p) /\ p.data[b] \in Blocks /\ v \in Blocks
    <2>1. b \in BlocksOf(p)
      BY DEF Referred
    <2>2. QED
      BY <1>3, <2>1, SlotWritten
  <1>6. PoolOK(p1) /\ b1 # npos_block /\ b1 \in BlocksOf(p1) /\ p1.data[b1] = v
    BY <1>4 DEF Written
  <1>7. Count(p1, b1) >= 1
    <2>1. v[0] = v[0] /\ (b1 = b => Count(p, b) = 1) /\ (b1 # b => Count(p, b1) = 0)
      BY <1>4 DEF Written
    <2>2. Count(p1, b1) = Count(p, b1) - One(b, b1) + One(b1, b1)
      BY <1>4 DEF Written
    <2>3. CASE b1 = b
      BY <2>1, <2>2, <2>3 DEF One
    <2>4. CASE b1 # b
      BY <2>1, <2>2, <2>4 DEF One
    <2>5. QED
      BY <2>3, <2>4
  <1>8. Referred(p1, b1)
    BY <1>6, <1>7 DEF Referred, Count
  <1>9. PICK w : w = [p1.data[b1] EXCEPT ![slot + 1] = end]
    OBVIOUS
  <1>10. Written(p1, b1, block, q, w)
    BY <1>2, <1>6, <1>8, <1>9, CowFacts
  <1>11. ASSUME NEW c, Beside(p, b, c) PROVE q.data[c] = p.data[c]
    <2>1. p1.data[c] = p.data[c] /\ Beside(p1, b1, c)
      BY <1>4, <1>5, <1>11, WrittenBeside
    <2>2. q.data[c] = p1.data[c]
      BY <1>6, <1>10, <2>1, WrittenBeside
    <2>3. QED
      BY <2>1, <2>2
  <1>12. q.data[block] = w
    BY <1>10 DEF Written
  <1>13. QED
    BY <1>3, <1>6, <1>9, <1>11, <1>12

\* Beside the entry on top, what the lists' threads and the other entries hold.
LEMMA VisitBeside ==
  ASSUME VMInv, at = "closure", stack # <<>>, ~capture_free,
         NEW t \in {clist.threads, nlist.threads, Front(stack)}, NEW k \in 1 .. Len(t)
  PROVE  Beside(pool, top.carry, t[k].carry)
  <1>1. /\ clist.threads \in Seq(ThreadsIn(pool)) /\ nlist.threads \in Seq(ThreadsIn(pool))
        /\ Front(stack) \in Seq(ThreadsIn(pool)) /\ t \in Seq(ThreadsIn(pool))
        /\ Balance(pool, clist.threads, nlist.threads, stack)
    BY Parts, ListFacts, TopFacts
  <1>2. PICK b : b = t[k].carry
    OBVIOUS
  <1>3. b \in BlocksOf(pool)
    <2>1. t[k] \in ThreadsIn(pool)
      BY <1>1, ElementOfSeq
    <2>2. QED
      BY <1>2, <2>1 DEF ThreadsIn, CarryIn
  <1>4. PICK c, n, f, o, e \in Nat :
          /\ c = Held(clist.threads, b) /\ n = Held(nlist.threads, b) /\ f = Held(Front(stack), b)
          /\ o = One(b, npos_block) /\ e = One(top.carry, b)
    BY <1>1, HeldFacts DEF One
  <1>5. Held(stack, b) = f + e
    BY <1>4, TopFacts
  <1>6. Held(t, b) >= 1
    BY <1>1, <1>2, HeldFacts
  <1>7. c >= 1 \/ n >= 1 \/ f >= 1
    BY <1>4, <1>6
  <1>8. Count(pool, b) = c + n + (f + e) + o
    BY <1>1, <1>3, <1>4, <1>5 DEF Balance
  <1>9. c + n + (f + e) + o >= 1 + e
    BY <1>7
  <1>10. QED
    BY <1>2, <1>3, <1>4, <1>8, <1>9 DEF Beside

\* Beside the thread that steps, what the threads after it and those of the next list hold.
LEMMA StepBeside ==
  ASSUME VMInv, at = "step", i <= Len(clist.threads), ~capture_free,
         NEW t, NEW k \in 1 .. Len(t),
         t = nlist.threads \/ (t = clist.threads /\ k # i)
  PROVE  Beside(pool, thread.carry, t[k].carry)
  <1>1. /\ clist.threads \in Seq(ThreadsIn(pool)) /\ nlist.threads \in Seq(ThreadsIn(pool))
        /\ stack \in Seq(ThreadsIn(pool)) /\ t \in Seq(ThreadsIn(pool))
        /\ Balance(pool, clist.threads, nlist.threads, stack)
        /\ i \in 1 .. Len(clist.threads)
    BY Parts, ListFacts, ThreadFacts
  <1>2. PICK b : b = t[k].carry
    OBVIOUS
  <1>3. b \in BlocksOf(pool)
    <2>1. t[k] \in ThreadsIn(pool)
      BY <1>1, ElementOfSeq
    <2>2. QED
      BY <1>2, <2>1 DEF ThreadsIn, CarryIn
  <1>4. PICK c, n, s, o, e \in Nat :
          /\ c = Held(clist.threads, b) /\ n = Held(nlist.threads, b) /\ s = Held(stack, b)
          /\ o = One(b, npos_block) /\ e = One(thread.carry, b)
    BY <1>1, HeldFacts DEF One
  <1>5. Count(pool, b) = c + n + s + o
    BY <1>1, <1>3, <1>4 DEF Balance
  <1>6. c >= e
    <2>1. thread.carry = b => c >= 1
      BY <1>1, <1>4, HeldFacts DEF thread
    <2>2. QED
      BY <1>4, <2>1 DEF One
  <1>7. (t = clist.threads /\ k # i) => c >= 1 + e
    <2>1. SUFFICES ASSUME t = clist.threads, k # i PROVE c >= 1 + e
      OBVIOUS
    <2>2. PICK x, S, u : /\ x = [pc |-> 1, carry |-> 0] /\ S = ThreadsIn(pool) \cup {x}
                         /\ u = [t EXCEPT ![i] = x]
      OBVIOUS
    <2>3. t \in Seq(S) /\ x \in S
      BY <1>1, <2>2, SeqMonotonic
    <2>4. u \in Seq(S) /\ Len(u) = Len(t) /\ \A j \in 1 .. Len(t) : u[j] = IF j = i THEN x ELSE t[j]
      BY <1>1, <2>1, <2>2, <2>3, ExceptSeq
    <2>5. Held(u, b) = Held(t, b) - One(t[i].carry, b) + One(u[i].carry, b)
      <3>1. PICK j : j = i
        OBVIOUS
      <3>2. /\ j \in 1 .. Len(t) /\ Len(u) = Len(t)
            /\ \A h \in 1 .. Len(t) : h # j => u[h].carry = t[h].carry
        BY <1>1, <2>1, <2>4, <3>1
      <3>3. Held(u, b) = Held(t, b) - One(t[j].carry, b) + One(u[j].carry, b)
        BY <2>3, <2>4, <3>2, HeldExchanged
      <3>4. QED
        BY <3>1, <3>3
    <2>6. u[i].carry # b
      <3>1. b # 0
        BY <1>3 DEF BlocksOf
      <3>2. QED
        BY <1>1, <2>1, <2>2, <2>4, <3>1
    <2>7. u[k] = t[k]
      BY <2>1, <2>4
    <2>8. Held(u, b) >= 1 /\ Held(u, b) \in Nat
      BY <1>2, <2>4, <2>7, HeldFacts
    <2>9. Held(u, b) = c - e + 0
      BY <1>4, <2>1, <2>5, <2>6 DEF One, thread
    <2>10. PICK h \in Nat : h = Held(u, b) /\ h >= 1 /\ h = c - e + 0
      BY <2>8, <2>9
    <2>11. QED
      BY <2>10
  <1>8. t = nlist.threads => n >= 1
    BY <1>1, <1>2, <1>4, HeldFacts
  <1>9. c + n + s + o >= 1 + e
    <2>1. c >= 1 + e \/ n >= 1
      BY <1>7, <1>8
    <2>2. QED
      BY <1>6, <2>1
  <1>10. QED
    BY <1>2, <1>3, <1>4, <1>5, <1>9 DEF Beside

-----------------------------------------------------------------------------
(* Steps that leave the threads and their blocks as they are.              *)

LEMMA QuietGrouped ==
  ASSUME VMInv, Grouped, ~capture_free, at # "done", UNCHANGED <<search, stack, pool>>,
         clist'.threads = clist.threads, nlist'.threads = nlist.threads, stack = <<>>,
         pos' \in Int, pos' >= pos, NEW from \in Int, from = From', From <= from,
         AnswerWhole'
  PROVE  Grouped'
  <1>1. PICK p, c, n, s, x, y :
          /\ p = pool' /\ c = clist'.threads /\ n = nlist'.threads /\ s = stack'
          /\ x = pos' /\ y = here'
    OBVIOUS
  <1>2. /\ p = pool /\ c = clist.threads /\ n = nlist.threads /\ s = <<>> /\ x \in Int /\ pos <= x
        /\ pos \in Int /\ pos + 1 <= x + 1 /\ pos + 1 \in Int /\ x + 1 \in Int
    BY <1>1, GroupedParts
  <1>3. FitsIn(p, c, from, x)
    BY <1>2, GroupedParts, FitsLater
  <1>4. FitsIn(p, n, 1, x + 1)
    <2>1. FitsIn(pool, nlist.threads, 1, pos + 1) /\ nlist.threads \in Seq(ThreadsIn(pool))
          /\ PoolOK(pool) /\ search \in Searches
      BY GroupedParts
    <2>2. PICK h, j \in Int : h = pos + 1 /\ j = x + 1 /\ h <= j
      BY <1>2
    <2>3. FitsIn(pool, nlist.threads, 1, j)
      BY <2>1, <2>2, FitsLater
    <2>4. QED
      BY <1>2, <2>2, <2>3
  <1>5. FitsIn(p, s, 1, y)
    BY <1>2, FitsNone
  <1>6. GroupedIn(p, c, n, s, from, x, y)
    BY <1>3, <1>4, <1>5 DEF GroupedIn
  <1>7. QED
    BY <1>1, <1>6, GroupedArrives

LEMMA LoopGrouped ==
  ASSUME VMInv, Grouped, ~capture_free, Exhausted \/ NoSeed \/ NoThread \/ BeginStep \/ ClosureDone
  PROVE  Grouped'
  <1>1. pos \in Int /\ i \in Int /\ i >= 1 /\ size \in Nat /\ Len(code) \in Nat
    BY Parts, CallFacts DEF Control
  <1>2. UNCHANGED search /\ UNCHANGED <<matched, out_slots>> /\ at # "done" /\ UNCHANGED <<pool, stack>>
    BY DEF Exhausted, NoSeed, NoThread, BeginStep, ClosureDone
  <1>3. AnswerWhole'
    BY <1>2, AnswerKept, GroupedParts
  <1>4. stack = <<>>
    BY Parts DEF Exhausted, NoSeed, NoThread, BeginStep, ClosureDone, Rests
  <1>5. clist'.threads = clist.threads /\ nlist'.threads = nlist.threads
    <2>1. lists = [clist |-> clist, nlist |-> nlist]
      BY Parts
    <2>2. CASE Exhausted \/ BeginStep \/ ClosureDone
      BY <2>2 DEF Exhausted, BeginStep, ClosureDone, clist, nlist
    <2>3. CASE NoSeed
      BY <2>1, <2>3 DEF NoSeed, clist, nlist, Skipping, EmptyList
    <2>4. CASE NoThread
      <3>1. clist.threads = <<>> /\ (lists' = lists \/ lists' = [lists EXCEPT !.clist = EmptyList])
        BY <2>4 DEF NoThread
      <3>2. QED
        BY <2>1, <3>1 DEF clist, nlist, EmptyList
    <2>5. QED
      BY <2>2, <2>3, <2>4
  <1>6. pos' \in Int /\ pos' >= pos
    <2>1. CASE Exhausted \/ BeginStep \/ ClosureDone
      BY <1>1, <2>1 DEF Exhausted, BeginStep, ClosureDone
    <2>2. CASE NoSeed
      BY <1>1, <2>2, ArrivalFits DEF NoSeed
    <2>3. CASE NoThread
      <3>1. pos' \in {pos, pos + 1}
        BY <2>3 DEF NoThread
      <3>2. QED
        BY <1>1, <3>1
    <2>4. QED
      BY <2>1, <2>2, <2>3
  <1>7. From' \in Int /\ From <= From'
    <2>1. CASE Exhausted \/ NoSeed \/ NoThread
      <3>1. at \in {"loop", "check"} /\ at' \in {"drain", "check", "loop"}
        BY <2>1 DEF Exhausted, NoSeed, NoThread
      <3>2. From = 1 /\ From' = 1
        BY <3>1 DEF From, Stepped
      <3>3. QED
        BY <3>2
    <2>2. CASE BeginStep
      BY <2>2 DEF BeginStep, From, Stepped
    <2>3. CASE ClosureDone
      <3>1. at = "closure" /\ i' = i /\ at' = IF into = "clist" THEN "check" ELSE "step"
        BY <2>3 DEF ClosureDone
      <3>2. From' = From /\ From \in Int
        BY <1>1, <3>1, Parts DEF From, Stepped, Control
      <3>3. QED
        BY <3>2
    <2>4. QED
      BY <2>1, <2>2, <2>3
  <1>8. PICK from \in Int : from = From' /\ From <= from
    BY <1>7
  <1>9. QED
    BY <1>2, <1>3, <1>4, <1>5, <1>6, <1>8, QuietGrouped

\* A match found is whole, and so is the answer it replaces.
LEMMA ThreadEndsGrouped ==
  ASSUME VMInv, Grouped, ~capture_free, Die \/ Reject \/ MatchFirst \/ MatchLongest
  PROVE  Grouped'
  <1>1. /\ at = "step" /\ at' = "step" /\ i <= Len(clist.threads)
        /\ i' \in {i + 1, Len(clist.threads) + 1}
        /\ UNCHANGED <<search, pos>> /\ UNCHANGED <<at, lists, into, stack, carried, pool>>
    BY DEF Die, Reject, MatchFirst, MatchLongest, Stepping
  <1>2. /\ i \in 1 .. Len(clist.threads) /\ Len(clist.threads) \in Nat /\ thread \in ThreadsIn(pool)
        /\ pos \in Int /\ search \in Searches /\ PoolOK(pool) /\ stack = <<>>
    BY <1>1, ThreadFacts, ListFacts, Parts, CallFacts DEF Rests
  <1>3. From = i /\ From' = i' /\ i' \in Int /\ i <= i'
    BY <1>1, <1>2 DEF From, Stepped
  <1>4. AnswerWhole'
    <2>1. CASE Die \/ Reject
      <3>1. UNCHANGED search /\ UNCHANGED <<matched, out_slots>>
        BY <1>1, <2>1 DEF Die, Reject
      <3>2. QED
        BY <1>1, <3>1, AnswerKept, GroupedParts
    <2>2. CASE MatchFirst \/ MatchLongest
      <3>1. code[thread.pc].op = "match" /\ out_slots' \in {Found, out_slots}
            /\ (out_slots' = out_slots => matched \/ out_slots' = Found)
        BY <2>2 DEF MatchFirst, MatchLongest, Stepping, instruction
      <3>2. Found = pool.data[thread.carry]
        BY DEF Found
      <3>3. PICK d, pc : d = pool.data[thread.carry] /\ pc = thread.pc
        OBVIOUS
      <3>4. d \in Blocks
        BY <1>2, <3>3, BlockOf
      <3>5. GroupsFit(prog, d, pc, pos)
        <4>1. FitsIn(pool, clist.threads, i, pos)
          BY <1>1, <1>3, GroupedParts
        <4>2. QED
          BY <1>2, <3>3, <4>1 DEF FitsIn, Fit, thread
      <3>6. \A g \in Groups(prog) : Whole(d, g, d[1])
        BY <1>2, <3>1, <3>3, <3>4, <3>5, FitMatches
      <3>7. matched => \A g \in Groups(prog) : Whole(out_slots, g, out_slots[1])
        BY <1>1, GroupedParts DEF AnswerWhole
      <3>8. PICK o : o = out_slots' /\ \A g \in Groups(prog) : Whole(o, g, o[1])
        BY <3>1, <3>2, <3>3, <3>6, <3>7
      <3>9. prog' = prog
        BY <1>1, Kept
      <3>10. QED
        BY <3>8, <3>9 DEF AnswerWhole, Whole
    <2>3. QED
      BY <2>1, <2>2
  <1>5. PICK from \in Int : from = From' /\ From <= from
    BY <1>3
  <1>6. clist'.threads = clist.threads /\ nlist'.threads = nlist.threads /\ pos' \in Int /\ pos' >= pos
    BY <1>1, <1>2 DEF clist, nlist
  <1>7. QED
    BY <1>1, <1>2, <1>4, <1>5, <1>6, QuietGrouped

-----------------------------------------------------------------------------
(* The closure's walk.                                                     *)

\* The list filled keeps its threads, or gains one that fits where the list stands.
Gains(q, t, u) == u = t \/ \E x \in ThreadsIn(pool) : u = Append(t, x) /\ Fit(q, x, here)

LEMMA VisitedGrouped ==
  ASSUME VMInv, Grouped, ~capture_free, at = "closure", UNCHANGED search,
         UNCHANGED <<at, pos, i, into, matched, out_slots>>,
         NEW q, q = pool', \A t \in {clist.threads, nlist.threads} : SameBlocks(pool, q, t, 1),
         NEW l, lists' = [lists EXCEPT ![into] = l], Gains(q, lists[into].threads, l.threads),
         NEW s, s = stack', FitsIn(q, s, 1, here)
  PROVE  Grouped'
  <1>1. PICK c, n, c1, n1, u, from, x, y :
          /\ c = clist.threads /\ n = nlist.threads /\ c1 = clist'.threads /\ n1 = nlist'.threads
          /\ u = l.threads /\ from = From /\ x = pos /\ y = here
    OBVIOUS
  <1>2. /\ FitsIn(pool, c, from, x) /\ FitsIn(pool, n, 1, x + 1)
        /\ c \in Seq(ThreadsIn(pool)) /\ n \in Seq(ThreadsIn(pool)) /\ AnswerWhole
        /\ from \in Int /\ from >= 1
    BY <1>1, GroupedParts
  <1>3. into \in {"clist", "nlist"} /\ lists = [clist |-> clist, nlist |-> nlist]
    BY Parts DEF Control
  <1>4. FitsIn(q, c, from, x) /\ FitsIn(q, n, 1, x + 1)
    <2>1. SameBlocks(pool, q, c, 1) /\ SameBlocks(pool, q, n, 1)
      BY <1>1
    <2>2. SameBlocks(pool, q, c, from)
      BY <2>1 DEF SameBlocks
    <2>3. QED
      BY <1>2, <2>1, <2>2, FitsSame
  <1>5. c1 = (IF into = "clist" THEN u ELSE c) /\ n1 = (IF into = "nlist" THEN u ELSE n)
        /\ lists[into].threads = IF into = "clist" THEN c ELSE n
    BY <1>1, <1>3 DEF clist, nlist
  <1>6. From' = from /\ pos' = x /\ here' = y
    BY <1>1 DEF From, Stepped, here
  <1>7. into = "clist" => from = 1 /\ y = x
    BY <1>1 DEF From, Stepped, here
  <1>8. into = "nlist" => y = x + 1
    BY <1>1 DEF here
  <1>9. PICK t : t = lists[into].threads /\ t \in Seq(ThreadsIn(pool)) /\ FitsIn(q, t, 1, y)
    BY <1>2, <1>3, <1>4, <1>5, <1>7, <1>8
  <1>10. FitsIn(q, u, 1, y)
    <2>1. CASE u = t
      BY <1>9, <2>1
    <2>2. CASE u # t
      <3>1. PICK z \in ThreadsIn(pool) : u = Append(t, z) /\ Fit(q, z, y)
        BY <1>1, <1>9, <2>2 DEF Gains
      <3>2. QED
        BY <1>9, <3>1, FitsAppend
    <2>3. QED
      BY <2>1, <2>2
  <1>11. FitsIn(q, c1, from, x) /\ FitsIn(q, n1, 1, x + 1)
    BY <1>3, <1>4, <1>5, <1>7, <1>8, <1>10
  <1>12. GroupedIn(q, c1, n1, s, from, x, y)
    BY <1>1, <1>11 DEF GroupedIn
  <1>13. AnswerWhole'
    BY <1>2, AnswerKept
  <1>14. QED
    BY <1>1, <1>6, <1>12, <1>13, GroupedArrives

\* A visit that adds no thread: the other entries fit, and the one it pushes if it does.
LEMMA WalkGrouped ==
  ASSUME VMInv, Grouped, ~capture_free, at = "closure", stack # <<>>, UNCHANGED search,
         UNCHANGED <<at, pos, i, into, matched, out_slots>>, lists' \in {lists, Mark},
         NEW q, q = pool',
         \A t \in {clist.threads, nlist.threads} : SameBlocks(pool, q, t, 1),
         NEW s, s = stack', FitsIn(q, s, 1, here)
  PROVE  Grouped'
  <1>1. PICK l : l = IF lists' = lists THEN lists[into]
                     ELSE [threads |-> lists[into].threads, seen |-> lists[into].seen \cup {top.pc}]
    OBVIOUS
  <1>2. lists' = [lists EXCEPT ![into] = l] /\ l.threads = lists[into].threads
    BY <1>1, MarkFacts
  <1>3. Gains(q, lists[into].threads, l.threads)
    BY <1>2 DEF Gains
  <1>4. QED
    BY <1>2, <1>3, VisitedGrouped

\* The entries below the top one keep their blocks, and fit.
LEMMA FrontGrouped ==
  ASSUME VMInv, Grouped, ~capture_free, at = "closure", stack # <<>>,
         NEW q, SameBlocks(pool, q, Front(stack), 1)
  PROVE  FitsIn(q, Front(stack), 1, here) /\ Fit(pool, top, here)
  <1>1. FitsIn(pool, stack, 1, here)
    BY GroupedParts
  <1>2. FitsIn(pool, Front(stack), 1, here) /\ Fit(pool, top, here)
    BY <1>1, FitsFront
  <1>3. QED
    BY <1>2, FitsSame

LEMMA DropGrouped ==
  ASSUME VMInv, Grouped, ~capture_free, at = "closure", stack # <<>>, UNCHANGED search,
         UNCHANGED <<at, pos, i, into, matched, out_slots>>, lists' \in {lists, Mark},
         stack' = Front(stack), pool' = Release(pool, top.carry)
  PROVE  Grouped'
  <1>1. PICK q, s : q = pool' /\ s = stack' /\ q = Release(pool, top.carry) /\ s = Front(stack)
    OBVIOUS
  <1>2. q.data = pool.data
    BY <1>1, TopFacts, ReleaseOneFacts
  <1>3. \A t \in {clist.threads, nlist.threads, Front(stack)} : SameBlocks(pool, q, t, 1)
    BY <1>2 DEF SameBlocks
  <1>4. FitsIn(q, s, 1, here)
    BY <1>1, <1>3, FrontGrouped
  <1>5. QED
    BY <1>1, <1>3, <1>4, WalkGrouped

\* One entry in place of the top one, which fits.
LEMMA ContinueGrouped ==
  ASSUME VMInv, Grouped, ~capture_free, at = "closure", stack # <<>>, UNCHANGED search,
         UNCHANGED <<at, pos, i, into, matched, out_slots>>, lists' \in {lists, Mark},
         NEW q, q = pool',
         \A t \in {clist.threads, nlist.threads, Front(stack)} : SameBlocks(pool, q, t, 1),
         NEW pc, NEW carry, Continue(pc, carry), GroupsFit(prog, q.data[carry], pc, here)
  PROVE  Grouped'
  <1>1. PICK f, s, e, S : /\ f = Front(stack) /\ s = stack' /\ e = Entry(pc, carry)
                          /\ s = Append(f, e) /\ S = ThreadsIn(pool) \cup {e}
    BY DEF Continue
  <1>2. f \in Seq(S) /\ e \in S
    BY <1>1, TopFacts, SeqMonotonic
  <1>3. FitsIn(q, f, 1, here)
    BY <1>1, FrontGrouped
  <1>4. Fit(q, e, here)
    BY <1>1 DEF Fit, Entry
  <1>5. FitsIn(q, s, 1, here)
    BY <1>1, <1>2, <1>3, <1>4, FitsAppend
  <1>6. QED
    BY <1>1, <1>5, WalkGrouped

LEMMA MoveOnGrouped ==
  ASSUME VMInv, Grouped, ~capture_free, at = "closure", stack # <<>>, UNCHANGED search,
         UNCHANGED <<at, pos, i, into, matched, out_slots>>, lists' \in {lists, Mark},
         UNCHANGED pool, NEW pc, Continue(pc, top.carry),
         GroupsFit(prog, pool.data[top.carry], top.pc, here) =>
           GroupsFit(prog, pool.data[top.carry], pc, here)
  PROVE  Grouped'
  <1>1. PICK q, carry : q = pool /\ q = pool' /\ carry = top.carry
    OBVIOUS
  <1>2. \A t \in {clist.threads, nlist.threads, Front(stack)} : SameBlocks(pool, q, t, 1)
    BY <1>1 DEF SameBlocks
  <1>3. GroupsFit(prog, q.data[carry], top.pc, here)
    BY <1>1, <1>2, FrontGrouped DEF Fit
  <1>4. QED
    BY <1>1, <1>2, <1>3, ContinueGrouped

\* A jump hops only among instructions where the same groups are open.
LEMMA JumpStays ==
  ASSUME search \in Searches, NEW p \in Proper(code), code[p].op = "jump",
         NEW entered \in SUBSET DOMAIN code
  PROVE  LET target == JumpTarget(code, p, entered)
         IN target \in Proper(code) /\ OpenAt(prog, target) = OpenAt(prog, p) /\ target # 1
  <1> DEFINE jumps == {h \in entered : code[h].op = "jump"}
             heads == {h \in entered : code[h].op = "split"}
             hop == [h \in DOMAIN code |-> IF h \in jumps THEN code[h].primary ELSE h]
             first == code[p].primary
             target == [h \in DOMAIN code |-> IF h \in heads THEN code[h].secondary ELSE first]
             last == Hopped(first, hop)[max_loop_hops]
  <1>1. PICK S : S = {h \in Proper(code) : OpenAt(prog, h) = OpenAt(prog, p) /\ h # 1}
    OBVIOUS
  <1>2. S \subseteq DOMAIN code /\ p \in DOMAIN code
    BY <1>1 DEF Proper
  <1>3. ASSUME NEW h \in Proper(code), code[h].op # "save", OpenAt(prog, h) = OpenAt(prog, p),
               NEW q \in Successors(code, h)
        PROVE  q \in S
    <2>1. q \in Proper(code) /\ OpenAt(prog, q) = OpenAt(prog, h)
      BY <1>3, BracketFacts
    <2>2. h \in DOMAIN code
      BY DEF Proper
    <2>3. q # 1
      BY <2>2, SeedFacts
    <2>4. QED
      BY <1>1, <1>3, <2>1, <2>3
  <1>4. first \in S
    <2>1. first \in Successors(code, p)
      BY EpsilonKinds DEF Successors
    <2>2. QED
      BY <1>3, <2>1
  <1>5. \A h \in S : /\ code[h].op = "jump" => code[h].primary \in S
                     /\ code[h].op = "split" => code[h].secondary \in S
    <2>1. SUFFICES ASSUME NEW h \in S
                   PROVE  /\ code[h].op = "jump" => code[h].primary \in S
                          /\ code[h].op = "split" => code[h].secondary \in S
      OBVIOUS
    <2>2. code[h].op = "jump" => code[h].primary \in Successors(code, h)
      BY EpsilonKinds DEF Successors
    <2>3. code[h].op = "split" => code[h].secondary \in Successors(code, h)
      BY EpsilonKinds DEF Successors
    <2>4. h \in Proper(code) /\ OpenAt(prog, h) = OpenAt(prog, p)
      BY <1>1
    <2>5. QED
      BY <1>3, <2>2, <2>3, <2>4
  <1>6. \A h \in S : hop[h] \in S
    BY <1>2, <1>5
  <1>7. JumpTarget(code, p, entered) = target[last]
    BY DEF JumpTarget, Hopped
  <1>8. last \in S
    <2> HIDE DEF hop
    <2>1. QED
      BY <1>4, <1>6, HopsStay
  <1>9. target[last] \in S
    <2> HIDE DEF last
    <2>1. QED
      BY <1>2, <1>4, <1>5, <1>8
  <1>10. QED
    BY <1>1, <1>7, <1>9

LEMMA VisitGrouped ==
  ASSUME VMInv, Grouped, ~capture_free, VisitSeen \/ VisitJump \/ VisitLoopExit \/ VisitAssertion
  PROVE  Grouped'
  <1>1. CASE VisitSeen
    <2>1. /\ at = "closure" /\ stack # <<>> /\ stack' = Front(stack) /\ lists' = lists
          /\ pool' = Release(pool, top.carry)
          /\ UNCHANGED search /\ UNCHANGED <<at, pos, i, into, matched, out_slots>>
      BY <1>1 DEF VisitSeen
    <2>2. QED
      BY <2>1, DropGrouped
  <1>2. ASSUME NEW ops, Visiting(ops)
        PROVE  /\ at = "closure" /\ stack # <<>> /\ top.pc \in DOMAIN code /\ code[top.pc].op \in ops
               /\ search \in Searches /\ pool.data[top.carry] \in Blocks /\ here \in Int
               /\ UNCHANGED search /\ UNCHANGED <<at, pos, i, into, matched, out_slots>>
    <2>1. /\ at = "closure" /\ stack # <<>> /\ top.pc \in DOMAIN code /\ code[top.pc].op \in ops
          /\ search \in Searches
          /\ UNCHANGED search /\ UNCHANGED <<at, pos, i, into, matched, out_slots>>
      BY <1>2, VisitFacts, Parts
    <2>2. pool.data[top.carry] \in Blocks
      BY <2>1, TopFacts, BlockOf
    <2>3. here \in Int
      BY <2>1, GroupedParts
    <2>4. QED
      BY <2>1, <2>2, <2>3
  <1>3. PICK d, pc, x : d = pool.data[top.carry] /\ pc = top.pc /\ x = here
    OBVIOUS
  <1>4. CASE VisitJump
    <2>1. PICK entered, target : entered = Mark[into].seen /\ target = JumpTarget(code, pc, entered)
      OBVIOUS
    <2>2. /\ Visiting({"jump"}) /\ lists' = Mark /\ UNCHANGED pool /\ Continue(target, top.carry)
      BY <1>3, <1>4, <2>1 DEF VisitJump
    <2>3. /\ at = "closure" /\ stack # <<>> /\ pc \in DOMAIN code /\ code[pc].op = "jump"
          /\ search \in Searches /\ d \in Blocks /\ x \in Int
          /\ UNCHANGED search /\ UNCHANGED <<at, pos, i, into, matched, out_slots>>
      BY <1>2, <1>3, <2>2
    <2>4. entered \in SUBSET DOMAIN code
      BY <2>1, <2>3, MarkFacts DEF ListOK
    <2>5. ASSUME GroupsFit(prog, d, pc, x) PROVE GroupsFit(prog, d, target, x)
      <3>1. pc \in Proper(code) /\ pc # 1
        BY <2>3, <2>5, SeedFacts DEF GroupsFit, code, Slots
      <3>2. target \in Proper(code) /\ OpenAt(prog, target) = OpenAt(prog, pc) /\ target # 1
        BY <2>1, <2>3, <2>4, <3>1, JumpStays
      <3>3. Overhang(code, pc) = 0 /\ Overhang(code, target) \in {0, 1}
        BY <2>3, <3>1, BracketFacts, GroupFacts DEF Consuming
      <3>4. Reach(prog, pc, x) <= Reach(prog, target, x)
        BY <2>3, <3>3 DEF Reach, code
      <3>5. QED
        BY <2>3, <2>5, <3>1, <3>2, <3>4, FitOn
    <2>6. QED
      BY <1>3, <2>2, <2>3, <2>5, MoveOnGrouped
  <1>5. ASSUME NEW ops, Visiting(ops), ops \cap ({"save"} \cup Consuming) = {},
               NEW q \in Successors(code, pc), GroupsFit(prog, d, pc, x)
        PROVE  GroupsFit(prog, d, q, x)
    <2>1. /\ code[pc].op \notin {"save"} \cup Consuming /\ search \in Searches /\ d \in Blocks
          /\ x \in Int
      BY <1>2, <1>3, <1>5
    <2>2. QED
      BY <1>5, <2>1, FitCrosses
  <1>6. CASE VisitLoopExit
    <2>1. /\ Visiting(Possessive) /\ lists' = Mark /\ UNCHANGED pool
          /\ Continue(code[top.pc].secondary, top.carry)
      BY <1>6 DEF VisitLoopExit
    <2>2. code[pc].secondary \in Successors(code, pc)
      BY <1>2, <1>3, <2>1, EpsilonKinds DEF Successors
    <2>3. Possessive \cap ({"save"} \cup Consuming) = {}
      BY DEF Possessive, Consuming
    <2>4. GroupsFit(prog, d, pc, x) => GroupsFit(prog, d, code[pc].secondary, x)
      BY <1>5, <2>1, <2>2, <2>3
    <2>5. QED
      BY <1>2, <1>3, <2>1, <2>4, MoveOnGrouped
  <1>7. CASE VisitAssertion
    <2>1. /\ Visiting({"assert_position", "assert_lookaround"}) /\ lists' = Mark
      BY <1>7 DEF VisitAssertion
    <2>2. \/ Continue(top.pc + 1, top.carry) /\ UNCHANGED pool
          \/ stack' = Front(stack) /\ pool' = Release(pool, top.carry)
      BY <1>7 DEF VisitAssertion
    <2>3. pc + 1 \in Successors(code, pc)
      BY <1>2, <1>3, <2>1, EpsilonKinds DEF Successors
    <2>4. {"assert_position", "assert_lookaround"} \cap ({"save"} \cup Consuming) = {}
      BY DEF Consuming
    <2>5. GroupsFit(prog, d, pc, x) => GroupsFit(prog, d, pc + 1, x)
      BY <1>5, <2>1, <2>3, <2>4
    <2>6. CASE Continue(top.pc + 1, top.carry) /\ UNCHANGED pool
      BY <1>2, <1>3, <2>1, <2>5, <2>6, MoveOnGrouped
    <2>7. CASE stack' = Front(stack) /\ pool' = Release(pool, top.carry)
      BY <1>2, <2>1, <2>7, DropGrouped
    <2>8. QED
      BY <2>2, <2>6, <2>7
  <1>8. QED
    BY <1>1, <1>4, <1>6, <1>7

LEMMA VisitSplitGrouped ==
  ASSUME VMInv, Grouped, ~capture_free, VisitSplit
  PROVE  Grouped'
  <1>1. /\ Visiting({"split"}) /\ lists' = Mark /\ pool' = Share(pool, top.carry)
        /\ stack' = Append(Append(Front(stack), Entry(code[top.pc].secondary, top.carry)),
                           Entry(code[top.pc].primary, top.carry))
    BY DEF VisitSplit
  <1>2. /\ at = "closure" /\ stack # <<>> /\ top.pc \in DOMAIN code /\ code[top.pc].op = "split"
        /\ search \in Searches /\ UNCHANGED search
        /\ UNCHANGED <<at, pos, i, into, matched, out_slots>>
    BY <1>1, VisitFacts, Parts
  <1>3. PICK q, d, f, x, first, second, S :
          /\ q = pool' /\ q = Share(pool, top.carry) /\ d = pool.data[top.carry] /\ f = Front(stack)
          /\ x = here
          /\ first = Entry(code[top.pc].primary, top.carry)
          /\ second = Entry(code[top.pc].secondary, top.carry)
          /\ S = ThreadsIn(pool) \cup {first, second}
    BY <1>1
  <1>4. q.data = pool.data
    BY <1>2, <1>3, TopFacts, ShareFacts DEF Referred
  <1>5. \A t \in {clist.threads, nlist.threads, f} : SameBlocks(pool, q, t, 1)
    BY <1>4 DEF SameBlocks
  <1>6. FitsIn(q, f, 1, x) /\ GroupsFit(prog, d, top.pc, x)
    BY <1>2, <1>3, <1>5, FrontGrouped DEF Fit
  <1>7. {code[top.pc].primary, code[top.pc].secondary} \subseteq Successors(code, top.pc)
    BY <1>2, EpsilonKinds DEF Successors
  <1>8. \A pc \in {code[top.pc].primary, code[top.pc].secondary} : GroupsFit(prog, d, pc, x)
    <2>1. d \in Blocks /\ x \in Int
      BY <1>2, <1>3, TopFacts, BlockOf, GroupedParts
    <2>2. code[top.pc].op \notin {"save"} \cup Consuming
      BY <1>2 DEF Consuming
    <2>3. QED
      BY <1>2, <1>6, <1>7, <2>1, <2>2, FitCrosses
  <1>9. Fit(q, first, x) /\ Fit(q, second, x)
    BY <1>3, <1>4, <1>8 DEF Fit, Entry
  <1>10. f \in Seq(S) /\ first \in S /\ second \in S
    BY <1>2, <1>3, TopFacts, SeqMonotonic
  <1>11. PICK m, s : m = Append(f, second) /\ s = Append(m, first) /\ s = stack'
    BY <1>1, <1>3
  <1>12. m \in Seq(S) /\ FitsIn(q, m, 1, x)
    BY <1>6, <1>9, <1>10, <1>11, FitsAppend, AppendProperties
  <1>13. FitsIn(q, s, 1, x)
    BY <1>9, <1>10, <1>11, <1>12, FitsAppend
  <1>14. lists' \in {lists, Mark} /\ FitsIn(q, s, 1, here)
    BY <1>1, <1>3, <1>13
  <1>15. QED
    BY <1>2, <1>3, <1>5, <1>11, <1>14, WalkGrouped

LEMMA VisitSaveGrouped ==
  ASSUME VMInv, Grouped, ~capture_free, VisitSave
  PROVE  Grouped'
  <1>1. Visiting({"save"}) /\ lists' = Mark
    BY DEF VisitSave
  <1>2. /\ at = "closure" /\ stack # <<>> /\ top.pc \in DOMAIN code /\ code[top.pc].op = "save"
        /\ search \in Searches /\ UNCHANGED search /\ here \in 0 .. size /\ size \in Nat
        /\ UNCHANGED <<at, pos, i, into, matched, out_slots>>
    BY <1>1, VisitFacts, TopFacts, Parts, CallFacts
  <1>3. PICK pc, slot, b, x, block, q, v :
          /\ pc = top.pc /\ slot = code[top.pc].slot /\ b = top.carry /\ x = here
          /\ block = cow_write(pool, b, slot, x).block
          /\ q = cow_write(pool, b, slot, x).pool
          /\ v = [pool.data[b] EXCEPT ![slot] = x]
    OBVIOUS
  <1>4. Continue(pc + 1, block) /\ pool' = q
    BY <1>3 DEF VisitSave
  <1>5. /\ PoolOK(pool) /\ Referred(pool, b) /\ b \in BlocksOf(pool) /\ slot \in Slots
        /\ x \in npos .. size /\ x \in 0 .. size
    BY <1>2, <1>3, TopFacts, ProgramFacts DEF npos, Referred
  <1>6. Written(pool, b, block, q, v)
    BY <1>2, <1>3, <1>5, CowFacts
  <1>7. \A t \in {clist.threads, nlist.threads, Front(stack)} : SameBlocks(pool, q, t, 1)
    <2>1. SUFFICES ASSUME NEW t \in {clist.threads, nlist.threads, Front(stack)},
                          NEW k \in 1 .. Len(t)
                   PROVE  q.data[t[k].carry] = pool.data[t[k].carry]
      BY DEF SameBlocks
    <2>2. Beside(pool, b, t[k].carry)
      BY <1>2, <1>3, VisitBeside
    <2>3. QED
      BY <1>5, <1>6, <2>2, WrittenBeside
  <1>8. PICK d : d = pool.data[b] /\ d \in Blocks /\ v = [d EXCEPT ![slot] = x]
    BY <1>2, <1>3, <1>5, SlotWritten
  <1>9. GroupsFit(prog, d, pc, x)
    <2>1. SameBlocks(pool, pool, Front(stack), 1)
      BY DEF SameBlocks
    <2>2. Fit(pool, top, here)
      BY <1>2, <2>1, FrontGrouped
    <2>3. QED
      BY <1>3, <1>8, <2>2 DEF Fit
  <1>10. GroupsFit(prog, v, pc + 1, x)
    <2>1. CASE pc = 1
      <3>1. slot = 0 /\ pc + 1 = 2
        BY <1>2, <1>3, <2>1, SeedFacts
      <3>2. QED
        BY <1>2, <1>5, <1>8, <1>9, <2>1, <3>1, FitBegins
    <2>2. CASE pc # 1
      BY <1>2, <1>3, <1>5, <1>8, <1>9, <2>2, FitSaves
    <2>3. QED
      BY <2>1, <2>2
  <1>11. q.data[block] = v
    BY <1>6 DEF Written
  <1>12. GroupsFit(prog, q.data[block], pc + 1, here)
    BY <1>3, <1>10, <1>11
  <1>13. PICK h : h = pc + 1
    OBVIOUS
  <1>14. QED
    BY <1>1, <1>2, <1>4, <1>7, <1>12, <1>13, ContinueGrouped

LEMMA VisitLeafGrouped ==
  ASSUME VMInv, Grouped, ~capture_free, VisitLeaf
  PROVE  Grouped'
  <1>1. PICK t : t = Entry(top.pc, top.carry)
    OBVIOUS
  <1>2. /\ Visiting(Consuming \cup Possessive \cup {"match"}) /\ UNCHANGED pool
        /\ lists' = [Mark EXCEPT ![into].threads = Append(@, t)]
        /\ stack' = Front(stack)
    BY <1>1 DEF VisitLeaf
  <1>3. /\ at = "closure" /\ stack # <<>> /\ top.pc \in DOMAIN code /\ into \in {"clist", "nlist"}
        /\ top.carry \in CarryIn(pool)
        /\ UNCHANGED search /\ UNCHANGED <<at, pos, i, into, matched, out_slots>>
    BY <1>2, VisitFacts, TopFacts
  <1>4. PICK threads, marked, grown :
          /\ threads = lists[into].threads /\ marked = lists[into].seen \cup {top.pc}
          /\ grown = Append(threads, t)
    OBVIOUS
  <1>5. PICK l : l = [threads |-> grown, seen |-> marked]
    OBVIOUS
  <1>6. lists' = [lists EXCEPT ![into] = l]
    <2>1. lists = [clist |-> clist, nlist |-> nlist]
      BY Parts
    <2>2. PICK marks : marks = [threads |-> threads, seen |-> marked]
      OBVIOUS
    <2>3. Mark = [lists EXCEPT ![into] = marks] /\ Mark[into] = marks
      BY <1>3, <1>4, <2>2, MarkFacts
    <2>4. marks.threads = threads
      BY <2>2
    <2>5. lists' = [Mark EXCEPT ![into] = [marks EXCEPT !.threads = grown]]
      BY <1>2, <1>4, <2>3, <2>4
    <2>6. [marks EXCEPT !.threads = grown] = [threads |-> grown, seen |-> marked]
      BY <2>2
    <2>7. QED
      BY <1>3, <1>5, <2>1, <2>3, <2>5, <2>6
  <1>7. PICK q, s : q = pool /\ q = pool' /\ s = stack' /\ s = Front(stack)
    BY <1>2
  <1>8. \A u \in {clist.threads, nlist.threads, Front(stack)} : SameBlocks(pool, q, u, 1)
    BY <1>7 DEF SameBlocks
  <1>9. FitsIn(q, s, 1, here) /\ Fit(pool, top, here)
    BY <1>3, <1>7, <1>8, FrontGrouped
  <1>10. t \in ThreadsIn(pool)
    BY <1>1, <1>3 DEF ThreadsIn, CarryIn, Entry
  <1>11. Fit(q, t, here)
    BY <1>1, <1>7, <1>9 DEF Fit, Entry
  <1>12. Gains(q, lists[into].threads, l.threads)
    BY <1>4, <1>5, <1>10, <1>11 DEF Gains
  <1>13. QED
    BY <1>3, <1>6, <1>7, <1>8, <1>9, <1>12, VisitedGrouped

-----------------------------------------------------------------------------
(* Steps that start a closure, and the loop's round.                       *)

LEMMA SeedGrouped ==
  ASSUME VMInv, Grouped, ~capture_free, Seed
  PROVE  Grouped'
  <1>1. /\ at = "loop" /\ pos <= size /\ Arrival # npos /\ pos' = Arrival
        /\ lists' = [lists EXCEPT !.clist = IF Skipping THEN EmptyList ELSE @]
        /\ pool' = Share(pool, npos_block)
        /\ add_thread("clist", 1, npos_block)
        /\ UNCHANGED search /\ UNCHANGED <<matched, out_slots>>
    BY DEF Seed
  <1>2. PICK q, c, n, s, x, y :
          /\ q = pool' /\ c = clist'.threads /\ n = nlist'.threads /\ s = stack'
          /\ x = pos' /\ y = here'
    OBVIOUS
  <1>3. x \in Int /\ pos <= x
    BY <1>1, <1>2, ArrivalFits, Parts, CallFacts DEF Control
  <1>4. c = clist.threads /\ n = <<>>
    <2>1. lists = [clist |-> clist, nlist |-> nlist] /\ nlist.threads = <<>>
      BY <1>1, Parts DEF Rests, Stepped
    <2>2. QED
      BY <1>1, <1>2, <2>1 DEF clist, nlist, Skipping, EmptyList
  <1>5. q.data = pool.data /\ pool.data[npos_block] = Unset(Slots)
    <2>1. PoolOK(pool) /\ npos_block \in BlocksOf(pool) /\ pool.refcount[npos_block] >= 1
          /\ pool.data[npos_block] = Unset(Slots)
      BY Parts, ExactFacts DEF PoolOK, Exact, BlocksOf, npos_block
    <2>2. QED
      BY <1>1, <1>2, <2>1, ShareFacts
  <1>6. FitsIn(q, c, 1, x)
    <2>1. From = 1
      BY <1>1 DEF From, Stepped
    <2>2. FitsIn(pool, c, 1, x)
      BY <1>1, <1>3, <1>4, <2>1, GroupedParts, FitsLater
    <2>3. SameBlocks(pool, q, c, 1)
      BY <1>5 DEF SameBlocks
    <2>4. QED
      BY <2>2, <2>3, FitsSame
  <1>7. FitsIn(q, n, 1, x + 1)
    BY <1>4, FitsNone
  <1>8. PICK e : e = Entry(1, npos_block) /\ s = <<e>>
    BY <1>1, <1>2 DEF add_thread
  <1>9. Fit(q, e, y)
    <2>1. 1 \in Proper(code)
      BY Parts, GroupFacts
    <2>2. e.pc = 1 /\ e.carry = npos_block
      BY <1>8 DEF Entry
    <2>3. PICK d : d = q.data[e.carry] /\ d = Unset(Slots)
      BY <1>5, <2>2
    <2>4. GroupsFit(prog, d, 1, y)
      BY <2>1, <2>3 DEF GroupsFit, code, Slots
    <2>5. QED
      BY <2>2, <2>3, <2>4 DEF Fit
  <1>10. FitsIn(q, s, 1, y)
    BY <1>8, <1>9, FitsOne
  <1>11. From' = 1
    BY <1>1 DEF add_thread, From, Stepped
  <1>12. PICK from : from = From' /\ from = 1
    BY <1>11
  <1>13. GroupedIn(q, c, n, s, from, x, y)
    BY <1>6, <1>7, <1>10, <1>12 DEF GroupedIn
  <1>14. AnswerWhole'
    BY <1>1, AnswerKept, GroupedParts
  <1>15. QED
    BY <1>1, <1>2, <1>12, <1>13, <1>14, GroupedArrives

\* A byte taken: the threads still to step keep their blocks, and the next closure's entry
\* holds the thread's, as it left it.
LEMMA LaunchGrouped ==
  ASSUME VMInv, Grouped, ~capture_free, at = "step", i \in 1 .. Len(clist.threads),
         UNCHANGED search, UNCHANGED <<pos, matched, out_slots>>, i' = i + 1,
         NEW q, q.data = pool'.data,
         SameBlocks(pool, q, clist.threads, i + 1), SameBlocks(pool, q, nlist.threads, 1),
         NEW c, c = clist'.threads, Len(c) = Len(clist.threads),
         \A k \in 1 .. Len(c) : k # i => c[k] = clist.threads[k],
         nlist'.threads = nlist.threads,
         NEW pc, NEW block, add_thread("nlist", pc, block),
         GroupsFit(prog, q.data[block], pc, pos + 1)
  PROVE  Grouped'
  <1>1. PICK p, n, s, from, x, y, m :
          /\ p = pool' /\ n = nlist.threads /\ s = stack' /\ from = From' /\ x = pos' /\ x = pos
          /\ y = here' /\ m = i + 1
    OBVIOUS
  <1>2. PICK e : e = Entry(pc, block) /\ s = <<e>> /\ at' = "closure" /\ into' = "nlist"
    BY <1>1 DEF add_thread
  <1>3. from = m /\ y = x + 1 /\ m \in Int /\ i <= m /\ m = i + 1 /\ i \in Int
    <2>1. i \in Int /\ i + 1 \in Int /\ i <= i + 1
      BY GroupedParts
    <2>2. QED
      BY <1>1, <1>2, <2>1 DEF From, Stepped, here
  <1>4. From = i /\ x \in Int
    BY <1>1, GroupedParts DEF From, Stepped
  <1>5. FitsIn(p, c, m, x)
    <2>1. FitsIn(pool, clist.threads, m, x)
      BY <1>1, <1>3, <1>4, GroupedParts, FitsLater
    <2>2. SameBlocks(pool, p, clist.threads, m)
      BY <1>1 DEF SameBlocks
    <2>3. FitsIn(p, clist.threads, m, x)
      BY <2>1, <2>2, FitsSame
    <2>4. \A k \in 1 .. Len(c) : k >= m => c[k] = clist.threads[k]
      BY <1>3
    <2>5. QED
      BY <2>3, <2>4 DEF FitsIn
  <1>6. FitsIn(p, n, 1, x + 1)
    <2>1. SameBlocks(pool, p, n, 1)
      BY <1>1 DEF SameBlocks
    <2>2. QED
      BY <1>1, <2>1, GroupedParts, FitsSame
  <1>7. FitsIn(p, s, 1, y)
    <2>1. Fit(p, e, y)
      BY <1>1, <1>2, <1>3 DEF Fit, Entry
    <2>2. QED
      BY <1>2, <2>1, FitsOne
  <1>8. GroupedIn(p, c, n, s, from, x, y)
    BY <1>3, <1>5, <1>6, <1>7 DEF GroupedIn
  <1>9. AnswerWhole'
    BY AnswerKept, GroupedParts
  <1>10. n = nlist'.threads
    BY <1>1
  <1>11. QED
    BY <1>1, <1>8, <1>9, <1>10, GroupedArrives

\* The thread that steps, and its block.
LEMMA ThreadFit ==
  ASSUME VMInv, Grouped, ~capture_free, at = "step", i <= Len(clist.threads)
  PROVE  /\ GroupsFit(prog, pool.data[thread.carry], thread.pc, pos)
         /\ pool.data[thread.carry] \in Blocks /\ search \in Searches /\ PoolOK(pool)
         /\ i \in 1 .. Len(clist.threads) /\ thread.pc \in DOMAIN code /\ thread.pc \in Nat
         /\ pos \in 0 .. size /\ size \in Nat /\ text \in Seq(Bytes)
         /\ DOMAIN code = 1 .. Len(code)
  <1>1. /\ i \in 1 .. Len(clist.threads) /\ thread \in ThreadsIn(pool) /\ thread.pc \in DOMAIN code
        /\ pos \in 0 .. size /\ search \in Searches /\ PoolOK(pool)
    BY ThreadFacts, Parts
  <1>2. size \in Nat /\ text \in Seq(Bytes) /\ DOMAIN code = 1 .. Len(code) /\ thread.pc \in Nat
    BY <1>1, CallFacts
  <1>3. From = i
    BY DEF From, Stepped
  <1>4. FitsIn(pool, clist.threads, i, pos)
    BY <1>3, GroupedParts
  <1>5. Fit(pool, clist.threads[i], pos)
    <2>1. i >= i
      BY <1>1
    <2>2. QED
      BY <1>1, <1>4, <2>1 DEF FitsIn
  <1>6. GroupsFit(prog, pool.data[thread.carry], thread.pc, pos)
    BY <1>5 DEF Fit, thread
  <1>7. QED
    BY <1>1, <1>2, <1>6, BlockOf

LEMMA ConsumeGrouped ==
  ASSUME VMInv, Grouped, ~capture_free, Consume
  PROVE  Grouped'
  <1>1. /\ at = "step" /\ i <= Len(clist.threads) /\ code[thread.pc].op \in Consuming
        /\ UNCHANGED search /\ UNCHANGED <<pos, matched, out_slots>> /\ lists' = lists
        /\ advance_thread(thread.carry, pool)
    BY DEF Consume, Stepping, instruction
  <1>2. PICK pc : /\ pc \in Advanced(code, text, thread.pc, pos)
                  /\ add_thread("nlist", pc, thread.carry)
                  /\ pool' = Share(pool, thread.carry) /\ i' = i + 1
    BY <1>1 DEF advance_thread
  <1>3. PICK d, p, x : d = pool.data[thread.carry] /\ p = thread.pc /\ x = pos
    OBVIOUS
  <1>4. /\ GroupsFit(prog, d, p, x) /\ d \in Blocks /\ search \in Searches /\ PoolOK(pool)
        /\ i \in 1 .. Len(clist.threads) /\ p \in Nat /\ x \in Int /\ x \in Nat /\ text \in Seq(Bytes)
    BY <1>1, <1>3, ThreadFit
  <1>5. code[p].op \in Consuming /\ pc \in Successors(code, p)
    BY <1>1, <1>2, <1>3, <1>4, AdvancedFits
  <1>6. code[p].op # "save"
    BY <1>5 DEF Consuming
  <1>7. GroupsFit(prog, d, pc, x + 1)
    BY <1>4, <1>5, <1>6, FitTakes
  <1>8. PICK q, c, block : q = pool /\ c = clist.threads /\ c = clist'.threads /\ block = thread.carry
    BY <1>1 DEF clist
  <1>9. q.data = pool'.data
    BY <1>1, <1>2, <1>4, <1>8, ThreadReferred, ShareFacts DEF Referred
  <1>10. SameBlocks(pool, q, clist.threads, i + 1) /\ SameBlocks(pool, q, nlist.threads, 1)
    BY <1>8 DEF SameBlocks
  <1>11. nlist'.threads = nlist.threads
    BY <1>1 DEF nlist
  <1>12. GroupsFit(prog, q.data[block], pc, pos + 1)
    BY <1>3, <1>7, <1>8
  <1>13. QED
    BY <1>1, <1>2, <1>4, <1>8, <1>9, <1>10, <1>11, <1>12, LaunchGrouped

\* The block a possessive loop writes has its group, whole, and no other holder's changes.
LEMMA RepetitionGrouped ==
  ASSUME VMInv, Grouped, ~capture_free, at = "step", i <= Len(clist.threads),
         code[thread.pc].op \in Possessive, NEW pc \in Advanced(code, text, thread.pc, pos),
         NEW slot, slot = instruction.slot, ~(slot < 0),
         NEW end, end = pos + AtomLength(code, text, thread.pc, pos),
         NEW block, NEW q,
         block = tier1_capture_on_match(pool, thread.carry, slot, end).block,
         q = tier1_capture_on_match(pool, thread.carry, slot, end).pool
  PROVE  /\ GroupsFit(prog, q.data[block], pc, pos + 1) /\ PoolOK(q)
         /\ block \in BlocksOf(q) /\ q.refcount[block] >= 1
         /\ \A c : Beside(pool, thread.carry, c) => q.data[c] = pool.data[c]
  <1>1. PICK b, d, p, x : b = thread.carry /\ d = pool.data[b] /\ p = thread.pc /\ x = pos
    OBVIOUS
  <1>2. /\ GroupsFit(prog, d, p, x) /\ d \in Blocks /\ search \in Searches /\ PoolOK(pool)
        /\ p \in DOMAIN code /\ p \in Nat /\ x \in 0 .. size /\ x \in Nat /\ size \in Nat
        /\ text \in Seq(Bytes) /\ DOMAIN code = 1 .. Len(code)
    BY <1>1, ThreadFit
  <1>3. AtomLength(code, text, p, x) \in {1, 2} /\ end <= x + 1 + Overhang(code, pc)
    BY <1>1, <1>2, AtomEnds
  <1>4. end <= size
    BY <1>1, <1>2, AtomFits DEF size
  <1>5. end \in Int /\ x <= end /\ end \in npos .. size /\ pos \in npos .. size
    BY <1>1, <1>2, <1>3, <1>4 DEF npos
  <1>6. pc \in Successors(code, p)
    BY <1>1, <1>2, AdvancedFits
  <1>7. slot = code[p].slot /\ slot \in Slots /\ slot + 1 \in Slots
    BY <1>1, <1>2, ProgramFacts DEF instruction
  <1>8. Referred(pool, b)
    BY <1>1, ThreadReferred
  <1>9. /\ \A c : Beside(pool, b, c) => q.data[c] = pool.data[c]
        /\ q.data[block] = [[d EXCEPT ![slot] = x] EXCEPT ![slot + 1] = end]
    BY <1>1, <1>2, <1>5, <1>7, <1>8, TierBeside
  <1>10. PoolOK(q) /\ block \in BlocksOf(q) /\ q.refcount[block] >= 1
    BY <1>1, <1>2, <1>5, <1>7, <1>8, TierFacts
  <1>11. PICK v : v = q.data[block] /\ v = [[d EXCEPT ![slot] = x] EXCEPT ![slot + 1] = end]
    BY <1>9
  <1>12. GroupsFit(prog, v, pc, x + 1)
    <2>1. code[p].op \in Possessive /\ ~(code[p].slot < 0)
      BY <1>1, <1>7
    <2>2. v = [[d EXCEPT ![code[p].slot] = x] EXCEPT ![code[p].slot + 1] = end]
      BY <1>7, <1>11
    <2>3. /\ search \in Searches /\ d \in Blocks /\ x \in 0 .. size /\ end \in Int
          /\ x <= end /\ end <= x + 1 + Overhang(code, pc) /\ pc \in Successors(code, p)
          /\ GroupsFit(prog, d, p, x)
      BY <1>2, <1>3, <1>5, <1>6
    <2>4. QED
      BY ONLY <2>1, <2>2, <2>3, FitRepeats
  <1>13. GroupsFit(prog, q.data[block], pc, pos + 1)
    BY <1>1, <1>11, <1>12
  <1>14. \A c : Beside(pool, thread.carry, c) => q.data[c] = pool.data[c]
    BY <1>1, <1>9
  <1>15. QED
    BY <1>10, <1>13, <1>14

LEMMA ConsumePossessiveGrouped ==
  ASSUME VMInv, Grouped, ~capture_free, ConsumePossessive
  PROVE  Grouped'
  <1> DEFINE slot == instruction.slot
             end == pos + AtomLength(code, text, thread.pc, pos)
             written == IF slot < 0 \/ capture_free
                          THEN [block |-> thread.carry, pool |-> pool]
                          ELSE tier1_capture_on_match(pool, thread.carry, slot, end)
  <1>1. /\ at = "step" /\ i <= Len(clist.threads) /\ code[thread.pc].op \in Possessive
        /\ UNCHANGED search /\ UNCHANGED <<pos, matched, out_slots>>
        /\ lists' = [lists EXCEPT !.clist.threads[i].carry = written.block]
        /\ advance_thread(written.block, written.pool)
    BY DEF ConsumePossessive, Stepping, instruction
  <1>2. PICK q, block, b, d, p, x :
          /\ q = written.pool /\ block = written.block /\ b = thread.carry
          /\ d = pool.data[b] /\ p = thread.pc /\ x = pos
    OBVIOUS
  <1>3. PICK pc : /\ pc \in Advanced(code, text, p, x)
                  /\ add_thread("nlist", pc, block) /\ pool' = Share(q, block) /\ i' = i + 1
    BY <1>1, <1>2 DEF advance_thread
  <1>4. /\ GroupsFit(prog, d, p, x) /\ d \in Blocks /\ search \in Searches /\ PoolOK(pool)
        /\ i \in 1 .. Len(clist.threads) /\ p \in Nat /\ x \in Int /\ x \in Nat /\ text \in Seq(Bytes)
    BY <1>1, <1>2, ThreadFit
  <1>5. /\ GroupsFit(prog, q.data[block], pc, x + 1) /\ PoolOK(q)
        /\ block \in BlocksOf(q) /\ q.refcount[block] >= 1
        /\ \A c : Beside(pool, b, c) => q.data[c] = pool.data[c]
    <2>1. CASE slot < 0
      <3>1. q = pool /\ block = b
        BY <1>2, <2>1
      <3>2. Referred(pool, b)
        BY <1>1, <1>2, ThreadReferred
      <3>3. code[p].op \in Possessive
        BY <1>1, <1>2
      <3>4. pc \in Successors(code, p) /\ code[p].op # "save"
        BY <1>3, <1>4, <3>3, AdvancedFits DEF Possessive
      <3>5. GroupsFit(prog, d, pc, x + 1)
        BY <1>4, <3>4, FitTakes
      <3>6. QED
        BY <1>2, <1>4, <3>1, <3>2, <3>5 DEF Referred
    <2>2. CASE ~(slot < 0)
      <3>1. /\ block = tier1_capture_on_match(pool, thread.carry, slot, end).block
            /\ q = tier1_capture_on_match(pool, thread.carry, slot, end).pool
        BY <1>2, <2>2
      <3>2. PICK s, e : s = slot /\ e = end
        OBVIOUS
      <3> HIDE DEF slot, end, written
      <3>3. /\ s = instruction.slot /\ ~(s < 0)
            /\ e = pos + AtomLength(code, text, thread.pc, pos)
            /\ block = tier1_capture_on_match(pool, thread.carry, s, e).block
            /\ q = tier1_capture_on_match(pool, thread.carry, s, e).pool
        BY <2>2, <3>1, <3>2 DEF slot, end
      <3>4. pc \in Advanced(code, text, thread.pc, pos)
        BY <1>2, <1>3
      <3>5. /\ GroupsFit(prog, q.data[block], pc, pos + 1) /\ PoolOK(q)
            /\ block \in BlocksOf(q) /\ q.refcount[block] >= 1
            /\ \A c : Beside(pool, thread.carry, c) => q.data[c] = pool.data[c]
        BY <1>1, <3>3, <3>4, RepetitionGrouped
      <3>6. QED
        BY <1>2, <3>5
    <2>3. QED
      BY <2>1, <2>2
  <1> HIDE DEF slot, end, written
  <1>6. PICK c : c = clist'.threads
    OBVIOUS
  <1>7. /\ nlist'.threads = nlist.threads /\ Len(c) = Len(clist.threads)
        /\ \A k \in 1 .. Len(c) : k # i => c[k] = clist.threads[k]
    <2>1. lists = [clist |-> clist, nlist |-> nlist]
      BY Parts
    <2>2. PICK t, z, u : /\ t = clist.threads /\ z = [t[i] EXCEPT !.carry = block]
                         /\ u = [t EXCEPT ![i] = z]
      OBVIOUS
    <2>3. clist = [threads |-> t, seen |-> clist.seen]
      BY <2>2, Parts DEF ListOK
    <2>4. lists' = [lists EXCEPT !.clist = [clist EXCEPT !.threads = u]]
      BY <1>1, <1>2, <2>1, <2>2
    <2>5. c = u /\ nlist'.threads = nlist.threads
      BY <1>6, <2>1, <2>3, <2>4 DEF clist, nlist
    <2>6. PICK S : S = ThreadsIn(pool) \cup {z}
      OBVIOUS
    <2>7. t \in Seq(S) /\ z \in S
      BY <2>2, <2>6, GroupedParts, <1>1, SeqMonotonic
    <2>8. Len(u) = Len(t) /\ \A k \in 1 .. Len(t) : u[k] = IF k = i THEN z ELSE t[k]
      BY <1>4, <2>2, <2>7, ExceptSeq
    <2>9. QED
      BY <2>2, <2>5, <2>8
  <1>8. SameBlocks(pool, q, clist.threads, i + 1)
    <2>1. SUFFICES ASSUME NEW k \in 1 .. Len(clist.threads), k >= i + 1
                   PROVE  q.data[clist.threads[k].carry] = pool.data[clist.threads[k].carry]
      BY DEF SameBlocks
    <2>2. k # i
      BY <1>4, <2>1
    <2>3. Beside(pool, b, clist.threads[k].carry)
      BY <1>1, <1>2, <2>2, StepBeside
    <2>4. QED
      BY <1>5, <2>3
  <1>9. SameBlocks(pool, q, nlist.threads, 1)
    <2>1. SUFFICES ASSUME NEW k \in 1 .. Len(nlist.threads)
                   PROVE  q.data[nlist.threads[k].carry] = pool.data[nlist.threads[k].carry]
      BY DEF SameBlocks
    <2>2. Beside(pool, b, nlist.threads[k].carry)
      BY <1>1, <1>2, StepBeside
    <2>3. QED
      BY <1>5, <2>2
  <1>10. q.data = pool'.data
    BY <1>3, <1>5, ShareFacts
  <1>11. GroupsFit(prog, q.data[block], pc, pos + 1)
    BY <1>2, <1>5
  <1>12. QED
    BY <1>1, <1>3, <1>4, <1>6, <1>7, <1>8, <1>9, <1>10, <1>11, LaunchGrouped

\* The next list is current one position further on: nothing it reads has moved.
LEMMA RotateGrouped ==
  ASSUME VMInv, Grouped, ~capture_free, Rotate
  PROVE  Grouped'
  <1>1. /\ at = "step" /\ at' = "loop" /\ pos' = pos + 1
        /\ lists' = [clist |-> nlist, nlist |-> EmptyList]
        /\ pool' = cow_release_blocks(pool, clist)
        /\ UNCHANGED search /\ UNCHANGED <<matched, out_slots>> /\ stack' = stack
    BY DEF Rotate
  <1>2. PICK q, c, n, s, from, x, y :
          /\ q = pool' /\ c = clist'.threads /\ n = nlist'.threads /\ s = stack'
          /\ from = From' /\ x = pos' /\ y = here'
    OBVIOUS
  <1>3. /\ PoolOK(pool) /\ ListOK(clist, pool) /\ nlist.threads \in Seq(ThreadsIn(pool))
        /\ stack = <<>> /\ Balance(pool, clist.threads, nlist.threads, <<>>)
    BY <1>1, Parts, ListFacts DEF Rests
  <1>4. q.data = pool.data
    BY <1>1, <1>2, <1>3, GiveBackFacts DEF GivenBack
  <1>5. c = nlist.threads /\ n = <<>> /\ s = <<>> /\ x = pos + 1
    BY <1>1, <1>2, <1>3 DEF clist, nlist, EmptyList
  <1>6. from = 1
    BY <1>1, <1>2 DEF From, Stepped
  <1>7. FitsIn(q, c, from, x)
    <2>1. SameBlocks(pool, q, c, 1)
      BY <1>4 DEF SameBlocks
    <2>2. FitsIn(pool, c, 1, x)
      BY <1>1, <1>5, GroupedParts
    <2>3. QED
      BY <1>6, <2>1, <2>2, FitsSame
  <1>8. FitsIn(q, n, 1, x + 1) /\ FitsIn(q, s, 1, y)
    BY <1>5, FitsNone
  <1>9. GroupedIn(q, c, n, s, from, x, y)
    BY <1>7, <1>8 DEF GroupedIn
  <1>10. AnswerWhole'
    BY <1>1, AnswerKept, GroupedParts
  <1>11. QED
    BY <1>1, <1>2, <1>9, <1>10, GroupedArrives

LEMMA DrainGrouped ==
  ASSUME VMInv, Grouped, ~capture_free, Drain
  PROVE  Grouped'
  <1>1. /\ at = "drain" /\ at' = "done" /\ UNCHANGED search /\ UNCHANGED <<matched, out_slots>>
    BY DEF Drain
  <1>2. AnswerWhole'
    BY <1>1, AnswerKept, GroupedParts
  <1>3. QED
    BY <1>1, <1>2 DEF Grouped

LEMMA InitialGrouped ==
  ASSUME Init
  PROVE  Grouped
  <1>1. /\ clist.threads = <<>> /\ nlist.threads = <<>> /\ stack = <<>> /\ ~matched
    BY DEF Init, clist, nlist, EmptyList
  <1>2. QED
    BY <1>1, FitsNone DEF Grouped, GroupedIn, AnswerWhole

LEMMA StutterGrouped ==
  ASSUME VMInv, Grouped, UNCHANGED vars
  PROVE  Grouped'
  <1>1. /\ UNCHANGED <<search, at, pos, i, lists, into, stack, carried, pool, matched, out_slots>>
        /\ UNCHANGED search /\ UNCHANGED <<matched, out_slots>>
    BY DEF vars
  <1>2. CASE capture_free
    BY <1>1, <1>2, Kept DEF Grouped
  <1>3. CASE ~capture_free
    <2>1. AnswerWhole'
      BY <1>1, <1>3, AnswerKept DEF Grouped
    <2>2. PICK p, c, n, s, from, x, y :
            /\ p = pool' /\ c = clist'.threads /\ n = nlist'.threads /\ s = stack'
            /\ from = From' /\ x = pos' /\ y = here'
      OBVIOUS
    <2>3. /\ p = pool /\ c = clist.threads /\ n = nlist.threads /\ s = stack /\ x = pos
          /\ from = From /\ y = here
      BY <1>1, <2>2 DEF clist, nlist, From, here, Stepped
    <2>4. at' # "done" => GroupedIn(p, c, n, s, from, x, y)
      BY <1>1, <1>3, <2>3 DEF Grouped
    <2>5. QED
      BY <1>1, <2>1, <2>2, <2>4, GroupedArrives
  <1>4. QED
    BY <1>2, <1>3

-----------------------------------------------------------------------------
(* The theorem.                                                            *)

\* A group that took part in the match lies in the matched span and is whole, for every
\* program whose saves bracket its groups: however threads share blocks and writes copy
\* them, no branch's slots reach another's answer.
THEOREM GroupsWhole ==
  Spec => []CapturesAreWhole
  <1>1. Init => Grouped
    BY InitialGrouped
  <1>2. VMInv /\ Grouped /\ [Next]_vars => Grouped'
    <2>1. SUFFICES ASSUME VMInv, Grouped, [Next]_vars PROVE Grouped'
      OBVIOUS
    <2>2. CASE UNCHANGED vars
      BY <2>1, <2>2, StutterGrouped
    <2>3. CASE Next
      <3>1. CASE capture_free
        <4>1. UNCHANGED search
          <5>1. CASE Exhausted \/ Seed \/ NoSeed \/ NoThread \/ BeginStep \/ ClosureDone
            BY <5>1 DEF Exhausted, Seed, NoSeed, NoThread, BeginStep, ClosureDone
          <5>2. CASE VisitSeen \/ VisitJump \/ VisitLoopExit \/ VisitAssertion
            BY <5>2 DEF VisitSeen, VisitJump, VisitLoopExit, VisitAssertion, Visiting
          <5>3. CASE VisitSplit \/ VisitSave \/ VisitLeaf
            BY <5>3 DEF VisitSplit, VisitSave, VisitLeaf, Visiting
          <5>4. CASE Consume \/ ConsumePossessive
            BY <5>4 DEF Consume, ConsumePossessive, Stepping
          <5>5. CASE Die \/ Reject \/ MatchFirst \/ MatchLongest
            BY <5>5 DEF Die, Reject, MatchFirst, MatchLongest, Stepping
          <5>6. CASE Rotate \/ Drain
            BY <5>6 DEF Rotate, Drain
          <5>7. QED
            BY ONLY <2>3, <5>1, <5>2, <5>3, <5>4, <5>5, <5>6 DEF Next
        <4>2. QED
          BY <3>1, <4>1, Kept DEF Grouped
      <3>2. CASE ~capture_free
        <4>1. CASE Exhausted \/ NoSeed \/ NoThread \/ BeginStep \/ ClosureDone
          BY <2>1, <3>2, <4>1, LoopGrouped
        <4>2. CASE Seed
          BY <2>1, <3>2, <4>2, SeedGrouped
        <4>3. CASE VisitSeen \/ VisitJump \/ VisitLoopExit \/ VisitAssertion
          BY <2>1, <3>2, <4>3, VisitGrouped
        <4>4. CASE VisitSplit
          BY <2>1, <3>2, <4>4, VisitSplitGrouped
        <4>5. CASE VisitSave
          BY <2>1, <3>2, <4>5, VisitSaveGrouped
        <4>6. CASE VisitLeaf
          BY <2>1, <3>2, <4>6, VisitLeafGrouped
        <4>7. CASE Consume
          BY <2>1, <3>2, <4>7, ConsumeGrouped
        <4>8. CASE ConsumePossessive
          BY <2>1, <3>2, <4>8, ConsumePossessiveGrouped
        <4>9. CASE Die \/ Reject \/ MatchFirst \/ MatchLongest
          BY <2>1, <3>2, <4>9, ThreadEndsGrouped
        <4>10. CASE Rotate
          BY <2>1, <3>2, <4>10, RotateGrouped
        <4>11. CASE Drain
          BY <2>1, <3>2, <4>11, DrainGrouped
        <4>12. QED
          BY ONLY <2>3, <4>1, <4>2, <4>3, <4>4, <4>5, <4>6, <4>7, <4>8, <4>9, <4>10, <4>11 DEF Next
      <3>3. QED
        BY <3>1, <3>2
    <2>4. QED
      BY <2>1, <2>2, <2>3
  <1>3. VMInv /\ Grouped => CapturesAreWhole
    <2>1. SUFFICES ASSUME VMInv, Grouped, matched, ~capture_free, NEW g \in {s \in Slots : s % 2 = 0}
                   PROVE  Whole(out_slots, g, out_slots[1])
      BY DEF CapturesAreWhole, Whole
    <2>2. Slots = 0 .. prog.slot_count - 1
      BY DEF Slots
    <2>3. g \in Groups(prog)
      BY <2>2 DEF Groups
    <2>4. QED
      BY <2>1, <2>3 DEF Grouped, AnswerWhole
  <1>4. QED
    BY <1>1, <1>2, <1>3, Inductive, PTL DEF Spec

=============================================================================
