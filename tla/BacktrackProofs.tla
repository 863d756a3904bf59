--------------------------- MODULE BacktrackProofs ---------------------------
(***************************************************************************)
(* Theorems about BoundedBacktrack, for every set of well-formed programs, *)
(* subjects and starts, every inline capacity and every width of a row.    *)
(***************************************************************************)
EXTENDS BoundedBacktrack, EngineLemmas

-----------------------------------------------------------------------------
(* The pending jobs: the array and the heap together are one stack.        *)

JobsTyped == jobs \in Seq(Jobs) /\ spill \in Seq(Jobs)

LEMMA SearchKept ==
  ASSUME UNCHANGED search
  PROVE  /\ Jobs' = Jobs /\ BranchJobs' = BranchJobs /\ RestoreJobs' = RestoreJobs
         /\ code' = code /\ text' = text /\ size' = size /\ Slots' = Slots /\ Rows' = Rows
  BY DEF Jobs, BranchJobs, RestoreJobs, code, prog, text, size, Slots, Rows

LEMMA PendingFacts ==
  ASSUME JobsTyped
  PROVE  /\ Pending \in Seq(Jobs) /\ Len(Pending) = Len(jobs) + Len(spill)
         /\ Len(jobs) \in Nat /\ Len(spill) \in Nat
         /\ \A k \in DOMAIN Pending : Pending[k] \in Jobs
         /\ Pending = <<>> <=> jobs = <<>> /\ spill = <<>>
  <1>1. Len(jobs) \in Nat /\ Len(spill) \in Nat
    BY LenProperties DEF JobsTyped
  <1>2. Pending \in Seq(Jobs) /\ Len(Pending) = Len(jobs) + Len(spill)
    BY ConcatProperties DEF JobsTyped, Pending
  <1>3. \A k \in DOMAIN Pending : Pending[k] \in Jobs
    BY <1>2, ElementOfSeq, LenProperties
  <1>4. Pending = <<>> <=> jobs = <<>> /\ spill = <<>>
    BY <1>1, <1>2, EmptySeq DEF JobsTyped
  <1>5. QED
    BY <1>1, <1>2, <1>3, <1>4

\* Pushing spills only past a full array.
LEMMA PushFacts ==
  ASSUME JobsTyped, UNCHANGED search, NEW new \in Seq(Jobs), push(new)
  PROVE  JobsTyped' /\ SpillsWhenFull' /\ Pending' = Pending \o new
  <1> DEFINE held == Pending \o new
             n == Min({inline_jobs, Len(held)})
  <1>1. held \in Seq(Jobs) /\ Len(held) \in Nat /\ inline_jobs \in Nat
    BY PendingFacts, ConcatProperties, LenProperties, BacktrackAssumption
  <1>2. \A k \in 1 .. Len(held) : held[k] \in Jobs
    BY <1>1, ElementOfSeq
  <1>3. n = IF inline_jobs <= Len(held) THEN inline_jobs ELSE Len(held)
    BY <1>1, MinOfTwo
  <1>4. jobs' = SubSeq(held, 1, n) /\ spill' = SubSeq(held, inline_jobs + 1, Len(held))
    BY DEF push
  <1> HIDE DEF held, n
  <1>5. CASE inline_jobs < Len(held)
    <2>1. n = inline_jobs
      BY <1>1, <1>3, <1>5
    <2>2. /\ \A k \in 1 .. inline_jobs : held[k] \in Jobs
          /\ \A k \in inline_jobs + 1 .. Len(held) : held[k] \in Jobs
          /\ 1 \in Int /\ inline_jobs \in Int /\ inline_jobs + 1 \in Int /\ Len(held) \in Int
      BY <1>1, <1>2, <1>5
    <2>3. /\ SubSeq(held, 1, inline_jobs) \in Seq(Jobs)
          /\ Len(SubSeq(held, 1, inline_jobs)) =
               IF 1 <= inline_jobs THEN inline_jobs - 1 + 1 ELSE 0
      BY <2>2, SubSeqProperties
    <2>4. SubSeq(held, inline_jobs + 1, Len(held)) \in Seq(Jobs)
      BY <2>2, SubSeqProperties
    <2>5. /\ 1 \in 1 .. Len(held) + 1 /\ inline_jobs \in 1 - 1 .. Len(held)
          /\ Len(held) \in inline_jobs .. Len(held)
      BY <1>1, <1>5
    <2>6. SubSeq(held, 1, inline_jobs) \o SubSeq(held, inline_jobs + 1, Len(held))
            = SubSeq(held, 1, Len(held))
      BY <1>1, <2>5, ConcatAdjacentSubSeq
    <2>7. jobs' \o spill' = held
      BY <1>1, <1>4, <2>1, <2>6, SubSeqFull
    <2>8. Len(jobs') = inline_jobs
      BY <1>1, <1>4, <2>1, <2>3
    <2>9. JobsTyped'
      BY <1>4, <2>1, <2>3, <2>4, SearchKept DEF JobsTyped
    <2>10. SpillsWhenFull'
      BY <1>1, <2>8 DEF SpillsWhenFull
    <2>11. QED
      BY <2>7, <2>9, <2>10 DEF Pending, held
  <1>6. CASE ~(inline_jobs < Len(held))
    <2>1. n = Len(held)
      BY <1>1, <1>3, <1>6
    <2>2. jobs' = held
      BY <1>1, <1>4, <2>1, SubSeqFull
    <2>3. spill' = <<>>
      BY <1>1, <1>4, <1>6, SubSeqEmpty
    <2>4. spill' \in Seq(Jobs)
      BY <2>3
    <2>5. held \o <<>> = held
      BY <1>1, ConcatEmptySeq
    <2>6. Len(jobs') <= inline_jobs
      BY <1>1, <1>6, <2>2
    <2>7. QED
      BY <1>1, <2>2, <2>3, <2>4, <2>5, <2>6, SearchKept DEF JobsTyped, SpillsWhenFull, Pending, held
  <1>7. QED
    BY <1>5, <1>6

\* Popping takes the job pushed last.
LEMMA PopFacts ==
  ASSUME JobsTyped, UNCHANGED search, SpillsWhenFull, Pending # <<>>, Popped
  PROVE  /\ JobsTyped' /\ SpillsWhenFull'
         /\ Top \in Jobs /\ Pending = Pending' \o <<Top>>
  <1>1. Len(jobs) \in Nat /\ Len(spill) \in Nat /\ inline_jobs \in Nat
    BY PendingFacts, BacktrackAssumption
  <1>2. CASE spill # <<>>
    <2>1. spill' = Front(spill) /\ jobs' = jobs
      BY <1>2 DEF Popped
    <2>2. /\ spill' \in Seq(Jobs) /\ Len(spill') = Len(spill) - 1
          /\ Last(spill) \in Jobs /\ spill = spill' \o <<Last(spill)>>
      BY <1>2, <2>1, FrontFacts DEF JobsTyped
    <2>3. <<Last(spill)>> \in Seq(Jobs)
      BY <2>2
    <2>4. (jobs \o spill') \o <<Last(spill)>> = jobs \o (spill' \o <<Last(spill)>>)
      BY <2>2, <2>3, ConcatAssociative DEF JobsTyped
    <2>5. Pending = Pending' \o <<Last(spill)>>
      BY <2>1, <2>2, <2>4 DEF Pending
    <2>6. Top = Last(spill)
      <3>1. Pending' \in Seq(Jobs)
        BY <2>1, <2>2, ConcatProperties DEF JobsTyped, Pending
      <3>2. LastOf(Pending', Last(spill))
        BY <2>2, <3>1, LastAppended
      <3>3. QED
        BY <2>5, <3>2 DEF LastOf, Top
    <2>7. QED
      BY <1>1, <1>2, <2>1, <2>2, <2>5, <2>6, SearchKept DEF JobsTyped, SpillsWhenFull
  <1>3. CASE spill = <<>>
    <2>1. jobs' = Front(jobs) /\ spill' = spill /\ jobs # <<>>
      BY <1>3, PendingFacts DEF Popped
    <2>2. /\ jobs' \in Seq(Jobs) /\ Len(jobs') = Len(jobs) - 1
          /\ Last(jobs) \in Jobs /\ jobs = jobs' \o <<Last(jobs)>>
      BY <2>1, FrontFacts DEF JobsTyped
    <2>3. jobs \o <<>> = jobs /\ jobs' \o <<>> = jobs'
      BY <2>2, ConcatEmptySeq DEF JobsTyped
    <2>4. Pending = jobs /\ Pending' = jobs'
      BY <1>3, <2>1, <2>3 DEF Pending
    <2>5. QED
      BY <1>1, <1>3, <2>1, <2>2, <2>4, SearchKept DEF JobsTyped, SpillsWhenFull, Top
  <1>4. QED
    BY <1>2, <1>3

-----------------------------------------------------------------------------
(* The inductive invariant.                                                *)

Asked == search \in Searches /\ Taken(search)

\* Nothing is pending between two starts.
Between == phase = "start" => jobs = <<>> /\ spill = <<>>

\* What the search has still to enter: its pending branches, and where it walks.
IsBranch(job) == "pc" \in DOMAIN job
Waits(q, r) ==
  \E k \in DOMAIN Pending :
    IsBranch(Pending[k]) /\ Pending[k].pc = q /\ search.start + Pending[k].row = r
Owed(m) == Waits(m[1], m[2]) \/ (phase = "walk" /\ m = <<pc, bt_pos>>)

\* The ways on from a marked pair are marked or owed.
Closed ==
  cleared /\ phase # "done" =>
    \A m \in marks : m[2] >= seed => \A w \in WaysOn(m) : w \in marks \/ Owed(w)

IInv == Asked /\ FrameTypeOK /\ Between /\ SpillsWhenFull /\ Closed

LEMMA AskedFacts ==
  ASSUME Asked
  PROVE  /\ text \in Seq(Bytes) /\ size \in Nat /\ search.start \in 0 .. size
         /\ size - search.start < RowValues /\ RowValues \in Nat \ {0}
         /\ Len(code) \in Nat \ {0} /\ DOMAIN code = 1 .. Len(code)
         /\ {0, 1} \subseteq Slots
  <1>1. Len(search.text) - search.start < RowValues /\ RowValues \in Nat \ {0}
    BY BacktrackAssumption DEF Asked
  <1>2. WellFormed(search.program) /\ search.text \in Seq(Bytes)
        /\ search.start \in 0 .. Len(search.text)
    BY SearchesAssumption DEF Asked
  <1>3. QED
    BY <1>1, <1>2, LenProperties DEF text, size, code, prog, Slots, WellFormed

LEMMA CodeFacts ==
  ASSUME Asked, NEW p \in DOMAIN code
  PROVE  /\ p \in Nat /\ Successors(code, p) \subseteq DOMAIN code
         /\ code[p].op = "save" => code[p].slot \in Slots
         /\ code[p].op \in Possessive /\ ~(code[p].slot < 0) =>
              {code[p].slot, code[p].slot + 1} \subseteq Slots
         /\ EpsilonSuccessors(code, p) \subseteq DOMAIN code
         /\ code[p].op \in Possessive => code[p].secondary \in DOMAIN code
         /\ code[p].op = "jump" => code[p].primary \in DOMAIN code
         /\ code[p].op = "split" => {code[p].primary, code[p].secondary} \subseteq DOMAIN code
         /\ code[p].op \in {"save", "assert_position"} => p + 1 \in DOMAIN code
  <1>1. WellFormed(search.program)
    BY SearchesAssumption DEF Asked
  <1>2. /\ Successors(code, p) \subseteq DOMAIN code
        /\ code[p].op = "save" => code[p].slot \in Slots
        /\ code[p].op \in Possessive /\ ~(code[p].slot < 0) =>
             {code[p].slot, code[p].slot + 1} \subseteq Slots
    BY <1>1 DEF WellFormed, code, prog, Slots
  <1>3. EpsilonSuccessors(code, p) \subseteq DOMAIN code
    BY <1>2 DEF Successors
  <1>4. QED
    BY <1>2, <1>3, AskedFacts, EpsilonKinds

LEMMA JobFacts ==
  ASSUME NEW j \in Jobs
  PROVE  /\ IsBranch(j) => j \in BranchJobs
         /\ "slot" \in DOMAIN j => j \in RestoreJobs /\ ~IsBranch(j)
  <1>1. ASSUME j \in BranchJobs PROVE DOMAIN j = {"pc", "row"}
    BY <1>1 DEF BranchJobs
  <1>2. ASSUME j \in RestoreJobs PROVE DOMAIN j = {"slot", "row"}
    BY <1>2 DEF RestoreJobs
  <1>3. QED
    BY <1>1, <1>2 DEF Jobs, IsBranch

\* A branch's row is its position.
LEMMA BranchFacts ==
  ASSUME Asked, NEW q \in DOMAIN code, NEW r \in search.start .. size
  PROVE  /\ Branch(q, r) \in BranchJobs /\ Branch(q, r) \in Jobs /\ IsBranch(Branch(q, r))
         /\ Branch(q, r).pc = q /\ search.start + Branch(q, r).row = r
  <1>1. PICK n : n = r - search.start
    OBVIOUS
  <1>2. n \in 0 .. size - search.start /\ n < RowValues /\ RowValues \in Nat /\ search.start + n = r
    BY <1>1, AskedFacts
  <1>3. n % RowValues = n
    BY <1>2
  <1>4. Branch(q, r) = [pc |-> q, row |-> n]
    BY <1>1, <1>3 DEF Branch, Row
  <1>5. QED
    BY <1>2, <1>4 DEF BranchJobs, Jobs, IsBranch

LEMMA RestoreFacts ==
  ASSUME Asked, FrameTypeOK, NEW s \in Slots
  PROVE  Restore(s) \in RestoreJobs /\ Restore(s) \in Jobs /\ ~IsBranch(Restore(s))
  <1>1. slots[s] \in Rows \cup {npos} /\ RowValues \in Nat \ {0} /\ size \in Nat
    BY AskedFacts DEF FrameTypeOK
  <1>2. ASSUME slots[s] # npos PROVE Row(slots[s]) \in Rows
    <2>1. PICK n : n = slots[s]
      OBVIOUS
    <2>2. n \in 0 .. size
      BY <1>1, <1>2, <2>1 DEF Rows
    <2>3. n % RowValues \in 0 .. RowValues - 1 /\ n % RowValues <= n
      BY <1>1, <2>2
    <2>4. n % RowValues \in 0 .. size
      BY <1>1, <2>2, <2>3
    <2>5. QED
      BY <2>1, <2>4 DEF Row, Rows
  <1>3. PICK r : r = IF slots[s] = npos THEN unset ELSE Row(slots[s])
    OBVIOUS
  <1>4. Restore(s) = [slot |-> s, row |-> r] /\ r \in Rows \cup {unset}
    BY <1>2, <1>3 DEF Restore
  <1>5. QED
    BY <1>4 DEF RestoreJobs, Jobs, IsBranch

-----------------------------------------------------------------------------
(* The ways on from a pair, and who waits, from one state to the next.     *)

LEMMA WaysKept ==
  ASSUME UNCHANGED search, NEW m
  PROVE  WaysOn(m)' = WaysOn(m)
  BY SearchKept DEF WaysOn

\* The ways on from a pair, instruction by instruction.
WaysAre(p, r) ==
  /\ code[p].op \in Consuming =>
       WaysOn(<<p, r>>) = {<<q, r + 1>> : q \in Advanced(code, text, p, r)}
  /\ code[p].op \in Possessive =>
       WaysOn(<<p, r>>) =
         IF Advanced(code, text, p, r) = {} THEN {<<code[p].secondary, r>>}
         ELSE {<<q, r + 1>> : q \in Advanced(code, text, p, r)}
  /\ code[p].op = "assert_position" =>
       WaysOn(<<p, r>>) =
         IF assertion_holds(code[p].kind, text, r) THEN {<<p + 1, r>>} ELSE {}
  /\ code[p].op = "jump" => WaysOn(<<p, r>>) = {<<code[p].primary, r>>}
  /\ code[p].op = "split" =>
       WaysOn(<<p, r>>) = {<<code[p].primary, r>>, <<code[p].secondary, r>>}
  /\ code[p].op = "save" => WaysOn(<<p, r>>) = {<<p + 1, r>>}
  /\ code[p].op = "match" => WaysOn(<<p, r>>) = {}

LEMMA WaysFacts ==
  ASSUME NEW p, NEW r
  PROVE  WaysAre(p, r)
  <1>1. <<p, r>>[1] = p /\ <<p, r>>[2] = r
    OBVIOUS
  <1>2. CASE code[p].op \in Consuming
    BY <1>1, <1>2 DEF WaysAre, WaysOn, Consuming, Possessive
  <1>3. CASE code[p].op \in Possessive
    BY <1>1, <1>3 DEF WaysAre, WaysOn, Consuming, Possessive
  <1>4. CASE code[p].op = "assert_position"
    <2>1. EpsilonSuccessors(code, p) = {p + 1}
      BY <1>4 DEF EpsilonSuccessors, Possessive
    <2>2. CASE assertion_holds(code[p].kind, text, r)
      <3>1. WaysOn(<<p, r>>) = {<<q, r>> : q \in EpsilonSuccessors(code, p)}
        BY <1>1, <1>4, <2>2 DEF WaysOn, Consuming, Possessive
      <3>2. QED
        BY <1>4, <2>1, <2>2, <3>1 DEF WaysAre, Consuming, Possessive
    <2>3. CASE ~assertion_holds(code[p].kind, text, r)
      <3>1. WaysOn(<<p, r>>) = {}
        BY <1>1, <1>4, <2>3 DEF WaysOn, Consuming, Possessive
      <3>2. QED
        BY <1>4, <2>3, <3>1 DEF WaysAre, Consuming, Possessive
    <2>4. QED
      BY <2>2, <2>3
  <1>5. CASE code[p].op \in {"jump", "split", "save", "match"}
    <2>1. WaysOn(<<p, r>>) = {<<q, r>> : q \in EpsilonSuccessors(code, p)}
      BY <1>1, <1>5 DEF WaysOn, Consuming, Possessive
    <2>2. /\ code[p].op = "jump" => EpsilonSuccessors(code, p) = {code[p].primary}
          /\ code[p].op = "split" =>
               EpsilonSuccessors(code, p) = {code[p].primary, code[p].secondary}
          /\ code[p].op = "save" => EpsilonSuccessors(code, p) = {p + 1}
          /\ code[p].op = "match" => EpsilonSuccessors(code, p) = {}
      BY DEF EpsilonSuccessors, Possessive
    <2>3. QED
      BY <1>5, <2>1, <2>2 DEF WaysAre, Consuming, Possessive
  <1>6. QED
    BY <1>2, <1>3, <1>4, <1>5 DEF WaysAre, Consuming, Possessive

LEMMA WaysArePairs ==
  ASSUME NEW m, NEW w \in WaysOn(m)
  PROVE  w = <<w[1], w[2]>>
  <1>1. \E a, b : w = <<a, b>>
    BY DEF WaysOn
  <1>2. QED
    BY <1>1

LEMMA WaitsKept ==
  ASSUME UNCHANGED <<search, jobs, spill>>, NEW q, NEW r
  PROVE  Waits(q, r)' = Waits(q, r)
  BY DEF Waits, Pending

LEMMA WaitsPushed ==
  ASSUME JobsTyped, UNCHANGED search, NEW new \in Seq(Jobs), Pending' = Pending \o new,
         NEW q, NEW r
  PROVE  /\ Waits(q, r) => Waits(q, r)'
         /\ \A k \in DOMAIN new :
              IsBranch(new[k]) /\ new[k].pc = q /\ search.start + new[k].row = r
                => Waits(q, r)'
  <1>1. Pending \in Seq(Jobs) /\ Len(Pending) \in Nat /\ Len(new) \in Nat
    BY PendingFacts, LenProperties
  <1>2. DOMAIN Pending = 1 .. Len(Pending) /\ DOMAIN new = 1 .. Len(new)
    BY <1>1, LenProperties
  <1>3. /\ Pending \o new \in Seq(Jobs) /\ Len(Pending \o new) = Len(Pending) + Len(new)
        /\ \A k \in 1 .. Len(Pending) + Len(new) :
             (Pending \o new)[k] = IF k <= Len(Pending) THEN Pending[k] ELSE new[k - Len(Pending)]
    BY <1>1, ConcatProperties
  <1>4. DOMAIN (Pending \o new) = 1 .. Len(Pending) + Len(new)
    BY <1>3, LenProperties
  <1>5. PICK both : both = Pending \o new
    OBVIOUS
  <1>6. Pending' = both /\ DOMAIN both = 1 .. Len(Pending) + Len(new)
    BY <1>4, <1>5
  <1>7. \A k \in 1 .. Len(Pending) : both[k] = Pending[k] /\ k \in DOMAIN both
    BY <1>1, <1>3, <1>5, <1>6
  <1>8. \A k \in 1 .. Len(new) : both[Len(Pending) + k] = new[k] /\ Len(Pending) + k \in DOMAIN both
    <2>1. TAKE k \in 1 .. Len(new)
    <2>2. PICK n : n = Len(Pending) + k
      OBVIOUS
    <2>3. n \in 1 .. Len(Pending) + Len(new) /\ ~(n <= Len(Pending)) /\ n - Len(Pending) = k
      BY <1>1, <2>2
    <2>4. QED
      BY <1>3, <1>5, <1>6, <2>2, <2>3
  <1>9. Waits(q, r)' <=> \E k \in DOMAIN both :
                           IsBranch(both[k]) /\ both[k].pc = q /\ search.start + both[k].row = r
    BY <1>6 DEF Waits, IsBranch
  <1>10. Waits(q, r) => Waits(q, r)'
    BY <1>2, <1>7, <1>9 DEF Waits
  <1>11. QED
    BY <1>2, <1>8, <1>9, <1>10

LEMMA WaitsPopped ==
  ASSUME JobsTyped', UNCHANGED search, NEW e, e \in Jobs, Pending = Pending' \o <<e>>,
         NEW q, NEW r, Waits(q, r)
  PROVE  Waits(q, r)' \/ (IsBranch(e) /\ e.pc = q /\ search.start + e.row = r)
  <1>1. PICK rest : rest = Pending'
    OBVIOUS
  <1>2. rest \in Seq(Jobs)
    <2>1. jobs' \in Seq(Jobs) /\ spill' \in Seq(Jobs)
      BY SearchKept DEF JobsTyped
    <2>2. QED
      BY <1>1, <2>1, ConcatProperties DEF Pending
  <1>3. Len(rest) \in Nat /\ <<e>> \in Seq(Jobs) /\ Len(<<e>>) = 1 /\ <<e>>[1] = e
    BY <1>2, LenProperties
  <1>4. DOMAIN rest = 1 .. Len(rest)
    BY <1>2, LenProperties
  <1>5. /\ Pending \in Seq(Jobs) /\ Len(Pending) = Len(rest) + 1
        /\ \A k \in 1 .. Len(rest) + 1 : Pending[k] = IF k <= Len(rest) THEN rest[k]
                                                       ELSE <<e>>[k - Len(rest)]
    BY <1>1, <1>2, <1>3, ConcatProperties
  <1>6. DOMAIN Pending = 1 .. Len(rest) + 1
    BY <1>5, LenProperties
  <1>7. PICK k \in 1 .. Len(rest) + 1 :
          IsBranch(Pending[k]) /\ Pending[k].pc = q /\ search.start + Pending[k].row = r
    BY <1>6 DEF Waits
  <1>8. CASE k <= Len(rest)
    <2>1. Pending[k] = rest[k] /\ k \in DOMAIN rest
      BY <1>3, <1>4, <1>5, <1>8
    <2>2. QED
      BY <1>1, <1>7, <2>1 DEF Waits, IsBranch
  <1>9. CASE ~(k <= Len(rest))
    <2>1. k - Len(rest) = 1
      BY <1>3, <1>9
    <2>2. Pending[k] = e
      BY <1>3, <1>5, <1>9, <2>1
    <2>3. QED
      BY <1>7, <2>2
  <1>10. QED
    BY <1>8, <1>9

-----------------------------------------------------------------------------
(* Steps.  What an action must establish, and why that is enough.          *)

LEMMA TypedNext ==
  ASSUME UNCHANGED search,
         phase' \in {"start", "pop", "walk", "done"},
         seed' \in search.start .. size, cleared' \in BOOLEAN,
         marks' \subseteq (DOMAIN code) \X Rows,
         JobsTyped',
         slots' \in [Slots -> Rows \cup {npos}],
         pc' \in DOMAIN code, bt_pos' \in search.start .. size,
         bt_matched' \in BOOLEAN, bt_out_slots' \in [Slots -> Rows \cup {npos}]
  PROVE  FrameTypeOK'
  <1>1. /\ seed' \in (search.start .. size)' /\ marks' \subseteq (DOMAIN code)' \X Rows'
        /\ slots' \in [Slots' -> Rows' \cup {npos}]
        /\ pc' \in (DOMAIN code)' /\ bt_pos' \in (search.start .. size)'
        /\ bt_out_slots' \in [Slots' -> Rows' \cup {npos}]
    BY SearchKept
  <1>2. QED
    BY <1>1 DEF FrameTypeOK, JobsTyped

LEMMA Parts ==
  ASSUME IInv
  PROVE  /\ JobsTyped /\ SpillsWhenFull /\ Asked
         /\ seed \in search.start .. size /\ cleared \in BOOLEAN
         /\ marks \subseteq (DOMAIN code) \X Rows
         /\ slots \in [Slots -> Rows \cup {npos}]
         /\ pc \in DOMAIN code /\ bt_pos \in search.start .. size /\ bt_pos \in Rows
         /\ bt_matched \in BOOLEAN /\ bt_out_slots \in [Slots -> Rows \cup {npos}]
  <1>1. JobsTyped /\ SpillsWhenFull /\ Asked
    BY DEF IInv, FrameTypeOK, JobsTyped
  <1>2. bt_pos \in search.start .. size => bt_pos \in Rows
    BY <1>1, AskedFacts DEF Rows
  <1>3. QED
    BY <1>1, <1>2 DEF IInv, FrameTypeOK

\* Entering a pair: what was owed to the walk is marked, what waits keeps waiting, and the
\* ways on from the new mark are marked or owed.
LEMMA EnterStep ==
  ASSUME IInv, NEW ops, Entering(ops),
         phase' \in {"pop", "walk", "done"},
         JobsTyped', SpillsWhenFull',
         slots' \in [Slots -> Rows \cup {npos}],
         pc' \in DOMAIN code, bt_pos' \in search.start .. size,
         bt_matched' \in BOOLEAN, bt_out_slots' \in [Slots -> Rows \cup {npos}],
         \A q, r : Waits(q, r) => Waits(q, r)',
         phase' # "done" => \A w \in WaysOn(<<pc, bt_pos>>) : w \in marks' \/ Owed(w)'
  PROVE  IInv'
  <1>0. /\ UNCHANGED search /\ seed' = seed /\ cleared' = cleared
        /\ phase = "walk" /\ marks' = marks \cup {<<pc, bt_pos>>}
    BY DEF Entering
  <1>1. Asked'
    BY <1>0, Parts DEF Asked, Taken
  <1>2. FrameTypeOK'
    <2>1. <<pc, bt_pos>> \in (DOMAIN code) \X Rows
      BY Parts
    <2>2. marks' \subseteq (DOMAIN code) \X Rows
      BY <1>0, <2>1, Parts
    <2>3. /\ seed' \in search.start .. size /\ cleared' \in BOOLEAN
          /\ phase' \in {"start", "pop", "walk", "done"}
      BY <1>0, Parts
    <2>4. QED
      BY <1>0, <2>2, <2>3, TypedNext
  <1>3. Between'
    BY DEF Between
  <1>4. Closed'
    <2>1. SUFFICES ASSUME cleared', phase' # "done", NEW m \in marks', m[2] >= seed',
                          NEW w \in WaysOn(m)'
                   PROVE  w \in marks' \/ Owed(w)'
      BY DEF Closed
    <2>2. w \in WaysOn(m)
      BY <1>0, <2>1, WaysKept
    <2>3. CASE m = <<pc, bt_pos>>
      BY <2>1, <2>2, <2>3
    <2>4. CASE m # <<pc, bt_pos>>
      <3>1. m \in marks /\ m[2] >= seed /\ cleared /\ phase # "done"
        BY <1>0, <2>1, <2>4
      <3>2. w \in marks \/ Owed(w)
        BY <2>2, <3>1 DEF IInv, Closed
      <3>3. w \in marks => w \in marks'
        BY <1>0
      <3>4. Owed(w) => w \in marks' \/ Owed(w)'
        BY <1>0 DEF Owed
      <3>5. QED
        BY <3>2, <3>3, <3>4
    <2>5. QED
      BY <2>3, <2>4
  <1>5. QED
    BY <1>1, <1>2, <1>3, <1>4 DEF IInv

\* An entered instruction that leaves the stack and the slots alone: the walk goes on at one
\* place, dies, or answers.
LEMMA QuietEntry ==
  ASSUME IInv, NEW ops, Entering(ops), UNCHANGED <<jobs, spill, slots>>,
         phase' \in {"pop", "walk", "done"},
         pc' \in DOMAIN code, bt_pos' \in search.start .. size,
         bt_matched' \in BOOLEAN, bt_out_slots' \in [Slots -> Rows \cup {npos}],
         phase' # "done" => \A w \in WaysOn(<<pc, bt_pos>>) : w \in marks' \/ Owed(w)'
  PROVE  IInv'
  <1>1. UNCHANGED <<search, jobs, spill>> /\ UNCHANGED search
    BY DEF Entering
  <1>2. JobsTyped' /\ SpillsWhenFull'
    BY <1>1, Parts, SearchKept DEF JobsTyped, SpillsWhenFull
  <1>3. \A q, r : Waits(q, r) => Waits(q, r)'
    BY <1>1, WaitsKept
  <1>4. slots' \in [Slots -> Rows \cup {npos}]
    BY Parts
  <1>5. QED
    BY <1>2, <1>3, <1>4, EnterStep

LEMMA JumpStep ==
  ASSUME IInv, EnterJump
  PROVE  IInv'
  <1>1. /\ Entering({"jump"}) /\ phase = "walk" /\ code[pc].op = "jump"
        /\ UNCHANGED <<jobs, spill, slots>> /\ UNCHANGED <<phase, bt_pos, bt_matched, bt_out_slots>>
        /\ pc' = JumpTarget(code, pc, Entered \cup {pc})
        /\ marks' = marks \cup {<<pc, bt_pos>>}
    BY DEF EnterJump, Entering, entering
  <1>2. /\ Asked /\ pc \in DOMAIN code /\ bt_pos \in search.start .. size
        /\ marks \subseteq (DOMAIN code) \X Rows
    BY Parts
  <1>3. code[pc].primary \in DOMAIN code
    BY <1>1, <1>2, CodeFacts
  <1>4. \A h \in DOMAIN code : /\ code[h].op = "jump" => code[h].primary \in DOMAIN code
                               /\ code[h].op = "split" => code[h].secondary \in DOMAIN code
    BY <1>2, CodeFacts
  <1>5. Entered \cup {pc} \in SUBSET DOMAIN code
    BY <1>2 DEF Entered
  <1>6. \/ pc' = code[pc].primary
        \/ /\ code[pc].primary \in Entered \cup {pc}
           /\ \E h \in Entered \cup {pc} : code[h].op = "split" /\ pc' = code[h].secondary
    BY <1>1, <1>2, <1>3, <1>4, <1>5, JumpTargetFacts
  <1>7. pc' \in DOMAIN code
    BY <1>3, <1>4, <1>5, <1>6
  <1>8. ASSUME NEW w \in WaysOn(<<pc, bt_pos>>)
        PROVE  w \in marks' \/ Owed(w)'
    <2>0. WaysAre(pc, bt_pos)
      BY WaysFacts
    <2>1. w = <<code[pc].primary, bt_pos>>
      BY <1>1, <1>8, <2>0 DEF WaysAre
    <2>2. CASE pc' = code[pc].primary
      BY <1>1, <2>1, <2>2 DEF Owed
    <2>3. CASE code[pc].primary \in Entered \cup {pc}
      <3>1. CASE code[pc].primary = pc
        BY <1>1, <2>1, <3>1
      <3>2. CASE code[pc].primary \in Entered
        <4>1. PICK m \in marks : m[2] = bt_pos /\ m[1] = code[pc].primary
          BY <3>2 DEF Entered
        <4>2. m = <<code[pc].primary, bt_pos>>
          BY <1>2, <4>1
        <4>3. QED
          BY <1>1, <2>1, <4>1, <4>2
      <3>3. QED
        BY <2>3, <3>1, <3>2
    <2>4. QED
      BY <1>6, <2>2, <2>3
  <1>9. /\ phase' \in {"pop", "walk", "done"} /\ bt_pos' \in search.start .. size
        /\ bt_matched' \in BOOLEAN /\ bt_out_slots' \in [Slots -> Rows \cup {npos}]
    BY <1>1, Parts
  <1>10. QED
    BY <1>1, <1>7, <1>8, <1>9, QuietEntry

LEMMA AssertionStep ==
  ASSUME IInv, EnterAssertion
  PROVE  IInv'
  <1>1. /\ Entering({"assert_position"}) /\ phase = "walk" /\ code[pc].op = "assert_position"
        /\ UNCHANGED <<jobs, spill, slots>> /\ UNCHANGED <<bt_matched, bt_out_slots>>
    BY DEF EnterAssertion, Entering, entering
  <1>2. Asked /\ pc \in DOMAIN code /\ bt_pos \in search.start .. size
    BY Parts
  <1>0. WaysAre(pc, bt_pos)
    BY WaysFacts
  <1>3. bt_matched' \in BOOLEAN /\ bt_out_slots' \in [Slots -> Rows \cup {npos}]
    BY <1>1, Parts
  <1>4. CASE assertion_holds(code[pc].kind, text, bt_pos)
    <2>1. pc' = pc + 1 /\ bt_pos' = bt_pos /\ phase' = "walk"
      BY <1>1, <1>4 DEF EnterAssertion, entering
    <2>2. pc' \in DOMAIN code
      BY <1>1, <1>2, <2>1, CodeFacts
    <2>3. \A w \in WaysOn(<<pc, bt_pos>>) : w = <<pc', bt_pos'>>
      BY <1>0, <1>1, <1>4, <2>1 DEF WaysAre
    <2>4. \A w \in WaysOn(<<pc, bt_pos>>) : Owed(w)'
      BY <2>1, <2>3 DEF Owed
    <2>5. QED
      BY <1>1, <1>2, <1>3, <2>1, <2>2, <2>4, QuietEntry
  <1>5. CASE ~assertion_holds(code[pc].kind, text, bt_pos)
    <2>1. pc' = pc /\ bt_pos' = bt_pos /\ phase' = "pop"
      BY <1>1, <1>5 DEF EnterAssertion, entering, Dies
    <2>2. WaysOn(<<pc, bt_pos>>) = {}
      BY <1>0, <1>1, <1>5 DEF WaysAre
    <2>3. QED
      BY <1>1, <1>2, <1>3, <2>1, <2>2, QuietEntry
  <1>6. QED
    BY <1>4, <1>5

LEMMA ConsumeStep ==
  ASSUME IInv, EnterConsuming
  PROVE  IInv'
  <1>1. /\ Entering(Consuming) /\ phase = "walk" /\ code[pc].op \in Consuming
        /\ UNCHANGED <<jobs, spill, slots>> /\ UNCHANGED <<bt_matched, bt_out_slots>>
    BY DEF EnterConsuming, Entering, entering
  <1>2. Asked /\ pc \in DOMAIN code /\ bt_pos \in search.start .. size
    BY Parts
  <1>0. WaysAre(pc, bt_pos)
    BY WaysFacts
  <1>3. bt_matched' \in BOOLEAN /\ bt_out_slots' \in [Slots -> Rows \cup {npos}]
    BY <1>1, Parts
  <1>4. CASE Advanced(code, text, pc, bt_pos) # {}
    <2>1. pc' \in Advanced(code, text, pc, bt_pos) /\ bt_pos' = bt_pos + 1 /\ phase' = "walk"
      BY <1>1, <1>4 DEF EnterConsuming
    <2>2. /\ text \in Seq(Bytes) /\ pc \in Nat /\ bt_pos \in Nat
          /\ search.start \in Nat /\ size \in Nat
      BY <1>2, AskedFacts
    <2>3. bt_pos < Len(text) /\ pc' \in Successors(code, pc)
      BY <1>1, <2>1, <2>2, AdvancedFits
    <2>4. pc' \in DOMAIN code /\ bt_pos' \in search.start .. size
      BY <1>2, <2>1, <2>2, <2>3, CodeFacts DEF size
    <2>5. \A w \in WaysOn(<<pc, bt_pos>>) :
            \E q \in Advanced(code, text, pc, bt_pos) : w = <<q, bt_pos + 1>>
      BY <1>0, <1>1 DEF WaysAre
    <2>6. \A q \in Advanced(code, text, pc, bt_pos) : q = pc'
      BY <2>1, <2>2, AdvancedOnce
    <2>7. \A w \in WaysOn(<<pc, bt_pos>>) : Owed(w)'
      BY <2>1, <2>5, <2>6 DEF Owed
    <2>8. QED
      BY <1>1, <1>3, <2>1, <2>4, <2>7, QuietEntry
  <1>5. CASE Advanced(code, text, pc, bt_pos) = {}
    <2>1. pc' = pc /\ bt_pos' = bt_pos /\ phase' = "pop"
      BY <1>1, <1>5 DEF EnterConsuming, Dies
    <2>2. WaysOn(<<pc, bt_pos>>) = {}
      BY <1>0, <1>1, <1>5 DEF WaysAre
    <2>3. QED
      BY <1>1, <1>2, <1>3, <2>1, <2>2, QuietEntry
  <1>6. QED
    BY <1>4, <1>5

\* The secondary branch waits where the split is.
LEMMA SplitStep ==
  ASSUME IInv, EnterSplit
  PROVE  IInv'
  <1>1. /\ Entering({"split"}) /\ phase = "walk" /\ code[pc].op = "split" /\ UNCHANGED search
        /\ push(<<Branch(code[pc].secondary, bt_pos)>>) /\ pc' = code[pc].primary
        /\ UNCHANGED <<phase, slots, bt_pos, bt_matched, bt_out_slots>>
    BY DEF EnterSplit, Entering, entering
  <1>2. /\ Asked /\ JobsTyped /\ pc \in DOMAIN code /\ bt_pos \in search.start .. size
        /\ WaysAre(pc, bt_pos)
    BY Parts, WaysFacts
  <1>3. {code[pc].primary, code[pc].secondary} \subseteq DOMAIN code
    BY <1>1, <1>2, CodeFacts
  <1>4. PICK e : e = Branch(code[pc].secondary, bt_pos)
    OBVIOUS
  <1>5. e \in Jobs /\ IsBranch(e) /\ e.pc = code[pc].secondary /\ search.start + e.row = bt_pos
    BY <1>2, <1>3, <1>4, BranchFacts
  <1>6. PICK new : new = <<e>>
    OBVIOUS
  <1>7. new \in Seq(Jobs) /\ 1 \in DOMAIN new /\ new[1] = e /\ push(new)
    BY <1>1, <1>4, <1>5, <1>6
  <1>8. JobsTyped' /\ SpillsWhenFull' /\ Pending' = Pending \o new
    BY <1>1, <1>2, <1>7, PushFacts
  <1>9. \A q, r : Waits(q, r) => Waits(q, r)'
    BY <1>1, <1>2, <1>7, <1>8, WaitsPushed
  <1>10. PICK second : second = code[pc].secondary
    OBVIOUS
  <1>11. ASSUME NEW w \in WaysOn(<<pc, bt_pos>>) PROVE Owed(w)'
    <2>1. w = <<code[pc].primary, bt_pos>> \/ w = <<second, bt_pos>>
      BY <1>1, <1>2, <1>10 DEF WaysAre
    <2>2. CASE w = <<code[pc].primary, bt_pos>>
      BY <1>1, <2>2 DEF Owed
    <2>3. CASE w = <<second, bt_pos>>
      <3>1. w[1] = second /\ w[2] = bt_pos
        BY <2>3
      <3>2. PICK q, r : q = w[1] /\ r = w[2]
        OBVIOUS
      <3>3. IsBranch(new[1]) /\ new[1].pc = q /\ search.start + new[1].row = r
        BY <1>5, <1>7, <1>10, <3>1, <3>2
      <3>4. Waits(q, r)'
        BY <1>1, <1>2, <1>7, <1>8, <3>3, WaitsPushed
      <3>5. QED
        BY <3>2, <3>4 DEF Owed
    <2>4. QED
      BY <2>1, <2>2, <2>3
  <1>12. /\ phase' \in {"pop", "walk", "done"} /\ pc' \in DOMAIN code
         /\ bt_pos' \in search.start .. size
         /\ bt_matched' \in BOOLEAN /\ bt_out_slots' \in [Slots -> Rows \cup {npos}]
         /\ slots' \in [Slots -> Rows \cup {npos}]
    BY <1>1, <1>2, <1>3, Parts
  <1>13. QED
    BY <1>1, <1>8, <1>9, <1>11, <1>12, EnterStep

LEMMA SaveStep ==
  ASSUME IInv, EnterSave
  PROVE  IInv'
  <1>1. /\ Entering({"save"}) /\ phase = "walk" /\ code[pc].op = "save" /\ UNCHANGED search
        /\ pc' = pc + 1 /\ UNCHANGED <<phase, bt_pos, bt_matched, bt_out_slots>>
    BY DEF EnterSave, Entering, entering
  <1>2. /\ Asked /\ FrameTypeOK /\ JobsTyped /\ pc \in DOMAIN code /\ bt_pos \in search.start .. size
        /\ bt_pos \in Rows /\ slots \in [Slots -> Rows \cup {npos}] /\ WaysAre(pc, bt_pos)
    BY Parts, WaysFacts DEF IInv
  <1>3. code[pc].slot \in Slots /\ pc' \in DOMAIN code
    BY <1>1, <1>2, CodeFacts
  <1>4. \A w \in WaysOn(<<pc, bt_pos>>) : Owed(w)'
    <2>1. \A w \in WaysOn(<<pc, bt_pos>>) : w = <<pc', bt_pos'>>
      BY <1>1, <1>2 DEF WaysAre
    <2>2. QED
      BY <1>1, <2>1 DEF Owed
  <1>5. /\ phase' \in {"pop", "walk", "done"} /\ bt_pos' \in search.start .. size
        /\ bt_matched' \in BOOLEAN /\ bt_out_slots' \in [Slots -> Rows \cup {npos}]
    BY <1>1, <1>2, Parts
  <1>6. CASE capture_free /\ code[pc].slot # 0
    <2>1. UNCHANGED <<jobs, spill, slots>>
      BY <1>6 DEF EnterSave, entering
    <2>2. QED
      BY <1>1, <1>3, <1>4, <1>5, <2>1, QuietEntry
  <1>7. CASE ~(capture_free /\ code[pc].slot # 0)
    <2>1. push(<<Restore(code[pc].slot)>>) /\ slots' = [slots EXCEPT ![code[pc].slot] = bt_pos]
      BY <1>7 DEF EnterSave, entering
    <2>2. PICK new : new = <<Restore(code[pc].slot)>>
      OBVIOUS
    <2>3. new \in Seq(Jobs) /\ push(new)
      BY <1>2, <1>3, <2>1, <2>2, RestoreFacts
    <2>4. JobsTyped' /\ SpillsWhenFull' /\ Pending' = Pending \o new
      BY <1>1, <1>2, <2>3, PushFacts
    <2>5. \A q, r : Waits(q, r) => Waits(q, r)'
      BY <1>1, <1>2, <2>3, <2>4, WaitsPushed
    <2>6. slots' \in [Slots -> Rows \cup {npos}]
      BY <1>2, <1>3, <2>1
    <2>7. QED
      BY <1>1, <1>3, <1>4, <1>5, <2>4, <2>5, <2>6, EnterStep
  <1>8. QED
    BY <1>6, <1>7

\* A repetition stays at the loop; only a miss leaves it, where it is.
LEMMA PossessiveStep ==
  ASSUME IInv, EnterPossessive
  PROVE  IInv'
  <1>1. /\ Entering(Possessive) /\ phase = "walk" /\ code[pc].op \in Possessive
        /\ UNCHANGED search /\ UNCHANGED <<phase, bt_matched, bt_out_slots>>
    BY DEF EnterPossessive, Entering, entering
  <1>2. /\ Asked /\ FrameTypeOK /\ JobsTyped /\ pc \in DOMAIN code /\ bt_pos \in search.start .. size
        /\ bt_pos \in Rows /\ slots \in [Slots -> Rows \cup {npos}] /\ WaysAre(pc, bt_pos)
    BY Parts, WaysFacts DEF IInv
  <1>3. /\ text \in Seq(Bytes) /\ pc \in Nat /\ bt_pos \in Nat /\ search.start \in Nat
        /\ size \in Nat /\ size = Len(text)
    BY <1>2, AskedFacts DEF size
  <1>4. /\ phase' \in {"pop", "walk", "done"}
        /\ bt_matched' \in BOOLEAN /\ bt_out_slots' \in [Slots -> Rows \cup {npos}]
    BY <1>1, Parts
  <1>5. CASE Advanced(code, text, pc, bt_pos) = {}
    <2>1. pc' = code[pc].secondary /\ UNCHANGED <<jobs, spill, slots>> /\ bt_pos' = bt_pos
      BY <1>5 DEF EnterPossessive, entering
    <2>2. \A w \in WaysOn(<<pc, bt_pos>>) : w = <<pc', bt_pos'>>
      BY <1>1, <1>2, <1>5, <2>1 DEF WaysAre
    <2>3. \A w \in WaysOn(<<pc, bt_pos>>) : Owed(w)'
      BY <1>1, <2>2 DEF Owed
    <2>4. pc' \in DOMAIN code /\ bt_pos' \in search.start .. size
      BY <1>1, <1>2, <2>1, CodeFacts
    <2>5. QED
      BY <1>1, <1>4, <2>1, <2>3, <2>4, QuietEntry
  <1>6. CASE Advanced(code, text, pc, bt_pos) # {}
    <2> DEFINE slot == code[pc].slot
               end == bt_pos + AtomLength(code, text, pc, bt_pos)
    <2>1. /\ pc' \in Advanced(code, text, pc, bt_pos) /\ bt_pos' = bt_pos + 1
          /\ IF slot < 0 \/ capture_free
               THEN UNCHANGED <<jobs, spill, slots>>
               ELSE /\ push(<<Restore(slot), Restore(slot + 1)>>)
                    /\ slots' = [slots EXCEPT ![slot] = bt_pos, ![slot + 1] = end]
      BY <1>6 DEF EnterPossessive, entering
    <2>2. bt_pos < Len(text) /\ pc' \in Successors(code, pc)
      BY <1>1, <1>3, <2>1, AdvancedFits
    <2>3. pc' \in DOMAIN code /\ bt_pos' \in search.start .. size
      BY <1>2, <1>3, <2>1, <2>2, CodeFacts
    <2>4. \A w \in WaysOn(<<pc, bt_pos>>) :
            \E q \in Advanced(code, text, pc, bt_pos) : w = <<q, bt_pos + 1>>
      BY <1>1, <1>2, <1>6 DEF WaysAre
    <2>5. \A q \in Advanced(code, text, pc, bt_pos) : q = pc'
      BY <1>3, <2>1, AdvancedOnce
    <2>6. \A w \in WaysOn(<<pc, bt_pos>>) : Owed(w)'
      BY <1>1, <2>1, <2>4, <2>5 DEF Owed
    <2>7. CASE slot < 0 \/ capture_free
      BY <1>1, <1>4, <2>1, <2>3, <2>6, <2>7, QuietEntry
    <2>8. CASE ~(slot < 0 \/ capture_free)
      <3>1. slot \in Slots /\ slot + 1 \in Slots
        BY <1>1, <1>2, <2>8, CodeFacts
      <3>2. end \in Rows
        <4>1. PICK n : n = AtomLength(code, text, pc, bt_pos)
          OBVIOUS
        <4>2. n \in {1, 2} /\ bt_pos + n <= Len(text)
          BY <1>1, <1>3, <1>6, <4>1, AtomFits
        <4>3. bt_pos + n \in 0 .. size
          BY <1>3, <4>2
        <4>4. QED
          BY <4>1, <4>3 DEF Rows
      <3>3. slots' = [slots EXCEPT ![slot] = bt_pos, ![slot + 1] = end]
        BY <2>1, <2>8
      <3>4. push(<<Restore(slot), Restore(slot + 1)>>)
        BY <2>1, <2>8
      <3> HIDE DEF end, slot
      <3>5. slots' \in [Slots -> Rows \cup {npos}]
        BY <1>2, <3>1, <3>2, <3>3
      <3>6. Restore(slot) \in Jobs /\ Restore(slot + 1) \in Jobs
        BY <1>2, <3>1, RestoreFacts
      <3>7. PICK new : new = <<Restore(slot), Restore(slot + 1)>>
        OBVIOUS
      <3>8. new \in Seq(Jobs) /\ push(new)
        BY <3>4, <3>6, <3>7
      <3>9. JobsTyped' /\ SpillsWhenFull' /\ Pending' = Pending \o new
        BY <1>1, <1>2, <3>8, PushFacts
      <3>10. \A q, r : Waits(q, r) => Waits(q, r)'
        BY <1>1, <1>2, <3>8, <3>9, WaitsPushed
      <3>11. QED
        BY <1>1, <1>4, <2>3, <2>6, <3>5, <3>9, <3>10, EnterStep
    <2>9. QED
      BY <2>7, <2>8
  <1>7. QED
    BY <1>5, <1>6

LEMMA MatchStep ==
  ASSUME IInv, EnterMatch
  PROVE  IInv'
  <1>1. /\ Entering({"match"}) /\ phase = "walk" /\ code[pc].op = "match"
        /\ UNCHANGED <<jobs, spill, slots>> /\ UNCHANGED <<pc, bt_pos>>
    BY DEF EnterMatch, Entering, entering, Dies
  <1>2. /\ Asked /\ bt_pos \in Rows /\ slots \in [Slots -> Rows \cup {npos}] /\ WaysAre(pc, bt_pos)
        /\ bt_matched \in BOOLEAN /\ bt_out_slots \in [Slots -> Rows \cup {npos}]
        /\ pc \in DOMAIN code /\ bt_pos \in search.start .. size
    BY Parts, WaysFacts
  <1>3. WaysOn(<<pc, bt_pos>>) = {}
    BY <1>1, <1>2 DEF WaysAre
  <1>4. phase' \in {"pop", "walk", "done"} /\ bt_matched' \in BOOLEAN
    BY <1>2 DEF EnterMatch, Dies
  <1>5. bt_out_slots' \in [Slots -> Rows \cup {npos}]
    <2>1. 0 \in Slots /\ 1 \in Slots
      BY <1>2, AskedFacts
    <2>2. PICK held : held = [bt_out_slots EXCEPT ![0] = slots[0], ![1] = bt_pos]
      OBVIOUS
    <2>3. held \in [Slots -> Rows \cup {npos}]
      BY <1>2, <2>1, <2>2
    <2>4. bt_out_slots' = bt_out_slots \/ bt_out_slots' = held \/ bt_out_slots' = slots
      BY <2>2 DEF EnterMatch
    <2>5. QED
      BY <1>2, <2>3, <2>4
  <1>6. QED
    BY <1>1, <1>2, <1>3, <1>4, <1>5, QuietEntry

\* A branch that meets a mark ends: what it owed is marked.
LEMMA AlreadyEnteredStep ==
  ASSUME IInv, AlreadyEntered
  PROVE  IInv'
  <1>1. /\ phase = "walk" /\ phase' = "pop" /\ pc \in Entered /\ UNCHANGED <<search, jobs, spill>>
        /\ UNCHANGED search
        /\ UNCHANGED <<seed, cleared, marks, slots, pc, bt_pos, bt_matched, bt_out_slots>>
    BY DEF AlreadyEntered
  <1>2. Asked'
    BY <1>1, Parts DEF Asked, Taken
  <1>3. JobsTyped' /\ SpillsWhenFull'
    BY <1>1, Parts, SearchKept DEF JobsTyped, SpillsWhenFull
  <1>4. FrameTypeOK'
    <2>1. /\ seed' \in search.start .. size /\ cleared' \in BOOLEAN
          /\ marks' \subseteq (DOMAIN code) \X Rows /\ slots' \in [Slots -> Rows \cup {npos}]
          /\ pc' \in DOMAIN code /\ bt_pos' \in search.start .. size
          /\ bt_matched' \in BOOLEAN /\ bt_out_slots' \in [Slots -> Rows \cup {npos}]
      BY <1>1, Parts
    <2>2. QED
      BY <1>1, <1>3, <2>1, TypedNext
  <1>5. Between'
    BY <1>1 DEF Between
  <1>6. <<pc, bt_pos>> \in marks
    <2>1. marks \subseteq (DOMAIN code) \X Rows
      BY Parts
    <2>2. PICK m \in marks : m[2] = bt_pos /\ m[1] = pc
      BY <1>1 DEF Entered
    <2>3. m = <<pc, bt_pos>>
      BY <2>1, <2>2
    <2>4. QED
      BY <2>2, <2>3
  <1>7. Closed'
    <2>1. SUFFICES ASSUME cleared', phase' # "done", NEW m \in marks', m[2] >= seed',
                          NEW w \in WaysOn(m)'
                   PROVE  w \in marks' \/ Owed(w)'
      BY DEF Closed
    <2>2. w \in WaysOn(m)
      BY <1>1, <2>1, WaysKept
    <2>3. w \in marks \/ Owed(w)
      BY <1>1, <2>1, <2>2 DEF IInv, Closed
    <2>4. Owed(w) => w \in marks \/ Owed(w)'
      BY <1>1, <1>6, WaitsKept DEF Owed
    <2>5. QED
      BY <1>1, <2>3, <2>4
  <1>8. QED
    BY <1>2, <1>3, <1>4, <1>5, <1>7 DEF IInv

\* A popped job is a slot restored, which was owed to nobody, or the branch walked next.
LEMMA PopStep ==
  ASSUME IInv, PopRestore \/ PopBranch
  PROVE  IInv'
  <1>1. /\ phase = "pop" /\ Pending # <<>> /\ Popped /\ UNCHANGED search
        /\ UNCHANGED <<seed, cleared, marks, bt_matched, bt_out_slots>>
    BY DEF PopRestore, PopBranch
  <1>2. /\ JobsTyped' /\ SpillsWhenFull' /\ Top \in Jobs /\ Pending = Pending' \o <<Top>>
    BY <1>1, Parts, PopFacts
  <1>3. PICK e : e = Top
    OBVIOUS
  <1>4. e \in Jobs /\ Pending = Pending' \o <<e>>
    BY <1>2, <1>3
  <1>5. Asked /\ slots \in [Slots -> Rows \cup {npos}] /\ pc \in DOMAIN code
        /\ bt_pos \in search.start .. size
    BY Parts
  <1>6. Asked'
    BY <1>1, <1>5 DEF Asked, Taken
  <1>7. \/ /\ phase' = "pop" /\ UNCHANGED <<pc, bt_pos>> /\ ~IsBranch(e)
           /\ slots' \in [Slots -> Rows \cup {npos}]
        \/ /\ phase' = "walk" /\ pc' = e.pc /\ bt_pos' = search.start + e.row
           /\ e \in BranchJobs /\ slots' \in [Slots -> Rows \cup {npos}]
    <2>1. CASE PopRestore
      <3>1. /\ phase' = "pop" /\ UNCHANGED <<pc, bt_pos>> /\ "slot" \in DOMAIN e
            /\ slots' = [slots EXCEPT ![e.slot] = Restored(e.row)]
        BY <1>3, <2>1 DEF PopRestore
      <3>2. e \in RestoreJobs /\ ~IsBranch(e)
        BY <1>4, <3>1, JobFacts
      <3>3. e.slot \in Slots /\ e.row \in Rows \cup {unset}
        BY <3>2 DEF RestoreJobs
      <3>4. Restored(e.row) \in Rows \cup {npos}
        BY <3>3 DEF Restored
      <3>5. slots' \in [Slots -> Rows \cup {npos}]
        BY <1>5, <3>1, <3>3, <3>4
      <3>6. QED
        BY <3>1, <3>2, <3>5
    <2>2. CASE PopBranch
      <3>1. /\ phase' = "walk" /\ pc' = e.pc /\ bt_pos' = search.start + e.row
            /\ "pc" \in DOMAIN e /\ slots' = slots
        BY <1>3, <2>2 DEF PopBranch
      <3>2. e \in BranchJobs
        BY <1>4, <3>1, JobFacts DEF IsBranch
      <3>3. QED
        BY <1>5, <3>1, <3>2
    <2>3. QED
      BY <2>1, <2>2
  <1>8. phase' \in {"start", "pop", "walk", "done"} /\ phase' # "start"
        /\ slots' \in [Slots -> Rows \cup {npos}]
    BY <1>7
  <1>9. pc' \in DOMAIN code /\ bt_pos' \in search.start .. size
    <2>1. CASE e \in BranchJobs /\ pc' = e.pc /\ bt_pos' = search.start + e.row
      <3>1. e.pc \in DOMAIN code /\ e.row \in 0 .. size - search.start
        BY <2>1 DEF BranchJobs
      <3>2. search.start \in Nat /\ size \in Nat
        BY <1>5, AskedFacts
      <3>3. PICK n : n = e.row
        OBVIOUS
      <3>4. search.start + n \in search.start .. size
        BY <3>1, <3>2, <3>3
      <3>5. QED
        BY <2>1, <3>1, <3>3, <3>4
    <2>2. QED
      BY <1>5, <1>7, <2>1
  <1>10. FrameTypeOK'
    <2>1. /\ seed' \in search.start .. size /\ cleared' \in BOOLEAN
          /\ marks' \subseteq (DOMAIN code) \X Rows
          /\ bt_matched' \in BOOLEAN /\ bt_out_slots' \in [Slots -> Rows \cup {npos}]
      BY <1>1, Parts
    <2>2. QED
      BY <1>1, <1>2, <1>8, <1>9, <2>1, TypedNext
  <1>11. Between'
    BY <1>8 DEF Between
  <1>12. Closed'
    <2>1. SUFFICES ASSUME cleared', phase' # "done", NEW m \in marks', m[2] >= seed',
                          NEW w \in WaysOn(m)'
                   PROVE  w \in marks' \/ Owed(w)'
      BY DEF Closed
    <2>2. w \in WaysOn(m)
      BY <1>1, <2>1, WaysKept
    <2>3. w \in marks \/ Owed(w)
      BY <1>1, <2>1, <2>2 DEF IInv, Closed
    <2>4. ASSUME Owed(w) PROVE Owed(w)'
      <3>1. Waits(w[1], w[2])
        BY <1>1, <2>4 DEF Owed
      <3>2. PICK q, r : q = w[1] /\ r = w[2]
        OBVIOUS
      <3>3. Waits(q, r)' \/ (IsBranch(e) /\ e.pc = q /\ search.start + e.row = r)
        BY <1>1, <1>2, <1>4, <3>1, <3>2, WaitsPopped
      <3>4. CASE Waits(q, r)'
        BY <3>2, <3>4 DEF Owed
      <3>5. CASE IsBranch(e) /\ e.pc = q /\ search.start + e.row = r
        <4>1. phase' = "walk" /\ pc' = q /\ bt_pos' = r
          BY <1>7, <3>5
        <4>2. w = <<q, r>>
          BY <2>2, <3>2, WaysArePairs
        <4>3. QED
          BY <4>1, <4>2 DEF Owed
      <3>6. QED
        BY <3>3, <3>4, <3>5
    <2>5. QED
      BY <1>1, <2>3, <2>4
  <1>13. QED
    BY <1>2, <1>6, <1>10, <1>11, <1>12 DEF IInv

\* Between two starts nobody is owed anything, and the next start is no earlier.
LEMMA StartFacts ==
  ASSUME IInv, phase = "start", NextStart # npos
  PROVE  /\ NextStart \in seed .. size /\ NextStart \in search.start .. size
         /\ ClearRows \subseteq marks
         /\ \A m \in ClearRows : m[2] >= NextStart => cleared /\ m[2] >= seed
         /\ \A m \in ClearRows : m[2] >= NextStart => \A w \in WaysOn(m) : w \in ClearRows
  <1>1. /\ Asked /\ seed \in search.start .. size /\ search.start \in Nat /\ size \in Nat
        /\ text \in Seq(Bytes) /\ size = Len(text) /\ marks \subseteq (DOMAIN code) \X Rows
    BY Parts, AskedFacts DEF size
  <1>2. NextStart \in seed .. size
    <2>1. CASE search.mode = "search"
      <3>1. NextStart = next_candidate(hints, text, seed, search.start) /\ seed \in Nat
        BY <1>1, <2>1 DEF NextStart
      <3>2. QED
        BY <1>1, <3>1, NextCandidateFits
    <2>2. CASE search.mode # "search"
      BY <1>1, <2>2 DEF NextStart
    <2>3. QED
      BY <2>1, <2>2
  <1>3. NextStart \in search.start .. size
    BY <1>1, <1>2
  <1>4. ClearRows \subseteq marks
    BY DEF ClearRows
  <1>5. ASSUME NEW m \in ClearRows, m[2] >= NextStart
        PROVE  cleared /\ m[2] >= seed /\ \A w \in WaysOn(m) : w \in ClearRows
    <2>1. m \in marks /\ m[2] \in Nat
      BY <1>1, <1>4, <1>5 DEF Rows
    <2>2. cleared
      BY <1>1, <1>2, <1>5, <2>1 DEF ClearRows
    <2>3. m[2] >= seed
      BY <1>1, <1>2, <1>5, <2>1
    <2>4. ASSUME NEW w \in WaysOn(m) PROVE w \in marks
      <3>1. w \in marks \/ Owed(w)
        BY <2>1, <2>2, <2>3, <2>4 DEF IInv, Closed
      <3>2. DOMAIN Pending = {}
        <4>1. jobs = <<>> /\ spill = <<>>
          BY DEF IInv, Between
        <4>2. Pending = <<>>
          BY <4>1, Parts, PendingFacts
        <4>3. QED
          BY <4>2
      <3>3. ~Owed(w)
        BY <3>2 DEF Owed, Waits
      <3>4. QED
        BY <3>1, <3>3
    <2>5. QED
      BY <2>2, <2>3, <2>4 DEF ClearRows
  <1>6. QED
    BY <1>2, <1>3, <1>4, <1>5

\* Giving a start up, with the marks it left.
LEMMA GiveUpStep ==
  ASSUME IInv, UNCHANGED <<search, jobs, spill, slots, pc, bt_pos, bt_matched, bt_out_slots>>,
         jobs = <<>>, spill = <<>>,
         NEW here \in search.start .. size, GiveUpOn(here), cleared' \in BOOLEAN,
         marks' \subseteq marks,
         cleared' => \A m \in marks' : m[2] >= here => \A w \in WaysOn(m) : w \in marks'
  PROVE  IInv'
  <1>1. UNCHANGED search /\ Asked /\ search.start \in Nat /\ size \in Nat
        /\ marks \subseteq (DOMAIN code) \X Rows
    BY Parts, AskedFacts
  <1>2. \/ phase' = "done" /\ seed' = here
        \/ phase' = "start" /\ seed' = here + 1 /\ here < size
    BY <1>1 DEF GiveUpOn
  <1>3. Asked'
    BY <1>1 DEF Asked, Taken
  <1>4. JobsTyped' /\ SpillsWhenFull'
    BY <1>1, Parts, SearchKept DEF JobsTyped, SpillsWhenFull
  <1>5. FrameTypeOK'
    <2>1. /\ slots' \in [Slots -> Rows \cup {npos}]
          /\ pc' \in DOMAIN code /\ bt_pos' \in search.start .. size
          /\ bt_matched' \in BOOLEAN /\ bt_out_slots' \in [Slots -> Rows \cup {npos}]
      BY Parts
    <2>2. seed' \in search.start .. size /\ phase' \in {"start", "pop", "walk", "done"}
      BY <1>1, <1>2
    <2>3. marks' \subseteq (DOMAIN code) \X Rows
      BY <1>1
    <2>4. QED
      BY <1>1, <1>4, <2>1, <2>2, <2>3, TypedNext
  <1>6. Between'
    BY DEF Between
  <1>7. Closed'
    <2>1. SUFFICES ASSUME cleared', phase' # "done", NEW m \in marks', m[2] >= seed',
                          NEW w \in WaysOn(m)'
                   PROVE  w \in marks' \/ Owed(w)'
      BY DEF Closed
    <2>2. w \in WaysOn(m)
      BY <1>1, <2>1, WaysKept
    <2>3. m[2] \in Nat
      BY <1>1, <2>1 DEF Rows
    <2>4. m[2] >= here
      BY <1>1, <1>2, <2>1, <2>3
    <2>5. QED
      BY <2>1, <2>2, <2>4
  <1>8. QED
    BY <1>3, <1>4, <1>5, <1>6, <1>7 DEF IInv

LEMMA StartFailedStep ==
  ASSUME IInv, StartFailed
  PROVE  IInv'
  <1>1. /\ phase = "pop" /\ Pending = <<>> /\ GiveUpOn(seed)
        /\ UNCHANGED <<search, cleared, marks, jobs, spill, slots, pc, bt_pos, bt_matched, bt_out_slots>>
    BY DEF StartFailed
  <1>2. jobs = <<>> /\ spill = <<>>
    BY <1>1, Parts, PendingFacts
  <1>3. ASSUME cleared, NEW m \in marks, m[2] >= seed, NEW w \in WaysOn(m)
        PROVE  w \in marks
    <2>1. w \in marks \/ Owed(w)
      BY <1>1, <1>3 DEF IInv, Closed
    <2>2. DOMAIN Pending = {}
      BY <1>1
    <2>3. ~Owed(w)
      BY <1>1, <2>2 DEF Owed, Waits
    <2>4. QED
      BY <2>1, <2>3
  <1>4. PICK here : here = seed
    OBVIOUS
  <1>5. here \in search.start .. size /\ GiveUpOn(here) /\ cleared' \in BOOLEAN
    BY <1>1, <1>4, Parts
  <1>6. cleared' => \A m \in marks' : m[2] >= here => \A w \in WaysOn(m) : w \in marks'
    BY <1>1, <1>3, <1>4
  <1>7. QED
    BY <1>1, <1>2, <1>5, <1>6, GiveUpStep

LEMMA SkipStartStep ==
  ASSUME IInv, SkipStart
  PROVE  IInv'
  <1>1. /\ phase = "start" /\ NextStart # npos /\ marks' = ClearRows /\ cleared' = TRUE
        /\ GiveUpOn(NextStart)
        /\ UNCHANGED <<search, jobs, spill, slots, pc, bt_pos, bt_matched, bt_out_slots>>
    BY DEF SkipStart
  <1>2. jobs = <<>> /\ spill = <<>>
    BY <1>1 DEF IInv, Between
  <1>3. PICK here : here = NextStart
    OBVIOUS
  <1>4. here \in search.start .. size /\ GiveUpOn(here) /\ cleared' \in BOOLEAN
        /\ marks' \subseteq marks
    BY <1>1, <1>3, StartFacts
  <1>5. \A m \in marks' : m[2] >= here => \A w \in WaysOn(m) : w \in marks'
    BY <1>1, <1>3, StartFacts
  <1>6. QED
    BY <1>1, <1>2, <1>4, <1>5, GiveUpStep

LEMMA BeginStartStep ==
  ASSUME IInv, BeginStart
  PROVE  IInv'
  <1>1. /\ phase = "start" /\ NextStart # npos /\ marks' = ClearRows /\ cleared' = TRUE
        /\ seed' = NextStart /\ slots' = [s \in Slots |-> npos]
        /\ push(<<Branch(1, NextStart)>>) /\ phase' = "pop"
        /\ UNCHANGED <<search, pc, bt_pos, bt_matched, bt_out_slots>> /\ UNCHANGED search
    BY DEF BeginStart
  <1>2. PICK here : here = NextStart
    OBVIOUS
  <1>3. here \in search.start .. size /\ marks' \subseteq marks /\ seed' = here
    BY <1>1, <1>2, StartFacts
  <1>4. \A m \in marks' : m[2] >= here => \A w \in WaysOn(m) : w \in marks'
    BY <1>1, <1>2, StartFacts
  <1>5. Asked /\ JobsTyped /\ marks \subseteq (DOMAIN code) \X Rows /\ 1 \in DOMAIN code
    BY Parts, AskedFacts
  <1>6. PICK new : new = <<Branch(1, here)>>
    OBVIOUS
  <1>7. new \in Seq(Jobs) /\ push(new)
    BY <1>1, <1>2, <1>3, <1>5, <1>6, BranchFacts
  <1>8. JobsTyped' /\ SpillsWhenFull'
    BY <1>1, <1>5, <1>7, PushFacts
  <1>9. Asked'
    BY <1>1, <1>5 DEF Asked, Taken
  <1>10. FrameTypeOK'
    <2>1. slots' \in [Slots -> Rows \cup {npos}]
      BY <1>1
    <2>2. /\ pc' \in DOMAIN code /\ bt_pos' \in search.start .. size
          /\ bt_matched' \in BOOLEAN /\ bt_out_slots' \in [Slots -> Rows \cup {npos}]
      BY <1>1, Parts
    <2>3. /\ seed' \in search.start .. size /\ phase' \in {"start", "pop", "walk", "done"}
          /\ cleared' \in BOOLEAN /\ marks' \subseteq (DOMAIN code) \X Rows
      BY <1>1, <1>3, <1>5
    <2>4. QED
      BY <1>1, <1>8, <2>1, <2>2, <2>3, TypedNext
  <1>11. Between'
    BY <1>1 DEF Between
  <1>12. Closed'
    <2>1. SUFFICES ASSUME NEW m \in marks', m[2] >= seed', NEW w \in WaysOn(m)'
                   PROVE  w \in marks'
      BY DEF Closed
    <2>2. w \in WaysOn(m)
      BY <1>1, <2>1, WaysKept
    <2>3. QED
      BY <1>3, <1>4, <2>1, <2>2
  <1>13. QED
    BY <1>8, <1>9, <1>10, <1>11, <1>12 DEF IInv

LEMMA NoMoreStartsStep ==
  ASSUME IInv, NoMoreStarts
  PROVE  IInv'
  <1>1. /\ phase' = "done" /\ UNCHANGED search
        /\ UNCHANGED <<seed, cleared, marks, jobs, spill, slots, pc, bt_pos, bt_matched, bt_out_slots>>
    BY DEF NoMoreStarts
  <1>2. Asked'
    BY <1>1, Parts DEF Asked, Taken
  <1>3. JobsTyped' /\ SpillsWhenFull'
    BY <1>1, Parts, SearchKept DEF JobsTyped, SpillsWhenFull
  <1>4. FrameTypeOK'
    <2>1. /\ seed' \in search.start .. size /\ cleared' \in BOOLEAN
          /\ marks' \subseteq (DOMAIN code) \X Rows /\ slots' \in [Slots -> Rows \cup {npos}]
          /\ pc' \in DOMAIN code /\ bt_pos' \in search.start .. size
          /\ bt_matched' \in BOOLEAN /\ bt_out_slots' \in [Slots -> Rows \cup {npos}]
      BY <1>1, Parts
    <2>2. QED
      BY <1>1, <1>3, <2>1, TypedNext
  <1>5. Between' /\ Closed'
    BY <1>1 DEF Between, Closed
  <1>6. QED
    BY <1>2, <1>3, <1>4, <1>5 DEF IInv

LEMMA StutterStep ==
  ASSUME IInv, UNCHANGED bt_vars
  PROVE  IInv'
  <1>1. /\ UNCHANGED search /\ UNCHANGED <<search, jobs, spill>> /\ phase' = phase
        /\ UNCHANGED <<seed, cleared, marks, jobs, spill, slots, pc, bt_pos, bt_matched, bt_out_slots>>
    BY DEF bt_vars
  <1>2. Asked'
    BY <1>1, Parts DEF Asked, Taken
  <1>3. JobsTyped' /\ SpillsWhenFull'
    BY <1>1, Parts, SearchKept DEF JobsTyped, SpillsWhenFull
  <1>4. FrameTypeOK'
    <2>1. /\ seed' \in search.start .. size /\ cleared' \in BOOLEAN
          /\ marks' \subseteq (DOMAIN code) \X Rows /\ slots' \in [Slots -> Rows \cup {npos}]
          /\ pc' \in DOMAIN code /\ bt_pos' \in search.start .. size
          /\ bt_matched' \in BOOLEAN /\ bt_out_slots' \in [Slots -> Rows \cup {npos}]
      BY <1>1, Parts
    <2>2. phase' \in {"start", "pop", "walk", "done"}
      BY <1>1 DEF IInv, FrameTypeOK
    <2>3. QED
      BY <1>1, <1>3, <2>1, <2>2, TypedNext
  <1>5. Between'
    BY <1>1 DEF IInv, Between
  <1>6. Closed'
    <2>1. SUFFICES ASSUME cleared', phase' # "done", NEW m \in marks', m[2] >= seed',
                          NEW w \in WaysOn(m)'
                   PROVE  w \in marks' \/ Owed(w)'
      BY DEF Closed
    <2>2. w \in WaysOn(m)
      BY <1>1, <2>1, WaysKept
    <2>3. w \in marks \/ Owed(w)
      BY <1>1, <2>1, <2>2 DEF IInv, Closed
    <2>4. Owed(w) => Owed(w)'
      BY <1>1, WaitsKept DEF Owed
    <2>5. QED
      BY <1>1, <2>3, <2>4
  <1>7. QED
    BY <1>2, <1>3, <1>4, <1>5, <1>6 DEF IInv

LEMMA Initially ==
  ASSUME BacktrackInit
  PROVE  IInv
  <1>1. Asked
    BY DEF BacktrackInit, Asked
  <1>2. /\ text \in Seq(Bytes) /\ size \in Nat /\ search.start \in 0 .. size
        /\ 1 \in DOMAIN code /\ search.start \in search.start .. size
        /\ inline_jobs \in Nat
    BY <1>1, AskedFacts, BacktrackAssumption
  <1>3. /\ phase = "start" /\ seed = search.start /\ cleared = FALSE
        /\ marks \in {{}, (DOMAIN code) \X (0 .. size)}
        /\ jobs = <<>> /\ spill = <<>>
        /\ slots = [s \in Slots |-> npos]
        /\ pc = 1 /\ bt_pos = search.start /\ bt_matched = FALSE
        /\ bt_out_slots = [s \in Slots |-> npos]
    BY DEF BacktrackInit, FrameInit
  <1>4. marks \subseteq (DOMAIN code) \X Rows
    BY <1>3 DEF Rows
  <1>5. jobs \in Seq(Jobs) /\ spill \in Seq(Jobs)
    BY <1>3
  <1>6. slots \in [Slots -> Rows \cup {npos}] /\ bt_out_slots \in [Slots -> Rows \cup {npos}]
    BY <1>3
  <1>7. FrameTypeOK
    BY <1>2, <1>3, <1>4, <1>5, <1>6 DEF FrameTypeOK
  <1>8. SpillsWhenFull
    BY <1>2, <1>3 DEF SpillsWhenFull
  <1>9. QED
    BY <1>1, <1>3, <1>7, <1>8 DEF IInv, Between, Closed

-----------------------------------------------------------------------------
(* The theorems.                                                           *)

\* The invariant is inductive: backtrack_from, backtrack_possessive and run_bounded_backtrack
\* keep what is owed in the jobs and the walk until it is marked.
THEOREM Safety == BacktrackSpec => []IInv
  <1>1. BacktrackInit => IInv
    BY Initially
  <1>2. IInv /\ [Backtrack]_bt_vars => IInv'
    <2>1. SUFFICES ASSUME IInv, [Backtrack]_bt_vars
                   PROVE  IInv'
      OBVIOUS
    <2>2. CASE NoMoreStarts
      BY <2>1, <2>2, NoMoreStartsStep
    <2>3. CASE SkipStart
      BY <2>1, <2>3, SkipStartStep
    <2>4. CASE BeginStart
      BY <2>1, <2>4, BeginStartStep
    <2>5. CASE PopRestore \/ PopBranch
      BY <2>1, <2>5, PopStep
    <2>6. CASE StartFailed
      BY <2>1, <2>6, StartFailedStep
    <2>7. CASE AlreadyEntered
      BY <2>1, <2>7, AlreadyEnteredStep
    <2>8. CASE EnterJump
      BY <2>1, <2>8, JumpStep
    <2>9. CASE EnterSplit
      BY <2>1, <2>9, SplitStep
    <2>10. CASE EnterSave
      BY <2>1, <2>10, SaveStep
    <2>11. CASE EnterAssertion
      BY <2>1, <2>11, AssertionStep
    <2>12. CASE EnterConsuming
      BY <2>1, <2>12, ConsumeStep
    <2>13. CASE EnterPossessive
      BY <2>1, <2>13, PossessiveStep
    <2>14. CASE EnterMatch
      BY <2>1, <2>14, MatchStep
    <2>15. CASE UNCHANGED bt_vars
      BY <2>1, <2>15, StutterStep
    <2>16. QED
      BY <2>1, <2>2, <2>3, <2>4, <2>5, <2>6, <2>7, <2>8, <2>9, <2>10, <2>11, <2>12, <2>13,
         <2>14, <2>15 DEF Backtrack
  <1>3. QED
    BY <1>1, <1>2, PTL DEF BacktrackSpec

\* The frame's arrays are never indexed past their ends: every mark's row, every job's slot
\* and counter, every slot's value, in run_bounded_backtrack for any well-formed program.
THEOREM TypeCorrect == BacktrackSpec => []FrameTypeOK
  <1>1. IInv => FrameTypeOK
    BY DEF IInv
  <1>2. QED
    BY <1>1, Safety, PTL

\* The inline jobs are never overrun, and the heap is used only while they are full, so that
\* backtrack_from's pop, the heap's first, is the most recent branch's.
THEOREM SpillsOnlyWhenFull == BacktrackSpec => []SpillsWhenFull
  <1>1. IInv => SpillsWhenFull
    BY DEF IInv
  <1>2. QED
    BY <1>1, Safety, PTL

\* The marks a failed start leaves are closed under every way on, so run_bounded_backtrack's
\* later starts may end on them: none of them leads to a match.
THEOREM FailedStartsClosed == BacktrackSpec => []FailedStartsAreClosed
  <1>1. IInv => FailedStartsAreClosed
    <2>1. SUFFICES ASSUME IInv, phase = "start", cleared, NEW m \in marks, m[2] >= seed,
                          NEW w \in WaysOn(m)
                   PROVE  w \in marks
      BY DEF FailedStartsAreClosed
    <2>2. w \in marks \/ Owed(w)
      BY <2>1 DEF IInv, Closed
    <2>3. DOMAIN Pending = {}
      <3>1. jobs = <<>> /\ spill = <<>>
        BY <2>1 DEF IInv, Between
      <3>2. Pending = <<>>
        BY <2>1, <3>1, Parts, PendingFacts
      <3>3. QED
        BY <3>2
    <2>4. ~Owed(w)
      BY <2>1, <2>3 DEF Owed, Waits
    <2>5. QED
      BY <2>2, <2>4
  <1>2. QED
    BY <1>1, Safety, PTL

=============================================================================
