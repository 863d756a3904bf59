--------------------------- MODULE BoundedBacktrack ---------------------------
(***************************************************************************)
(* The matcher of short subjects: one search by backtracking, with a mark  *)
(* on every (instruction, position) entered.  Branches are explored in     *)
(* order of preference, one instruction per action; a marked pair ends a   *)
(* branch, and marks outlive the start that made them.                     *)
(***************************************************************************)
EXTENDS GeneralSearch

VARIABLES
  phase,       \* start, pop, walk, done
  seed,        \* the start explored, or the next one to look for
  cleared,     \* the marks of the rows from the first start on were cleared
  marks,       \* (instruction, position) pairs entered
  jobs, spill, \* pending branches and slots to restore: inline, then past inline_jobs
  slots,       \* the explored branch's slots
  pc, bt_pos,  \* where the walk is
  bt_matched, bt_out_slots   \* the answer

bt_vars == <<search, phase, seed, cleared, marks, jobs, spill, slots,
             pc, bt_pos, bt_matched, bt_out_slots>>

-----------------------------------------------------------------------------
(* Jobs.  A row is 32 bits: a branch's position relative to the search's   *)
(* start, or the value a slot is restored to, all ones for npos.           *)

Row(n) == n % RowValues
unset == RowValues - 1

Branch(target, position) == [pc |-> target, row |-> Row(position - search.start)]
Restore(slot) == [slot |-> slot, row |-> IF slots[slot] = npos THEN unset ELSE Row(slots[slot])]
Restored(row) == IF row = unset THEN npos ELSE row

Pending == jobs \o spill
push(new) ==
  LET held == Pending \o new
  IN /\ jobs' = SubSeq(held, 1, Min({inline_jobs, Len(held)}))
     /\ spill' = SubSeq(held, inline_jobs + 1, Len(held))

\* Mutant: the inline jobs are taken before the spilled ones.
PoppedInline ==
  IF jobs # <<>> THEN jobs' = Front(jobs) /\ UNCHANGED spill
                 ELSE spill' = Front(spill) /\ UNCHANGED jobs

Popped ==
  IF spill # <<>> THEN spill' = Front(spill) /\ UNCHANGED jobs
                  ELSE jobs' = Front(jobs) /\ UNCHANGED spill
Top == Last(Pending)

-----------------------------------------------------------------------------
\* The frame is not initialized: any pair may read as marked before the rows are cleared.
FrameInit ==
  /\ phase = "start"
  /\ seed = search.start
  /\ cleared = FALSE
  /\ marks \in {{}, (DOMAIN code) \X (0 .. size)}
  /\ jobs = <<>> /\ spill = <<>>
  /\ slots = [s \in Slots |-> npos]
  /\ pc = 1 /\ bt_pos = search.start
  /\ bt_matched = FALSE
  /\ bt_out_slots = [s \in Slots |-> npos]

BacktrackInit == search \in {s \in Searches : Taken(s)} /\ FrameInit

(* run_bounded_backtrack: the starts in turn.                              *)

NextStart ==
  IF search.mode = "search" THEN next_candidate(hints, text, seed, search.start) ELSE seed

NoMoreStarts ==
  /\ phase = "start"
  /\ NextStart = npos
  /\ phase' = "done"
  /\ UNCHANGED <<search, seed, cleared, marks, jobs, spill, slots, pc, bt_pos, bt_matched, bt_out_slots>>

ClearRows == IF cleared THEN marks ELSE {m \in marks : m[2] < NextStart}

\* Mutant: a search tries one start past the subject's end.
GiveUpLate(start) ==
  IF search.mode # "search" \/ start > size
    THEN phase' = "done" /\ seed' = start
    ELSE phase' = "start" /\ seed' = start + 1

\* A failed start: a search tries the next position.
GiveUpOn(start) ==
  IF search.mode # "search" \/ start >= size
    THEN phase' = "done" /\ seed' = start
    ELSE phase' = "start" /\ seed' = start + 1

SkipStart ==
  /\ phase = "start"
  /\ NextStart # npos
  /\ ~seed_viable(hints, text, NextStart, search.start)
  /\ marks' = ClearRows
  /\ cleared' = TRUE
  /\ GiveUpOn(NextStart)
  /\ UNCHANGED <<search, jobs, spill, slots, pc, bt_pos, bt_matched, bt_out_slots>>

BeginStart ==
  /\ phase = "start"
  /\ NextStart # npos
  /\ seed_viable(hints, text, NextStart, search.start)
  /\ marks' = ClearRows
  /\ cleared' = TRUE
  /\ seed' = NextStart
  /\ slots' = [s \in Slots |-> npos]
  /\ push(<<Branch(1, NextStart)>>)
  /\ phase' = "pop"
  /\ UNCHANGED <<search, pc, bt_pos, bt_matched, bt_out_slots>>

-----------------------------------------------------------------------------
(* backtrack_from: the most recent branch.                                 *)

\* Mutant: the next branch keeps the slots of the one that failed.
PopAndKeep ==
  /\ phase = "pop"
  /\ Pending # <<>>
  /\ "slot" \in DOMAIN Top
  /\ Popped
  /\ UNCHANGED <<search, phase, seed, cleared, marks, slots, pc, bt_pos, bt_matched, bt_out_slots>>

PopRestore ==
  /\ phase = "pop"
  /\ Pending # <<>>
  /\ "slot" \in DOMAIN Top
  /\ slots' = [slots EXCEPT ![Top.slot] = Restored(Top.row)]
  /\ Popped
  /\ UNCHANGED <<search, phase, seed, cleared, marks, pc, bt_pos, bt_matched, bt_out_slots>>

PopBranch ==
  /\ phase = "pop"
  /\ Pending # <<>>
  /\ "pc" \in DOMAIN Top
  /\ pc' = Top.pc
  /\ bt_pos' = search.start + Top.row
  /\ Popped
  /\ phase' = "walk"
  /\ UNCHANGED <<search, seed, cleared, marks, slots, bt_matched, bt_out_slots>>

StartFailed ==
  /\ phase = "pop"
  /\ Pending = <<>>
  /\ GiveUpOn(seed)
  /\ UNCHANGED <<search, cleared, marks, jobs, spill, slots, pc, bt_pos, bt_matched, bt_out_slots>>

(* The walk: enters the pair it is at, and dies on one entered before.     *)

entering == code[pc]
Entered == {m[1] : m \in {n \in marks : n[2] = bt_pos}}

AlreadyEntered ==
  /\ phase = "walk"
  /\ pc \in Entered
  /\ phase' = "pop"
  /\ UNCHANGED <<search, seed, cleared, marks, jobs, spill, slots, pc, bt_pos, bt_matched, bt_out_slots>>

Entering(ops) ==
  /\ phase = "walk"
  /\ pc \notin Entered
  /\ entering.op \in ops
  /\ marks' = marks \cup {<<pc, bt_pos>>}
  /\ UNCHANGED <<search, seed, cleared>>

Dies == phase' = "pop" /\ UNCHANGED <<pc, bt_pos>>

\* Mutant: a jump into the loop's head dies there when the head was entered.
EnterJumpPlain ==
  /\ Entering({"jump"})
  /\ pc' = entering.primary
  /\ UNCHANGED <<phase, jobs, spill, slots, bt_pos, bt_matched, bt_out_slots>>

\* Mutant: a jump into a loop's head always leaves the loop.
EnterJumpOut ==
  /\ Entering({"jump"})
  /\ pc' = JumpTarget(code, pc, DOMAIN code)
  /\ UNCHANGED <<phase, jobs, spill, slots, bt_pos, bt_matched, bt_out_slots>>

EnterJump ==
  /\ Entering({"jump"})
  /\ pc' = JumpTarget(code, pc, Entered \cup {pc})
  /\ UNCHANGED <<phase, jobs, spill, slots, bt_pos, bt_matched, bt_out_slots>>

EnterSplit ==
  /\ Entering({"split"})
  /\ push(<<Branch(entering.secondary, bt_pos)>>)
  /\ pc' = entering.primary
  /\ UNCHANGED <<phase, slots, bt_pos, bt_matched, bt_out_slots>>

EnterSave ==
  /\ Entering({"save"})
  /\ IF capture_free /\ entering.slot # 0
       THEN UNCHANGED <<jobs, spill, slots>>
       ELSE /\ push(<<Restore(entering.slot)>>)
            /\ slots' = [slots EXCEPT ![entering.slot] = bt_pos]
  /\ pc' = pc + 1
  /\ UNCHANGED <<phase, bt_pos, bt_matched, bt_out_slots>>

EnterAssertion ==
  /\ Entering({"assert_position"})
  /\ IF assertion_holds(entering.kind, text, bt_pos)
       THEN pc' = pc + 1 /\ UNCHANGED <<phase, bt_pos>>
       ELSE Dies
  /\ UNCHANGED <<jobs, spill, slots, bt_matched, bt_out_slots>>

EnterConsuming ==
  /\ Entering(Consuming)
  /\ IF Advanced(code, text, pc, bt_pos) # {}
       THEN pc' \in Advanced(code, text, pc, bt_pos) /\ bt_pos' = bt_pos + 1 /\ UNCHANGED phase
       ELSE Dies
  /\ UNCHANGED <<jobs, spill, slots, bt_matched, bt_out_slots>>

\* backtrack_possessive: a repetition writes the group's slots; a miss leaves in place.
EnterPossessive ==
  /\ Entering(Possessive)
  /\ LET slot == entering.slot
         end == bt_pos + AtomLength(code, text, pc, bt_pos)
     IN IF Advanced(code, text, pc, bt_pos) = {}
          THEN pc' = entering.secondary /\ UNCHANGED <<bt_pos, jobs, spill, slots>>
          ELSE /\ pc' \in Advanced(code, text, pc, bt_pos)
               /\ bt_pos' = bt_pos + 1
               /\ IF slot < 0 \/ capture_free
                    THEN UNCHANGED <<jobs, spill, slots>>
                    ELSE /\ push(<<Restore(slot), Restore(slot + 1)>>)
                         /\ slots' = [slots EXCEPT ![slot] = bt_pos, ![slot + 1] = end]
  /\ UNCHANGED <<phase, bt_matched, bt_out_slots>>

\* The first match reached is the answer.
EnterMatch ==
  /\ Entering({"match"})
  /\ IF \/ search.mode = "full" /\ bt_pos # size
        \/ bt_pos = slots[0] /\ slots[0] < search.forbid
       THEN Dies /\ UNCHANGED <<bt_matched, bt_out_slots>>
       ELSE /\ phase' = "done"
            /\ bt_matched' = TRUE
            /\ bt_out_slots' =
                 IF capture_free THEN [bt_out_slots EXCEPT ![0] = slots[0], ![1] = bt_pos]
                 ELSE slots
            /\ UNCHANGED <<pc, bt_pos>>
  /\ UNCHANGED <<jobs, spill, slots>>

-----------------------------------------------------------------------------
BacktrackDone == phase = "done"

Backtrack ==
  \/ NoMoreStarts \/ SkipStart \/ BeginStart
  \/ PopRestore \/ PopBranch \/ StartFailed \/ AlreadyEntered
  \/ EnterJump \/ EnterSplit \/ EnterSave \/ EnterAssertion
  \/ EnterConsuming \/ EnterPossessive \/ EnterMatch

BacktrackSpec == BacktrackInit /\ [][Backtrack]_bt_vars /\ WF_bt_vars(Backtrack)

-----------------------------------------------------------------------------
(* Properties.                                                             *)

\* The frame's arrays are never indexed past their ends, whatever the program: rows within
\* the subject, slots the program has, counters inside the code.
Rows == 0 .. size
BranchJobs == [pc : DOMAIN code, row : 0 .. size - search.start]
RestoreJobs == [slot : Slots, row : Rows \cup {unset}]
Jobs == BranchJobs \cup RestoreJobs

FrameTypeOK ==
  /\ phase \in {"start", "pop", "walk", "done"}
  /\ seed \in search.start .. size
  /\ cleared \in BOOLEAN
  /\ marks \subseteq (DOMAIN code) \X Rows
  /\ jobs \in Seq(Jobs) /\ spill \in Seq(Jobs)
  /\ slots \in [Slots -> Rows \cup {npos}]
  /\ pc \in DOMAIN code /\ bt_pos \in search.start .. size
  /\ bt_matched \in BOOLEAN
  /\ bt_out_slots \in [Slots -> Rows \cup {npos}]

\* The inline array is never overrun, and branches are on the heap only while it is full, so
\* taking the spilled ones first is taking the most recent.
SpillsWhenFull ==
  /\ Len(jobs) <= inline_jobs
  /\ spill # <<>> => Len(jobs) = inline_jobs

\* What lets marks outlive a start: the pairs that failed starts entered are closed under
\* every way on, a loop's exit by a jump into its head included, so that none leads to a
\* match a later start could have had.
WaysOn(m) ==
  LET in == code[m[1]] IN
  CASE in.op \in Consuming -> {<<q, m[2] + 1>> : q \in Advanced(code, text, m[1], m[2])}
    [] in.op \in Possessive ->
         LET hit == Advanced(code, text, m[1], m[2])
         IN IF hit = {} THEN {<<in.secondary, m[2]>>} ELSE {<<q, m[2] + 1>> : q \in hit}
    [] in.op = "assert_position" /\ ~assertion_holds(in.kind, text, m[2]) -> {}
    [] OTHER -> {<<q, m[2]>> : q \in EpsilonSuccessors(code, m[1])}

FailedStartsAreClosed ==
  phase = "start" /\ cleared =>
    \A m \in marks : m[2] >= seed => WaysOn(m) \subseteq marks

=============================================================================
