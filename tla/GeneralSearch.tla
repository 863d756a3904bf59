---------------------------- MODULE GeneralSearch ----------------------------
(***************************************************************************)
(* What run_general is called with: a program, a subject, a start and a    *)
(* mode; which calls its backtracker takes; and what both engines rely on  *)
(* in a program the compiler made, which neither of them tests.            *)
(***************************************************************************)
EXTENDS Lookaround

CONSTANTS Searches,     \* [program, text, start, mode, sem, forbid, counting, ...]
          inline_jobs,  \* pending branches held before they spill to the heap
          RowValues     \* values of a job's row (2^32): the last one stands for npos

\* The calls that go to the backtracker.
Taken(s) == s.program.hints.bounded_backtrack /\ s.sem = "first"

\* Control never runs off the code, and a slot written is one a block has.
WellFormed(program) ==
  LET code == program.code
      Slots == 0 .. program.slot_count - 1
  IN /\ Len(code) \in Nat \ {0} /\ DOMAIN code = 1 .. Len(code)
     /\ {0, 1} \subseteq Slots
     /\ \A pc \in DOMAIN code :
          /\ Successors(code, pc) \subseteq DOMAIN code
          /\ code[pc].op = "save" => code[pc].slot \in Slots
          /\ code[pc].op \in Possessive /\ ~(code[pc].slot < 0) =>
               {code[pc].slot, code[pc].slot + 1} \subseteq Slots

\* The compiler's programs, and starts within the subject.
ASSUME SearchesAssumption ==
  /\ \A program \in {s.program : s \in Searches} : WellFormed(program)
  /\ \A s \in Searches : s.text \in Seq(Bytes) /\ s.start \in 0 .. Len(s.text)

\* Slot 0 is saved by the first instruction, where no other leads, and by no other.
SavesStartFirst(program) ==
  LET code == program.code
  IN /\ code[1].op = "save" /\ code[1].slot = 0
     /\ \A pc \in DOMAIN code :
          /\ 1 \notin Successors(code, pc)
          /\ pc # 1 /\ code[pc].op \in {"save"} \cup Possessive => code[pc].slot # 0

\* The compiler wraps what it emits in group 0.
ASSUME StartAssumption == \A program \in {s.program : s \in Searches} : SavesStartFirst(program)

\* The code proper: the sub-program of a lookaround is jumped over.
Proper(code) ==
  {pc \in DOMAIN code :
     \A q \in DOMAIN code :
       code[q].op = "assert_lookaround" /\ q + 2 <= pc => code[q + 1].primary <= pc}

\* A group is named by its first slot.
Groups(program) == {g \in 0 .. program.slot_count - 1 : g % 2 = 0}

\* The groups that are open at pc, as the code is laid out.
OpenAt(program, pc) ==
  LET code == program.code
      saves == {q \in Proper(code) : q < pc /\ code[q].op = "save"}
      unclosed == {q \in saves : \A r \in saves : r > q => code[r].slot # code[q].slot + 1}
  IN Groups(program) \cap {code[q].slot : q \in unclosed}

\* A possessive loop's code point has a byte to come: its group ends after it.
Overhang(code, pc) ==
  IF \E q \in DOMAIN code : code[q].op = "klass_cp_loop_possessive" /\ q + 3 = pc THEN 1 ELSE 0

\* Every way through the code opens a group before it closes it, and closes all it opens,
\* group 0 last.
BracketsGroups(program) ==
  LET code == program.code
      proper == Proper(code)
      open == [pc \in proper |-> OpenAt(program, pc)]
      past(pc) == LET in == code[pc]
                  IN IF in.op # "save" THEN open[pc]
                     ELSE IF in.slot % 2 = 0 THEN open[pc] \cup {in.slot}
                     ELSE open[pc] \ {in.slot - 1}
  IN /\ program.slot_count \in Nat
     /\ \A g \in Groups(program) : g + 1 \in 0 .. program.slot_count - 1
     /\ 1 \in proper
     /\ \A pc \in proper :
          LET in == code[pc]
          IN /\ \A q \in Successors(code, pc) : q \in proper /\ open[q] = past(pc)
             /\ in.op = "save" /\ in.slot % 2 = 1 => in.slot - 1 \in open[pc]
             /\ in.op \in Possessive /\ ~(in.slot < 0) => in.slot \in Groups(program) \ open[pc]
             /\ 0 \notin open[pc] /\ pc # 1 => in.op = "match"
             /\ in.op = "match" => open[pc] = {}
             /\ Overhang(code, pc) = 1 => in.op \in Consuming

\* A group is emitted between its two saves, and a possessive loop's group is in its test.
ASSUME GroupsAssumption == \A program \in {s.program : s \in Searches} : BracketsGroups(program)

\* A row is counted from the start, and run_general sends only short rests to the backtracker.
ASSUME BacktrackAssumption ==
  /\ inline_jobs \in Nat \ {0} /\ RowValues \in Nat \ {0}
  /\ \A s \in Searches : Taken(s) => Len(s.text) - s.start < RowValues

-----------------------------------------------------------------------------
(* The call in progress, whichever engine has it.                          *)

VARIABLE search

prog == search.program
code == prog.code
hints == prog.hints
text == search.text
size == Len(text)
Slots == 0 .. prog.slot_count - 1

\* count_matches walks without captures whatever the program's groups.
capture_free == hints.capture_free_walk \/ search.counting

=============================================================================
