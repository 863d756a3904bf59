------------------------------ MODULE InnerSweep ------------------------------
(***************************************************************************)
(* run_inner_literal: a search by the occurrences of the inner literal.    *)
(* From each it looks backward for the match's start, confirms the match   *)
(* from there on, and gives the subject up when its reading has cost more  *)
(* than the core's pass over the bytes crossed would have.                 *)
(***************************************************************************)
EXTENDS InnerLiteral

CONSTANTS per_candidate, per_read_byte, per_crossed, slack    \* inner_literal_bill

\* Instances: h the hints, confirms[s] what the full program answers anchored at s.
Scan(h, text, start, confirms) == [h |-> h, text |-> text, start |-> start, confirms |-> confirms]

Occurs(text, pos, literal) == IsPrefix(literal, SubSeq(text, pos + 1, Len(text)))

-----------------------------------------------------------------------------
(* Runs of a class, by bytes or by code points.                            *)

codepoint_retreat(text, end, floor) ==
  LET max_back == Min({end - floor, 4})
  IN Min({w \in 1 .. max_back : w = max_back \/ ByteAt(text, end - w) # Cont})

\* The bytes of the member that ends at, or begins at, a position; none if zero.
MemberBefore(loop, text, end, floor) ==
  IF end = floor THEN 0
  ELSE IF ~loop.cp THEN IF ByteAt(text, end - 1) \in loop.class THEN 1 ELSE 0
  ELSE LET w == codepoint_retreat(text, end, floor)
           member == \E c \in Decoded(text, end - w) \cap loop.class : Len(Encode(c)) = w
       IN IF member THEN w ELSE 0

MemberAt(loop, text, pos) ==
  IF ~loop.cp THEN IF HasByte(text, pos, loop.class) THEN 1 ELSE 0
  ELSE Max({0} \cup {Len(Encode(c)) : c \in Decoded(text, pos) \cap loop.class})

RunStart(loop, text, end, floor) ==
  LET back[k \in 0 .. Len(text)] ==
        IF k = 0 THEN end
        ELSE LET s == back[k - 1] IN s - MemberBefore(loop, text, s, floor)
  IN back[Len(text)]

\* prefix_run_end and the two-run confirm's own walk
RunEnd(loop, text, start, limit) ==
  LET on[k \in 0 .. Len(text)] ==
        IF k = 0 THEN start
        ELSE LET e == on[k - 1] IN e + (IF e < limit THEN MemberAt(loop, text, e) ELSE 0)
  IN on[Len(text)]

-----------------------------------------------------------------------------
(* Backward: the start of the match around an occurrence.                  *)

\* What a candidate's reverse found: the start, the bytes its automaton read, and whether it
\* was cut short.
Found(start, read) == [start |-> start, read |-> read, cut |-> FALSE]

EpsilonOver(code, pcs) ==
  LET back[k \in 0 .. Len(code)] ==
        IF k = 0 THEN pcs
        ELSE LET so_far == back[k - 1]
             IN so_far \cup {pc \in DOMAIN code : EpsilonSuccessors(code, pc) \cap so_far # {}}
  IN back[Len(code)]

\* The prefix's counters from which the text up to end is matched, by where from; none left
\* once no longer text can be.
Backward(code, text, end) ==
  LET from[k \in 0 .. end] ==
        IF k = 0 THEN EpsilonOver(code, {pc \in DOMAIN code : code[pc].op = "match"})
        ELSE LET after == from[k - 1]
             IN EpsilonOver(code, {pc \in DOMAIN code :
                  code[pc].op \in Consuming /\ HasByte(text, end - k, code[pc].class) /\ pc + 1 \in after})
  IN [p \in 0 .. end |-> from[end - p]]

reverse_start(sets, end, floor) ==
  LET stop == Max({floor} \cup {p \in floor .. end : sets[p] = {}})
      starts == {p \in stop .. end : 1 \in sets[p]}
  IN Found(IF starts = {} THEN npos ELSE Min(starts), end - stop)

\* inner_literal_bill::allowance
allowance(spent, crossed) ==
  LET budget == slack + per_crossed * crossed
  IN IF budget > spent THEN (budget - spent) \div per_read_byte ELSE 0

\* Cut short, it would have a start that may not be the leftmost.
ReverseTo(scan, at, floor) ==
  LET found == reverse_start(Backward(scan.h.prefix, scan.text, at), at, floor)
  IN [found EXCEPT !.cut = floor > scan.start /\ at - found.read <= floor]

ReverseAutomaton(scan, at, spent) ==
  LET allowed == allowance(spent, at - scan.start)
  IN ReverseTo(scan, at, IF scan.h.may_give_way /\ at - scan.start > allowed THEN at - allowed
                         ELSE scan.start)

\* A run of one class; a fixed number of code points; or the prefix's automaton.
ReverseRun(scan, at) ==
  LET s == RunStart(scan.h.rev, scan.text, at, scan.start)
  IN Found(IF s = at THEN npos ELSE s, 0)

ReverseCodepoints(scan, at) ==
  LET back[k \in 0 .. scan.h.cps] ==
        IF k = 0 THEN at
        ELSE LET s == back[k - 1]
             IN IF s <= scan.start THEN npos ELSE s - codepoint_retreat(scan.text, s, scan.start)
  IN Found(back[scan.h.cps], 0)

Backtrace(scan, at, spent) ==
  IF scan.h.rev # None THEN ReverseRun(scan, at)
  ELSE IF scan.h.cps > 0 THEN ReverseCodepoints(scan, at)
  ELSE ReverseAutomaton(scan, at, spent)

-----------------------------------------------------------------------------
(* Forward: the confirm.                                                   *)

\* Mutant: the groups part at the occurrence the scan stopped at.
LastLiteral_first(scan, at, limit) == at

\* The last occurrence that the first run, greedy, can leave to the literal.
LastLiteral(scan, at, limit) ==
  Max({at} \cup {p \in at .. limit : Occurs(scan.text, p, scan.h.literal)})

\* il_fwd_run_to_end: one class on both sides
RunToEnd(h) == h.rev.class = h.fwd.class /\ h.rev.cp = h.fwd.cp

Parting(scan, at, end) ==
  LET len == Len(scan.h.literal)
      reach == IF RunToEnd(scan.h) THEN end ELSE RunEnd(scan.h.rev, scan.text, at, end)
  IN IF scan.h.fwd_last THEN LastLiteral(scan, at, Min({reach, end - len - 1})) ELSE at

\* fill_two_run_saves: a slot is where the last loop or the literal before it ended.
TwoRunSlots(scan, start, parting, end) ==
  LET Walk(so_far, in) ==
        CASE in.op = "save" -> [so_far EXCEPT !.slots[in.slot] = so_far.anchor]
          [] in.op = "byte" -> [so_far EXCEPT !.anchor = parting + Len(scan.h.literal), !.behind = TRUE]
          [] in.op = "split" -> [so_far EXCEPT !.anchor = IF so_far.behind THEN end ELSE parting]
          [] OTHER -> so_far
      none == [k \in 0 .. scan.h.slot_count - 1 |-> npos]
  IN FoldLeft(Walk, [slots |-> none, anchor |-> start, behind |-> FALSE], scan.h.code).slots

\* How far the full program reads from start before no thread is left.
EpsilonFrom(code, pcs) ==
  LET on[k \in 0 .. Len(code)] ==
        IF k = 0 THEN pcs
        ELSE LET so_far == on[k - 1]
             IN so_far \cup UNION {EpsilonSuccessors(code, pc) : pc \in so_far}
  IN on[Len(code)]

ForwardReach(code, text, start) ==
  LET live[p \in start .. Len(text)] ==
        EpsilonFrom(code,
          IF p = start THEN {1}
          ELSE LET before == live[p - 1]
               IN UNION {Advanced(code, text, pc, p - 1) :
                           pc \in {q \in before : code[q].op \in Consuming \cup Possessive}})
  IN Min({Len(text)} \cup {p \in start .. Len(text) : live[p] = {}})

-----------------------------------------------------------------------------
(* The candidates, one after another.                                      *)

\* An end of the scan: matched, spent (no occurrence is left), overspent (given up for the
\* subject) or unable; whether it had a candidate, and the bytes its candidates read.
Ended(outcome, slots, at) ==
  [outcome |-> outcome, slots |-> slots, tried |-> at.pos > at.from, read |-> at.read]

\* Where a scan is: the next candidate is looked for at pos, none may begin before
\* min_pre_start; what the bill has spent, and all that was read.
Begun(start) == [pos |-> start, from |-> start, min_pre_start |-> start, spent |-> 0, read |-> 0]
Rejected(at, h, read) == [at EXCEPT !.pos = h + 1, !.read = @ + read]

NextOccurrence(scan, pos) ==
  LET found == {p \in pos .. Len(scan.text) : Occurs(scan.text, p, scan.h.literal)}
  IN IF found = {} THEN npos ELSE Min(found)

\* A candidate without a start, or a confirmed one, or one the full program rejects.
NoStart(at, h, read) == Rejected(at, h, read)

Billed(at, h, read, stop) ==
  [Rejected(at, h, read) EXCEPT !.spent = @ + per_candidate + per_read_byte * read,
                                !.min_pre_start = Max({@, stop})]

Overspent(scan, at, h) ==
  /\ scan.h.may_give_way
  /\ at.spent > slack + per_crossed * (h - scan.start)

RECURSIVE Sweep(_, _), AtCandidate(_, _, _), Confirm(_, _, _, _), AfterBill(_, _, _)

AfterBill(scan, at, h) ==
  IF Overspent(scan, at, h) THEN Ended("given_up", None, at) ELSE Sweep(scan, at)

\* The two runs are walked, a fixed shape and any other pattern ask the program.
Confirm(scan, at, h, found) ==
  LET s == found.start
      lit_end == h + Len(scan.h.literal)
      end == IF scan.h.fwd = None THEN npos ELSE RunEnd(scan.h.fwd, scan.text, lit_end, Len(scan.text))
      answer == scan.confirms[s]
  IN IF scan.h.fwd # None
       THEN IF end > lit_end
              THEN Ended("matched", TwoRunSlots(scan, s, Parting(scan, h, end), end), Rejected(at, h, 0))
              ELSE Sweep(scan, Rejected(at, h, 0))
     ELSE IF answer.matched THEN Ended("matched", answer.slots, Rejected(at, h, found.read))
     ELSE IF scan.h.rev = None /\ scan.h.cps > 0 THEN Sweep(scan, Rejected(at, h, 0))
     ELSE LET stop == ForwardReach(scan.h.code, scan.text, s)
          IN AfterBill(scan, Billed(at, h, found.read + stop - s, stop), h)

AtCandidate(scan, at, h) ==
  LET found == Backtrace(scan, h, at.spent)
  IN IF found.cut THEN Ended("given_up", None, Rejected(at, h, found.read))
     ELSE IF found.start = npos THEN Sweep(scan, NoStart(at, h, found.read))
     ELSE Confirm(scan, at, h, found)

Sweep(scan, at) ==
  LET h == NextOccurrence(scan, at.pos) IN
  IF h = npos THEN Ended("spent", None, at)
  ELSE IF h < at.min_pre_start THEN Ended("given_up", None, at)
  ELSE IF scan.h.rev = None /\ scan.h.cps = 0 /\ scan.h.prefix = None
    THEN Ended("unable", None, Rejected(at, h, 0))
  ELSE AtCandidate(scan, at, h)

run_inner_literal(h, text, start, confirms) == Sweep(Scan(h, text, start, confirms), Begun(start))

=============================================================================
