------------------------------ MODULE LookWalks ------------------------------
(***************************************************************************)
(* Lookarounds as a search asks about them: what is learnt for one query   *)
(* stays in the scratch for the next.  A lookbehind keeps a walk parked    *)
(* where it was last asked, an unbounded lookahead the table of every      *)
(* position's answer; a lookaround of one atom is tested on the spot.  A   *)
(* lookaround is named by the counter of its assert_lookaround.            *)
(***************************************************************************)
EXTENDS Lookaround

VARIABLES
  behind,   \* the lookbehinds' walks
  ahead     \* the unbounded lookaheads' tables: the positions they hold at

Asserts(code) == {pc \in DOMAIN code : code[pc].op = "assert_lookaround"}
Lookbehinds(code) == {pc \in Asserts(code) : code[pc].sub.behind}
Unbounded(code) == {pc \in Asserts(code) : ~code[pc].sub.behind /\ code[pc].sub.l_max < 0}

NotWalked == [at |-> npos, holds |-> FALSE, threads |-> {}]
NotFilled == {npos}

\* The scratch of a state no search has used.
ScratchInit(code) ==
  /\ behind = [pc \in Lookbehinds(code) |-> NotWalked]
  /\ ahead = [pc \in Unbounded(code) |-> NotFilled]

\* The sub-program's counters, its match last; the jump before it leads past them.
Region(code, sub) == sub.offset .. code[sub.offset - 1].primary - 1

-----------------------------------------------------------------------------
(* A lookbehind's walk.                                                    *)

Parked(code, text, pcs, p) ==
  LET reached == SubClosure(code, text, pcs, p)
  IN [at |-> p, holds |-> Holds(code, reached),
      threads |-> {pc \in reached : code[pc].op \in Consuming}]

\* One byte on, where the thread at starts joins.
Onward(code, text, starts, walk) ==
  Parked(code, text,
    starts \cup UNION {Advanced(code, text, pc, walk.at) : pc \in walk.threads}, walk.at + 1)

Origin(sub, pos) == IF pos > sub.l_max THEN pos - sub.l_max ELSE 0

KeepsWalk_here(walk, sub, pos) == walk.at = pos

\* Where it stands the walk goes on from, unless that is past pos or out of its reach.
KeepsWalk(walk, sub, pos) == walk.at # npos /\ Origin(sub, pos) <= walk.at /\ walk.at <= pos

\* A walk taken on to pos, byte by byte.
Trip(code, text, starts, from, pos) ==
  LET trip[p \in from.at .. pos] ==
        IF p = from.at THEN from ELSE Onward(code, text, starts, trip[p - 1])
  IN trip[pos]

\* A walk that begins at origin.
Begun(code, text, sub, origin) == Parked(code, text, {sub.offset}, origin)

Walked_stale(code, text, sub, walk, pos) ==
  IF walk.at # npos /\ walk.at >= Origin(sub, pos)
    THEN IF walk.at > pos THEN walk ELSE Trip(code, text, {sub.offset}, walk, pos)
  ELSE Trip(code, text, {sub.offset}, Begun(code, text, sub, Origin(sub, pos)), pos)

\* One more thread starts at every position.
Walked(code, text, sub, walk, pos) ==
  Trip(code, text, {sub.offset},
       IF KeepsWalk(walk, sub, pos) THEN walk ELSE Begun(code, text, sub, Origin(sub, pos)), pos)

\* The bytes that takes: behind_walk_steps.
WalkSteps(sub, walk, pos) == pos - IF KeepsWalk(walk, sub, pos) THEN walk.at ELSE Origin(sub, pos)

\* What one start comes to by pos, with none after it.
Lone(code, text, sub, start, pos) == Trip(code, text, {}, Begun(code, text, sub, start), pos)

-----------------------------------------------------------------------------
(* An unbounded lookahead's table, from the end of the text back.          *)

\* The counters match is reached from at pos, given those at pos + 1.
AheadRow(code, text, sub, pos, after) ==
  LET region == Region(code, sub)
      here == {pc \in region : \/ code[pc].op = "match"
                               \/ /\ code[pc].op \in Consuming
                                  /\ Advanced(code, text, pc, pos) \cap after # {}}
      back(row) == {pc \in region : SubSuccessors(code, text, pc, pos) \cap row # {}}
      round[k \in 0 .. Cardinality(region)] ==
        IF k = 0 THEN here ELSE LET row == round[k - 1] IN row \cup back(row)
  IN round[Cardinality(region)]

fill_ahead_table(code, text, sub) ==
  LET row[k \in 0 .. Len(text)] ==    \* of position Len(text) - k
        AheadRow(code, text, sub, Len(text) - k, IF k = 0 THEN {} ELSE row[k - 1])
  IN {p \in 0 .. Len(text) : sub.offset \in row[Len(text) - p]}

-----------------------------------------------------------------------------
(* A lookaround of one atom.                                               *)

single_atom_body(code, sub) ==
  LET length == Cardinality(Region(code, sub))
  IN \/ length = 2 /\ code[sub.offset].op \in {"byte", "klass"}
     \/ length = 5 /\ code[sub.offset].op = "klass_cp"

\* The atom of a code point class starts at most four bytes back, past continuation bytes.
single_class_behind(code, text, pc, pos) ==
  LET stops == {s \in 0 .. pos - 1 : s = 0 \/ pos - s >= 4 \/ ByteAt(text, s) # Cont}
      start == Max(stops)
  IN /\ pos > 0
     /\ IF code[pc].op = "klass_cp"
          THEN \E c \in Decoded(text, start) \cap code[pc].class : start + Len(Encode(c)) = pos
          ELSE ByteAt(text, pos - 1) \in code[pc].class

single_class_ahead(code, text, pc, pos) == Advanced(code, text, pc, pos) # {}

-----------------------------------------------------------------------------
(* lookaround_holds: what the query leaves in the scratch, and the answer  *)
(* read off it.                                                            *)

Ask(code, text, pc, pos) ==
  LET sub == code[pc].sub
      walks == pc \in Lookbehinds(code) /\ ~single_atom_body(code, sub)
      fills == pc \in Unbounded(code) /\ ~single_atom_body(code, sub) /\ ahead[pc] = NotFilled
  IN /\ behind' = IF walks THEN [behind EXCEPT ![pc] = Walked(code, text, sub, @, pos)] ELSE behind
     /\ ahead' = IF fills THEN [ahead EXCEPT ![pc] = fill_ahead_table(code, text, sub)] ELSE ahead

Told(code, text, pc, pos, walks, tables) ==
  LET sub == code[pc].sub
      matched ==
        IF single_atom_body(code, sub)
          THEN IF sub.behind THEN single_class_behind(code, text, sub.offset, pos)
                             ELSE single_class_ahead(code, text, sub.offset, pos)
        ELSE IF sub.behind THEN walks[pc].holds
        ELSE IF sub.l_max < 0 THEN pos \in tables[pc]
        ELSE lookahead_matches(code, text, sub, pos)
  IN sub.negative # matched

\* The answer to a query no other came before.
FirstTold(code, text, pc, pos) ==
  Told(code, text, pc, pos,
       [k \in Lookbehinds(code) |->
          LET sub == code[k].sub IN Walked(code, text, sub, NotWalked, pos)],
       [k \in Unbounded(code) |-> fill_ahead_table(code, text, code[k].sub)])

=============================================================================
