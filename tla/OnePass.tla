-------------------------------- MODULE OnePass --------------------------------
(***************************************************************************)
(* The one-pass table: a node per counter a byte leads to, with the edges  *)
(* of its epsilon closure, each with the slots and the assertions crossed  *)
(* on the way.  A byte must select one edge and an end one match, or the   *)
(* program has no table.  Walks that fill a match's groups in one pass:    *)
(* between a start and an end, or from a start to the match's own end.     *)
(***************************************************************************)
EXTENDS ByteProgram

CONSTANT max_nodes

ASSUME NodesAssumption == max_nodes \in Nat

max_slots == 10

-----------------------------------------------------------------------------
(* The build: the ways out of a node, in order of preference.              *)

\* The first counter of a chain of jumps that is not one; on a cycle of jumps, one of them.
follow_jumps(code, pc) ==
  LET at[k \in 0 .. Len(code)] ==
        IF k = 0 THEN pc
        ELSE LET p == at[k - 1] IN IF code[p].op = "jump" THEN code[p].primary ELSE p
  IN at[Len(code)]

\* What a path becomes past its counter: a consuming instruction or a match ends it, and so
\* does a counter it has crossed.
Onward(code, path) ==
  LET in == code[path.pc]
      To(pc) == [path EXCEPT !.pc = pc, !.crossed = @ \cup {path.pc}]
  IN IF path.pc \in path.crossed THEN <<path>>
     ELSE CASE in.op = "split" -> <<To(in.primary), To(in.secondary)>>
            [] in.op = "jump" -> <<To(in.primary)>>
            [] in.op = "save" -> <<[To(path.pc + 1) EXCEPT !.slots = @ \cup {in.slot}]>>
            [] in.op = "assert_position" ->
                 <<[To(path.pc + 1) EXCEPT !.asserts = @ \cup {in.kind}]>>
            [] OTHER -> <<path>>

EpsilonPaths(code, pc) ==
  LET after[k \in 0 .. Len(code)] ==
        IF k = 0 THEN <<[pc |-> pc, slots |-> {}, asserts |-> {}, crossed |-> {}]>>
        ELSE LET paths == after[k - 1]
             IN FlattenSeq([j \in DOMAIN paths |-> Onward(code, paths[j])])
  IN after[Len(code)]

\* The node of the paths: its edges, its match, and what the order says of the two.
NodeOf(code, paths) ==
  LET edges == {j \in DOMAIN paths : code[paths[j].pc].op \in Consuming /\ code[paths[j].pc].class # {}}
      ends == {j \in DOMAIN paths : code[paths[j].pc].op = "match"}
      Crossed(j) == [slots |-> paths[j].slots, asserts |-> paths[j].asserts]
      Edge(j) == [class |-> code[paths[j].pc].class, next |-> follow_jumps(code, paths[j].pc + 1),
                  crossed |-> Crossed(j)]
  IN [edges |-> {Edge(j) : j \in edges},
      matches |-> {Crossed(j) : j \in ends},
      edge_before_match |-> \E j \in edges : \A m \in ends : j < m,
      edge_after_match |-> \E j \in edges : \E m \in ends : m < j,
      cyclic |-> \E j \in DOMAIN paths : paths[j].pc \in paths[j].crossed]

\* No nullable loop, no byte with two edges, no two ways to match: the bails of build_edges.
OnePassNode(node) ==
  /\ ~node.cyclic
  /\ Cardinality(node.matches) <= 1
  /\ \A e, f \in node.edges :
       e.class \cap f.class # {} => e.next = f.next /\ e.crossed = f.crossed

\* The nodes that the start leads to, each by its counter.
Flood(code) ==
  LET Visit(f) ==
        LET pc == Head(f.queue)
            node == NodeOf(code, EpsilonPaths(code, pc))
            nodes == (pc :> node) @@ f.nodes
            found == {e.next : e \in node.edges} \ (DOMAIN nodes \cup Range(f.queue))
        IN [nodes |-> nodes, queue |-> Tail(f.queue) \o SetToSeq(found)]
      after[k \in 0 .. Len(code)] ==
        IF k = 0 THEN [nodes |-> <<>>, queue |-> <<1>>]
        ELSE LET f == after[k - 1] IN IF f.queue = <<>> THEN f ELSE Visit(f)
  IN after[Len(code)].nodes

\* A group none of whose copies is in the program has no slots.
SlotsSaved(code) == 1 + Max({code[pc].slot : pc \in {pc \in DOMAIN code : code[pc].op = "save"}})

accept_rank(node) ==
  IF node.matches = {} THEN "none"
  ELSE IF node.edge_before_match /\ node.edge_after_match THEN "mixed"
  ELSE IF node.edge_before_match THEN "continue"
  ELSE "match"

\* build: the nodes, without the merging of those that are alike.
onepass(code) ==
  LET nodes == Flood(code)
      eligible == /\ SlotsSaved(code) <= max_slots
                  /\ Cardinality(DOMAIN nodes) <= max_nodes
                  /\ \A pc \in DOMAIN nodes : OnePassNode(nodes[pc])
  IN [eligible |-> eligible,
      slot_count |-> SlotsSaved(code),
      nodes |-> IF eligible THEN nodes ELSE <<>>,
      ends_known |-> eligible /\ \A pc \in DOMAIN nodes : accept_rank(nodes[pc]) # "mixed"]

-----------------------------------------------------------------------------
(* The walks.                                                              *)

asserts_hold(kinds, text, pos) == \A kind \in kinds : assertion_holds(kind, text, pos)

\* The edge of the byte at pos whose assertions hold there.
StepsAt(node, text, pos) ==
  {e \in node.edges : HasByte(text, pos, e.class) /\ asserts_hold(e.crossed.asserts, text, pos)}

EndsAt(node, text, pos) == {m \in node.matches : asserts_hold(m.asserts, text, pos)}

Written(slots, crossed, pos) == [k \in DOMAIN slots |-> IF k \in crossed THEN pos ELSE slots[k]]
NoSlots(table) == [k \in 0 .. table.slot_count - 1 |-> npos]

NotThere == [matched |-> FALSE, slots |-> <<>>]

\* The groups of the match on [s, e) of the text, or not a match there.
extract(table, text, s, e) ==
  LET walk[p \in s .. e] ==
        IF p = s THEN [at |-> 1, slots |-> NoSlots(table)]
        ELSE LET w == walk[p - 1]
                 steps == IF w.at = 0 THEN {} ELSE StepsAt(table.nodes[w.at], text, p - 1)
             IN IF steps = {} THEN [at |-> 0, slots |-> <<>>]
                ELSE LET step == CHOOSE x \in steps : TRUE
                     IN [at |-> step.next, slots |-> Written(w.slots, step.crossed.slots, p - 1)]
      last == walk[e]
      ends == IF last.at = 0 THEN {} ELSE EndsAt(table.nodes[last.at], text, e)
  IN IF ends = {} THEN NotThere
     ELSE [matched |-> TRUE,
           slots |-> Written(last.slots, (CHOOSE m \in ends : TRUE).slots, e)]

\* Mutant: a later end keeps the slots an earlier one had.
Kept_once(w, match, pos) ==
  [w EXCEPT !.kept = IF w.end = npos THEN Written(w.cur, match.slots, pos)
                     ELSE Written(w.kept, match.slots, pos),
            !.stale = match.slots, !.end = pos]

\* An end is kept with the slots written since the last, or set by that one's match.
Kept(w, match, pos) ==
  [w EXCEPT !.kept = Written([k \in DOMAIN w.kept |-> IF k \in w.stale THEN w.cur[k] ELSE w.kept[k]],
                             match.slots, pos),
            !.stale = match.slots,
            !.end = pos]

\* One position of extract_leftmost: a match may be kept, which may end the walk; then a byte.
Advance(table, text, w, pos) ==
  LET node == table.nodes[w.at]
      ends == EndsAt(node, text, pos)
      met == IF ends = {} THEN w ELSE Kept(w, CHOOSE m \in ends : TRUE, pos)
      steps == StepsAt(node, text, pos)
  IN IF (ends # {} /\ accept_rank(node) = "match") \/ steps = {} THEN [met EXCEPT !.at = 0]
     ELSE LET step == CHOOSE x \in steps : TRUE
          IN [met EXCEPT !.at = step.next,
                         !.cur = Written(@, step.crossed.slots, pos),
                         !.stale = @ \cup step.crossed.slots]

\* The preferred match from s, where the table knows the ends.
extract_leftmost(table, text, s) ==
  LET none == NoSlots(table)
      from == [at |-> 1, cur |-> none, kept |-> none, stale |-> {}, end |-> npos]
      walk[p \in s - 1 .. Len(text)] ==
        IF p < s THEN from
        ELSE LET w == walk[p - 1] IN IF w.at = 0 THEN w ELSE Advance(table, text, w, p)
      last == walk[Len(text)]
  IN IF last.end = npos THEN NotThere ELSE [matched |-> TRUE, slots |-> last.kept]

=============================================================================
