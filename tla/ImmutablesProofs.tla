--------------------------- MODULE ImmutablesProofs ---------------------------
(* Proofs about Immutables, for every number of threads, buffers, rows and *)
(* programs.                                                               *)
EXTENDS Immutables, FiniteSetTheorems, TLAPS

USE DEF Empty, Torn, Early

\* The actions of Next, one disjunct each, for the case splits below.
LEMMA NextCases ==
  ASSUME Next,
         NEW ACTION P,
         \A t \in Threads : Load(t) => P,
         \A t \in Threads : LockStripe(t) => P,
         \A t \in Threads : Recheck(t) => P,
         \A t \in Threads : UnlockStripe(t) => P,
         \A t \in Threads : ensure_immutables(t) => P,
         \A t \in Threads : ensure_op_table(t) => P,
         \A t \in Threads, s \in {"ac", "alt_pairs"} : ClearThenPush(t, s) => P,
         \A t \in Threads : ensure_membership_rows(t) => P,
         \A t \in Threads : fill_row(t) => P,
         \A t \in Threads : CountAnchored(t) => P,
         \A t \in Threads : CountShort(t) => P,
         \A t \in Threads : FloorDecision(t) => P,
         \A t \in Threads : Abandon(t) => P,
         \A t \in Threads : Warm(t) => P,
         \A t \in Threads : Return(t) => P,
         \A t \in Threads, g \in Lazy \cup Rows : Search(t, g) => P,
         \A t \in Threads : AnchoredMatch(t) => P,
         \A t \in Threads : InnerLiteralScan(t) => P,
         Assign => P
  PROVE  P
  BY DEF Next, Step, ac_ready, alternation_pairs_ready

\* The members of the name sets, so that the proofs need not expand them.
LEMMA Names ==
  /\ "idle" \in PcSet /\ "load" \in PcSet /\ "wait" \in PcSet /\ "check" \in PcSet
  /\ "clear" \in PcSet /\ "fill" \in PcSet /\ "filling" \in PcSet /\ "reset" \in PcSet
  /\ "publish" \in PcSet /\ "unlock" \in PcSet /\ "floor" \in PcSet /\ "use" \in PcSet
  /\ "count" \in PcSet /\ "short" \in PcSet /\ "abandon" \in PcSet /\ "warm" \in PcSet
  /\ "byte_prog" \in Lazy /\ "op_table" \in Lazy /\ "ac" \in Lazy /\ "alt_pairs" \in Lazy
  /\ Lazy \subseteq Keyed /\ "rows" \in Keyed /\ Keyed \subseteq Lazy \cup {"rows"}
  /\ "none" \notin Keyed
  /\ NoScan \in [size : Sizes, built : BOOLEAN]
  BY DEF PcSet, Lazy, Keyed, NoScan, Sizes

\* A keyed slot is published by its key, a row by its flag.
LEMMA PublishedIs ==
  /\ \A s \in Keyed : Published(s) <=> key[s] = code
  /\ \A r \in Rows : Published(r) <=> row_ready[r]
  /\ \A s \in Keyed : Published(s)' <=> (key[s] = code)'
  /\ \A r \in Rows : Published(r)' <=> row_ready'[r]
  /\ Keyed \cap Rows = {} /\ "none" \notin Rows /\ "il" \notin Rows
  BY RowsAssumption DEF Published

\* TypeOK in two halves: a builder's step writes the cells, every other step the rest.
CellTypes ==
  /\ key \in [Keyed -> Buffers \cup {NullPtr}]
  /\ product \in [Lazy -> Nat \cup {Torn}]
  /\ row \in [Rows -> Nat \cup {Torn}]
  /\ row_ready \in [Rows -> BOOLEAN]
  /\ il_warmed \in BOOLEAN
  /\ pool_for \in 1 .. MaxVersion

LocalTypes ==
  /\ pc \in [Threads -> PcSet]
  /\ goal \in [Threads -> Lazy \cup Rows \cup {"il", "none"}]
  /\ slot \in [Threads -> Keyed \cup Rows \cup {"none"}]
  /\ first_build \in [Threads -> BOOLEAN]
  /\ scan \in [Threads -> [size : Sizes, built : BOOLEAN]]

ControlTypes ==
  /\ code \in Buffers
  /\ version \in 1 .. MaxVersion
  /\ routes \in RouteSets
  /\ carries \in SUBSET {"op_table", "ac"}
  /\ mu \in Threads \cup {NoThread}
  /\ prefix_calls \in Nat
  /\ il_short_bytes \in Nat

LEMMA TypeParts == TypeOK <=> CellTypes /\ LocalTypes /\ ControlTypes
  BY DEF TypeOK, CellTypes, LocalTypes, ControlTypes

LEMMA TypePartsNext == TypeOK' <=> CellTypes' /\ LocalTypes' /\ ControlTypes'
  BY DEF TypeOK, CellTypes, LocalTypes, ControlTypes

LEMMA VersionIsNat == ControlTypes => version \in Nat /\ Torn \notin Nat
  BY BoundsAssumption DEF ControlTypes

\* A builder's step leaves the control variables typed.
LEMMA BodyTypes ==
  ASSUME LocalTypes, ControlTypes, NEW t \in Threads, NEW s,
         NEW from, NEW to \in PcSet, Body(t, s, from, to)
  PROVE  LocalTypes' /\ ControlTypes'
  BY DEF Body, LocalTypes, ControlTypes, program, counters

\* A call's return and its start leave its locals typed.
LEMMA LeaveTypes ==
  ASSUME LocalTypes, NEW t \in Threads, Leave(t)
  PROVE  LocalTypes'
  BY Names DEF Leave, LocalTypes

LEMMA EnsureTypes ==
  ASSUME NEW t \in Threads, NEW g \in Lazy \cup Rows \cup {"il"}, LocalTypes, Ensure(t, g)
  PROVE  /\ pc' \in [Threads -> PcSet]
         /\ goal' \in [Threads -> Lazy \cup Rows \cup {"il", "none"}]
         /\ slot' \in [Threads -> Keyed \cup Rows \cup {"none"}]
  <1>1. FirstOf(g) \in Keyed \cup Rows \cup {"none"}
    BY Names DEF FirstOf
  <1>2. QED
    BY <1>1, Names DEF Ensure, LocalTypes

\* The variables range over their types in every reachable state.
THEOREM TypeCorrect == Spec => []TypeOK
  <1>1. Init => TypeOK
    <2> SUFFICES ASSUME Init PROVE CellTypes /\ LocalTypes /\ ControlTypes
      BY TypeParts
    <2>1. CellTypes
      <3>1. row_ready \in [Rows -> BOOLEAN]
        BY Zenon DEF Init
      <3>2. pool_for \in 1 .. MaxVersion
        BY BoundsAssumption DEF Init
      <3>3. il_warmed \in BOOLEAN
        BY Zenon DEF Init
      <3>4. key \in [Keyed -> Buffers \cup {NullPtr}]
        BY DEF Init
      <3>5. product \in [Lazy -> Nat \cup {Torn}] /\ row \in [Rows -> Nat \cup {Torn}]
        BY DEF Init
      <3>6. QED
        BY <3>1, <3>2, <3>3, <3>4, <3>5 DEF CellTypes
    <2>2. LocalTypes
      BY Names DEF Init, LocalTypes
    <2>3. ControlTypes
      BY BoundsAssumption DEF Init, ControlTypes
    <2>4. QED
      BY <2>1, <2>2, <2>3
  <1>2. TypeOK /\ [Next]_vars => TypeOK'
    <2> SUFFICES ASSUME CellTypes, LocalTypes, ControlTypes, [Next]_vars PROVE TypeOK'
      BY TypeParts
    <2> USE DEF program, cells, counters, shared_slot, locals
    <2>0. CASE UNCHANGED vars
      BY <2>0, TypePartsNext DEF vars, CellTypes, LocalTypes, ControlTypes
    <2>1. ASSUME NEW t \in Threads, Load(t) PROVE TypeOK'
      <3>1. CellTypes' /\ ControlTypes'
        BY <2>1 DEF Load, CellTypes, ControlTypes
      <3>2. LocalTypes'
        BY <2>1, Names DEF Load, Proceed, Onward, NextSlot, LocalTypes
      <3>3. QED
        BY <3>1, <3>2, TypePartsNext
    <2>2. ASSUME NEW t \in Threads, LockStripe(t) PROVE TypeOK'
      BY <2>2, Names, TypePartsNext DEF LockStripe, CellTypes, LocalTypes, ControlTypes
    <2>3. ASSUME NEW t \in Threads, Recheck(t) PROVE TypeOK'
      BY <2>3, Names, TypePartsNext DEF Recheck, CellTypes, LocalTypes, ControlTypes
    <2>4. ASSUME NEW t \in Threads, UnlockStripe(t) PROVE TypeOK'
      <3>1. CellTypes' /\ ControlTypes'
        BY <2>4 DEF UnlockStripe, CellTypes, ControlTypes
      <3>2. LocalTypes'
        BY <2>4, Names DEF UnlockStripe, Proceed, Onward, NextSlot, LocalTypes
      <3>3. QED
        BY <3>1, <3>2, TypePartsNext
    <2>5. ASSUME NEW t \in Threads, ensure_immutables(t) PROVE TypeOK'
      <3>1. LocalTypes' /\ ControlTypes'
        BY <2>5, BodyTypes, Names
           DEF ensure_immutables, DropExtractor, ReplaceByteProgram, BuildByteProgram,
               ResetSharedDfas, PublishImmutables
      <3>2. ASSUME DropExtractor(t) PROVE CellTypes'
        BY <3>2, Names DEF DropExtractor, CellTypes
      <3>3. ASSUME ReplaceByteProgram(t) PROVE CellTypes'
        BY <3>3, Names DEF ReplaceByteProgram, CellTypes
      <3>4. ASSUME BuildByteProgram(t) PROVE CellTypes'
        BY <3>4, VersionIsNat, Names DEF BuildByteProgram, CellTypes, ControlTypes
      <3>5. ASSUME ResetSharedDfas(t) PROVE CellTypes'
        BY <3>5, Names DEF ResetSharedDfas, CellTypes, ControlTypes, LocalTypes
      <3>6. ASSUME PublishImmutables(t) PROVE CellTypes'
        BY <3>6, Names DEF PublishImmutables, Publish, CellTypes, ControlTypes
      <3>7. QED
        BY <2>5, <3>1, <3>2, <3>3, <3>4, <3>5, <3>6, TypePartsNext DEF ensure_immutables
    <2>6. ASSUME NEW t \in Threads, ensure_op_table(t) PROVE TypeOK'
      <3>1. LocalTypes' /\ ControlTypes'
        BY <2>6, BodyTypes, Names DEF ensure_op_table
      <3>2. CellTypes'
        BY <2>6, Names DEF ensure_op_table, Publish, CellTypes, ControlTypes
      <3>3. QED
        BY <3>1, <3>2, TypePartsNext
    <2>7. ASSUME NEW t \in Threads, NEW s \in {"ac", "alt_pairs"}, ClearThenPush(t, s) PROVE TypeOK'
      <3>1. LocalTypes' /\ ControlTypes'
        BY <2>7, BodyTypes, Names DEF ClearThenPush
      <3>2. CellTypes'
        BY <2>7, VersionIsNat, Names DEF ClearThenPush, Publish, Built, CellTypes, ControlTypes
      <3>3. QED
        BY <3>1, <3>2, TypePartsNext
    <2>8. ASSUME NEW t \in Threads, ensure_membership_rows(t) PROVE TypeOK'
      <3>1. LocalTypes' /\ ControlTypes'
        BY <2>8, BodyTypes, Names DEF ensure_membership_rows
      <3>2. CellTypes'
        <4>1. row_ready' = [r \in Rows |-> FALSE] => row_ready' \in [Rows -> BOOLEAN]
          BY Zenon
        <4>2. QED
          BY <2>8, <4>1, Names DEF ensure_membership_rows, Publish, CellTypes, ControlTypes
      <3>3. QED
        BY <3>1, <3>2, TypePartsNext
    <2>9. ASSUME NEW t \in Threads, fill_row(t) PROVE TypeOK'
      <3>1. LocalTypes' /\ ControlTypes'
        BY <2>9, BodyTypes, Names DEF fill_row
      <3>2. CellTypes'
        BY <2>9, VersionIsNat DEF fill_row, CellTypes, ControlTypes
      <3>3. QED
        BY <3>1, <3>2, TypePartsNext
    <2>10. ASSUME NEW t \in Threads, FloorDecision(t) \/ Warm(t) PROVE TypeOK'
      <3>1. CellTypes' /\ ControlTypes'
        BY <2>10 DEF FloorDecision, Warm, CellTypes, ControlTypes
      <3>2. LocalTypes'
        BY <2>10, Names DEF FloorDecision, Warm, LocalTypes
      <3>3. QED
        BY <3>1, <3>2, TypePartsNext
    <2>11. ASSUME NEW t \in Threads, Abandon(t) \/ Return(t) PROVE TypeOK'
      <3>1. CellTypes' /\ ControlTypes'
        BY <2>11 DEF Abandon, Return, CellTypes, ControlTypes
      <3>2. QED
        BY <2>11, <3>1, LeaveTypes, TypePartsNext DEF Abandon, Return
    <2>12. ASSUME NEW t \in Threads, NEW g \in Lazy \cup Rows, Search(t, g) PROVE TypeOK'
      <3>1. CellTypes' /\ ControlTypes'
        BY <2>12 DEF Search, CellTypes, ControlTypes
      <3>2. LocalTypes'
        BY <2>12, EnsureTypes DEF Search, LocalTypes
      <3>3. QED
        BY <3>1, <3>2, TypePartsNext
    <2>13. ASSUME NEW t \in Threads, AnchoredMatch(t) \/ CountAnchored(t) \/ CountShort(t)
           PROVE  TypeOK'
      <3>1. CellTypes' /\ ControlTypes'
        <4>1. /\ UNCHANGED <<program, cells, shared_slot, mu>>
              /\ prefix_calls' \in {prefix_calls, prefix_calls + 1}
              /\ il_short_bytes' \in {il_short_bytes, il_short_bytes + 1}
          BY <2>13 DEF AnchoredMatch, CountAnchored, CountShort
        <4>2. prefix_calls' \in Nat /\ il_short_bytes' \in Nat
          BY <4>1 DEF ControlTypes
        <4>3. QED
          BY <4>1, <4>2 DEF CellTypes, ControlTypes
      <3>2. LocalTypes'
        BY <2>13, EnsureTypes, Names DEF AnchoredMatch, CountAnchored, CountShort, LocalTypes
      <3>3. QED
        BY <3>1, <3>2, TypePartsNext
    <2>14. ASSUME NEW t \in Threads, InnerLiteralScan(t) PROVE TypeOK'
      <3>1. CellTypes' /\ ControlTypes'
        BY <2>14 DEF InnerLiteralScan, CellTypes, ControlTypes
      <3>2. PICK size \in Sizes :
              /\ scan' = [scan EXCEPT ![t] = [size |-> size, built |-> Published("byte_prog")]]
              /\ UNCHANGED first_build
              /\ \/ pc' = [pc EXCEPT ![t] = "short"] /\ UNCHANGED <<goal, slot>>
                 \/ Ensure(t, "il")
        BY <2>14 DEF InnerLiteralScan
      <3>3. [size |-> size, built |-> Published("byte_prog")] \in [size : Sizes, built : BOOLEAN]
        <4>1. Published("byte_prog") = (key["byte_prog"] = code)
          BY PublishedIs, Names DEF Published
        <4>2. QED
          BY <4>1
      <3>4. scan' \in [Threads -> [size : Sizes, built : BOOLEAN]]
        BY <3>2, <3>3 DEF LocalTypes
      <3>5. ASSUME Ensure(t, "il") PROVE LocalTypes'
        BY <3>2, <3>4, <3>5, EnsureTypes DEF LocalTypes
      <3>6. ASSUME pc' = [pc EXCEPT ![t] = "short"], UNCHANGED <<goal, slot>> PROVE LocalTypes'
        BY <3>2, <3>4, <3>6, Names DEF LocalTypes
      <3>7. QED
        BY <3>1, <3>2, <3>5, <3>6, TypePartsNext
    <2>15. CASE Assign
      <3>1. CellTypes'
        BY <2>15, Names DEF Assign, invalidate_all, InvalidateAllBut, CellTypes
      <3>2. LocalTypes' /\ ControlTypes'
        BY <2>15, BoundsAssumption DEF Assign, invalidate_all, InvalidateAllBut, LocalTypes, ControlTypes
      <3>3. QED
        BY <3>1, <3>2, TypePartsNext
    <2>16. QED
      BY <2>0, <2>1, <2>2, <2>3, <2>4, <2>5, <2>6, <2>7, <2>8, <2>9, <2>10, <2>11,
         <2>12, <2>13, <2>14, <2>15, NextCases
  <1>3. QED
    BY <1>1, <1>2, PTL DEF Spec

-----------------------------------------------------------------------------
(* The inductive invariant.                                                *)

\* While t holds the stripe, a step of t that takes no publication back leaves
\* every other call where it was.
LEMMA OthersKeep ==
  ASSUME TypeOK, StripeExcludes, NEW t \in Threads, mu = t,
         \A u \in Threads : CallInv(u) /\ BuilderInv(u),
         \A u \in Threads \ {t} :
           pc'[u] = pc[u] /\ goal'[u] = goal[u] /\ slot'[u] = slot[u],
         code' = code,
         \A k \in Keyed : key[k] = code => key'[k] = code,
         key["rows"] = code => \A r \in Rows : row_ready[r] => row_ready'[r]
  PROVE  \A u \in Threads \ {t} : CallInv(u)' /\ BuilderInv(u)'
  <1> TAKE u \in Threads \ {t}
  <1>1. pc[u] \notin Critical /\ pc'[u] = pc[u]
    BY DEF StripeExcludes
  <1>2. BuilderInv(u)'
    BY <1>1 DEF BuilderInv, Critical
  <1>3. pc[u] \notin Early /\ slot[u] \in Rows => key["rows"] = code
    BY DEF CallInv
  <1>4. pc[u] \in {"unlock", "floor", "warm", "use"} => Published(slot[u]) /\ slot[u] \in Keyed \cup Rows
    BY DEF CallInv, TypeOK
  <1>5. pc[u] \in {"unlock", "floor", "warm", "use"} => Published(slot[u])'
    BY <1>3, <1>4, PublishedIs
  <1>6. CallInv(u)'
    BY <1>5, Names DEF CallInv
  <1>7. QED
    BY <1>2, <1>6

\* A builder's step keeps the stripe and moves only its own call.
LEMMA BodyKeeps ==
  ASSUME TypeOK, IInv, NEW t \in Threads, NEW s, NEW from \in Critical, NEW to \in Critical,
         Body(t, s, from, to)
  PROVE  /\ mu = t /\ mu' = t
         /\ StripeExcludes'
         /\ code' = code /\ version' = version /\ carries' = carries
         /\ slot[t] = s /\ slot' = slot /\ goal' = goal
         /\ pc[t] = from /\ pc'[t] = to
         /\ \A u \in Threads \ {t} :
              pc'[u] = pc[u] /\ goal'[u] = goal[u] /\ slot'[u] = slot[u]
  <1>1. mu = t /\ mu' = t
    BY DEF Body, IInv, StripeExcludes
  <1>2. pc[t] = from /\ pc'[t] = to /\ \A u \in Threads \ {t} : pc'[u] = pc[u]
    BY DEF Body, TypeOK
  <1>3. StripeExcludes'
    BY <1>1, <1>2 DEF IInv, StripeExcludes
  <1>4. QED
    BY <1>1, <1>2, <1>3 DEF Body, program

\* A step inside the byte program's build: its call rests on nothing yet.
LEMMA BodyCall ==
  ASSUME TypeOK, IInv, NEW t \in Threads, NEW from \in Critical, NEW to \in Critical \ {"unlock"},
         Body(t, "byte_prog", from, to)
  PROVE  CallInv(t)'
  <1>1. /\ CallInv(t) /\ slot[t] = "byte_prog" /\ pc[t] = from /\ pc'[t] = to
        /\ goal' = goal /\ slot' = slot
    BY BodyKeeps DEF IInv
  <1>2. "byte_prog" \notin Rows
    BY PublishedIs, Names
  <1>3. QED
    BY <1>1, <1>2 DEF CallInv, Critical

\* The steps of a builder, under the invariant.
LEMMA BuilderSteps ==
  ASSUME TypeOK, IInv, NEW t \in Threads,
         \/ ensure_immutables(t)
         \/ ensure_op_table(t)
         \/ \E s \in {"ac", "alt_pairs"} : ClearThenPush(t, s)
         \/ ensure_membership_rows(t)
         \/ fill_row(t)
  PROVE  IInv'
  <1> DEFINE Mine == CallInv(t)' /\ BuilderInv(t)'
             Shared == KeysCurrent' /\ PublishedIsWhole' /\ ExtractorSpansLiveProgram'
             Kept == /\ \A k \in Keyed : key[k] = code => key'[k] = code
                     /\ key["rows"] = code => \A r \in Rows : row_ready[r] => row_ready'[r]
  <1>1. ASSUME NEW s, NEW from \in Critical, NEW to \in Critical, Body(t, s, from, to),
               Mine, Shared, Kept
        PROVE  IInv'
    <2>1. \A u \in Threads \ {t} : CallInv(u)' /\ BuilderInv(u)'
      BY <1>1, BodyKeeps, OthersKeep DEF IInv
    <2>2. StripeExcludes'
      BY <1>1, BodyKeeps
    <2>3. QED
      BY <1>1, <2>1, <2>2 DEF IInv
  <1> HIDE DEF Mine, Shared, Kept
  <1>2. CASE DropExtractor(t)
    <2>1. Body(t, "byte_prog", "clear", "fill")
      BY <1>2 DEF DropExtractor
    <2>2. key["byte_prog"] # code /\ key["op_table"] # code
      BY <2>1, BodyKeeps, PublishedIs, Names DEF IInv, BuilderInv, KeysCurrent, Critical
    <2>3. Mine
      <3>1. CallInv(t)'
        BY <2>1, BodyCall DEF Critical
      <3>2. BuilderInv(t)'
        BY <1>2, <2>1, <2>2, BodyKeeps, PublishedIs, Names
           DEF DropExtractor, BuilderInv, Critical, TypeOK, IInv
      <3>3. QED
        BY <3>1, <3>2 DEF Mine
    <2>4. Shared
      <3>1. KeysCurrent'
        BY <1>2, <2>1, <2>2, Names DEF Body, program, DropExtractor, KeysCurrent, TypeOK, IInv, cells
      <3>2. ExtractorSpansLiveProgram'
        BY <1>2, <2>1, <2>2, Names DEF DropExtractor, ExtractorSpansLiveProgram, TypeOK, IInv, cells
      <3>3. PublishedIsWhole'
        BY <1>2, <2>1, <2>2, Names, BuffersAssumption
           DEF Body, program, DropExtractor, PublishedIsWhole, Built, TypeOK, IInv, cells, shared_slot
      <3>4. QED
        BY <3>1, <3>2, <3>3 DEF Shared
    <2>5. Kept
      BY <1>2, <2>2, Names DEF Kept, DropExtractor, TypeOK
    <2>6. QED
      BY <1>1, <2>1, <2>3, <2>4, <2>5 DEF Critical
  <1>3. CASE ReplaceByteProgram(t)
    <2>1. Body(t, "byte_prog", "fill", "filling")
      BY <1>3 DEF ReplaceByteProgram
    <2>2. key["byte_prog"] # code /\ key["op_table"] # code /\ product["op_table"] = Empty
      BY <2>1, BodyKeeps, PublishedIs, Names DEF IInv, BuilderInv, KeysCurrent, Critical
    <2>3. Mine
      <3>1. CallInv(t)'
        BY <2>1, BodyCall DEF Critical
      <3>2. BuilderInv(t)'
        BY <1>3, <2>1, <2>2, BodyKeeps, PublishedIs, Names
           DEF ReplaceByteProgram, BuilderInv, Critical, TypeOK, IInv
      <3>3. QED
        BY <3>1, <3>2 DEF Mine
    <2>4. Shared
      <3>1. KeysCurrent'
        BY <1>3, <2>1, <2>2, Names DEF Body, program, ReplaceByteProgram, KeysCurrent, TypeOK, IInv, cells
      <3>2. ExtractorSpansLiveProgram'
        BY <1>3, <2>1, <2>2, Names DEF ReplaceByteProgram, ExtractorSpansLiveProgram, TypeOK, IInv, cells
      <3>3. PublishedIsWhole'
        BY <1>3, <2>1, <2>2, Names, BuffersAssumption
           DEF Body, program, ReplaceByteProgram, PublishedIsWhole, Built, TypeOK, IInv, cells, shared_slot
      <3>4. QED
        BY <3>1, <3>2, <3>3 DEF Shared
    <2>5. Kept
      BY <1>3 DEF Kept, ReplaceByteProgram
    <2>6. QED
      BY <1>1, <2>1, <2>3, <2>4, <2>5 DEF Critical
  <1>4. CASE BuildByteProgram(t)
    <2>1. Body(t, "byte_prog", "filling", "reset")
      BY <1>4 DEF BuildByteProgram
    <2>2. key["byte_prog"] # code /\ key["op_table"] # code /\ product["op_table"] = Empty
      BY <2>1, BodyKeeps, PublishedIs, Names DEF IInv, BuilderInv, KeysCurrent, Critical
    <2>3. Mine
      <3>1. CallInv(t)'
        BY <2>1, BodyCall DEF Critical
      <3>2. BuilderInv(t)'
        BY <1>4, <2>1, <2>2, BodyKeeps, PublishedIs, Names
           DEF BuildByteProgram, BuilderInv, Critical, TypeOK, IInv
      <3>3. QED
        BY <3>1, <3>2 DEF Mine
    <2>4. Shared
      <3>1. KeysCurrent'
        BY <1>4, <2>1, <2>2, Names DEF Body, program, BuildByteProgram, KeysCurrent, TypeOK, IInv, cells
      <3>2. ExtractorSpansLiveProgram'
        BY <1>4, <2>1, <2>2, Names DEF BuildByteProgram, ExtractorSpansLiveProgram, TypeOK, IInv, cells
      <3>3. PublishedIsWhole'
        BY <1>4, <2>1, <2>2, Names, BuffersAssumption
           DEF Body, program, BuildByteProgram, PublishedIsWhole, Built, TypeOK, IInv, cells, shared_slot
      <3>4. QED
        BY <3>1, <3>2, <3>3 DEF Shared
    <2>5. Kept
      BY <1>4 DEF Kept, BuildByteProgram
    <2>6. QED
      BY <1>1, <2>1, <2>3, <2>4, <2>5 DEF Critical
  <1>5. CASE ResetSharedDfas(t)
    <2>1. Body(t, "byte_prog", "reset", "publish") /\ UNCHANGED cells
      BY <1>5 DEF ResetSharedDfas
    <2>2. /\ key["byte_prog"] # code /\ key["op_table"] # code
          /\ product["op_table"] = Empty /\ product["byte_prog"] = version
      BY <2>1, BodyKeeps, PublishedIs, Names DEF IInv, BuilderInv, KeysCurrent, Critical
    <2>3. Mine
      <3>1. CallInv(t)'
        BY <2>1, BodyCall DEF Critical
      <3>2. BuilderInv(t)'
        BY <1>5, <2>1, <2>2, BodyKeeps, PublishedIs, Names
           DEF ResetSharedDfas, BuilderInv, Critical, TypeOK, IInv, cells
      <3>3. QED
        BY <3>1, <3>2 DEF Mine
    <2>4. Shared
      <3>1. KeysCurrent'
        BY <1>5, <2>1, <2>2, Names DEF Body, program, ResetSharedDfas, KeysCurrent, TypeOK, IInv, cells
      <3>2. ExtractorSpansLiveProgram'
        BY <1>5, <2>1, <2>2, Names DEF ResetSharedDfas, ExtractorSpansLiveProgram, TypeOK, IInv, cells
      <3>3. PublishedIsWhole'
        BY <1>5, <2>1, <2>2, Names, BuffersAssumption
           DEF Body, program, ResetSharedDfas, PublishedIsWhole, Built, TypeOK, IInv, cells, shared_slot
      <3>4. QED
        BY <3>1, <3>2, <3>3 DEF Shared
    <2>5. Kept
      BY <2>1 DEF Kept, cells
    <2>6. QED
      BY <1>1, <2>1, <2>3, <2>4, <2>5 DEF Critical
  <1>6. CASE PublishImmutables(t)
    <2>1. Body(t, "byte_prog", "publish", "unlock") /\ key' = [key EXCEPT !["byte_prog"] = code]
      BY <1>6 DEF PublishImmutables, Publish
    <2>2. /\ key["byte_prog"] # code /\ key["op_table"] # code
          /\ product["op_table"] = Empty /\ product["byte_prog"] = version
          /\ pool_for = version
      BY <2>1, BodyKeeps, PublishedIs, Names DEF IInv, BuilderInv, KeysCurrent, Critical
    <2>3. Mine
      BY <1>6, <2>1, <2>2, BodyKeeps, PublishedIs, Names
         DEF Mine, PublishImmutables, CallInv, BuilderInv, Critical, TypeOK, IInv
    <2>4. Shared
      <3>1. KeysCurrent'
        BY <1>6, <2>1, <2>2, Names DEF Body, program, PublishImmutables, KeysCurrent, TypeOK, IInv, cells
      <3>2. ExtractorSpansLiveProgram'
        BY <1>6, <2>1, <2>2, Names DEF PublishImmutables, ExtractorSpansLiveProgram, TypeOK, IInv, cells
      <3>3. PublishedIsWhole'
        BY <1>6, <2>1, <2>2, Names, BuffersAssumption
           DEF Body, program, PublishImmutables, PublishedIsWhole, Built, TypeOK, IInv, cells, shared_slot
      <3>4. QED
        BY <3>1, <3>2, <3>3 DEF Shared
    <2>5. Kept
      BY <1>6, <2>1, Names DEF Kept, PublishImmutables, TypeOK
    <2>6. QED
      BY <1>1, <2>1, <2>3, <2>4, <2>5 DEF Critical
  <1>7. CASE ensure_op_table(t)
    <2>1. ASSUME Body(t, "op_table", "clear", "publish"),
                 product' = IF "op_table" \in carries
                              THEN [product EXCEPT !["op_table"] = product["byte_prog"]]
                              ELSE product,
                 UNCHANGED <<key, row, row_ready, shared_slot>>
          PROVE  IInv'
      <3>1. /\ key["byte_prog"] = code /\ key["op_table"] # code
            /\ product["byte_prog"] = version
            /\ product'["op_table"] = Built("op_table")
            /\ \A k \in Lazy \ {"op_table"} : product'[k] = product[k]
        BY <2>1, PublishedIs, Names
           DEF Body, IInv, CallInv, BuilderInv, PublishedIsWhole, Built, Critical, TypeOK
      <3>2. Mine
        BY <2>1, <3>1, PublishedIs, Names
           DEF Mine, Body, program, Built, CallInv, BuilderInv, Critical, TypeOK, IInv
      <3>3. KeysCurrent'
        BY <2>1, <3>1, Names DEF Body, program, KeysCurrent, TypeOK, IInv
      <3>4. ExtractorSpansLiveProgram'
        BY <2>1, <3>1, Names DEF Body, program, Built, ExtractorSpansLiveProgram, TypeOK, IInv
      <3>5. PublishedIsWhole'
        BY <2>1, <3>1, Names
           DEF Body, program, PublishedIsWhole, Built, TypeOK, IInv, shared_slot
      <3>6. Kept
        BY <2>1 DEF Kept
      <3>7. QED
        BY <1>1, <2>1, <3>2, <3>3, <3>4, <3>5, <3>6 DEF Shared, Critical
    <2>2. ASSUME Body(t, "op_table", "publish", "unlock"),
                 key' = [key EXCEPT !["op_table"] = code],
                 UNCHANGED <<product, row, row_ready, shared_slot>>
          PROVE  IInv'
      <3>1. /\ key["byte_prog"] = code /\ key["op_table"] # code
            /\ product["op_table"] = Built("op_table")
        BY <2>2, PublishedIs, Names
           DEF Body, IInv, CallInv, BuilderInv, Critical, TypeOK
      <3>2. Mine
        BY <2>2, <3>1, PublishedIs, Names
           DEF Mine, Body, program, CallInv, BuilderInv, Critical, TypeOK, IInv
      <3>3. KeysCurrent'
        BY <2>2, <3>1, Names DEF Body, program, KeysCurrent, TypeOK, IInv
      <3>4. ExtractorSpansLiveProgram'
        BY <2>2 DEF ExtractorSpansLiveProgram, IInv
      <3>5. PublishedIsWhole'
        BY <2>2, <3>1, Names
           DEF Body, program, PublishedIsWhole, Built, TypeOK, IInv, shared_slot
      <3>6. Kept
        BY <2>2, Names DEF Kept, TypeOK
      <3>7. QED
        BY <1>1, <2>2, <3>2, <3>3, <3>4, <3>5, <3>6 DEF Shared, Critical
    <2>3. QED
      BY <1>7, <2>1, <2>2 DEF ensure_op_table, Publish
  <1>8. ASSUME NEW s \in {"ac", "alt_pairs"}, ClearThenPush(t, s) PROVE IInv'
    <2>1. ASSUME NEW from \in Critical \ {"check", "publish", "unlock"},
                 NEW to \in {"fill", "publish"}, Body(t, s, from, to),
                 NEW value, product' = [product EXCEPT ![s] = value],
                 to = "publish" => value = Built(s),
                 UNCHANGED <<key, row, row_ready, shared_slot>>
          PROVE  IInv'
      <3>1. key[s] # code /\ product'[s] = value /\ s \in Lazy
        BY <2>1, PublishedIs, Names DEF Body, IInv, BuilderInv, TypeOK
      <3>2. Mine
        BY <2>1, <3>1, PublishedIs, Names
           DEF Mine, Body, program, Built, CallInv, BuilderInv, Critical, TypeOK, IInv
      <3>3. KeysCurrent'
        BY <2>1 DEF Body, program, KeysCurrent, IInv
      <3>4. ExtractorSpansLiveProgram'
        BY <2>1, Names DEF ExtractorSpansLiveProgram, TypeOK, IInv
      <3>5. PublishedIsWhole'
        BY <2>1, <3>1, Names
           DEF Body, program, PublishedIsWhole, Built, TypeOK, IInv, shared_slot
      <3>6. Kept
        BY <2>1 DEF Kept
      <3>7. QED
        BY <1>1, <2>1, <3>2, <3>3, <3>4, <3>5, <3>6 DEF Shared, Critical
    <2>2. ASSUME Body(t, s, "publish", "unlock"), key' = [key EXCEPT ![s] = code],
                 UNCHANGED <<product, row, row_ready, shared_slot>>
          PROVE  IInv'
      <3>1. key[s] # code /\ product[s] = Built(s) /\ s \in Lazy /\ s \in Keyed
        BY <2>2, PublishedIs, Names DEF Body, IInv, BuilderInv, Critical, TypeOK
      <3>2. Mine
        BY <2>2, <3>1, PublishedIs, Names
           DEF Mine, Body, program, CallInv, BuilderInv, Critical, TypeOK, IInv
      <3>3. KeysCurrent'
        BY <2>2, <3>1, Names DEF Body, program, KeysCurrent, TypeOK, IInv
      <3>4. ExtractorSpansLiveProgram'
        BY <2>2 DEF ExtractorSpansLiveProgram, IInv
      <3>5. PublishedIsWhole'
        BY <2>2, <3>1, Names
           DEF Body, program, PublishedIsWhole, Built, TypeOK, IInv, shared_slot
      <3>6. Kept
        BY <2>2, <3>1, Names DEF Kept, TypeOK
      <3>7. QED
        BY <1>1, <2>2, <3>2, <3>3, <3>4, <3>5, <3>6 DEF Shared, Critical
    <2>3. QED
      BY <1>8, <2>1, <2>2 DEF ClearThenPush, Publish, Critical
  <1>9. CASE ensure_membership_rows(t)
    <2>1. ASSUME Body(t, "rows", "clear", "publish"), row_ready' = [r \in Rows |-> FALSE],
                 UNCHANGED <<key, product, shared_slot>>
          PROVE  IInv'
      <3>1. key["rows"] # code /\ \A r \in Rows : ~row_ready'[r]
        BY <2>1, PublishedIs, Names DEF Body, IInv, BuilderInv, Critical
      <3>2. Mine
        BY <2>1, <3>1, PublishedIs, Names
           DEF Mine, Body, program, CallInv, BuilderInv, Critical, TypeOK, IInv
      <3>3. KeysCurrent' /\ ExtractorSpansLiveProgram'
        BY <2>1 DEF Body, program, KeysCurrent, ExtractorSpansLiveProgram, IInv
      <3>4. PublishedIsWhole'
        BY <2>1, <3>1
           DEF Body, program, PublishedIsWhole, Built, IInv, shared_slot
      <3>5. Kept
        BY <2>1, <3>1 DEF Kept
      <3>6. QED
        BY <1>1, <2>1, <3>2, <3>3, <3>4, <3>5 DEF Shared, Critical
    <2>2. ASSUME Body(t, "rows", "publish", "unlock"), key' = [key EXCEPT !["rows"] = code],
                 UNCHANGED <<product, row, row_ready, shared_slot>>
          PROVE  IInv'
      <3>1. key["rows"] # code /\ \A r \in Rows : ~row_ready[r]
        BY <2>2, PublishedIs, Names DEF Body, IInv, BuilderInv, Critical
      <3>2. Mine
        BY <2>2, <3>1, PublishedIs, Names
           DEF Mine, Body, program, CallInv, BuilderInv, Critical, TypeOK, IInv
      <3>3. KeysCurrent' /\ ExtractorSpansLiveProgram'
        BY <2>2, Names DEF Body, program, KeysCurrent, ExtractorSpansLiveProgram, TypeOK, IInv
      <3>4. PublishedIsWhole'
        BY <2>2, <3>1, Names
           DEF Body, program, PublishedIsWhole, Built, TypeOK, IInv, shared_slot
      <3>5. Kept
        BY <2>2, <3>1, Names DEF Kept, TypeOK
      <3>6. QED
        BY <1>1, <2>2, <3>2, <3>3, <3>4, <3>5 DEF Shared, Critical
    <2>3. QED
      BY <1>9, <2>1, <2>2 DEF ensure_membership_rows, Publish
  <1>10. ASSUME NEW r \in Rows, NEW from \in {"clear", "fill"}, NEW to \in {"fill", "publish"},
                Body(t, r, from, to), NEW value, row' = [row EXCEPT ![r] = value],
                to = "publish" => value = version,
                UNCHANGED <<key, product, row_ready, shared_slot>>
         PROVE  IInv'
    <2>1. ~row_ready[r] /\ row'[r] = value
      BY <1>10, PublishedIs DEF Body, IInv, BuilderInv, Critical, TypeOK
    <2>2. Mine
      BY <1>10, <2>1, PublishedIs, Names
         DEF Mine, Body, program, CallInv, BuilderInv, Critical, TypeOK, IInv
    <2>3. KeysCurrent' /\ ExtractorSpansLiveProgram'
      BY <1>10 DEF Body, program, KeysCurrent, ExtractorSpansLiveProgram, IInv
    <2>4. PublishedIsWhole'
      BY <1>10, <2>1 DEF Body, program, PublishedIsWhole, Built, TypeOK, IInv, shared_slot
    <2>5. Kept
      BY <1>10 DEF Kept
    <2>6. QED
      BY <1>1, <1>10, <2>2, <2>3, <2>4, <2>5 DEF Shared, Critical
  <1>11. ASSUME NEW r \in Rows, Body(t, r, "publish", "unlock"),
                row_ready' = [row_ready EXCEPT ![r] = TRUE],
                UNCHANGED <<key, product, row, shared_slot>>
         PROVE  IInv'
    <2>1. row[r] = version /\ row_ready'[r]
      BY <1>11, PublishedIs DEF Body, IInv, BuilderInv, TypeOK
    <2>2. Mine
      BY <1>11, <2>1, PublishedIs, Names
         DEF Mine, Body, program, CallInv, BuilderInv, Critical, TypeOK, IInv
    <2>3. KeysCurrent' /\ ExtractorSpansLiveProgram'
      BY <1>11 DEF Body, program, KeysCurrent, ExtractorSpansLiveProgram, IInv
    <2>4. PublishedIsWhole'
      BY <1>11, <2>1 DEF Body, program, PublishedIsWhole, Built, TypeOK, IInv, shared_slot
    <2>5. Kept
      BY <1>11 DEF Kept, TypeOK
    <2>6. QED
      BY <1>1, <1>11, <2>2, <2>3, <2>4, <2>5 DEF Shared, Critical
  <1>12. CASE fill_row(t)
    BY <1>10, <1>11, <1>12 DEF fill_row
  <1>13. QED
    BY <1>2, <1>3, <1>4, <1>5, <1>6, <1>7, <1>8, <1>9, <1>12 DEF ensure_immutables

\* A step of t that writes neither the program nor the cells leaves every other call alone.
LEMMA OthersStay ==
  ASSUME TypeOK, IInv, NEW t \in Threads,
         UNCHANGED <<program, cells, pool_for>>,
         \A u \in Threads \ {t} :
           pc'[u] = pc[u] /\ goal'[u] = goal[u] /\ slot'[u] = slot[u],
         StripeExcludes', CallInv(t)', BuilderInv(t)'
  PROVE  IInv'
  <1>1. KeysCurrent' /\ PublishedIsWhole' /\ ExtractorSpansLiveProgram'
    BY DEF IInv, KeysCurrent, PublishedIsWhole, ExtractorSpansLiveProgram, Built, program, cells
  <1>2. \A u \in Threads \ {t} : CallInv(u)'
    BY DEF IInv, CallInv, Published, program, cells
  <1>3. \A u \in Threads \ {t} : BuilderInv(u)'
    BY DEF IInv, BuilderInv, Built, Published, program, cells
  <1>4. QED
    BY <1>1, <1>2, <1>3 DEF IInv

\* Outside its critical section a call has written nothing.
LEMMA IdleHands ==
  ASSUME NEW t \in Threads, pc[t] \notin Critical \ {"check", "unlock"}
  PROVE  BuilderInv(t)
  BY DEF BuilderInv, Critical

\* Where a call that found its slot published goes on is past that product.
LEMMA ProceedSafe ==
  ASSUME TypeOK, IInv, NEW t \in Threads, pc[t] \in {"load", "unlock"},
         Published(slot[t]), Proceed(t), UNCHANGED <<program, cells, goal>>
  PROVE  /\ CallInv(t)' /\ pc'[t] \in {"floor", "load", "use"}
         /\ \A u \in Threads \ {t} :
              pc'[u] = pc[u] /\ goal'[u] = goal[u] /\ slot'[u] = slot[u]
  <1> USE DEF program, cells
  <1>1. /\ pc'[t] = Onward(t) /\ slot'[t] = NextSlot(t)
        /\ \A u \in Threads \ {t} :
             pc'[u] = pc[u] /\ goal'[u] = goal[u] /\ slot'[u] = slot[u]
    BY DEF Proceed, TypeOK
  <1>2. goal[t] # "none" /\ slot[t] # "none" /\ slot[t] \in Keyed \cup Rows /\ CallInv(t)
    BY DEF IInv, CallInv, TypeOK
  <1>3. goal'[t] = goal[t] /\ key' = key /\ row_ready' = row_ready /\ code' = code
    OBVIOUS
  <1>4. CASE goal[t] = "il"
    BY <1>1, <1>2, <1>4, PublishedIs, Names DEF CallInv, Onward, NextSlot, Published
  <1>5. CASE goal[t] # "il" /\ slot[t] = goal[t]
    BY <1>1, <1>2, <1>5, PublishedIs, Names DEF CallInv, Onward, NextSlot, Published
  <1>6. CASE goal[t] # "il" /\ slot[t] # goal[t]
    <2>1. \/ goal[t] = "op_table" /\ slot[t] = "byte_prog"
          \/ goal[t] \in Rows /\ slot[t] = "rows"
      BY <1>2, <1>6, PublishedIs, Names DEF CallInv, TypeOK, Lazy
    <2>2. pc'[t] = "load" /\ slot'[t] = goal[t]
      BY <1>1, <1>6 DEF Onward, NextSlot
    <2>3. CallInv(t)'
      <3>1. {"byte_prog", "op_table", "ac", "alt_pairs", "rows", "il", "none"} \cap Rows = {}
        BY PublishedIs, Names
      <3>2. goal[t] \in Rows => key["rows"] = code
        BY <2>1, <3>1, PublishedIs, Names
      <3>3. goal[t] = "op_table" => key["byte_prog"] = code
        BY <2>1, <3>1, PublishedIs, Names
      <3>4. QED
        BY <1>3, <2>1, <2>2, <3>1, <3>2, <3>3 DEF CallInv
    <2>4. QED
      BY <1>1, <2>2, <2>3
  <1>7. QED
    BY <1>1, <1>4, <1>5, <1>6

\* The start of a call's builds.
LEMMA EnsureSafe ==
  ASSUME TypeOK, IInv, NEW t \in Threads, NEW g \in Lazy \cup Rows \cup {"il"},
         pc[t] \in {"idle", "count", "short"}, Ensure(t, g),
         UNCHANGED <<program, cells, mu, pool_for>>
  PROVE  IInv'
  <1>1. /\ pc'[t] = "load" /\ goal'[t] = g /\ slot'[t] = FirstOf(g)
        /\ \A u \in Threads \ {t} :
             pc'[u] = pc[u] /\ goal'[u] = goal[u] /\ slot'[u] = slot[u]
    BY DEF Ensure, TypeOK
  <1>2. StripeExcludes'
    BY <1>1 DEF IInv, StripeExcludes, Critical
  <1>3. BuilderInv(t)'
    BY <1>1 DEF BuilderInv, Critical
  <1>4. CallInv(t)'
    BY <1>1, PublishedIs, Names DEF CallInv, FirstOf, Lazy
  <1>5. QED
    BY <1>1, <1>2, <1>3, <1>4, OthersStay

\* The return of a call that holds no lock.
LEMMA LeaveSafe ==
  ASSUME TypeOK, IInv, NEW t \in Threads, pc[t] \in {"abandon", "use"}, Leave(t),
         UNCHANGED <<program, cells, mu, pool_for>>
  PROVE  IInv'
  <1>1. /\ pc'[t] = "idle" /\ goal'[t] = "none" /\ slot'[t] = "none"
        /\ \A u \in Threads \ {t} :
             pc'[u] = pc[u] /\ goal'[u] = goal[u] /\ slot'[u] = slot[u]
    BY DEF Leave, TypeOK
  <1>2. StripeExcludes'
    BY <1>1 DEF IInv, StripeExcludes, Critical
  <1>3. BuilderInv(t)' /\ CallInv(t)'
    BY <1>1, PublishedIs DEF BuilderInv, CallInv, Critical
  <1>4. QED
    BY <1>1, <1>2, <1>3, OthersStay

\* A step between two points outside the lock that writes neither program nor cells.
LEMMA QuietSafe ==
  ASSUME TypeOK, IInv, NEW t \in Threads, NEW to, pc[t] \notin Critical, to \notin Critical,
         pc' = [pc EXCEPT ![t] = to], UNCHANGED <<program, cells, mu, pool_for, goal, slot>>,
         CallInv(t)'
  PROVE  IInv'
  <1>1. pc'[t] = to /\ \A u \in Threads \ {t} : pc'[u] = pc[u]
    BY DEF TypeOK
  <1>2. StripeExcludes' /\ BuilderInv(t)'
    BY <1>1 DEF IInv, StripeExcludes, BuilderInv, Critical
  <1>3. QED
    BY <1>1, <1>2, OthersStay

\* The steps of a call that build nothing, under the invariant.
LEMMA CallSteps ==
  ASSUME TypeOK, IInv, NEW t \in Threads,
         \/ Load(t) \/ LockStripe(t) \/ Recheck(t) \/ UnlockStripe(t)
         \/ CountAnchored(t) \/ CountShort(t)
         \/ FloorDecision(t) \/ Abandon(t) \/ Warm(t) \/ Return(t)
         \/ \E g \in Lazy \cup Rows : Search(t, g)
         \/ AnchoredMatch(t) \/ InnerLiteralScan(t)
  PROVE  IInv'
  <1> USE DEF shared_slot
  <1>1. CASE Load(t)
    <2>1. CASE Published(slot[t]) /\ Proceed(t)
      <3>1. /\ CallInv(t)' /\ pc'[t] \in {"floor", "load", "use"}
            /\ \A u \in Threads \ {t} :
                 pc'[u] = pc[u] /\ goal'[u] = goal[u] /\ slot'[u] = slot[u]
        BY <1>1, <2>1, ProceedSafe DEF Load
      <3>2. StripeExcludes' /\ BuilderInv(t)'
        BY <1>1, <3>1 DEF Load, IInv, StripeExcludes, BuilderInv, Critical
      <3>3. QED
        BY <1>1, <3>1, <3>2, OthersStay DEF Load
    <2>2. CASE ~Published(slot[t]) /\ pc' = [pc EXCEPT ![t] = "wait"] /\ UNCHANGED slot
      <3>1. pc[t] = "load" /\ pc'[t] = "wait" /\ \A u \in Threads \ {t} : pc'[u] = pc[u]
        BY <1>1, <2>2 DEF Load, TypeOK
      <3>2. StripeExcludes' /\ BuilderInv(t)'
        BY <1>1, <3>1 DEF Load, IInv, StripeExcludes, BuilderInv, Critical
      <3>3. CallInv(t)'
        BY <1>1, <2>2, <3>1 DEF Load, IInv, CallInv, program, cells
      <3>4. QED
        BY <1>1, <2>2, <3>1, <3>2, <3>3, OthersStay DEF Load
    <2>3. QED
      BY <1>1, <2>1, <2>2 DEF Load
  <1>2. CASE LockStripe(t)
    <2>1. pc[t] = "wait" /\ pc'[t] = "check" /\ \A u \in Threads \ {t} : pc'[u] = pc[u]
      BY <1>2 DEF LockStripe, TypeOK
    <2>2. StripeExcludes' /\ BuilderInv(t)'
      BY <1>2, <2>1, ThreadsAssumption
         DEF LockStripe, IInv, StripeExcludes, BuilderInv, Critical
    <2>3. CallInv(t)'
      BY <1>2, <2>1 DEF LockStripe, IInv, CallInv, program, cells
    <2>4. QED
      BY <1>2, <2>1, <2>2, <2>3, OthersStay DEF LockStripe
  <1>3. CASE Recheck(t)
    <2>1. /\ pc[t] = "check" /\ \A u \in Threads \ {t} : pc'[u] = pc[u]
          /\ pc'[t] = IF Published(slot[t]) THEN "unlock" ELSE "clear"
      BY <1>3 DEF Recheck, TypeOK
    <2>2. Published(slot[t])' <=> Published(slot[t])
      BY <1>3 DEF Recheck, Published, program, cells
    <2>3. StripeExcludes' /\ BuilderInv(t)'
      BY <1>3, <2>1, <2>2 DEF Recheck, IInv, StripeExcludes, BuilderInv, Critical
    <2>4. CallInv(t)'
      BY <1>3, <2>1, <2>2 DEF Recheck, IInv, CallInv, program, cells
    <2>5. QED
      BY <1>3, <2>1, <2>3, <2>4, OthersStay DEF Recheck
  <1>4. CASE UnlockStripe(t)
    <2>1. Published(slot[t])
      BY <1>4 DEF UnlockStripe, IInv, CallInv
    <2>2. /\ CallInv(t)' /\ pc'[t] \in {"floor", "load", "use"}
          /\ \A u \in Threads \ {t} :
               pc'[u] = pc[u] /\ goal'[u] = goal[u] /\ slot'[u] = slot[u]
      BY <1>4, <2>1, ProceedSafe DEF UnlockStripe
    <2>3. StripeExcludes' /\ BuilderInv(t)'
      BY <1>4, <2>2, ThreadsAssumption
         DEF UnlockStripe, IInv, StripeExcludes, BuilderInv, Critical
    <2>4. QED
      BY <1>4, <2>2, <2>3, OthersStay DEF UnlockStripe
  <1>5. CASE FloorDecision(t) \/ Warm(t)
    <2>1. PICK to \in {"abandon", "warm", "use"} :
            /\ pc' = [pc EXCEPT ![t] = to]
            /\ \/ pc[t] = "floor" /\ to # "use"
               \/ pc[t] = "warm" /\ to = "use"
            /\ UNCHANGED <<program, cells, mu, pool_for, goal, slot>>
      BY <1>5 DEF FloorDecision, Warm
    <2>2. /\ pc'[t] = to /\ UNCHANGED <<key, row_ready, code, goal, slot>>
          /\ CallInv(t) /\ goal[t] = "il" /\ Published(slot[t]) /\ slot[t] = "byte_prog"
      BY <2>1 DEF IInv, CallInv, TypeOK, program, cells
    <2>3. CallInv(t)'
      BY <2>1, <2>2, PublishedIs, Names DEF CallInv
    <2>4. QED
      BY <2>1, <2>3, QuietSafe DEF Critical
  <1>6. CASE Abandon(t) \/ Return(t)
    BY <1>6, LeaveSafe DEF Abandon, Return
  <1>7. CASE \E g \in Lazy \cup Rows : Search(t, g)
    BY <1>7, EnsureSafe DEF Search
  <1>8. ASSUME NEW to \in Early, pc[t] \in {"idle", "count", "short"},
               to \in {"idle", "count", "short"} => goal[t] = "none",
               pc' = [pc EXCEPT ![t] = to], UNCHANGED <<program, cells, mu, pool_for, goal, slot>>
        PROVE  IInv'
    <2>1. pc'[t] = to /\ goal[t] = "none" /\ UNCHANGED <<goal, slot>>
      BY <1>8 DEF IInv, CallInv, TypeOK
    <2>2. CallInv(t)'
      BY <2>1, PublishedIs DEF CallInv
    <2>3. QED
      BY <1>8, <2>2, QuietSafe DEF Critical
  <1>9. /\ pc[t] \in {"idle", "count", "short"} => goal[t] = "none"
        /\ AnchoredMatch(t) => UNCHANGED <<program, cells, mu, pool_for>>
        /\ CountAnchored(t) => UNCHANGED <<program, cells, mu, pool_for>>
        /\ CountShort(t) => UNCHANGED <<program, cells, mu, pool_for>>
        /\ InnerLiteralScan(t) => UNCHANGED <<program, cells, mu, pool_for>>
    BY DEF IInv, CallInv, AnchoredMatch, CountAnchored, CountShort, InnerLiteralScan
  <1>10. CASE AnchoredMatch(t) \/ CountAnchored(t)
    BY <1>8, <1>9, <1>10, EnsureSafe, Names DEF AnchoredMatch, CountAnchored
  <1>11. CASE CountShort(t) \/ InnerLiteralScan(t)
    BY <1>8, <1>9, <1>11, EnsureSafe DEF CountShort, InnerLiteralScan
  <1>12. QED
    BY <1>1, <1>2, <1>3, <1>4, <1>5, <1>6, <1>7, <1>10, <1>11

\* Assignment finds every call idle and unpublishes every key.
LEMMA AssignSafe ==
  ASSUME TypeOK, IInv, Assign
  PROVE  IInv'
  <1>1. \A t \in Threads : pc'[t] = "idle" /\ pc' = pc /\ slot' = slot /\ goal' = goal
    BY DEF Assign, invalidate_all, InvalidateAllBut, locals
  <1>2. \A k \in Keyed : key'[k] = NullPtr /\ NullPtr # code' /\ code' \in Buffers
    BY BuffersAssumption, Names DEF Assign, invalidate_all, InvalidateAllBut
  <1>3. product' = [product EXCEPT !["ac"] = Empty]
    BY DEF Assign, invalidate_all, InvalidateAllBut
  <1>4. StripeExcludes'
    BY <1>1 DEF Assign, invalidate_all, InvalidateAllBut, IInv, StripeExcludes, locals
  <1>5. KeysCurrent' /\ PublishedIsWhole' /\ ExtractorSpansLiveProgram'
    BY <1>2, <1>3, Names
       DEF IInv, KeysCurrent, PublishedIsWhole, ExtractorSpansLiveProgram, TypeOK
  <1>6. \A t \in Threads : CallInv(t)' /\ BuilderInv(t)'
    BY <1>1 DEF IInv, CallInv, BuilderInv, Critical
  <1>7. QED
    BY <1>4, <1>5, <1>6 DEF IInv

\* The invariant holds of every reachable state, for every number of threads.
THEOREM Safety == Spec => []IInv
  <1>1. Init => IInv
    <2> SUFFICES ASSUME Init PROVE IInv
      OBVIOUS
    <2>1. StripeExcludes /\ KeysCurrent /\ PublishedIsWhole /\ ExtractorSpansLiveProgram
      BY ThreadsAssumption, BuffersAssumption, Names
         DEF Init, StripeExcludes, KeysCurrent, PublishedIsWhole, ExtractorSpansLiveProgram,
             Critical
    <2>2. \A t \in Threads : CallInv(t) /\ BuilderInv(t)
      BY PublishedIs DEF Init, CallInv, BuilderInv, Critical
    <2>3. QED
      BY <2>1, <2>2 DEF IInv
  <1>2. TypeOK /\ IInv /\ [Next]_vars => IInv'
    <2> SUFFICES ASSUME TypeOK, IInv, [Next]_vars PROVE IInv'
      OBVIOUS
    <2>1. CASE Next
      BY <2>1, NextCases, BuilderSteps, CallSteps, AssignSafe
    <2>2. CASE UNCHANGED vars
      BY <2>2 DEF vars, program, cells, shared_slot, locals, IInv, StripeExcludes, KeysCurrent,
                  PublishedIsWhole, ExtractorSpansLiveProgram, CallInv, BuilderInv, Built,
                  Published
    <2>3. QED
      BY <2>1, <2>2
  <1>3. QED
    BY <1>1, <1>2, TypeCorrect, PTL DEF Spec

\* Every search reads what was built, whole, for the program it runs.
THEOREM ReadsAreCurrent == Spec => []UseIsCurrent
  <1>1. TypeOK /\ IInv => UseIsCurrent
    <2> SUFFICES ASSUME TypeOK, IInv, NEW t \in Threads, pc[t] = "use"
                 PROVE  /\ goal[t] \in Lazy => product[goal[t]] = Built(goal[t])
                        /\ goal[t] = "il" => product["byte_prog"] = version
                        /\ goal[t] \in Rows => row[goal[t]] = version
      BY DEF UseIsCurrent
    <2>1. CallInv(t) /\ Published(slot[t]) /\ goal[t] \in {slot[t], "il"}
      BY DEF IInv, CallInv
    <2>2. goal[t] = "il" => product["byte_prog"] = version
      BY <2>1, PublishedIs, Names DEF CallInv, IInv, PublishedIsWhole
    <2>3. goal[t] \in Rows => row[goal[t]] = version
      BY <2>1, PublishedIs, Names DEF CallInv, IInv, PublishedIsWhole
    <2>4. goal[t] \in Lazy => product[goal[t]] = Built(goal[t])
      BY <2>1, PublishedIs, Names DEF IInv, PublishedIsWhole, Built, Lazy
    <2>5. QED
      BY <2>2, <2>3, <2>4
  <1>2. QED
    BY <1>1, TypeCorrect, Safety, PTL

\* The extractor never outlives the program its spans point into.
THEOREM ExtractorSafe == Spec => []ExtractorSpansLiveProgram
  <1>1. IInv => ExtractorSpansLiveProgram
    BY DEF IInv
  <1>2. QED
    BY <1>1, Safety, PTL

\* A search past ensure_immutables can only lease DFAs of its own program.
THEOREM PoolSafe == Spec => []PoolResetBeforeKey
  <1>1. IInv => PoolResetBeforeKey
    BY DEF IInv, PublishedIsWhole, PoolResetBeforeKey
  <1>2. QED
    BY <1>1, Safety, PTL

-----------------------------------------------------------------------------
(* The cache implements BuildOnce.                                         *)

\* Who consults what, before and after a step.
LEMMA ConsultsKept ==
  ASSUME TypeOK, TypeOK',
         \A u \in Threads : (pc[u] = "use" <=> pc'[u] = "use")
                            /\ (pc[u] = "use" => slot'[u] = slot[u])
  PROVE  consults' = consults
  BY DEF consults

\* A builder's step consults nothing.
LEMMA BodyConsults ==
  ASSUME TypeOK, TypeOK', NEW t \in Threads, NEW s, NEW from \in Critical, NEW to \in Critical,
         Body(t, s, from, to)
  PROVE  consults' = consults /\ version' = version /\ code' = code
  <1>1. \A u \in Threads : (pc[u] = "use" <=> pc'[u] = "use")
                           /\ (pc[u] = "use" => slot'[u] = slot[u])
    BY DEF Body, TypeOK, Critical
  <1>2. QED
    BY <1>1, ConsultsKept DEF Body, program

\* Publishing the first or the only product of a slot builds it, once.
LEMMA PublishBuilds ==
  ASSUME TypeOK, IInv, NEW s \in Keyed, key[s] # code,
         s = "op_table" => key["byte_prog"] = code,
         s = "rows" => \A r \in Rows : ~row_ready[r],
         key' = [key EXCEPT ![s] = code],
         UNCHANGED <<code, version, row_ready, consults>>
  PROVE  Promise!Build(s)
  <1>1. s \notin available
    BY PublishedIs DEF available
  <1>2. RestsOn(s) \subseteq available
    BY PublishedIs, Names DEF RestsOn, available
  <1>3. available' = available \cup {s}
    BY PublishedIs, Names DEF available, TypeOK
  <1>4. QED
    BY <1>1, <1>2, <1>3 DEF Promise!Build

\* A builder's step builds one product or none that its readers can tell.
LEMMA BuilderImplements ==
  ASSUME TypeOK, TypeOK', IInv, NEW t \in Threads,
         \/ ensure_immutables(t)
         \/ ensure_op_table(t)
         \/ \E s \in {"ac", "alt_pairs"} : ClearThenPush(t, s)
         \/ ensure_membership_rows(t)
         \/ fill_row(t)
  PROVE  [Promise!Next]_Promise!vars
  <1>1. ASSUME NEW s, NEW from \in Critical, NEW to \in Critical, Body(t, s, from, to),
               \A k \in Keyed : key'[k] = code <=> key[k] = code,
               key["rows"] = code => row_ready' = row_ready
        PROVE  UNCHANGED Promise!vars
    BY <1>1, BodyConsults, Names DEF Promise!vars, available
  <1>2. ASSUME NEW s \in Keyed, Body(t, s, "publish", "unlock"),
               key' = [key EXCEPT ![s] = code], UNCHANGED row_ready
        PROVE  Promise!Next
    <2>1. key[s] # code
      BY <1>2, PublishedIs DEF Body, IInv, BuilderInv, Critical
    <2>2. /\ s = "op_table" => key["byte_prog"] = code
          /\ s = "rows" => \A r \in Rows : ~row_ready[r]
      BY <1>2 DEF Body, IInv, CallInv, BuilderInv
    <2>3. Promise!Build(s)
      BY <1>2, <2>1, <2>2, PublishBuilds, BodyConsults DEF Critical
    <2>4. QED
      BY <2>3 DEF Promise!Next
  <1>3. CASE ensure_immutables(t)
    <2>1. CASE PublishImmutables(t)
      BY <1>2, <2>1, Names DEF PublishImmutables, Publish
    <2>2. CASE DropExtractor(t)
      <3>1. Body(t, "byte_prog", "clear", "fill") /\ key["op_table"] # code
        BY <2>2, PublishedIs, Names
           DEF DropExtractor, Body, IInv, BuilderInv, KeysCurrent, Critical
      <3>2. \A k \in Keyed : key'[k] = code <=> key[k] = code
        BY <2>2, <3>1, BuffersAssumption DEF DropExtractor, TypeOK
      <3>3. QED
        BY <1>1, <2>2, <3>1, <3>2 DEF DropExtractor, Critical
    <2>3. CASE ReplaceByteProgram(t) \/ BuildByteProgram(t) \/ ResetSharedDfas(t)
      BY <1>1, <2>3
         DEF ReplaceByteProgram, BuildByteProgram, ResetSharedDfas, cells, Critical
    <2>4. QED
      BY <1>3, <2>1, <2>2, <2>3 DEF ensure_immutables
  <1>4. CASE ensure_op_table(t)
    BY <1>1, <1>2, <1>4, Names DEF ensure_op_table, Publish, Critical
  <1>5. ASSUME NEW s \in {"ac", "alt_pairs"}, ClearThenPush(t, s) PROVE [Promise!Next]_Promise!vars
    BY <1>1, <1>2, <1>5, Names DEF ClearThenPush, Publish, Critical
  <1>6. CASE ensure_membership_rows(t)
    <2>1. ASSUME Body(t, "rows", "clear", "publish"), UNCHANGED key
          PROVE  UNCHANGED Promise!vars
      <3>1. key["rows"] # code
        BY <2>1, PublishedIs, Names DEF Body, IInv, BuilderInv, Critical
      <3>2. QED
        BY <1>1, <2>1, <3>1 DEF Body, program, Critical
    <2>2. QED
      BY <1>2, <1>6, <2>1, Names DEF ensure_membership_rows, Publish
  <1>7. CASE fill_row(t)
    <2>1. ASSUME NEW r \in Rows, Body(t, r, "publish", "unlock"),
                 row_ready' = [row_ready EXCEPT ![r] = TRUE], UNCHANGED key
          PROVE  Promise!Next
      <3>1. ~row_ready[r] /\ key["rows"] = code
        BY <2>1, PublishedIs DEF Body, IInv, CallInv, BuilderInv, Critical
      <3>2. consults' = consults /\ version' = version /\ code' = code
        BY <2>1, BodyConsults DEF Critical
      <3>3. available' = available \cup {r}
        BY <2>1, <3>1, <3>2 DEF available, TypeOK
      <3>4. r \notin available /\ RestsOn(r) \subseteq available
        BY <3>1, PublishedIs, Names DEF available, RestsOn
      <3>5. Promise!Build(r)
        BY <3>2, <3>3, <3>4 DEF Promise!Build
      <3>6. QED
        BY <3>5 DEF Promise!Next
    <2>2. QED
      BY <1>1, <1>7, <2>1 DEF fill_row, Critical
  <1>8. QED
    BY <1>3, <1>4, <1>5, <1>6, <1>7

\* The start of a search's reads is a Use of what it consults.
LEMMA UseImplements ==
  ASSUME TypeOK, IInv, NEW t \in Threads, pc[t] # "use",
         pc' = [pc EXCEPT ![t] = "use"], slot' = slot, Published(slot[t]), pc[t] \notin Early,
         UNCHANGED <<program, cells>>
  PROVE  Promise!Use(t, slot[t])
  <1>1. slot[t] \in Keyed \cup Rows /\ CallInv(t)
    BY DEF IInv, CallInv, TypeOK
  <1>2. slot[t] \in available
    BY <1>1, PublishedIs DEF available, CallInv
  <1>3. consults[t] = "none"
    BY DEF consults
  <1>4. consults' = [consults EXCEPT ![t] = slot[t]]
    BY DEF consults, TypeOK
  <1>5. UNCHANGED <<version, available>>
    BY DEF program, cells, available
  <1>6. QED
    BY <1>2, <1>3, <1>4, <1>5 DEF Promise!Use

\* Every step of the cache is a step of BuildOnce, or one its readers cannot tell.
LEMMA StepImplements ==
  ASSUME TypeOK, TypeOK', IInv, [Next]_vars
  PROVE  [Promise!Next]_Promise!vars
  <1>1. ASSUME UNCHANGED <<program, cells>>,
               \A u \in Threads : (pc[u] = "use" <=> pc'[u] = "use")
                                  /\ (pc[u] = "use" => slot'[u] = slot[u])
        PROVE  UNCHANGED Promise!vars
    BY <1>1, ConsultsKept DEF Promise!vars, available, program, cells
  <1>2. ASSUME NEW t \in Threads, Published(slot[t]), Proceed(t), pc[t] \in {"load", "unlock"},
               UNCHANGED <<program, cells>>
        PROVE  [Promise!Next]_Promise!vars
    <2>1. CASE Onward(t) = "use"
      <3>1. slot' = slot
        BY <1>2, <2>1 DEF Proceed, Onward, NextSlot, TypeOK
      <3>2. Promise!Use(t, slot[t]) /\ slot[t] \in Keyed \cup Rows
        BY <1>2, <2>1, <3>1, UseImplements DEF Proceed, IInv, CallInv, TypeOK
      <3>3. QED
        BY <3>2 DEF Promise!Next
    <2>2. CASE Onward(t) # "use"
      BY <1>1, <1>2, <2>2 DEF Proceed, TypeOK
    <2>3. QED
      BY <2>1, <2>2
  <1>3. ASSUME NEW t \in Threads, Load(t) PROVE [Promise!Next]_Promise!vars
    <2>1. CASE Published(slot[t]) /\ Proceed(t)
      BY <1>2, <1>3, <2>1 DEF Load
    <2>2. CASE pc' = [pc EXCEPT ![t] = "wait"] /\ UNCHANGED slot
      BY <1>1, <1>3, <2>2 DEF Load, TypeOK
    <2>3. QED
      BY <1>3, <2>1, <2>2 DEF Load
  <1>4. ASSUME NEW t \in Threads, LockStripe(t) PROVE [Promise!Next]_Promise!vars
    BY <1>1, <1>4 DEF LockStripe, TypeOK
  <1>5. ASSUME NEW t \in Threads, Recheck(t) PROVE [Promise!Next]_Promise!vars
    BY <1>1, <1>5 DEF Recheck, TypeOK
  <1>6. ASSUME NEW t \in Threads, UnlockStripe(t) PROVE [Promise!Next]_Promise!vars
    <2>1. Published(slot[t])
      BY <1>6 DEF UnlockStripe, IInv, CallInv
    <2>2. QED
      BY <1>2, <1>6, <2>1 DEF UnlockStripe
  <1>7. ASSUME NEW t \in Threads, FloorDecision(t) \/ Abandon(t) PROVE [Promise!Next]_Promise!vars
    BY <1>1, <1>7 DEF FloorDecision, Abandon, Leave, TypeOK
  <1>8. ASSUME NEW t \in Threads, Return(t) PROVE [Promise!Next]_Promise!vars
    <2>1. consults' = [consults EXCEPT ![t] = "none"]
      BY <1>8 DEF Return, Leave, consults, TypeOK
    <2>2. Promise!Return(t)
      BY <1>8, <2>1 DEF Return, Promise!Return, available, program, cells
    <2>3. QED
      BY <2>2 DEF Promise!Next
  <1>9. ASSUME NEW t \in Threads, NEW g \in Lazy \cup Rows, Search(t, g)
        PROVE  [Promise!Next]_Promise!vars
    BY <1>1, <1>9 DEF Search, Ensure, TypeOK
  <1>10. ASSUME NEW t \in Threads, AnchoredMatch(t) \/ CountAnchored(t) \/ CountShort(t)
         PROVE  [Promise!Next]_Promise!vars
    BY <1>1, <1>10 DEF AnchoredMatch, CountAnchored, CountShort, Ensure, TypeOK
  <1>11. ASSUME NEW t \in Threads, InnerLiteralScan(t) PROVE [Promise!Next]_Promise!vars
    <2>1. /\ pc[t] = "idle" /\ UNCHANGED <<program, cells>>
          /\ \/ pc' = [pc EXCEPT ![t] = "short"] /\ UNCHANGED slot
             \/ Ensure(t, "il")
      BY <1>11 DEF InnerLiteralScan
    <2>2. \A u \in Threads : (pc[u] = "use" <=> pc'[u] = "use")
                             /\ (pc[u] = "use" => slot'[u] = slot[u])
      <3>1. CASE Ensure(t, "il")
        BY <2>1, <3>1 DEF Ensure, TypeOK
      <3>2. CASE pc' = [pc EXCEPT ![t] = "short"] /\ UNCHANGED slot
        BY <2>1, <3>2 DEF TypeOK
      <3>3. QED
        BY <2>1, <3>1, <3>2
    <2>3. QED
      BY <1>1, <2>1, <2>2
  <1>12. CASE Assign
    <2>1. available' = {}
      BY <1>12, BuffersAssumption, Names DEF Assign, invalidate_all, InvalidateAllBut, available
    <2>2. consults' = consults /\ \A t \in Threads : consults[t] = "none"
      BY <1>12 DEF Assign, invalidate_all, InvalidateAllBut, consults, locals
    <2>3. Promise!Assign
      BY <1>12, <2>1, <2>2 DEF Assign, Promise!Assign
    <2>4. QED
      BY <2>3 DEF Promise!Next
  <1>13. CASE UNCHANGED vars
    BY <1>13 DEF vars, program, cells, locals, Promise!vars, available, consults
  <1>14. ASSUME NEW t \in Threads, Warm(t) PROVE [Promise!Next]_Promise!vars
    <2>1. Published(slot[t]) /\ slot[t] \in Keyed \cup Rows
      BY <1>14 DEF Warm, IInv, CallInv, TypeOK
    <2>2. Promise!Use(t, slot[t])
      BY <1>14, <2>1, UseImplements DEF Warm
    <2>3. QED
      BY <2>1, <2>2 DEF Promise!Next
  <1>15. QED
    BY <1>3, <1>4, <1>5, <1>6, <1>7, <1>8, <1>9, <1>10, <1>11, <1>12, <1>13,
       <1>14, BuilderImplements, NextCases

\* The refinement, for every number of threads, buffers, rows and programs.
THEOREM Implements == Spec => BuildsOnce
  <1>1. Init => Promise!Init
    BY BuffersAssumption, Names DEF Init, Promise!Init, available, consults
  <1>2. QED
    BY <1>1, StepImplements, TypeCorrect, Safety, PTL DEF Spec, BuildsOnce, Promise!Spec

-----------------------------------------------------------------------------
(* The count of anchored matches.                                          *)

\* The calls that loaded the table's key unpublished and have not counted themselves yet,
\* and those on their way to the table or using it.
Counting == {t \in Threads : pc[t] = "count"}
Buyers == {t \in Threads : pc[t] \notin {"idle", "count"} /\ goal[t] = "op_table"}

\* The threads that may have counted past the threshold: until the table is published,
\* one that did is still on its way to it, and one that finds it published never counts,
\* so those that loaded it unpublished are the ones left to.
Payers == IF Published("op_table") THEN Threads \ Counting ELSE Buyers

CountInv == prefix_calls <= PrefixWarm + Cardinality(Payers)

LEMMA PayersAreThreads ==
  /\ IsFiniteSet(Threads) /\ Cardinality(Threads) \in Nat
  /\ IsFiniteSet(Payers) /\ Cardinality(Payers) \in Nat
  /\ Cardinality(Payers) <= Cardinality(Threads)
  <1>1. IsFiniteSet(Threads)
    BY ThreadsAssumption
  <1>2. Payers \in SUBSET Threads
    BY DEF Payers, Buyers
  <1>3. IsFiniteSet(Payers) /\ Cardinality(Payers) <= Cardinality(Threads)
    BY <1>1, <1>2, FS_Subset
  <1>4. QED
    BY <1>1, <1>3, FS_CardinalityType

LEMMA PayersAreThreadsNext ==
  /\ IsFiniteSet(Payers') /\ Cardinality(Payers') \in Nat
  /\ Cardinality(Payers') <= Cardinality(Threads)
  <1>1. Payers' \in SUBSET Threads
    BY DEF Payers, Buyers
  <1>2. IsFiniteSet(Payers') /\ Cardinality(Payers') <= Cardinality(Threads)
    BY <1>1, ThreadsAssumption, FS_Subset
  <1>3. QED
    BY <1>2, FS_CardinalityType

\* A step that counts nothing: while the table is published it stays so and no call sets
\* out to count, and before that no buyer turns away.
LEMMA CountStays ==
  ASSUME TypeOK, CountInv, prefix_calls' = prefix_calls,
         Published("op_table") => Published("op_table")' /\ Counting' \subseteq Counting,
         Published("op_table") \/ Buyers \subseteq Buyers'
  PROVE  CountInv'
  <1>1. PrefixWarm \in Nat /\ prefix_calls \in Nat
    BY BoundsAssumption DEF TypeOK
  <1>2. Payers \subseteq Payers'
    BY DEF Payers, Buyers, Counting
  <1>3. Cardinality(Payers) <= Cardinality(Payers')
    BY <1>2, PayersAreThreadsNext, FS_Subset
  <1>4. QED
    BY <1>1, <1>3, PayersAreThreads, PayersAreThreadsNext DEF CountInv

\* A builder's step keeps what is published, and its own call is under way.
LEMMA BodyCounts ==
  ASSUME TypeOK, IInv, CountInv, NEW t \in Threads, NEW s, NEW from \in Critical,
         NEW to \in Critical, Body(t, s, from, to),
         key["op_table"] = code => key'["op_table"] = code
  PROVE  CountInv'
  <1>1. prefix_calls' = prefix_calls /\ code' = code
    BY DEF Body, counters, program
  <1>2. Buyers' = Buyers /\ Counting' = Counting
    BY DEF Body, Buyers, Counting, Critical, TypeOK
  <1>3. QED
    BY <1>1, <1>2, CountStays, PublishedIs, Names

LEMMA BuildersCount ==
  ASSUME TypeOK, IInv, CountInv, NEW t \in Threads,
         \/ ensure_immutables(t)
         \/ ensure_op_table(t)
         \/ \E s \in {"ac", "alt_pairs"} : ClearThenPush(t, s)
         \/ ensure_membership_rows(t)
         \/ fill_row(t)
  PROVE  CountInv'
  <1>1. CASE DropExtractor(t)
    <2>1. Body(t, "byte_prog", "clear", "fill") /\ key["op_table"] # code
      BY <1>1, PublishedIs, Names
         DEF DropExtractor, Body, IInv, BuilderInv, KeysCurrent, Critical
    <2>2. QED
      BY <2>1, BodyCounts DEF Critical
  <1>2. CASE \/ ReplaceByteProgram(t) \/ BuildByteProgram(t)
             \/ ResetSharedDfas(t) \/ PublishImmutables(t)
    BY <1>2, BodyCounts, Names
       DEF ReplaceByteProgram, BuildByteProgram, ResetSharedDfas, PublishImmutables, Publish,
           cells, Critical, TypeOK
  <1>3. CASE ensure_op_table(t)
    BY <1>3, BodyCounts, Names DEF ensure_op_table, Publish, Critical, TypeOK
  <1>4. CASE \E s \in {"ac", "alt_pairs"} : ClearThenPush(t, s)
    BY <1>4, BodyCounts, Names DEF ClearThenPush, Publish, Critical, TypeOK
  <1>5. CASE ensure_membership_rows(t)
    BY <1>5, BodyCounts, Names DEF ensure_membership_rows, Publish, Critical, TypeOK
  <1>6. CASE fill_row(t)
    BY <1>6, BodyCounts DEF fill_row, Critical
  <1>7. QED
    BY <1>1, <1>2, <1>3, <1>4, <1>5, <1>6 DEF ensure_immutables

\* A call that counts past the threshold is one more payer: on its way to the table that
\* is not there yet, or late for the one that is.
LEMMA CountingCounts ==
  ASSUME TypeOK, CountInv, NEW t \in Threads, CountAnchored(t)
  PROVE  CountInv'
  <1>1. PrefixWarm \in Nat /\ prefix_calls \in Nat
    BY BoundsAssumption DEF TypeOK
  <1>2. /\ UNCHANGED <<key, code, row_ready>> /\ pc[t] = "count"
        /\ prefix_calls' = prefix_calls + 1
    BY DEF CountAnchored, cells, program
  <1>3. CASE prefix_calls < PrefixWarm
    BY <1>1, <1>2, <1>3, PayersAreThreadsNext DEF CountInv
  <1>4. CASE prefix_calls >= PrefixWarm
    <2>1. /\ pc' = [pc EXCEPT ![t] = "load"]
          /\ goal' = [goal EXCEPT ![t] = "op_table"]
      BY <1>4 DEF CountAnchored, Ensure
    <2>2. Buyers' = Buyers \cup {t} /\ Counting' = Counting \ {t}
      BY <1>2, <2>1 DEF Buyers, Counting, TypeOK
    <2>3. t \notin Payers /\ Payers' = Payers \cup {t}
      BY <1>2, <2>2 DEF Payers, Buyers, Counting, Published
    <2>4. Cardinality(Payers') = Cardinality(Payers) + 1
      BY <2>3, PayersAreThreads, FS_AddElement
    <2>5. QED
      BY <1>1, <1>2, <2>4, PayersAreThreads DEF CountInv
  <1>5. QED
    BY <1>1, <1>3, <1>4

\* The count of anchored matches passes its threshold by at most one call of each thread.
THEOREM CountBounded == Spec => []PrefixCallsBounded
  <1>1. Init => CountInv
    <2> SUFFICES ASSUME Init PROVE CountInv
      OBVIOUS
    <2>1. prefix_calls = 0 /\ PrefixWarm \in Nat
      BY BoundsAssumption DEF Init
    <2>2. QED
      BY <2>1, PayersAreThreads DEF CountInv
  <1>2. TypeOK /\ IInv /\ CountInv /\ [Next]_vars => CountInv'
    <2> SUFFICES ASSUME TypeOK, IInv, CountInv, [Next]_vars PROVE CountInv'
      OBVIOUS
    <2> USE DEF program, cells, counters, locals
    <2>1. ASSUME UNCHANGED <<key, code, row_ready, prefix_calls, goal>>,
                 \A u \in Threads : pc'[u] \in {"idle", "count"} => pc'[u] = pc[u]
          PROVE  CountInv'
      <3>1. Counting' \subseteq Counting /\ Buyers \subseteq Buyers'
        BY <2>1 DEF Counting, Buyers
      <3>2. QED
        BY <2>1, <3>1, CountStays DEF Published
    <2>2. ASSUME NEW t \in Threads,
                 \/ Load(t) \/ LockStripe(t) \/ Recheck(t) \/ UnlockStripe(t)
                 \/ FloorDecision(t) \/ Warm(t)
          PROVE  CountInv'
      BY <2>1, <2>2
         DEF Load, LockStripe, Recheck, UnlockStripe, FloorDecision, Warm, Proceed, Onward, TypeOK
    <2>3. ASSUME NEW t \in Threads, Leave(t), UNCHANGED <<program, cells, counters>>,
                 goal[t] = "op_table" => Published("op_table")
          PROVE  CountInv'
      <3>1. Counting' \subseteq Counting /\ (Published("op_table") \/ Buyers \subseteq Buyers')
        BY <2>3 DEF Leave, Counting, Buyers, TypeOK
      <3>2. QED
        BY <2>3, <3>1, CountStays DEF Published
    <2>4. ASSUME NEW t \in Threads, Abandon(t) PROVE CountInv'
      <3>1. goal[t] \in {"none", "il"}
        BY <2>4 DEF Abandon, IInv, CallInv
      <3>2. QED
        BY <2>3, <2>4, <3>1 DEF Abandon
    <2>5. ASSUME NEW t \in Threads, Return(t) PROVE CountInv'
      <3>1. goal[t] = "op_table" => Published("op_table")
        BY <2>5 DEF Return, IInv, CallInv
      <3>2. QED
        BY <2>3, <2>5, <3>1 DEF Return
    <2>6. ASSUME NEW t \in Threads, NEW g, Ensure(t, g), pc[t] \in {"idle", "short"},
                 UNCHANGED <<key, code, row_ready, prefix_calls>>
          PROVE  CountInv'
      <3>1. goal[t] = "none"
        BY <2>6 DEF IInv, CallInv
      <3>2. Counting' \subseteq Counting /\ Buyers \subseteq Buyers'
        BY <2>6, <3>1 DEF Ensure, Counting, Buyers, TypeOK
      <3>3. QED
        BY <2>6, <3>2, CountStays DEF Published
    <2>7. ASSUME NEW t \in Threads, NEW g \in Lazy \cup Rows, Search(t, g) PROVE CountInv'
      BY <2>6, <2>7 DEF Search
    <2>8. ASSUME NEW t \in Threads, AnchoredMatch(t) PROVE CountInv'
      <3>1. CASE Published("op_table")
        BY <2>6, <2>8, <3>1 DEF AnchoredMatch
      <3>2. CASE ~Published("op_table")
        <4>1. Buyers' = Buyers
          BY <2>8, <3>2 DEF AnchoredMatch, Buyers, TypeOK
        <4>2. QED
          BY <2>8, <3>2, <4>1, CountStays DEF AnchoredMatch
      <3>3. QED
        BY <3>1, <3>2
    <2>9. ASSUME NEW t \in Threads, CountShort(t) \/ InnerLiteralScan(t) PROVE CountInv'
      <3>1. /\ pc[t] \in {"idle", "short"}
            /\ UNCHANGED <<key, code, row_ready, prefix_calls>>
            /\ \/ Ensure(t, "il")
               \/ \E to \in {"short", "abandon"} :
                    pc' = [pc EXCEPT ![t] = to] /\ UNCHANGED goal
        BY <2>9 DEF CountShort, InnerLiteralScan
      <3>2. QED
        BY <2>1, <2>6, <3>1 DEF TypeOK
    <2>10. CASE Assign
      <3>1. prefix_calls' = 0 /\ PrefixWarm \in Nat
        BY <2>10, BoundsAssumption DEF Assign, invalidate_all, InvalidateAllBut
      <3>2. QED
        BY <3>1, PayersAreThreadsNext DEF CountInv
    <2>11. CASE UNCHANGED vars
      BY <2>1, <2>11 DEF vars
    <2>12. QED
      BY <2>2, <2>4, <2>5, <2>7, <2>8, <2>9, <2>10, <2>11, CountingCounts, BuildersCount,
         NextCases
  <1>3. TypeOK /\ CountInv => PrefixCallsBounded
    BY PayersAreThreads, BoundsAssumption DEF CountInv, PrefixCallsBounded, TypeOK
  <1>4. QED
    BY <1>1, <1>2, <1>3, TypeCorrect, Safety, PTL DEF Spec

=============================================================================
