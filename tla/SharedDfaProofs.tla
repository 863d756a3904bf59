---------------------------- MODULE SharedDfaProofs ----------------------------
(* Proofs about SharedDfa, for every number of threads, addresses, stripes *)
(* and programs and every depth of nesting.                                *)
EXTENDS SharedDfa, FiniteSetTheorems, SequenceTheorems, TLAPS

-----------------------------------------------------------------------------
(* The inductive invariant, in parts: each is kept by every step from a    *)
(* state in which it and the parts before it hold.                         *)

Building == {"resolve", "bump", "clear", "publish"}
Holding == {"check", "fill", "walk"}
Leasing == {"lease", "give_back", "slot", "take"} \cup Holding
Erasing == {"unmap", "retire", "drain", "drop"}

Depths(t) == 1 .. Len(calls[t])

\* The types, but for what the later parts add: the sets named exist, and the generations
\* are bounded by what was built.
CallType == [regex : Addresses, at : Steps, slot : Nat, set : Nat, cached : BOOLEAN]
SlotType == [owner : Addresses \cup {NoAddress}, generation : Nat, free : SUBSET (Nat \ {0})]
SetType == [generation : Nat, dfas : Nat]
CacheType == [slot : Nat, set : Nat, busy : BOOLEAN]

RegexTypes ==
  /\ compiled \in 0 .. MaxPrograms
  /\ program \in [Addresses -> 0 .. compiled]
  /\ ready \in [Addresses -> BOOLEAN]
  /\ build_mu \in [Stripes -> Threads \cup {NoThread}]

SlotTypes == slots \in Seq(SlotType) /\ Len(slots) <= MaxPrograms
MapTypes == map \in [Addresses -> Int] /\ \A a \in Addresses : map[a] \in Absent .. Len(slots)

SetTypes ==
  /\ DOMAIN sets \in SUBSET (Nat \ {0}) /\ IsFiniteSet(DOMAIN sets)
  /\ sets \in [DOMAIN sets -> SetType]

CacheTypes == cache \in [Threads -> CacheType] /\ \A t \in Threads : cache[t].slot <= Len(slots)
HitTypes == hit \in [Threads -> Nat] /\ \A t \in Threads : hit[t] <= Len(slots)

\* A thread's calls nest in walks.
CallTypes ==
  /\ calls \in [Threads -> Seq(CallType)]
  /\ \A t \in Threads :
       /\ Len(calls[t]) <= MaxDepth
       /\ \A d \in Depths(t) : /\ calls[t][d].slot <= Len(slots)
                               /\ d < Len(calls[t]) => calls[t][d].at = "walk"

Typing ==
  RegexTypes /\ SlotTypes /\ MapTypes /\ SetTypes /\ CacheTypes /\ HitTypes /\ CallTypes

\* What a call's step says of its regex: it is not assigned or destroyed under the call,
\* published before it is leased, built under its stripe, and erased by one call alone.
Phase(t, d) ==
  LET c == calls[t][d] IN
  /\ program[c.regex] # Null
  /\ c.at \in Leasing => ready[c.regex]
  /\ c.at \in Building => ~ready[c.regex] /\ build_mu[Stripe[c.regex]] = t

Alone(t, d) ==
  \A u \in Threads : \A e \in Depths(u) :
    calls[u][e].regex = calls[t][d].regex => u = t /\ e = d

Phases ==
  /\ \A t \in Threads : \A d \in Depths(t) : Phase(t, d)
  /\ \A t \in Threads : \A d \in Depths(t) : calls[t][d].at \in Erasing => Alone(t, d)
  /\ \A a \in Addresses : ready[a] => program[a] # Null

\* The slot a call works on is its regex's, until the call retires it.
SlotOf(t, d) ==
  LET c == calls[t][d] IN
  /\ c.at \in {"bump", "clear", "publish", "take", "retire"} \cup Holding =>
       c.slot # Null /\ slots[c.slot].owner = c.regex
  /\ c.at \in {"drain", "drop"} => c.slot # Null /\ slots[c.slot].owner = NoAddress
  /\ c.at \in {"retire", "drain", "drop"} => map[c.regex] = Absent

WorkedOn(step, s) ==
  \E t \in Threads : \E d \in Depths(t) : calls[t][d].at = step /\ calls[t][d].slot = s

Ownership ==
  /\ \A t \in Threads : \A d \in Depths(t) : SlotOf(t, d)
  /\ \A a \in Addresses : map[a] \in DOMAIN slots => slots[map[a]].owner = a
  /\ \A s \in DOMAIN slots : slots[s].owner # NoAddress =>
       /\ program[slots[s].owner] # Null
       /\ map[slots[s].owner] = s \/ WorkedOn("retire", s)
  /\ \A s \in DOMAIN slots : slots[s].owner = NoAddress =>
       slots[s].free = {} \/ WorkedOn("drain", s)

\* A thread's outermost lease holds its cache's set, the ones nested in it their own.
LeaseOf(t, d) ==
  LET c == calls[t][d] IN
  /\ c.cached <=> c.at \in Holding /\ d = 1
  /\ c.at \notin Holding => c.set = Null
  /\ c.at \in {"fill", "walk"} \/ (c.at \in Holding /\ d # 1) => c.set # Null
  /\ c.cached => c.slot = cache[t].slot /\ c.set = cache[t].set
  /\ c.at = "give_back" => d = 1
  /\ c.at = "slot" /\ d = 1 => cache[t].slot = Null
  /\ c.at = "take" /\ d = 1 => cache[t].slot = c.slot

CacheOf(t) ==
  /\ cache[t].busy <=> 1 \in Depths(t) /\ calls[t][1].at \in Holding
  /\ cache[t].slot = Null => cache[t].set = Null
  /\ 1 \in Depths(t) /\ calls[t][1].at = "take" => cache[t].set = Null

Leases ==
  /\ \A t \in Threads : \A d \in Depths(t) : LeaseOf(t, d)
  /\ \A t \in Threads : CacheOf(t)

\* Who has a set.
SetIds == Nat \ {0}

Pools(i, s) == i \in slots[s].free
Caches(i, t) == cache[t].set = i
Holds(i, t, d) == ~calls[t][d].cached /\ calls[t][d].set = i

Exclusive(i) ==
  /\ \A s, r \in DOMAIN slots : Pools(i, s) /\ Pools(i, r) => s = r
  /\ \A t, u \in Threads : Caches(i, t) /\ Caches(i, u) => t = u
  /\ \A t, u \in Threads : \A d \in Depths(t), e \in Depths(u) :
       Holds(i, t, d) /\ Holds(i, u, e) => t = u /\ d = e
  /\ \A s \in DOMAIN slots, t \in Threads : ~(Pools(i, s) /\ Caches(i, t))
  /\ \A s \in DOMAIN slots, t \in Threads : \A d \in Depths(t) : ~(Pools(i, s) /\ Holds(i, t, d))
  /\ \A t, u \in Threads : \A d \in Depths(u) : ~(Caches(i, t) /\ Holds(i, u, d))

Had(i) ==
  \/ \E s \in DOMAIN slots : Pools(i, s)
  \/ \E t \in Threads : Caches(i, t)
  \/ \E t \in Threads : \E d \in Depths(t) : Holds(i, t, d)

Owned == \A i \in SetIds : Exclusive(i) /\ (Had(i) <=> i \in DOMAIN sets)

\* The slot a set is had under.
Home(i, s) ==
  \/ Pools(i, s)
  \/ \E t \in Threads : Caches(i, t) /\ cache[t].slot = s
  \/ \E t \in Threads : \E d \in Depths(t) : Holds(i, t, d) /\ calls[t][d].slot = s

\* A set is never ahead of its slot; between the bump and the publication of a build it is
\* behind, and afterwards one that is not has DFAs of the program built, or none yet.
Rebuilding(a) ==
  \E t \in Threads : \E d \in Depths(t) :
    calls[t][d].regex = a /\ calls[t][d].at \in {"clear", "publish"}

Current(i, s) ==
  /\ sets[i].generation <= slots[s].generation
  /\ slots[s].owner # NoAddress /\ Rebuilding(slots[s].owner) =>
       sets[i].generation < slots[s].generation
  /\ slots[s].owner # NoAddress /\ ready[slots[s].owner] =>
       \/ sets[i].generation < slots[s].generation
       \/ sets[i].dfas \in {Null, program[slots[s].owner]}

WalkOf(t, d) ==
  LET c == calls[t][d] IN
  /\ c.at \in {"fill", "walk"} => sets[c.set].generation = slots[c.slot].generation
  /\ c.at = "walk" => sets[c.set].dfas = program[c.regex]

\* Each of a slot's generations is a program of its regex: one that it was built for.
Generations ==
  /\ \A s \in DOMAIN slots :
       /\ slots[s].generation <= compiled
       /\ slots[s].owner # NoAddress => slots[s].generation <= program[slots[s].owner]
       /\ slots[s].owner # NoAddress /\ ~ready[slots[s].owner] /\ ~Rebuilding(slots[s].owner)
            => slots[s].generation < program[slots[s].owner]
  /\ \A i \in DOMAIN sets : sets[i].generation <= compiled /\ sets[i].dfas <= compiled

Currency ==
  /\ Generations
  /\ \A i \in DOMAIN sets, s \in DOMAIN slots : Home(i, s) => Current(i, s)
  /\ \A t \in Threads : \A d \in Depths(t) : WalkOf(t, d)

\* A slot's sets are never more than the places that could hold them at once.
SetsOf(s) == {i \in DOMAIN sets : Home(i, s)}
Places == Threads \X (1 .. MaxDepth)
Few == \A s \in DOMAIN slots : Cardinality(SetsOf(s)) <= Cardinality(Places)

IInv == Typing /\ Phases /\ Ownership /\ Leases /\ Owned /\ Currency

-----------------------------------------------------------------------------
(* The stacks of calls.                                                    *)

LEMMA TopFacts ==
  ASSUME CallTypes, NEW t \in Threads
  PROVE  /\ Len(calls[t]) \in Nat
         /\ calls[t] = <<>> <=> Len(calls[t]) = 0
         /\ \A d \in Depths(t) : calls[t][d] \in CallType
         /\ calls[t] # <<>> => /\ Len(calls[t]) \in Depths(t)
                               /\ Top(t) = calls[t][Len(calls[t])]
                               /\ Top(t) \in CallType
  <1>1. calls[t] \in Seq(CallType)
    BY DEF CallTypes
  <1>2. QED
    BY <1>1, EmptySeq DEF Depths, Top, Last

\* Nothing but the top of a stack is at a step that is not a walk.
LEMMA OnTop ==
  ASSUME CallTypes, NEW t \in Threads, NEW d \in Depths(t), calls[t][d].at # "walk"
  PROVE  d = Len(calls[t]) /\ calls[t] # <<>> /\ Top(t) = calls[t][d]
  BY TopFacts DEF CallTypes, Depths

LEMMA FrontFacts ==
  ASSUME NEW S, NEW s \in Seq(S), s # <<>>
  PROVE  /\ Front(s) \in Seq(S)
         /\ Len(Front(s)) = Len(s) - 1
         /\ \A d \in 1 .. Len(s) - 1 : Front(s)[d] = s[d]
  <1>1. Len(s) \in Nat \ {0}
    BY EmptySeq
  <1>2. \A d \in 1 .. Len(s) - 1 : s[d] \in S
    BY <1>1, ElementOfSeq
  <1> DEFINE n == Len(s) - 1
  <1>3. n \in Nat
    BY <1>1
  <1>4. /\ SubSeq(s, 1, n) \in Seq(S)
        /\ Len(SubSeq(s, 1, n)) = IF 1 <= n THEN n - 1 + 1 ELSE 0
        /\ \A d \in 1 .. n - 1 + 1 : SubSeq(s, 1, n)[d] = s[1 + d - 1]
    BY <1>2, <1>3, SubSeqProperties
  <1> DEFINE f == SubSeq(s, 1, n)
  <1> HIDE DEF f, n
  <1>5. f \in Seq(S) /\ Len(f) = n /\ \A d \in 1 .. n : f[d] = s[d]
    BY <1>3, <1>4 DEF f
  <1>6. QED
    BY <1>5 DEF Front, f, n

LEMMA WithTopFacts ==
  ASSUME CallTypes, NEW t \in Threads, calls[t] # <<>>, NEW c \in CallType,
         calls' = WithTop(t, c)
  PROVE  /\ calls' \in [Threads -> Seq(CallType)]
         /\ \A u \in Threads : Len(calls'[u]) = Len(calls[u])
         /\ \A u \in Threads : \A d \in Depths(u) :
              calls'[u][d] = IF u = t /\ d = Len(calls[t]) THEN c ELSE calls[u][d]
  <1>1. calls[t] \in Seq(CallType) /\ calls \in [Threads -> Seq(CallType)]
    BY DEF CallTypes
  <1>2. /\ Front(calls[t]) \in Seq(CallType)
        /\ Len(Front(calls[t])) = Len(calls[t]) - 1
        /\ \A d \in 1 .. Len(calls[t]) - 1 : Front(calls[t])[d] = calls[t][d]
    BY <1>1, FrontFacts
  <1>3. calls' = [calls EXCEPT ![t] = Append(Front(calls[t]), c)]
    BY DEF WithTop
  <1> DEFINE new == Append(Front(calls[t]), c)
  <1>4. Len(calls[t]) \in Nat \ {0}
    BY <1>1, EmptySeq
  <1>5. /\ new \in Seq(CallType)
        /\ Len(new) = Len(calls[t])
        /\ \A d \in 1 .. Len(calls[t]) - 1 : new[d] = calls[t][d]
        /\ new[Len(calls[t])] = c
    BY <1>2, <1>4, AppendProperties
  <1> HIDE DEF new
  <1>6. calls' \in [Threads -> Seq(CallType)] /\ calls'[t] = new
        /\ \A u \in Threads \ {t} : calls'[u] = calls[u]
    BY <1>1, <1>3, <1>5 DEF new
  <1>7. QED
    BY <1>4, <1>5, <1>6 DEF Depths

LEMMA PopFacts ==
  ASSUME CallTypes, NEW t \in Threads, calls[t] # <<>>, Pop(t)
  PROVE  /\ calls' \in [Threads -> Seq(CallType)]
         /\ \A u \in Threads : Len(calls'[u]) = IF u = t THEN Len(calls[t]) - 1 ELSE Len(calls[u])
         /\ \A u \in Threads : \A d \in Depths(u) : d <= Len(calls'[u]) => calls'[u][d] = calls[u][d]
  <1>1. calls[t] \in Seq(CallType) /\ calls \in [Threads -> Seq(CallType)]
    BY DEF CallTypes
  <1>2. /\ Front(calls[t]) \in Seq(CallType)
        /\ Len(Front(calls[t])) = Len(calls[t]) - 1
        /\ \A d \in 1 .. Len(calls[t]) - 1 : Front(calls[t])[d] = calls[t][d]
    BY <1>1, FrontFacts
  <1>3. QED
    BY <1>1, <1>2, EmptySeq DEF Depths, Pop

NewCall(a, step) == [regex |-> a, at |-> step, slot |-> Null, set |-> Null, cached |-> FALSE]

LEMMA PushFacts ==
  ASSUME CallTypes, NEW t \in Threads, NEW a \in Addresses, NEW step \in Steps, Push(t, a, step)
  PROVE  /\ calls' \in [Threads -> Seq(CallType)]
         /\ \A u \in Threads : Len(calls'[u]) = IF u = t THEN Len(calls[t]) + 1 ELSE Len(calls[u])
         /\ \A u \in Threads : \A d \in Depths(u) : calls'[u][d] = calls[u][d]
         /\ calls'[t][Len(calls[t]) + 1] = NewCall(a, step)
  <1>1. calls[t] \in Seq(CallType) /\ calls \in [Threads -> Seq(CallType)]
    BY DEF CallTypes
  <1>2. NewCall(a, step) \in CallType
    BY DEF NewCall, CallType, Null
  <1>3. calls' = [calls EXCEPT ![t] = Append(calls[t], NewCall(a, step))]
    BY DEF Push, NewCall
  <1>4. QED
    BY <1>1, <1>2, <1>3, AppendProperties DEF Depths

\* What the three kinds of step leave of the stacks' types.
LEMMA WithTopTypes ==
  ASSUME Typing, NEW t \in Threads, calls[t] # <<>>, NEW c \in CallType,
         calls' = WithTop(t, c), SlotTypes', Len(slots) <= Len(slots'), c.slot <= Len(slots')
  PROVE  CallTypes'
  <1>1. Len(slots) \in Nat /\ Len(slots') \in Nat
    BY DEF Typing, SlotTypes
  <1>2. /\ calls' \in [Threads -> Seq(CallType)]
        /\ \A u \in Threads : Len(calls'[u]) = Len(calls[u])
        /\ \A u \in Threads : \A d \in Depths(u) :
             calls'[u][d] = IF u = t /\ d = Len(calls[t]) THEN c ELSE calls[u][d]
    BY WithTopFacts DEF Typing
  <1>3. ASSUME NEW u \in Threads, NEW d \in Depths(u)
        PROVE  calls'[u][d].slot <= Len(slots') /\ (d < Len(calls[u]) => calls'[u][d].at = "walk")
    <2>1. calls[u][d] \in CallType /\ d \in Nat /\ Len(calls[u]) \in Nat
      BY TopFacts DEF Typing, Depths
    <2>2. calls[u][d].slot <= Len(slots) /\ (d < Len(calls[u]) => calls[u][d].at = "walk")
      BY DEF Typing, CallTypes
    <2>3. CASE u = t /\ d = Len(calls[t])
      BY <1>2, <2>1, <2>3
    <2>4. CASE ~(u = t /\ d = Len(calls[t]))
      BY <1>1, <1>2, <2>1, <2>2, <2>4 DEF CallType
    <2>5. QED
      BY <2>3, <2>4
  <1>4. QED
    BY <1>2, <1>3 DEF Typing, CallTypes, Depths

LEMMA PopTypes ==
  ASSUME Typing, NEW t \in Threads, calls[t] # <<>>, Pop(t),
         SlotTypes', Len(slots) <= Len(slots')
  PROVE  CallTypes'
  <1>1. Len(slots) \in Nat /\ Len(slots') \in Nat
    BY DEF Typing, SlotTypes
  <1>2. /\ calls' \in [Threads -> Seq(CallType)]
        /\ \A u \in Threads : Len(calls'[u]) = IF u = t THEN Len(calls[t]) - 1 ELSE Len(calls[u])
        /\ \A u \in Threads : \A d \in Depths(u) : d <= Len(calls'[u]) => calls'[u][d] = calls[u][d]
    BY PopFacts DEF Typing
  <1>3. ASSUME NEW u \in Threads
        PROVE  /\ Len(calls'[u]) \in Nat /\ Len(calls'[u]) <= Len(calls[u]) /\ Len(calls[u]) \in Nat
               /\ Len(calls'[u]) <= MaxDepth
    <2>1. Len(calls[u]) \in Nat /\ Len(calls[u]) <= MaxDepth /\ Len(calls'[u]) \in Nat
      BY <1>2, LenProperties, TopFacts DEF Typing, CallTypes
    <2>2. QED
      BY <1>2, <2>1, BoundsAssumption
  <1>4. ASSUME NEW u \in Threads, NEW d \in 1 .. Len(calls'[u])
        PROVE  calls'[u][d].slot <= Len(slots') /\ (d < Len(calls'[u]) => calls'[u][d].at = "walk")
    <2>1. d \in Depths(u) /\ calls'[u][d] = calls[u][d]
      BY <1>2, <1>3 DEF Depths
    <2>2. calls[u][d].slot <= Len(slots) /\ (d < Len(calls[u]) => calls[u][d].at = "walk")
      BY <2>1 DEF Typing, CallTypes
    <2>3. calls[u][d].slot \in Nat
      BY <2>1, TopFacts DEF Typing, CallType
    <2>4. d < Len(calls'[u]) => d < Len(calls[u])
      BY <1>3
    <2>5. QED
      BY <1>1, <2>1, <2>2, <2>3, <2>4
  <1>5. QED
    BY <1>2, <1>3, <1>4 DEF CallTypes, Depths

LEMMA PushTypes ==
  ASSUME Typing, NEW t \in Threads, NEW a \in Addresses, NEW step \in Steps,
         CanCall(t), Push(t, a, step), UNCHANGED slots
  PROVE  CallTypes'
  <1>1. Len(slots) \in Nat /\ MaxDepth \in Nat
    BY BoundsAssumption DEF Typing, SlotTypes
  <1>2. NewCall(a, step).slot = 0
    BY DEF NewCall, Null
  <1>3. calls[t] # <<>> => calls[t][Len(calls[t])].at = "walk"
    BY TopFacts DEF CanCall, Typing
  <1>4. Len(calls[t]) + 1 <= MaxDepth
    BY <1>1, TopFacts DEF CanCall, Typing
  <1>5. /\ calls' \in [Threads -> Seq(CallType)]
        /\ \A u \in Threads : Len(calls'[u]) = IF u = t THEN Len(calls[t]) + 1 ELSE Len(calls[u])
        /\ \A u \in Threads : \A d \in Depths(u) : calls'[u][d] = calls[u][d]
        /\ calls'[t][Len(calls[t]) + 1] = NewCall(a, step)
    BY PushFacts DEF Typing
  <1>6. ASSUME NEW u \in Threads PROVE Len(calls[u]) \in Nat /\ Len(calls'[u]) <= MaxDepth
    BY <1>4, <1>5, TopFacts DEF Typing, CallTypes
  <1>7. ASSUME NEW u \in Threads, NEW d \in 1 .. Len(calls'[u])
        PROVE  calls'[u][d].slot <= Len(slots') /\ (d < Len(calls'[u]) => calls'[u][d].at = "walk")
    <2>1. CASE d \in Depths(u)
      <3>1. calls[u][d].slot <= Len(slots) /\ (d < Len(calls[u]) => calls[u][d].at = "walk")
        BY <2>1 DEF Typing, CallTypes
      <3>2. d = Len(calls[u]) /\ d < Len(calls'[u]) => u = t
        BY <1>5, <1>6
      <3>3. d < Len(calls'[u]) => calls[u][d].at = "walk"
        <4>1. d \in Nat /\ d <= Len(calls[u])
          BY <1>6, <2>1 DEF Depths
        <4>2. CASE d < Len(calls[u])
          BY <3>1, <4>2
        <4>3. CASE d = Len(calls[u])
          BY <1>3, <1>6, <2>1, <3>2, <4>3, TopFacts DEF Depths, Typing
        <4>4. QED
          BY <1>6, <4>1, <4>2, <4>3
      <3>4. QED
        BY <1>5, <2>1, <3>1, <3>3
    <2>2. CASE d \notin Depths(u)
      <3>1. u = t /\ d = Len(calls[t]) + 1
        BY <1>5, <1>6, <2>2 DEF Depths
      <3>2. QED
        BY <1>1, <1>2, <1>5, <1>6, <3>1
    <2>3. QED
      BY <2>1, <2>2
  <1>8. QED
    BY <1>5, <1>6, <1>7 DEF CallTypes, Depths

\* Slots are never taken away: what is bounded by their number stays so.
LEMMA SlotsGrow ==
  ASSUME Typing, SlotTypes', Len(slots) <= Len(slots')
  PROVE  /\ UNCHANGED map => MapTypes'
         /\ UNCHANGED cache => CacheTypes'
         /\ UNCHANGED hit => HitTypes'
         /\ UNCHANGED calls => CallTypes'
  <1>1. Len(slots) \in Nat /\ Len(slots') \in Nat
    BY DEF Typing, SlotTypes
  <1>2. UNCHANGED map => MapTypes'
    BY <1>1 DEF Typing, MapTypes, Absent
  <1>3. UNCHANGED cache => CacheTypes'
    BY <1>1 DEF Typing, CacheTypes, CacheType
  <1>4. UNCHANGED hit => HitTypes'
    BY <1>1 DEF Typing, HitTypes
  <1>5. UNCHANGED calls => CallTypes'
    <2> SUFFICES ASSUME UNCHANGED calls PROVE CallTypes'
      OBVIOUS
    <2>1. ASSUME NEW u \in Threads, NEW d \in Depths(u)
          PROVE  calls[u][d].slot <= Len(slots')
      <3>1. calls[u][d].slot \in Nat
        BY TopFacts DEF Typing, CallType
      <3>2. calls[u][d].slot <= Len(slots)
        BY DEF Typing, CallTypes
      <3>3. QED
        BY <1>1, <3>1, <3>2
    <2>2. QED
      BY <2>1 DEF Typing, CallTypes, Depths
  <1>6. QED
    BY <1>2, <1>3, <1>4, <1>5

-----------------------------------------------------------------------------
(* The stores: slots and sets.                                             *)

LEMMA SlotFacts ==
  ASSUME SlotTypes
  PROVE  /\ Len(slots) \in Nat /\ DOMAIN slots = 1 .. Len(slots)
         /\ \A s \in DOMAIN slots : slots[s] \in SlotType
  BY LenProperties DEF SlotTypes

LEMMA SlotWrite ==
  ASSUME SlotTypes, NEW s \in DOMAIN slots, NEW v \in SlotType, slots' = [slots EXCEPT ![s] = v]
  PROVE  /\ SlotTypes' /\ Len(slots') = Len(slots) /\ DOMAIN slots' = DOMAIN slots
         /\ \A r \in DOMAIN slots : slots'[r] = IF r = s THEN v ELSE slots[r]
  <1>1. s \in 1 .. Len(slots) /\ slots \in Seq(SlotType)
    BY SlotFacts DEF SlotTypes
  <1>2. /\ slots' \in Seq(SlotType) /\ Len(slots') = Len(slots)
        /\ \A r \in 1 .. Len(slots) : slots'[r] = IF r = s THEN v ELSE slots[r]
    BY <1>1, ExceptSeq
  <1>3. QED
    BY <1>2, SlotFacts, LenProperties DEF SlotTypes

LEMMA SlotMadeFacts ==
  ASSUME SlotTypes, MapTypes, NEW a \in Addresses, NEW s \in Slots, SlotMade(a, s)
  PROVE  /\ SlotTypes' /\ MapTypes' /\ Len(slots) <= Len(slots')
         /\ s \in DOMAIN slots' /\ DOMAIN slots \subseteq DOMAIN slots'
         /\ map' = [map EXCEPT ![a] = s]
         /\ \A r \in DOMAIN slots : slots'[r] = slots[r]
         /\ \/ s \in DOMAIN slots /\ map[a] = s /\ UNCHANGED <<slots, map>>
            \/ /\ s \notin DOMAIN slots /\ DOMAIN slots' = DOMAIN slots \cup {s}
               /\ map[a] \in {Absent, Null} /\ slots'[s] = FreshSlot(a)
  <1>0. slots \in Seq(SlotType)
    BY DEF SlotTypes
  <1>1. slots \in Seq(SlotType) /\ Len(slots) \in Nat /\ DOMAIN slots = 1 .. Len(slots)
    BY <1>0, SlotFacts
  <1>2. CASE map[a] \in {Absent, Null}
    <2>1. s = Len(slots) + 1 /\ slots' = Append(slots, FreshSlot(a)) /\ map' = [map EXCEPT ![a] = s]
      BY <1>2 DEF SlotMade
    <2>2. FreshSlot(a) \in SlotType
      BY DEF FreshSlot, SlotType
    <2>3. /\ slots' \in Seq(SlotType) /\ Len(slots') = Len(slots) + 1
          /\ \A r \in 1 .. Len(slots) : slots'[r] = slots[r]
          /\ slots'[s] = FreshSlot(a)
      BY <1>1, <2>1, <2>2, AppendProperties
    <2>4. DOMAIN slots' = 1 .. Len(slots')
      BY <2>3, LenProperties
    <2>5. SlotTypes'
      BY <1>1, <2>1, <2>3, BoundsAssumption DEF SlotTypes, Slots
    <2>6. MapTypes'
      BY <1>1, <2>1, <2>3 DEF MapTypes, Absent
    <2>7. /\ s \in DOMAIN slots' /\ DOMAIN slots' = DOMAIN slots \cup {s} /\ s \notin DOMAIN slots
          /\ Len(slots) <= Len(slots')
      BY <1>1, <2>1, <2>3, <2>4
    <2>8. QED
      BY <1>1, <1>2, <2>1, <2>3, <2>5, <2>6, <2>7
  <1>3. CASE map[a] \notin {Absent, Null}
    <2>1. s = map[a] /\ UNCHANGED <<slots, map>>
      BY <1>3 DEF SlotMade
    <2>2. SlotTypes' /\ MapTypes'
      BY <2>1 DEF SlotTypes, MapTypes
    <2>3. s \in DOMAIN slots
      BY <1>1, <1>3, <2>1 DEF MapTypes, Absent, Null
    <2>4. map' = [map EXCEPT ![a] = s]
      BY <2>1 DEF MapTypes
    <2>5. Len(slots) <= Len(slots') /\ DOMAIN slots' = DOMAIN slots /\ map[a] = s
      BY <1>1, <2>1
    <2>6. QED
      BY <2>1, <2>2, <2>3, <2>4, <2>5
  <1>4. QED
    BY <1>2, <1>3

LEMMA DestroyedFacts ==
  ASSUME SetTypes, NEW ids, sets' = Destroyed(ids)
  PROVE  /\ SetTypes' /\ DOMAIN sets' = DOMAIN sets \ ids
         /\ \A i \in DOMAIN sets' : sets'[i] = sets[i]
  <1>1. DOMAIN sets' = DOMAIN sets \ ids /\ \A i \in DOMAIN sets' : sets'[i] = sets[i]
    BY DEF Destroyed
  <1>2. IsFiniteSet(DOMAIN sets \ ids)
    BY FS_Subset DEF SetTypes
  <1>3. sets' = [i \in DOMAIN sets' |-> sets'[i]]
    BY <1>1 DEF Destroyed
  <1>4. QED
    BY <1>1, <1>2, <1>3 DEF SetTypes

\* The numbers up to one more than there are sets are not all taken.
LEMMA NewSetFacts ==
  ASSUME SetTypes
  PROVE  NewSet \in Nat \ {0} /\ NewSet \notin DOMAIN sets
  <1> DEFINE n == Cardinality(DOMAIN sets)
  <1>1. n \in Nat
    BY FS_CardinalityType DEF SetTypes
  <1>2. IsFiniteSet(1 .. n + 1) /\ Cardinality(1 .. n + 1) = n + 1
    BY <1>1, FS_Interval
  <1>3. ~(1 .. n + 1 \subseteq DOMAIN sets)
    BY <1>1, <1>2, FS_Subset DEF SetTypes
  <1>4. \E i \in 1 .. n + 1 : i \notin DOMAIN sets
    BY <1>3
  <1>5. NewSet \in 1 .. n + 1 /\ NewSet \notin DOMAIN sets
    BY <1>4 DEF NewSet
  <1>6. QED
    BY <1>1, <1>5

LEMMA MakeSetFacts ==
  ASSUME SetTypes, NEW t \in Threads, MakeSet(t)
  PROVE  /\ SetTypes' /\ DOMAIN sets' = DOMAIN sets \cup {NewSet}
         /\ sets'[NewSet] = FreshSet
         /\ \A i \in DOMAIN sets : sets'[i] = sets[i]
  <1> DEFINE D == DOMAIN sets \cup {NewSet}
  <1>1. sets' = [i \in D |-> IF i = NewSet THEN FreshSet ELSE sets[i]]
    BY DEF MakeSet
  <1>2. IsFiniteSet(D)
    BY FS_AddElement DEF SetTypes
  <1>3. FreshSet \in SetType
    BY DEF FreshSet, SetType, Null
  <1>4. sets' \in [D -> SetType]
    BY <1>1, <1>3 DEF SetTypes
  <1>5. D \in SUBSET (Nat \ {0}) /\ DOMAIN sets' = D
    BY <1>1, NewSetFacts DEF SetTypes
  <1>6. QED
    BY <1>1, <1>2, <1>4, <1>5, NewSetFacts DEF SetTypes

LEMMA GiveFacts ==
  ASSUME SlotTypes, SetTypes, NEW s \in DOMAIN slots, NEW i \in Nat \ {0}, Give(s, i)
  PROVE  /\ SlotTypes' /\ SetTypes' /\ Len(slots') = Len(slots) /\ DOMAIN slots' = DOMAIN slots
         /\ \A r \in DOMAIN slots :
              /\ slots'[r].owner = slots[r].owner /\ slots'[r].generation = slots[r].generation
              /\ r # s => slots'[r] = slots[r]
         /\ \/ /\ slots[s].owner # NoAddress /\ slots'[s].free = slots[s].free \cup {i}
               /\ UNCHANGED sets
            \/ UNCHANGED slots /\ sets' = Destroyed({i})
  <1>1. slots[s] \in SlotType
    BY SlotFacts
  <1>2. CASE slots[s].owner # NoAddress /\ UNCHANGED sets
             /\ slots' = [slots EXCEPT ![s].free = @ \cup {i}]
    <2> DEFINE v == [slots[s] EXCEPT !.free = @ \cup {i}]
    <2>1. v \in SlotType /\ slots' = [slots EXCEPT ![s] = v]
      BY <1>1, <1>2 DEF SlotType
    <2>2. v.owner = slots[s].owner /\ v.generation = slots[s].generation
          /\ v.free = slots[s].free \cup {i}
      BY <1>1 DEF SlotType
    <2> HIDE DEF v
    <2>3. SetTypes'
      BY <1>2 DEF SetTypes
    <2>4. QED
      BY <1>2, <2>1, <2>2, <2>3, SlotWrite
  <1>3. CASE UNCHANGED slots /\ sets' = Destroyed({i})
    BY <1>3, DestroyedFacts DEF SlotTypes
  <1>4. QED
    BY <1>2, <1>3 DEF Give

-----------------------------------------------------------------------------
(* The types are kept.                                                     *)

\* The actions of Next, one disjunct each, for the case splits below.
LEMMA NextCases ==
  ASSUME Next,
         NEW ACTION P,
         \A t \in Threads : LockBuild(t) => P,
         \A t \in Threads : Resolve(t) => P,
         \A t \in Threads : Bump(t) => P,
         \A t \in Threads : ClearPool(t) => P,
         \A t \in Threads : Publish(t) => P,
         \A t \in Threads : Lease(t) => P,
         \A t \in Threads : GiveBack(t) => P,
         \A t \in Threads : SlotFor(t) => P,
         \A t \in Threads : Take(t) => P,
         \A t \in Threads : CheckGeneration(t) => P,
         \A t \in Threads : Fill(t) => P,
         \A t \in Threads : EndLease(t) => P,
         \A t \in Threads : Unmap(t) => P,
         \A t \in Threads : Retire(t) => P,
         \A t \in Threads : Drain(t) => P,
         \A t \in Threads : Drop(t) => P,
         \A t \in Threads : ThreadExit(t) => P,
         \A t \in Threads, a \in Addresses : Search(t, a) => P,
         \A t \in Threads, a \in Addresses : Destroy(t, a) => P,
         \A a \in Addresses : Construct(a) => P,
         \A a \in Addresses : Assign(a) => P
  PROVE  P
  BY DEF Next, Run

LEMMA AtFacts ==
  ASSUME Typing, NEW t \in Threads, NEW step, At(t, step)
  PROVE  /\ calls[t] # <<>> /\ Len(calls[t]) \in Depths(t) /\ Len(calls[t]) \in Nat \ {0}
         /\ Top(t) = calls[t][Len(calls[t])]
         /\ Top(t) \in CallType /\ Top(t).at = step
         /\ Top(t).regex \in Addresses /\ Top(t).slot \in Nat /\ Top(t).set \in Nat
         /\ Top(t).slot <= Len(slots)
  <1>1. calls[t] # <<>> /\ Top(t).at = step
    BY DEF At
  <1>2. /\ Len(calls[t]) \in Depths(t) /\ Len(calls[t]) \in Nat \ {0}
        /\ Top(t) = calls[t][Len(calls[t])] /\ Top(t) \in CallType
    BY <1>1, TopFacts DEF Typing
  <1>3. QED
    BY <1>1, <1>2 DEF Typing, CallTypes, CallType

LEMMA Frame ==
  ASSUME Typing
  PROVE  /\ UNCHANGED <<regexes, build_mu>> => RegexTypes'
         /\ UNCHANGED slots => SlotTypes' /\ Len(slots) <= Len(slots')
         /\ UNCHANGED sets => SetTypes'
  <1>1. UNCHANGED <<regexes, build_mu>> => RegexTypes'
    BY DEF Typing, RegexTypes, regexes
  <1>2. UNCHANGED slots => SlotTypes' /\ Len(slots) <= Len(slots')
    BY SlotFacts DEF Typing, SlotTypes
  <1>3. UNCHANGED sets => SetTypes'
    BY DEF Typing, SetTypes
  <1>4. QED
    BY <1>1, <1>2, <1>3

LEMMA GotoTypes ==
  ASSUME Typing, NEW t \in Threads, NEW from, At(t, from), NEW step \in Steps, Goto(t, step),
         SlotTypes', Len(slots) <= Len(slots')
  PROVE  CallTypes'
  <1> DEFINE c == [Top(t) EXCEPT !.at = step]
  <1>1. /\ calls[t] # <<>> /\ Top(t) \in CallType /\ Top(t).slot \in Nat
        /\ Top(t).slot <= Len(slots)
    BY AtFacts
  <1>2. c \in CallType /\ c.slot = Top(t).slot
    BY <1>1 DEF CallType
  <1>3. Len(slots) \in Nat /\ Len(slots') \in Nat
    BY DEF Typing, SlotTypes
  <1>4. calls' = WithTop(t, c)
    BY DEF Goto
  <1> HIDE DEF c
  <1>5. c.slot <= Len(slots')
    BY <1>1, <1>2, <1>3
  <1>6. QED
    BY <1>1, <1>2, <1>4, <1>5, WithTopTypes

\* The members of the sets of names, so that the proofs need not expand them.
LEMMA Names ==
  /\ \A step \in {"lock", "resolve", "bump", "clear", "publish", "lease", "give_back", "slot",
                  "take", "check", "fill", "walk", "unmap", "retire", "drain", "drop"} : step \in Steps
  /\ EmptyCache \in CacheType /\ EmptyCache.slot = 0 /\ EmptyCache.set = 0 /\ ~EmptyCache.busy
  /\ Null = 0 /\ Absent = -1
  BY DEF Steps, EmptyCache, CacheType, Null, Absent

LEMMA SlotInUse ==
  ASSUME Typing, Ownership, NEW t \in Threads, NEW step, At(t, step),
         step \in {"bump", "clear", "publish", "take", "retire", "check", "fill", "walk", "drain", "drop"}
  PROVE  /\ Top(t).slot \in DOMAIN slots
         /\ step \notin {"drain", "drop"} => slots[Top(t).slot].owner = Top(t).regex
         /\ step \in {"drain", "drop"} => slots[Top(t).slot].owner = NoAddress
         /\ step \in {"retire", "drain", "drop"} => map[Top(t).regex] = Absent
  <1>1. /\ Len(calls[t]) \in Depths(t) /\ Top(t) = calls[t][Len(calls[t])]
        /\ Top(t).at = step /\ Top(t).slot \in Nat /\ Top(t).slot <= Len(slots)
    BY AtFacts
  <1>2. SlotOf(t, Len(calls[t]))
    BY <1>1 DEF Ownership
  <1>3. /\ Top(t).slot # Null
        /\ step \notin {"drain", "drop"} => slots[Top(t).slot].owner = Top(t).regex
        /\ step \in {"drain", "drop"} => slots[Top(t).slot].owner = NoAddress
        /\ step \in {"retire", "drain", "drop"} => map[Top(t).regex] = Absent
    BY <1>1, <1>2 DEF SlotOf, Holding
  <1>4. QED
    BY <1>1, <1>3, SlotFacts DEF Typing, Null

\* A write to one field of a slot.
LEMMA SlotFieldWrite ==
  ASSUME SlotTypes, NEW s \in DOMAIN slots
  PROVE  /\ \A o \in Addresses \cup {NoAddress} : slots' = [slots EXCEPT ![s].owner = o] =>
              /\ SlotTypes' /\ Len(slots') = Len(slots) /\ DOMAIN slots' = DOMAIN slots
              /\ \A r \in DOMAIN slots : r # s => slots'[r] = slots[r]
              /\ slots'[s].owner = o /\ slots'[s].generation = slots[s].generation
              /\ slots'[s].free = slots[s].free
         /\ slots' = [slots EXCEPT ![s].generation = @ + 1] =>
              /\ SlotTypes' /\ Len(slots') = Len(slots) /\ DOMAIN slots' = DOMAIN slots
              /\ \A r \in DOMAIN slots : r # s => slots'[r] = slots[r]
              /\ slots'[s].owner = slots[s].owner /\ slots'[s].generation = slots[s].generation + 1
              /\ slots'[s].free = slots[s].free
         /\ \A F \in SUBSET (Nat \ {0}) : slots' = [slots EXCEPT ![s].free = F] =>
              /\ SlotTypes' /\ Len(slots') = Len(slots) /\ DOMAIN slots' = DOMAIN slots
              /\ \A r \in DOMAIN slots : r # s => slots'[r] = slots[r]
              /\ slots'[s].owner = slots[s].owner /\ slots'[s].generation = slots[s].generation
              /\ slots'[s].free = F
  <1>1. slots[s] \in SlotType
    BY SlotFacts
  <1>2. ASSUME NEW o \in Addresses \cup {NoAddress}, slots' = [slots EXCEPT ![s].owner = o]
        PROVE  /\ SlotTypes' /\ Len(slots') = Len(slots) /\ DOMAIN slots' = DOMAIN slots
               /\ \A r \in DOMAIN slots : r # s => slots'[r] = slots[r]
               /\ slots'[s].owner = o /\ slots'[s].generation = slots[s].generation
               /\ slots'[s].free = slots[s].free
    <2> DEFINE v == [slots[s] EXCEPT !.owner = o]
    <2>1. /\ v \in SlotType /\ v.owner = o /\ v.generation = slots[s].generation
          /\ v.free = slots[s].free
      BY <1>1 DEF SlotType
    <2>2. slots' = [slots EXCEPT ![s] = v]
      BY <1>2
    <2> HIDE DEF v
    <2>3. QED
      BY <2>1, <2>2, SlotWrite
  <1>3. ASSUME slots' = [slots EXCEPT ![s].generation = @ + 1]
        PROVE  /\ SlotTypes' /\ Len(slots') = Len(slots) /\ DOMAIN slots' = DOMAIN slots
               /\ \A r \in DOMAIN slots : r # s => slots'[r] = slots[r]
               /\ slots'[s].owner = slots[s].owner /\ slots'[s].generation = slots[s].generation + 1
               /\ slots'[s].free = slots[s].free
    <2> DEFINE v == [slots[s] EXCEPT !.generation = @ + 1]
    <2>1. /\ v \in SlotType /\ v.owner = slots[s].owner /\ v.generation = slots[s].generation + 1
          /\ v.free = slots[s].free
      BY <1>1 DEF SlotType
    <2>2. slots' = [slots EXCEPT ![s] = v]
      BY <1>3
    <2> HIDE DEF v
    <2>3. QED
      BY <2>1, <2>2, SlotWrite
  <1>4. ASSUME NEW F \in SUBSET (Nat \ {0}), slots' = [slots EXCEPT ![s].free = F]
        PROVE  /\ SlotTypes' /\ Len(slots') = Len(slots) /\ DOMAIN slots' = DOMAIN slots
               /\ \A r \in DOMAIN slots : r # s => slots'[r] = slots[r]
               /\ slots'[s].owner = slots[s].owner /\ slots'[s].generation = slots[s].generation
               /\ slots'[s].free = F
    <2> DEFINE v == [slots[s] EXCEPT !.free = F]
    <2>1. /\ v \in SlotType /\ v.owner = slots[s].owner /\ v.generation = slots[s].generation
          /\ v.free = F
      BY <1>1 DEF SlotType
    <2>2. slots' = [slots EXCEPT ![s] = v]
      BY <1>4
    <2> HIDE DEF v
    <2>3. QED
      BY <2>1, <2>2, SlotWrite
  <1>5. QED
    BY <1>2, <1>3, <1>4

LEMMA SlotEmptied ==
  ASSUME SlotTypes, NEW s \in DOMAIN slots, slots' = [slots EXCEPT ![s].free = {}]
  PROVE  /\ SlotTypes' /\ Len(slots') = Len(slots) /\ DOMAIN slots' = DOMAIN slots
         /\ \A r \in DOMAIN slots : r # s => slots'[r] = slots[r]
         /\ slots'[s].owner = slots[s].owner /\ slots'[s].generation = slots[s].generation
         /\ slots'[s].free = {}
  <1> DEFINE F == {}
  <1>1. F \in SUBSET (Nat \ {0}) /\ slots' = [slots EXCEPT ![s].free = F] /\ F = {}
    OBVIOUS
  <1> HIDE DEF F
  <1>2. QED
    BY <1>1, SlotFieldWrite

LEMMA SlotFailsTypes ==
  ASSUME SlotTypes, MapTypes, NEW a \in Addresses, SlotFails(a), UNCHANGED slots
  PROVE  MapTypes'
  <1>1. PICK entry \in {map[a], Null} : map' = [map EXCEPT ![a] = entry]
    BY DEF SlotFails
  <1>2. entry \in Int /\ entry \in Absent .. Len(slots) /\ Len(slots) \in Nat
    BY <1>1, Names, SlotFacts DEF MapTypes
  <1>3. QED
    BY <1>1, <1>2 DEF MapTypes

LEMMA CacheGivesBackFacts ==
  ASSUME Typing, NEW t \in Threads, CacheGivesBack(t)
  PROVE  /\ SlotTypes' /\ SetTypes' /\ CacheTypes'
         /\ Len(slots') = Len(slots) /\ DOMAIN slots' = DOMAIN slots
         /\ \A r \in DOMAIN slots :
              slots'[r].owner = slots[r].owner /\ slots'[r].generation = slots[r].generation
         /\ cache' = [cache EXCEPT ![t] = EmptyCache]
         /\ \/ (cache[t].slot = 0 \/ cache[t].set = 0) /\ UNCHANGED <<slots, sets>>
            \/ /\ cache[t].slot \in DOMAIN slots /\ cache[t].set \in Nat \ {0}
               /\ Give(cache[t].slot, cache[t].set)
  <1>1. SlotTypes /\ SetTypes /\ cache[t] \in CacheType /\ cache[t].slot <= Len(slots)
    BY DEF Typing, CacheTypes
  <1>2. cache[t].slot \in Nat /\ cache[t].set \in Nat
    BY <1>1 DEF CacheType
  <1>3. cache' = [cache EXCEPT ![t] = EmptyCache]
    BY DEF CacheGivesBack
  <1>4. Len(slots) \in Nat /\ DOMAIN slots = 1 .. Len(slots)
    BY <1>1, SlotFacts
  <1>5. CASE cache[t].slot # Null /\ cache[t].set # Null
    <2>1. cache[t].slot \in DOMAIN slots /\ cache[t].set \in Nat \ {0}
      BY <1>1, <1>2, <1>4, <1>5, Names
    <2>2. Give(cache[t].slot, cache[t].set)
      BY <1>5 DEF CacheGivesBack
    <2>3. /\ SlotTypes' /\ SetTypes' /\ Len(slots') = Len(slots) /\ DOMAIN slots' = DOMAIN slots
          /\ \A r \in DOMAIN slots :
               slots'[r].owner = slots[r].owner /\ slots'[r].generation = slots[r].generation
      BY <1>1, <2>1, <2>2, GiveFacts
    <2>4. CacheTypes'
      BY <1>3, <1>4, <2>3, Names DEF CacheTypes, Typing
    <2>5. QED
      BY <1>3, <2>1, <2>2, <2>3, <2>4
  <1>6. CASE ~(cache[t].slot # Null /\ cache[t].set # Null)
    <2>1. UNCHANGED <<slots, sets>>
      BY <1>6 DEF CacheGivesBack
    <2>2. SlotTypes' /\ SetTypes'
      BY <2>1, Frame
    <2>3. CacheTypes'
      BY <1>3, <1>4, <2>1, Names DEF CacheTypes, Typing
    <2>4. QED
      BY <1>3, <1>6, <2>1, <2>2, <2>3, Names
  <1>7. QED
    BY <1>5, <1>6

LEMMA TypingStep ==
  ASSUME Typing, Ownership, Leases, Next
  PROVE  Typing'
  <1> DEFINE Rest == RegexTypes' /\ SlotTypes' /\ MapTypes' /\ SetTypes' /\ CacheTypes' /\ HitTypes'
  <1>0. SlotTypes /\ SetTypes /\ MapTypes /\ CacheTypes /\ HitTypes /\ RegexTypes /\ CallTypes
    BY DEF Typing
  <1>1. ASSUME NEW t \in Threads, LockBuild(t) PROVE Typing'
    <2>1. RegexTypes'
      BY <1>1, <1>0 DEF LockBuild, RegexTypes, regexes
    <2>2. CallTypes'
      BY <1>1, Frame, GotoTypes, Names DEF LockBuild
    <2>3. QED
      BY <1>1, <2>1, <2>2, Frame, SlotsGrow DEF Typing, LockBuild
  <1>2. ASSUME NEW t \in Threads, Resolve(t) PROVE Typing'
    <2>1. At(t, "resolve") /\ UNCHANGED <<regexes, sets, cache>>
      BY <1>2 DEF Resolve
    <2>2. /\ calls[t] # <<>> /\ Top(t) \in CallType /\ Top(t).regex \in Addresses
      BY <2>1, AtFacts
    <2>3. CASE \E s \in Slots :
                 /\ IF HitIsValid(t, Top(t).regex) THEN s = hit[t] /\ UNCHANGED <<slots, map>>
                                                   ELSE SlotMade(Top(t).regex, s)
                 /\ hit' = [hit EXCEPT ![t] = s]
                 /\ calls' = WithTop(t, [Top(t) EXCEPT !.at = "bump", !.slot = s])
                 /\ UNCHANGED build_mu
      <3>1. PICK s \in Slots :
              /\ IF HitIsValid(t, Top(t).regex) THEN s = hit[t] /\ UNCHANGED <<slots, map>>
                                                ELSE SlotMade(Top(t).regex, s)
              /\ hit' = [hit EXCEPT ![t] = s]
              /\ calls' = WithTop(t, [Top(t) EXCEPT !.at = "bump", !.slot = s])
              /\ UNCHANGED build_mu
        BY <2>3
      <3>2. SlotTypes' /\ MapTypes' /\ Len(slots) <= Len(slots') /\ s \in Nat /\ s <= Len(slots')
        <4>1. CASE HitIsValid(t, Top(t).regex)
          BY <1>0, <3>1, <4>1, Frame, SlotsGrow DEF HitTypes
        <4>2. CASE ~HitIsValid(t, Top(t).regex)
          <5>1. SlotMade(Top(t).regex, s)
            BY <3>1, <4>2
          <5>2. SlotTypes' /\ MapTypes' /\ Len(slots) <= Len(slots') /\ s \in DOMAIN slots'
            BY <1>0, <2>2, <5>1, SlotMadeFacts
          <5>3. s \in 1 .. Len(slots')
            BY <5>2, LenProperties DEF SlotTypes
          <5>4. QED
            BY <5>2, <5>3 DEF SlotTypes
        <4>3. QED
          BY <4>1, <4>2
      <3>3. HitTypes'
        <4>1. Len(slots) \in Nat /\ Len(slots') \in Nat
          BY <1>0, <3>2 DEF SlotTypes
        <4>2. QED
          BY <1>0, <3>1, <3>2, <4>1 DEF HitTypes
      <3> DEFINE c == [Top(t) EXCEPT !.at = "bump", !.slot = s]
      <3>4. c \in CallType /\ c.slot = s /\ calls' = WithTop(t, c)
        BY <2>2, <3>1, <3>2, Names DEF CallType
      <3> HIDE DEF c
      <3>5. CallTypes'
        BY <2>2, <3>2, <3>4, WithTopTypes
      <3>6. QED
        BY <2>1, <3>1, <3>2, <3>3, <3>5, Frame, SlotsGrow DEF Typing
    <2>4. CASE SlotFails(Top(t).regex) /\ UnlockBuild(t) /\ Pop(t) /\ UNCHANGED <<slots, hit>>
      <3>1. MapTypes'
        BY <1>0, <2>2, <2>4, SlotFailsTypes
      <3>2. RegexTypes'
        BY <1>0, <2>1, <2>4 DEF UnlockBuild, RegexTypes, regexes
      <3>3. QED
        BY <2>1, <2>2, <2>4, <3>1, <3>2, Frame, SlotsGrow, PopTypes DEF Typing
    <2>5. QED
      BY <1>2, <2>3, <2>4 DEF Resolve
  <1>3. ASSUME NEW t \in Threads, Bump(t) PROVE Typing'
    <2>1. SlotTypes' /\ Len(slots) <= Len(slots')
      <3>1. At(t, "bump") /\ slots' = [slots EXCEPT ![Top(t).slot].generation = @ + 1]
        BY <1>3 DEF Bump
      <3>2. Top(t).slot \in DOMAIN slots
        BY <3>1, SlotInUse
      <3>3. SlotTypes' /\ Len(slots') = Len(slots)
        BY <1>0, <3>1, <3>2, SlotFieldWrite
      <3>4. QED
        BY <1>0, <3>3, SlotFacts
    <2>2. CallTypes'
      BY <1>3, <2>1, GotoTypes, Names DEF Bump
    <2>3. QED
      BY <1>3, <2>1, <2>2, Frame, SlotsGrow DEF Typing, Bump
  <1>4. ASSUME NEW t \in Threads, ClearPool(t) PROVE Typing'
    <2>1. SlotTypes' /\ Len(slots) <= Len(slots')
      <3>1. At(t, "clear") /\ slots' = [slots EXCEPT ![Top(t).slot].free = {}]
        BY <1>4 DEF ClearPool
      <3>2. Top(t).slot \in DOMAIN slots
        BY <3>1, SlotInUse
      <3>3. SlotTypes' /\ Len(slots') = Len(slots)
        BY <1>0, <3>1, <3>2, SlotEmptied
      <3>4. QED
        BY <1>0, <3>3, SlotFacts
    <2>2. CallTypes'
      BY <1>4, <2>1, GotoTypes, Names DEF ClearPool
    <2>3. SetTypes'
      BY <1>0, <1>4, DestroyedFacts DEF ClearPool
    <2>4. UNCHANGED <<regexes, build_mu>> /\ UNCHANGED map /\ UNCHANGED cache /\ UNCHANGED hit
      BY <1>4 DEF ClearPool
    <2>5. RegexTypes'
      BY <2>4, Frame
    <2>6. MapTypes' /\ CacheTypes' /\ HitTypes'
      BY <2>1, <2>4, SlotsGrow
    <2>7. QED
      BY <2>1, <2>2, <2>3, <2>5, <2>6 DEF Typing
  <1>5. ASSUME NEW t \in Threads, Publish(t) PROVE Typing'
    <2> DEFINE c == [Top(t) EXCEPT !.at = "lease", !.slot = Null]
    <2>1. calls[t] # <<>> /\ c \in CallType /\ c.slot = 0
      BY <1>5, AtFacts, Names DEF Publish, CallType
    <2>2. calls' = WithTop(t, c)
      BY <1>5 DEF Publish
    <2> HIDE DEF c
    <2>3. CallTypes'
      BY <1>0, <1>5, <2>1, <2>2, Frame, WithTopTypes, SlotFacts DEF Publish
    <2>4. RegexTypes'
      BY <1>0, <1>5 DEF Publish, UnlockBuild, RegexTypes
    <2>5. QED
      BY <1>5, <2>3, <2>4, Frame, SlotsGrow DEF Typing, Publish
  <1>6. ASSUME NEW t \in Threads, Lease(t) PROVE Typing'
    <2>1. /\ At(t, "lease")
          /\ UNCHANGED <<regexes, build_mu, map, slots, sets, hit>>
          /\ \/ \E step \in {"slot", "give_back"} : Goto(t, step) /\ UNCHANGED cache
             \/ /\ cache' = [cache EXCEPT ![t].busy = TRUE]
                /\ calls' = WithTop(t, [Top(t) EXCEPT !.at = "check", !.cached = TRUE,
                                          !.slot = cache[t].slot, !.set = cache[t].set])
      BY <1>6 DEF Lease
    <2>2. CASE \E step \in {"slot", "give_back"} : Goto(t, step) /\ UNCHANGED cache
      BY <2>1, <2>2, Frame, SlotsGrow, GotoTypes, Names DEF Typing
    <2>3. CASE /\ cache' = [cache EXCEPT ![t].busy = TRUE]
               /\ calls' = WithTop(t, [Top(t) EXCEPT !.at = "check", !.cached = TRUE,
                                         !.slot = cache[t].slot, !.set = cache[t].set])
      <3> DEFINE c == [Top(t) EXCEPT !.at = "check", !.cached = TRUE,
                                     !.slot = cache[t].slot, !.set = cache[t].set]
      <3>1. calls[t] # <<>> /\ c \in CallType /\ c.slot <= Len(slots)
        <4>1. calls[t] # <<>> /\ Top(t) \in CallType
          BY <2>1, AtFacts
        <4>2. cache[t].slot \in Nat /\ cache[t].set \in Nat /\ cache[t].slot <= Len(slots)
          BY <1>0 DEF CacheTypes, CacheType
        <4>3. QED
          BY <4>1, <4>2, Names DEF CallType
      <3>2. calls' = WithTop(t, c)
        BY <2>3
      <3> HIDE DEF c
      <3>3. CallTypes'
        BY <1>0, <2>1, <3>1, <3>2, Frame, WithTopTypes
      <3>4. CacheTypes'
        BY <1>0, <2>1, <2>3 DEF CacheTypes, CacheType
      <3>5. QED
        BY <2>1, <3>3, <3>4, Frame, SlotsGrow DEF Typing
    <2>4. QED
      BY <2>1, <2>2, <2>3

<1>7. ASSUME NEW t \in Threads, GiveBack(t) PROVE Typing'
    <2>1. At(t, "give_back") /\ CacheGivesBack(t) /\ Goto(t, "slot")
          /\ UNCHANGED <<regexes, build_mu, map, hit>>
      BY <1>7 DEF GiveBack
    <2>2. SlotTypes' /\ SetTypes' /\ CacheTypes' /\ Len(slots) <= Len(slots')
      BY <1>0, <2>1, CacheGivesBackFacts, SlotFacts
    <2>3. QED
      BY <2>1, <2>2, Frame, SlotsGrow, GotoTypes, Names DEF Typing
  <1>8. ASSUME NEW t \in Threads, SlotFor(t) PROVE Typing'
    <2>1. At(t, "slot") /\ UNCHANGED <<regexes, build_mu, sets, hit>>
      BY <1>8 DEF SlotFor
    <2>2. /\ calls[t] # <<>> /\ Top(t) \in CallType /\ Top(t).regex \in Addresses
      BY <2>1, AtFacts
    <2>3. CASE \E s \in Slots :
                 /\ SlotMade(Top(t).regex, s)
                 /\ cache' = IF cache[t].busy THEN cache ELSE [cache EXCEPT ![t].slot = s]
                 /\ calls' = WithTop(t, [Top(t) EXCEPT !.at = "take", !.slot = s])
      <3>1. PICK s \in Slots :
              /\ SlotMade(Top(t).regex, s)
              /\ cache' = IF cache[t].busy THEN cache ELSE [cache EXCEPT ![t].slot = s]
              /\ calls' = WithTop(t, [Top(t) EXCEPT !.at = "take", !.slot = s])
        BY <2>3
      <3>2. SlotTypes' /\ MapTypes' /\ Len(slots) <= Len(slots') /\ s \in DOMAIN slots'
        BY <1>0, <2>2, <3>1, SlotMadeFacts
      <3>3. s \in Nat /\ s <= Len(slots') /\ Len(slots) \in Nat /\ Len(slots') \in Nat
        BY <1>0, <3>2, LenProperties DEF SlotTypes
      <3>4. CacheTypes'
        BY <1>0, <3>1, <3>2, <3>3 DEF CacheTypes, CacheType
      <3> DEFINE c == [Top(t) EXCEPT !.at = "take", !.slot = s]
      <3>5. c \in CallType /\ c.slot = s /\ calls' = WithTop(t, c)
        BY <2>2, <3>1, <3>3, Names DEF CallType
      <3> HIDE DEF c
      <3>6. CallTypes'
        BY <2>2, <3>2, <3>3, <3>5, WithTopTypes
      <3>7. QED
        BY <2>1, <3>2, <3>4, <3>6, Frame, SlotsGrow DEF Typing
    <2>4. CASE SlotFails(Top(t).regex) /\ Pop(t) /\ UNCHANGED <<slots, cache>>
      <3>1. MapTypes'
        BY <1>0, <2>2, <2>4, SlotFailsTypes
      <3>2. QED
        BY <2>1, <2>2, <2>4, <3>1, Frame, SlotsGrow, PopTypes DEF Typing
    <2>5. QED
      BY <1>8, <2>3, <2>4 DEF SlotFor
  <1>9. ASSUME NEW t \in Threads, Take(t) PROVE Typing'
    <2>1. At(t, "take") /\ UNCHANGED <<regexes, build_mu, map, hit>>
      BY <1>9 DEF Take
    <2>2. /\ calls[t] # <<>> /\ Top(t) \in CallType /\ Top(t).slot \in DOMAIN slots
          /\ Top(t).slot <= Len(slots)
      BY <2>1, AtFacts, SlotInUse
    <2>3. ASSUME NEW i \in Nat \ {0}, Hold(t, i), SlotTypes', Len(slots) <= Len(slots')
          PROVE  CacheTypes' /\ CallTypes'
      <3>1. Len(slots) \in Nat /\ Len(slots') \in Nat
        BY <1>0, <2>3 DEF SlotTypes
      <3>2. CacheTypes'
        BY <1>0, <2>3, <3>1 DEF Hold, CacheTypes, CacheType
      <3> DEFINE c == [Top(t) EXCEPT !.at = "check", !.set = i, !.cached = ~cache[t].busy]
      <3>3. c \in CallType /\ c.slot = Top(t).slot
        BY <1>0, <2>2, Names DEF CallType, CacheTypes, CacheType
      <3>4. calls' = WithTop(t, c)
        BY <2>3 DEF Hold
      <3>5. c.slot <= Len(slots') /\ c.slot \in Nat
        BY <2>2, <2>3, <3>1, <3>3 DEF CallType
      <3> HIDE DEF c
      <3>6. CallTypes'
        BY <2>2, <2>3, <3>3, <3>4, <3>5, WithTopTypes
      <3>7. QED
        BY <3>2, <3>6
    <2>4. CASE \E i \in slots[Top(t).slot].free :
                 /\ slots' = [slots EXCEPT ![Top(t).slot].free = @ \ {i}]
                 /\ Hold(t, i) /\ UNCHANGED sets
      <3>1. PICK i \in slots[Top(t).slot].free :
                 /\ slots' = [slots EXCEPT ![Top(t).slot].free = @ \ {i}]
                 /\ Hold(t, i) /\ UNCHANGED sets
        BY <2>4
      <3>2. slots[Top(t).slot].free \in SUBSET (Nat \ {0})
        BY <1>0, <2>2, SlotFacts DEF SlotType
      <3> DEFINE F == slots[Top(t).slot].free \ {i}
      <3>3. F \in SUBSET (Nat \ {0}) /\ slots' = [slots EXCEPT ![Top(t).slot].free = F]
        BY <3>1, <3>2
      <3> HIDE DEF F
      <3>4. SlotTypes' /\ Len(slots) <= Len(slots')
        <4>1. SlotTypes' /\ Len(slots') = Len(slots)
          BY <1>0, <2>2, <3>3, SlotFieldWrite
        <4>2. QED
          BY <1>0, <4>1, SlotFacts
      <3>5. CacheTypes' /\ CallTypes'
        BY <2>3, <3>1, <3>2, <3>4
      <3>6. QED
        BY <2>1, <3>1, <3>4, <3>5, Frame, SlotsGrow DEF Typing
    <2>5. CASE MakeSet(t) /\ UNCHANGED slots
      <3>1. SetTypes' /\ NewSet \in Nat \ {0} /\ Hold(t, NewSet)
        BY <1>0, <2>5, MakeSetFacts, NewSetFacts DEF MakeSet
      <3>2. CacheTypes' /\ CallTypes'
        BY <2>3, <2>5, <3>1, Frame
      <3>3. QED
        BY <2>1, <2>5, <3>1, <3>2, Frame, SlotsGrow DEF Typing
    <2>6. CASE Pop(t) /\ UNCHANGED <<slots, cache, sets>>
      BY <2>1, <2>2, <2>6, Frame, SlotsGrow, PopTypes DEF Typing
    <2>7. QED
      BY <1>9, <2>4, <2>5, <2>6 DEF Take
  <1>10. ASSUME NEW t \in Threads, CheckGeneration(t) PROVE Typing'
    <2>1. /\ At(t, "check") /\ Goto(t, "fill") /\ UNCHANGED <<regexes, build_mu, map, slots, cache, hit>>
          /\ \/ UNCHANGED sets
             \/ sets' = [sets EXCEPT ![Top(t).set] =
                           [generation |-> slots[Top(t).slot].generation, dfas |-> Null]]
      BY <1>10 DEF CheckGeneration
    <2>2. slots[Top(t).slot].generation \in Nat
      BY <1>0, <2>1, SlotInUse, SlotFacts DEF SlotType
    <2>3. SetTypes'
      BY <1>0, <2>1, <2>2, Names DEF SetTypes, SetType
    <2>4. QED
      BY <2>1, <2>3, Frame, SlotsGrow, GotoTypes, Names DEF Typing
  <1>11. ASSUME NEW t \in Threads, Fill(t) PROVE Typing'
    <2>1. /\ At(t, "fill") /\ Goto(t, "walk") /\ UNCHANGED <<regexes, build_mu, map, slots, cache, hit>>
          /\ sets' = [sets EXCEPT ![Top(t).set].dfas = IF @ = Null THEN program[Top(t).regex] ELSE @]
      BY <1>11 DEF Fill
    <2>2. program[Top(t).regex] \in Nat
      BY <1>0, <2>1, AtFacts DEF RegexTypes
    <2>3. SetTypes'
      BY <1>0, <2>1, <2>2 DEF SetTypes, SetType
    <2>4. QED
      BY <2>1, <2>3, Frame, SlotsGrow, GotoTypes, Names DEF Typing
  <1>12. ASSUME NEW t \in Threads, EndLease(t) PROVE Typing'
    <2>1. /\ At(t, "walk") /\ Pop(t) /\ UNCHANGED <<regexes, build_mu, map, hit>>
          /\ \/ cache' = [cache EXCEPT ![t].busy = FALSE] /\ UNCHANGED <<slots, sets>>
             \/ Give(Top(t).slot, Top(t).set) /\ UNCHANGED cache
      BY <1>12 DEF EndLease
    <2>2. Top(t).slot \in DOMAIN slots
      BY <2>1, SlotInUse
    <2>3. Top(t).set \in Nat \ {0}
      <3>1. /\ Len(calls[t]) \in Depths(t) /\ Top(t) = calls[t][Len(calls[t])]
            /\ Top(t).at = "walk" /\ Top(t).set \in Nat
        BY <2>1, AtFacts
      <3>2. QED
        BY <3>1, Names DEF Leases, LeaseOf
    <2>4. SlotTypes' /\ SetTypes' /\ Len(slots) <= Len(slots')
      <3>1. CASE UNCHANGED <<slots, sets>>
        BY <3>1, Frame
      <3>2. CASE Give(Top(t).slot, Top(t).set)
        <4>1. SlotTypes' /\ SetTypes' /\ Len(slots') = Len(slots)
          BY <1>0, <2>2, <2>3, <3>2, GiveFacts
        <4>2. QED
          BY <1>0, <4>1, SlotFacts
      <3>3. QED
        BY <2>1, <3>1, <3>2
    <2>5. CacheTypes'
      <3>1. CASE cache' = [cache EXCEPT ![t].busy = FALSE] /\ UNCHANGED <<slots, sets>>
        BY <1>0, <3>1 DEF CacheTypes, CacheType
      <3>2. CASE UNCHANGED cache
        BY <2>4, <3>2, SlotsGrow
      <3>3. QED
        BY <2>1, <3>1, <3>2
    <2>6. calls[t] # <<>>
      BY <2>1, AtFacts
    <2>7. QED
      BY <2>1, <2>4, <2>5, <2>6, Frame, SlotsGrow, PopTypes DEF Typing
  <1>13. ASSUME NEW t \in Threads, Unmap(t) PROVE Typing'
    <2>1. /\ At(t, "unmap") /\ map[Top(t).regex] # Null /\ UNCHANGED <<build_mu, slots, sets, cache, hit>>
          /\ \/ Freed(Top(t).regex) /\ Pop(t) /\ UNCHANGED map
             \/ /\ map[Top(t).regex] # Absent
                /\ map' = [map EXCEPT ![Top(t).regex] = Absent]
                /\ calls' = WithTop(t, [Top(t) EXCEPT !.at = "retire", !.slot = map[Top(t).regex]])
                /\ UNCHANGED regexes
      BY <1>13 DEF Unmap
    <2>2. calls[t] # <<>> /\ Top(t) \in CallType /\ Top(t).regex \in Addresses
      BY <2>1, AtFacts
    <2>3. SlotTypes' /\ Len(slots) <= Len(slots') /\ SetTypes'
      BY <2>1, Frame
    <2>4. CASE Freed(Top(t).regex) /\ Pop(t) /\ UNCHANGED map
      <3>1. RegexTypes'
        BY <1>0, <2>1, <2>2, <2>4, Names DEF Freed, RegexTypes
      <3>2. QED
        BY <2>1, <2>2, <2>3, <2>4, <3>1, SlotsGrow, PopTypes DEF Typing
    <2>5. CASE /\ map[Top(t).regex] # Absent
               /\ map' = [map EXCEPT ![Top(t).regex] = Absent]
               /\ calls' = WithTop(t, [Top(t) EXCEPT !.at = "retire", !.slot = map[Top(t).regex]])
               /\ UNCHANGED regexes
      <3>1. MapTypes' /\ map[Top(t).regex] \in Nat /\ map[Top(t).regex] <= Len(slots')
        BY <1>0, <2>1, <2>2, <2>5, Names, SlotFacts DEF MapTypes
      <3> DEFINE c == [Top(t) EXCEPT !.at = "retire", !.slot = map[Top(t).regex]]
      <3>2. c \in CallType /\ c.slot = map[Top(t).regex] /\ calls' = WithTop(t, c)
        BY <2>2, <2>5, <3>1, Names DEF CallType
      <3> HIDE DEF c
      <3>3. CallTypes'
        BY <2>2, <2>3, <3>1, <3>2, WithTopTypes
      <3>4. QED
        BY <2>1, <2>3, <2>5, <3>1, <3>3, Frame, SlotsGrow DEF Typing
    <2>6. QED
      BY <2>1, <2>4, <2>5
  <1>14. ASSUME NEW t \in Threads, Retire(t) PROVE Typing'
    <2>1. SlotTypes' /\ Len(slots) <= Len(slots')
      <3>1. At(t, "retire") /\ slots' = [slots EXCEPT ![Top(t).slot].owner = NoAddress]
        BY <1>14 DEF Retire
      <3>2. Top(t).slot \in DOMAIN slots
        BY <3>1, SlotInUse
      <3>3. SlotTypes' /\ Len(slots') = Len(slots)
        BY <1>0, <3>1, <3>2, SlotFieldWrite
      <3>4. QED
        BY <1>0, <3>3, SlotFacts
    <2>2. CallTypes'
      BY <1>14, <2>1, GotoTypes, Names DEF Retire
    <2>3. QED
      BY <1>14, <2>1, <2>2, Frame, SlotsGrow DEF Typing, Retire
  <1>15. ASSUME NEW t \in Threads, Drain(t) PROVE Typing'
    <2>1. SlotTypes' /\ Len(slots) <= Len(slots')
      <3>1. At(t, "drain") /\ slots' = [slots EXCEPT ![Top(t).slot].free = {}]
        BY <1>15 DEF Drain
      <3>2. Top(t).slot \in DOMAIN slots
        BY <3>1, SlotInUse
      <3>3. SlotTypes' /\ Len(slots') = Len(slots)
        BY <1>0, <3>1, <3>2, SlotEmptied
      <3>4. QED
        BY <1>0, <3>3, SlotFacts
    <2>2. CallTypes'
      BY <1>15, <2>1, GotoTypes, Names DEF Drain
    <2>3. QED
      BY <1>0, <1>15, <2>1, <2>2, Frame, SlotsGrow, DestroyedFacts DEF Typing, Drain
  <1>16. ASSUME NEW t \in Threads, Drop(t) PROVE Typing'
    <2>1. /\ At(t, "drop") /\ Freed(Top(t).regex) /\ Pop(t) /\ UNCHANGED <<build_mu, map, slots, hit>>
          /\ \/ sets' = Destroyed({cache[t].set}) /\ cache' = [cache EXCEPT ![t] = EmptyCache]
             \/ UNCHANGED <<sets, cache>>
      BY <1>16 DEF Drop
    <2>2. calls[t] # <<>> /\ Top(t).regex \in Addresses
      BY <2>1, AtFacts
    <2>3. SlotTypes' /\ Len(slots) <= Len(slots')
      BY <2>1, Frame
    <2>4. RegexTypes'
      BY <1>0, <2>1, <2>2, Names DEF Freed, RegexTypes
    <2>5. SetTypes'
      BY <1>0, <2>1, Frame, DestroyedFacts
    <2>6. CacheTypes'
      BY <1>0, <2>1, Names, SlotFacts DEF CacheTypes
    <2>7. QED
      BY <2>1, <2>2, <2>3, <2>4, <2>5, <2>6, SlotsGrow, PopTypes DEF Typing
  <1>17. ASSUME NEW t \in Threads, ThreadExit(t) PROVE Typing'
    <2>1. CacheGivesBack(t) /\ hit' = [hit EXCEPT ![t] = Null]
          /\ UNCHANGED <<regexes, build_mu, map, calls>>
      BY <1>17 DEF ThreadExit
    <2>2. SlotTypes' /\ SetTypes' /\ CacheTypes' /\ Len(slots) <= Len(slots') /\ Len(slots') \in Nat
      BY <1>0, <2>1, CacheGivesBackFacts, SlotFacts
    <2>3. HitTypes'
      BY <1>0, <2>1, <2>2, Names, SlotFacts DEF HitTypes
    <2>4. QED
      BY <2>1, <2>2, <2>3, Frame, SlotsGrow DEF Typing
  <1>18. ASSUME NEW t \in Threads, NEW a \in Addresses, Search(t, a) PROVE Typing'
    BY <1>18, Frame, SlotsGrow, PushTypes, Names DEF Typing, Search
  <1>19. ASSUME NEW t \in Threads, NEW a \in Addresses, Destroy(t, a) PROVE Typing'
    BY <1>19, Frame, SlotsGrow, PushTypes, Names DEF Typing, Destroy
  <1>20. ASSUME NEW a \in Addresses, Construct(a) PROVE Typing'
    <2>1. RegexTypes'
      BY <1>0, <1>20, BoundsAssumption DEF Construct, RegexTypes
    <2>2. QED
      BY <1>20, <2>1, Frame, SlotsGrow DEF Typing, Construct
  <1>21. ASSUME NEW a \in Addresses, Assign(a) PROVE Typing'
    <2>1. RegexTypes'
      BY <1>0, <1>21, BoundsAssumption DEF Assign, RegexTypes
    <2>2. QED
      BY <1>21, <2>1, Frame, SlotsGrow DEF Typing, Assign
  <1>22. QED
    BY <1>1, <1>2, <1>3, <1>4, <1>5, <1>6, <1>7, <1>8, <1>9, <1>10, <1>11, <1>12, <1>13, <1>14,
       <1>15, <1>16, <1>17, <1>18, <1>19, <1>20, <1>21, NextCases

-----------------------------------------------------------------------------
(* What a step does to the stacks: one call of one thread is changed, ended *)
(* or begun, the others stay as they are.                                   *)

Changed(t, n) ==
  /\ \A u \in Threads : \A d \in Depths(u)' :
       (u = t /\ d = n) \/ (d \in Depths(u) /\ calls'[u][d] = calls[u][d])
  /\ \A u \in Threads : \A d \in Depths(u) :
       (u = t /\ d = n) \/ (d \in Depths(u)' /\ calls'[u][d] = calls[u][d])

LEMMA TopShape ==
  ASSUME Typing, NEW t \in Threads, calls[t] # <<>>, NEW c \in CallType, calls' = WithTop(t, c),
         NEW n, n = Len(calls[t])
  PROVE  Changed(t, n) /\ n \in Depths(t) /\ n \in Depths(t)' /\ calls'[t][n] = c
  <1>1. CallTypes
    BY DEF Typing
  <1>2. /\ \A u \in Threads : Len(calls'[u]) = Len(calls[u])
        /\ \A u \in Threads : \A d \in Depths(u) :
             calls'[u][d] = IF u = t /\ d = Len(calls[t]) THEN c ELSE calls[u][d]
    BY <1>1, WithTopFacts
  <1>3. n \in Depths(t)
    BY <1>1, TopFacts
  <1>4. \A u \in Threads : Depths(u)' = Depths(u)
    BY <1>2 DEF Depths
  <1>5. QED
    BY <1>2, <1>3, <1>4 DEF Changed

\* One call goes from one step to another, on the same regex.
Moves(t, n, from, step) ==
  /\ Changed(t, n) /\ n = Len(calls[t]) /\ n \in Depths(t) /\ n \in Depths(t)'
  /\ calls[t][n] = Top(t) /\ calls[t][n].at = from /\ calls'[t][n].at = step
  /\ calls'[t][n].regex = calls[t][n].regex

LEMMA GotoShape ==
  ASSUME Typing, NEW t \in Threads, NEW from, At(t, from), NEW step \in Steps, Goto(t, step),
         NEW n, n = Len(calls[t])
  PROVE  /\ Moves(t, n, from, step)
         /\ calls'[t][n].slot = calls[t][n].slot
         /\ calls'[t][n].set = calls[t][n].set /\ calls'[t][n].cached = calls[t][n].cached
  <1> DEFINE c == [Top(t) EXCEPT !.at = step]
  <1>1. /\ calls[t] # <<>> /\ Top(t) \in CallType /\ calls[t][n] = Top(t) /\ calls[t][n].at = from
    BY AtFacts
  <1>2. /\ c \in CallType /\ c.slot = Top(t).slot /\ c.regex = Top(t).regex /\ c.at = step
        /\ c.set = Top(t).set /\ c.cached = Top(t).cached
    BY <1>1 DEF CallType
  <1>3. calls' = WithTop(t, c)
    BY DEF Goto
  <1> HIDE DEF c
  <1>4. QED
    BY <1>1, <1>2, <1>3, TopShape DEF Moves

\* It goes on with another slot.
TakesSlot(t, n, from, step, s) ==
  /\ Moves(t, n, from, step)
  /\ calls'[t][n].slot = s
  /\ calls'[t][n].set = calls[t][n].set /\ calls'[t][n].cached = calls[t][n].cached

LEMMA SlotShape ==
  ASSUME Typing, NEW t \in Threads, NEW from, At(t, from), NEW step \in Steps, NEW s \in Nat,
         calls' = WithTop(t, [Top(t) EXCEPT !.at = step, !.slot = s]), NEW n, n = Len(calls[t])
  PROVE  TakesSlot(t, n, from, step, s)
  <1> DEFINE c == [Top(t) EXCEPT !.at = step, !.slot = s]
  <1>1. /\ calls[t] # <<>> /\ Top(t) \in CallType /\ calls[t][n] = Top(t) /\ calls[t][n].at = from
    BY AtFacts
  <1>2. /\ c \in CallType /\ c.slot = s /\ c.regex = Top(t).regex /\ c.at = step
        /\ c.set = Top(t).set /\ c.cached = Top(t).cached
    BY <1>1 DEF CallType
  <1>3. calls' = WithTop(t, c)
    OBVIOUS
  <1> HIDE DEF c
  <1>4. QED
    BY <1>1, <1>2, <1>3, TopShape DEF Moves, TakesSlot

LEMMA LeaseShape ==
  ASSUME Typing, NEW t \in Threads, NEW from, At(t, from),
         calls' = WithTop(t, [Top(t) EXCEPT !.at = "check", !.cached = TRUE,
                                !.slot = cache[t].slot, !.set = cache[t].set]),
         NEW n, n = Len(calls[t])
  PROVE  /\ Moves(t, n, from, "check")
         /\ calls'[t][n].slot = cache[t].slot /\ calls'[t][n].set = cache[t].set
         /\ calls'[t][n].cached = TRUE
  <1> DEFINE c == [Top(t) EXCEPT !.at = "check", !.cached = TRUE,
                                 !.slot = cache[t].slot, !.set = cache[t].set]
  <1>1. /\ calls[t] # <<>> /\ Top(t) \in CallType /\ calls[t][n] = Top(t) /\ calls[t][n].at = from
    BY AtFacts
  <1>2. cache[t].slot \in Nat /\ cache[t].set \in Nat
    BY DEF Typing, CacheTypes, CacheType
  <1>3. /\ c \in CallType /\ c.slot = cache[t].slot /\ c.regex = Top(t).regex /\ c.at = "check"
        /\ c.set = cache[t].set /\ c.cached = TRUE
    BY <1>1, <1>2, Names DEF CallType
  <1>4. calls' = WithTop(t, c)
    OBVIOUS
  <1> HIDE DEF c
  <1>5. QED
    BY <1>1, <1>3, <1>4, TopShape DEF Moves

LEMMA HoldShape ==
  ASSUME Typing, NEW t \in Threads, NEW from, At(t, from), NEW i \in Nat, Hold(t, i),
         NEW n, n = Len(calls[t])
  PROVE  /\ Moves(t, n, from, "check")
         /\ calls'[t][n].slot = calls[t][n].slot /\ calls'[t][n].set = i
         /\ calls'[t][n].cached = ~cache[t].busy
  <1> DEFINE c == [Top(t) EXCEPT !.at = "check", !.set = i, !.cached = ~cache[t].busy]
  <1>1. /\ calls[t] # <<>> /\ Top(t) \in CallType /\ calls[t][n] = Top(t) /\ calls[t][n].at = from
    BY AtFacts
  <1>2. cache[t].busy \in BOOLEAN
    BY DEF Typing, CacheTypes, CacheType
  <1>3. /\ c \in CallType /\ c.slot = Top(t).slot /\ c.regex = Top(t).regex /\ c.at = "check"
        /\ c.set = i /\ c.cached = ~cache[t].busy
    BY <1>1, <1>2, Names DEF CallType
  <1>4. calls' = WithTop(t, c)
    BY DEF Hold
  <1> HIDE DEF c
  <1>5. QED
    BY <1>1, <1>3, <1>4, TopShape DEF Moves

LEMMA PopShape ==
  ASSUME Typing, NEW t \in Threads, NEW from, At(t, from), Pop(t), NEW n, n = Len(calls[t])
  PROVE  /\ Changed(t, n) /\ n \in Depths(t) /\ n \notin Depths(t)' /\ n \in Nat \ {0}
         /\ calls[t][n] = Top(t) /\ calls[t][n].at = from
  <1>1. CallTypes
    BY DEF Typing
  <1>2. /\ calls[t] # <<>> /\ n \in Depths(t) /\ n \in Nat \ {0}
        /\ calls[t][n] = Top(t) /\ calls[t][n].at = from
    BY AtFacts
  <1>3. /\ \A u \in Threads : Len(calls'[u]) = IF u = t THEN n - 1 ELSE Len(calls[u])
        /\ \A u \in Threads : \A d \in Depths(u) : d <= Len(calls'[u]) => calls'[u][d] = calls[u][d]
    BY <1>1, <1>2, PopFacts
  <1>4. ASSUME NEW u \in Threads
        PROVE  /\ Depths(u)' = IF u = t THEN Depths(u) \ {n} ELSE Depths(u)
               /\ Len(calls'[u]) \in Nat
    <2>1. Len(calls[u]) \in Nat /\ Len(calls'[u]) = IF u = t THEN n - 1 ELSE Len(calls[u])
      BY <1>1, <1>2, <1>3, TopFacts
    <2>2. CASE u = t
      BY <1>2, <2>1, <2>2 DEF Depths
    <2>3. CASE u # t
      BY <2>1, <2>3 DEF Depths
    <2>4. QED
      BY <2>2, <2>3
  <1>5. ASSUME NEW u \in Threads, NEW d \in Depths(u)' PROVE calls'[u][d] = calls[u][d]
    <2>1. d \in Depths(u)
      BY <1>4
    <2>2. d <= Len(calls'[u])
      BY <1>4 DEF Depths
    <2>3. QED
      BY <1>3, <2>1, <2>2
  <1>6. QED
    BY <1>2, <1>4, <1>5 DEF Changed

LEMMA PushShape ==
  ASSUME Typing, NEW t \in Threads, NEW a \in Addresses, NEW step \in Steps, Push(t, a, step),
         NEW n, n = Len(calls[t]) + 1
  PROVE  /\ Changed(t, n) /\ n \notin Depths(t) /\ n \in Depths(t)' /\ n \in Nat \ {0}
         /\ calls'[t][n] = NewCall(a, step)
  <1>1. CallTypes
    BY DEF Typing
  <1>2. Len(calls[t]) \in Nat /\ n \in Nat \ {0} /\ n \notin Depths(t)
    BY <1>1, TopFacts DEF Depths
  <1>3. /\ \A u \in Threads : Len(calls'[u]) = IF u = t THEN Len(calls[t]) + 1 ELSE Len(calls[u])
        /\ \A u \in Threads : \A d \in Depths(u) : calls'[u][d] = calls[u][d]
        /\ calls'[t][n] = NewCall(a, step)
    BY <1>1, PushFacts
  <1>4. ASSUME NEW u \in Threads
        PROVE  /\ Depths(u)' = IF u = t THEN Depths(u) \cup {n} ELSE Depths(u)
               /\ Len(calls'[u]) \in Nat
    <2>1. Len(calls[u]) \in Nat /\ Len(calls'[u]) = IF u = t THEN n ELSE Len(calls[u])
      BY <1>1, <1>2, <1>3, TopFacts
    <2>2. CASE u = t
      BY <1>2, <2>1, <2>2 DEF Depths
    <2>3. CASE u # t
      BY <2>1, <2>3 DEF Depths
    <2>4. QED
      BY <2>2, <2>3
  <1>5. QED
    BY <1>2, <1>3, <1>4 DEF Changed

-----------------------------------------------------------------------------
(* The phases of the calls are kept.                                       *)

\* A step that changes no regex and no mutex, and keeps a call in its phase.
LEMMA PhasesFrame ==
  ASSUME Typing, Phases, NEW t \in Threads, NEW n, Changed(t, n), UNCHANGED <<regexes, build_mu>>,
         n \in Depths(t)' =>
           /\ n \in Depths(t) /\ calls'[t][n].regex = calls[t][n].regex
           /\ calls'[t][n].at \in Leasing => calls[t][n].at \in Leasing
           /\ calls'[t][n].at \in Building => calls[t][n].at \in Building
           /\ calls'[t][n].at \in Erasing => calls[t][n].at \in Erasing
  PROVE  Phases'
  <1>1. ASSUME NEW u \in Threads, NEW d \in Depths(u)'
        PROVE  /\ d \in Depths(u) /\ calls'[u][d].regex = calls[u][d].regex
               /\ calls'[u][d].at \in Leasing => calls[u][d].at \in Leasing
               /\ calls'[u][d].at \in Building => calls[u][d].at \in Building
               /\ calls'[u][d].at \in Erasing => calls[u][d].at \in Erasing
    BY <1>1 DEF Changed
  <1>2. ASSUME NEW u \in Threads, NEW d \in Depths(u)' PROVE Phase(u, d)'
    BY <1>1, <1>2 DEF Phases, Phase, regexes
  <1>3. ASSUME NEW u \in Threads, NEW d \in Depths(u)', calls'[u][d].at \in Erasing
        PROVE  Alone(u, d)'
    BY <1>1, <1>3 DEF Phases, Alone
  <1>4. QED
    BY <1>2, <1>3 DEF Phases, regexes

\* A regex that is in no other call is freed.
LEMMA PhasesFreed ==
  ASSUME Typing, Phases, NEW t \in Threads, NEW from \in Erasing, At(t, from),
         Freed(Top(t).regex), Pop(t), UNCHANGED build_mu
  PROVE  Phases'
  <1> DEFINE n == Len(calls[t])
             a == Top(t).regex
  <1>1. /\ Changed(t, n) /\ n \in Depths(t) /\ n \notin Depths(t)' /\ calls[t][n] = Top(t)
        /\ calls[t][n].at = from
    BY PopShape
  <1>2. Alone(t, n)
    BY <1>1 DEF Phases
  <1>3. ASSUME NEW u \in Threads, NEW d \in Depths(u)'
        PROVE  d \in Depths(u) /\ calls'[u][d] = calls[u][d] /\ calls[u][d].regex # a
    BY <1>1, <1>2, <1>3 DEF Changed, Alone
  <1>4. /\ program' = [program EXCEPT ![a] = Null] /\ ready' = [ready EXCEPT ![a] = FALSE]
        /\ a \in Addresses /\ program \in [Addresses -> 0 .. compiled] /\ ready \in [Addresses -> BOOLEAN]
    BY AtFacts DEF Freed, Typing, RegexTypes
  <1> HIDE DEF n, a
  <1>5. ASSUME NEW u \in Threads, NEW d \in Depths(u)' PROVE Phase(u, d)'
    <2>1. calls[u][d].regex \in Addresses
      BY <1>3, TopFacts DEF Typing, CallType
    <2>2. QED
      BY <1>3, <1>4, <2>1 DEF Phases, Phase
  <1>6. ASSUME NEW u \in Threads, NEW d \in Depths(u)', calls'[u][d].at \in Erasing
        PROVE  Alone(u, d)'
    BY <1>3, <1>6 DEF Phases, Alone
  <1>7. \A b \in Addresses : ready'[b] => program'[b] # Null
    BY <1>4 DEF Phases
  <1>8. QED
    BY <1>5, <1>6, <1>7 DEF Phases

\* A thread that builds is at its one call that does, and holds the stripe.
LEMMA BuilderFacts ==
  ASSUME Typing, Phases, NEW t \in Threads, NEW step \in Building, At(t, step)
  PROVE  \A u \in Threads : \A d \in Depths(u) :
           calls[u][d].at \in Building /\ Stripe[calls[u][d].regex] = Stripe[Top(t).regex]
             => u = t /\ d = Len(calls[t])
  <1>1. Len(calls[t]) \in Depths(t) /\ Top(t) = calls[t][Len(calls[t])] /\ Top(t).at = step
    BY AtFacts
  <1>2. build_mu[Stripe[Top(t).regex]] = t
    BY <1>1 DEF Phases, Phase
  <1>3. ASSUME NEW u \in Threads, NEW d \in Depths(u), calls[u][d].at \in Building,
               Stripe[calls[u][d].regex] = Stripe[Top(t).regex]
        PROVE  u = t /\ d = Len(calls[t])
    <2>1. build_mu[Stripe[calls[u][d].regex]] = u
      BY <1>3 DEF Phases, Phase
    <2>2. u = t
      BY <1>2, <1>3, <2>1
    <2>3. calls[u][d].at # "walk"
      BY <1>3 DEF Building
    <2>4. QED
      BY <2>2, <2>3, OnTop DEF Typing
  <1>4. QED
    BY <1>3

\* A call that goes from a phase to another with no regex or mutex changed, taken or freed.
LEMMA PhasesMove ==
  ASSUME Typing, Phases, NEW t \in Threads, NEW n, NEW from, NEW step, Moves(t, n, from, step),
         UNCHANGED <<regexes, build_mu>>,
         \/ from \in Leasing /\ step \in Leasing
         \/ from \in Building /\ step \in Building
         \/ from \in Erasing /\ step \in Erasing
  PROVE  Phases'
  <1>1. Leasing \cap Building = {} /\ Leasing \cap Erasing = {} /\ Building \cap Erasing = {}
    BY DEF Leasing, Building, Erasing, Holding
  <1>2. /\ step \in Leasing => from \in Leasing
        /\ step \in Building => from \in Building
        /\ step \in Erasing => from \in Erasing
    BY <1>1
  <1>3. QED
    BY <1>2, PhasesFrame DEF Moves

LEMMA PhasesPop ==
  ASSUME Typing, Phases, NEW t \in Threads, NEW from, At(t, from), Pop(t),
         UNCHANGED <<regexes, build_mu>>
  PROVE  Phases'
  <1> DEFINE n == Len(calls[t])
  <1>1. Changed(t, n) /\ n \notin Depths(t)'
    BY PopShape
  <1>2. QED
    BY <1>1, PhasesFrame

\* The stripe is freed by the call that holds it, which then builds no more.
LEMMA PhasesUnlocked ==
  ASSUME Typing, Phases, NEW t \in Threads, NEW from \in Building, At(t, from),
         NEW n, n = Len(calls[t]), Changed(t, n), UnlockBuild(t),
         n \in Depths(t)' =>
           calls'[t][n].regex = Top(t).regex /\ calls'[t][n].at = "lease" /\ ready'[Top(t).regex],
         UNCHANGED program,
         \/ UNCHANGED ready
         \/ ready' = [ready EXCEPT ![Top(t).regex] = TRUE]
  PROVE  Phases'
  <1> DEFINE a == Top(t).regex
  <1>1. /\ n \in Depths(t) /\ calls[t][n] = Top(t) /\ calls[t][n].at = from /\ a \in Addresses
        /\ program \in [Addresses -> 0 .. compiled] /\ ready \in [Addresses -> BOOLEAN]
        /\ build_mu \in [Stripes -> Threads \cup {NoThread}]
    BY AtFacts DEF Typing, RegexTypes
  <1>2. \A u \in Threads : \A d \in Depths(u) :
          calls[u][d].at \in Building /\ Stripe[calls[u][d].regex] = Stripe[a] => u = t /\ d = n
    BY BuilderFacts
  <1>3. build_mu' = [build_mu EXCEPT ![Stripe[a]] = NoThread]
    BY DEF UnlockBuild
  <1>4. program[a] # Null
    BY <1>1 DEF Phases, Phase
  <1>5. \A b \in Addresses : ready[b] => ready'[b]
    BY <1>1
  <1>6. \A b \in Addresses : b # a => ready'[b] = ready[b]
    BY <1>1
  <1> HIDE DEF a
  <1>7. ASSUME NEW u \in Threads, NEW d \in Depths(u)', ~(u = t /\ d = n)
        PROVE  /\ d \in Depths(u) /\ calls'[u][d] = calls[u][d] /\ calls[u][d].regex \in Addresses
               /\ calls[u][d].at \in Building => Stripe[calls[u][d].regex] # Stripe[a]
    <2>1. d \in Depths(u) /\ calls'[u][d] = calls[u][d]
      BY <1>7 DEF Changed
    <2>2. QED
      BY <1>2, <1>7, <2>1, TopFacts DEF Typing, CallType
  <1>8. ASSUME NEW u \in Threads, NEW d \in Depths(u)', ~(u = t /\ d = n) PROVE Phase(u, d)'
    <2>1. Phase(u, d)
      BY <1>7, <1>8 DEF Phases
    <2>2. CASE calls[u][d].at \in Building
      <3>1. calls[u][d].regex # a /\ Stripe[calls[u][d].regex] \in Stripes
        BY <1>7, <1>8, <2>2, StripeAssumption
      <3>2. calls[u][d].at \notin Leasing
        BY <2>2 DEF Building, Leasing, Holding
      <3>3. QED
        BY <1>1, <1>3, <1>6, <1>7, <1>8, <2>1, <2>2, <3>1, <3>2 DEF Phase
    <2>3. CASE calls[u][d].at \notin Building
      BY <1>5, <1>7, <1>8, <2>1, <2>3 DEF Phase
    <2>4. QED
      BY <2>2, <2>3
  <1>9. ASSUME n \in Depths(t)' PROVE Phase(t, n)' /\ calls'[t][n].at \notin Erasing
    <2>1. calls'[t][n].regex = a /\ calls'[t][n].at = "lease" /\ ready'[a]
      BY <1>9 DEF a
    <2>2. QED
      BY <1>4, <2>1 DEF Phase, Building, Erasing
  <1>10. ASSUME NEW u \in Threads, NEW d \in Depths(u)', calls'[u][d].at \in Erasing
         PROVE  Alone(u, d)'
    <2>1. ~(u = t /\ d = n)
      BY <1>9, <1>10
    <2>2. Alone(u, d)
      BY <1>7, <1>10, <2>1 DEF Phases
    <2>3. calls[u][d].regex # a
      BY <1>1, <2>1, <2>2 DEF Alone, a
    <2>4. ASSUME NEW v \in Threads, NEW e \in Depths(v)', calls'[v][e].regex = calls'[u][d].regex
          PROVE  v = u /\ e = d
      BY <1>7, <1>9, <1>10, <2>1, <2>2, <2>3, <2>4 DEF Alone, a
    <2>5. QED
      BY <2>4 DEF Alone
  <1>11. \A b \in Addresses : ready'[b] => program'[b] # Null
    BY <1>4, <1>6 DEF Phases
  <1>12. QED
    BY <1>8, <1>9, <1>10, <1>11 DEF Phases

\* A call begun on a regex in use by no call, or by none that erases it.
LEMMA PhasesPush ==
  ASSUME Typing, Phases, NEW t \in Threads, NEW a \in Addresses, NEW step \in Steps, Push(t, a, step),
         program[a] # Null, UNCHANGED <<regexes, build_mu>>,
         step \in Leasing => ready[a], step \notin Building,
         step \in Erasing => ~InUse(a), ~Ending(a)
  PROVE  Phases'
  <1> DEFINE n == Len(calls[t]) + 1
  <1>1. Changed(t, n) /\ n \notin Depths(t) /\ n \in Depths(t)' /\ calls'[t][n] = NewCall(a, step)
    BY PushShape
  <1> HIDE DEF n
  <1>2. calls'[t][n].regex = a /\ calls'[t][n].at = step
    BY <1>1 DEF NewCall
  <1>3. ASSUME NEW u \in Threads, NEW d \in Depths(u)
        PROVE  /\ calls[u][d].at \in Erasing => calls[u][d].regex # a
               /\ step \in Erasing => calls[u][d].regex # a
    <2>1. calls[u][d] \in CallsOf(u)
      <3>1. calls[u] \in Seq(CallType) /\ d \in DOMAIN calls[u]
        BY LenProperties DEF Typing, CallTypes, Depths
      <3>2. QED
        BY <3>1 DEF CallsOf, ToSet
    <2>2. QED
      BY <2>1 DEF Ending, InUse, Erasing
  <1>4. ASSUME NEW u \in Threads, NEW d \in Depths(u)' PROVE Phase(u, d)'
    BY <1>1, <1>2, <1>4 DEF Phases, Phase, Changed, regexes
  <1>5. ASSUME NEW u \in Threads, NEW d \in Depths(u)', calls'[u][d].at \in Erasing
        PROVE  Alone(u, d)'
    BY <1>1, <1>2, <1>3, <1>5 DEF Phases, Alone, Changed
  <1>6. QED
    BY <1>4, <1>5 DEF Phases, regexes

LEMMA PhasesStep ==
  ASSUME Typing, Phases, Ownership, Leases, Next
  PROVE  Phases'
  <1>0. /\ {"lease", "give_back", "slot", "take", "check", "fill", "walk"} \subseteq Leasing
        /\ {"resolve", "bump", "clear", "publish"} \subseteq Building
        /\ {"unmap", "retire", "drain", "drop"} \subseteq Erasing
    BY DEF Leasing, Building, Erasing, Holding
  <1>1. ASSUME NEW t \in Threads, LockBuild(t) PROVE Phases'
    <2> DEFINE m == Stripe[Top(t).regex]
    <2>0. PICK n : n = Len(calls[t])
      OBVIOUS
    <2>1. /\ At(t, "lock") /\ build_mu[m] = NoThread /\ UNCHANGED regexes
          /\ \/ ready[Top(t).regex] /\ Goto(t, "lease") /\ UNCHANGED build_mu
             \/ /\ ~ready[Top(t).regex] /\ Goto(t, "resolve")
                /\ build_mu' = [build_mu EXCEPT ![m] = t]
      BY <1>1 DEF LockBuild
    <2>2. /\ Top(t).regex \in Addresses /\ m \in Stripes
          /\ build_mu \in [Stripes -> Threads \cup {NoThread}]
      BY <2>1, AtFacts, StripeAssumption DEF Typing, RegexTypes
    <2>3. PICK step \in {"lease", "resolve"} :
            /\ Moves(t, n, "lock", step)
            /\ step = "lease" => ready[Top(t).regex] /\ UNCHANGED build_mu
            /\ step = "resolve" => ~ready[Top(t).regex] /\ build_mu' = [build_mu EXCEPT ![m] = t]
      BY <2>0, <2>1, GotoShape, Names
    <2>4. /\ calls'[t][n].regex = Top(t).regex /\ calls'[t][n].at = step /\ n \in Depths(t)
          /\ calls[t][n] = Top(t) /\ calls[t][n].at = "lock" /\ Changed(t, n)
      BY <2>3 DEF Moves
    <2>5. ASSUME NEW u \in Threads, NEW d \in Depths(u)', ~(u = t /\ d = n) PROVE Phase(u, d)'
      <3>1. d \in Depths(u) /\ calls'[u][d] = calls[u][d] /\ Phase(u, d)
        BY <2>4, <2>5 DEF Changed, Phases
      <3>2. calls[u][d].regex \in Addresses
        BY <3>1, TopFacts DEF Typing, CallType
      <3>3. calls[u][d].at \in Building => Stripe[calls[u][d].regex] # m
        BY <2>1, <3>1, NamesAssumption DEF Phase
      <3>4. calls[u][d].at \in Building =>
              build_mu'[Stripe[calls[u][d].regex]] = build_mu[Stripe[calls[u][d].regex]]
        <4>1. Stripe[calls[u][d].regex] \in Stripes
          BY <3>2, StripeAssumption
        <4>2. QED
          BY <2>2, <2>3, <3>3, <4>1
      <3>5. UNCHANGED <<program, ready>>
        BY <2>1 DEF regexes
      <3>6. QED
        BY <3>1, <3>4, <3>5 DEF Phase
    <2>6. Phase(t, n)'
      <3>1. program[Top(t).regex] # Null
        BY <2>4 DEF Phases, Phase
      <3>2. step \in Leasing => ready'[Top(t).regex]
        BY <2>1, <2>3 DEF regexes, Leasing, Holding
      <3>3. step \in Building => ~ready'[Top(t).regex] /\ build_mu'[m] = t
        BY <2>1, <2>2, <2>3 DEF regexes, Building
      <3>4. UNCHANGED program
        BY <2>1 DEF regexes
      <3>5. QED
        BY <2>4, <3>1, <3>2, <3>3, <3>4 DEF Phase
    <2>7. ASSUME NEW u \in Threads, NEW d \in Depths(u)', calls'[u][d].at \in Erasing
          PROVE  Alone(u, d)'
      <3>1. ~(u = t /\ d = n)
        BY <2>4, <2>7 DEF Erasing
      <3>2. QED
        BY <2>4, <2>7, <3>1 DEF Phases, Alone, Changed
    <2>8. \A a \in Addresses : ready'[a] => program'[a] # Null
      BY <2>1 DEF Phases, regexes
    <2>9. \A u \in Threads : \A d \in Depths(u)' : Phase(u, d)'
      BY <2>5, <2>6
    <2>10. QED
      BY <2>7, <2>8, <2>9 DEF Phases
  <1>2. ASSUME NEW t \in Threads, Resolve(t) PROVE Phases'
    <2>1. At(t, "resolve") /\ UNCHANGED regexes
      BY <1>2 DEF Resolve
    <2>2. CASE UnlockBuild(t) /\ Pop(t)
      <3> DEFINE n == Len(calls[t])
      <3>1. Changed(t, n) /\ n \notin Depths(t)'
        BY <2>1, <2>2, PopShape
      <3>2. QED
        BY <1>0, <2>1, <2>2, <3>1, PhasesUnlocked DEF regexes
    <2>3. CASE /\ UNCHANGED build_mu
               /\ \E s \in Slots : calls' = WithTop(t, [Top(t) EXCEPT !.at = "bump", !.slot = s])
      <3>1. PICK s \in Slots : calls' = WithTop(t, [Top(t) EXCEPT !.at = "bump", !.slot = s])
        BY <2>3
      <3>2. s \in Nat
        BY BoundsAssumption DEF Slots
      <3>3. Moves(t, Len(calls[t]), "resolve", "bump")
        BY <2>1, <3>1, <3>2, SlotShape, Names DEF TakesSlot
      <3>4. QED
        BY <1>0, <2>1, <2>3, <3>3, PhasesMove
    <2>4. QED
      BY <1>2, <2>2, <2>3 DEF Resolve
  <1>3. ASSUME NEW t \in Threads, Bump(t) PROVE Phases'
    <2>1. Moves(t, Len(calls[t]), "bump", "clear")
      BY <1>3, GotoShape, Names DEF Bump
    <2>2. QED
      BY <1>0, <1>3, <2>1, PhasesMove DEF Bump
  <1>4. ASSUME NEW t \in Threads, ClearPool(t) PROVE Phases'
    <2>1. Moves(t, Len(calls[t]), "clear", "publish")
      BY <1>4, GotoShape, Names DEF ClearPool
    <2>2. QED
      BY <1>0, <1>4, <2>1, PhasesMove DEF ClearPool
  <1>5. ASSUME NEW t \in Threads, Publish(t) PROVE Phases'
    <2>1. /\ At(t, "publish") /\ UnlockBuild(t) /\ UNCHANGED program
          /\ ready' = [ready EXCEPT ![Top(t).regex] = TRUE]
          /\ calls' = WithTop(t, [Top(t) EXCEPT !.at = "lease", !.slot = Null])
      BY <1>5 DEF Publish
    <2>2. Null \in Nat
      BY DEF Null
    <2>3. Moves(t, Len(calls[t]), "publish", "lease")
      BY <2>1, <2>2, SlotShape, Names DEF TakesSlot
    <2>4. Top(t).regex \in Addresses /\ ready \in [Addresses -> BOOLEAN]
      BY <2>1, AtFacts DEF Typing, RegexTypes
    <2>5. ready'[Top(t).regex]
      BY <2>1, <2>4
    <2>6. "publish" \in Building
      BY <1>0
    <2>7. QED
      BY <2>1, <2>3, <2>5, <2>6, PhasesUnlocked DEF Moves
  <1>6. ASSUME NEW t \in Threads, Lease(t) PROVE Phases'
    <2>1. /\ At(t, "lease") /\ UNCHANGED <<regexes, build_mu>>
          /\ \/ Goto(t, "slot") \/ Goto(t, "give_back")
             \/ calls' = WithTop(t, [Top(t) EXCEPT !.at = "check", !.cached = TRUE,
                                      !.slot = cache[t].slot, !.set = cache[t].set])
      BY <1>6 DEF Lease
    <2>2. \E step \in {"slot", "give_back", "check"} : Moves(t, Len(calls[t]), "lease", step)
      BY <2>1, GotoShape, LeaseShape, Names
    <2>3. QED
      BY <1>0, <2>1, <2>2, PhasesMove
  <1>7. ASSUME NEW t \in Threads, GiveBack(t) PROVE Phases'
    <2>1. Moves(t, Len(calls[t]), "give_back", "slot")
      BY <1>7, GotoShape, Names DEF GiveBack
    <2>2. QED
      BY <1>0, <1>7, <2>1, PhasesMove DEF GiveBack
  <1>8. ASSUME NEW t \in Threads, SlotFor(t) PROVE Phases'
    <2>1. At(t, "slot") /\ UNCHANGED <<regexes, build_mu>>
      BY <1>8 DEF SlotFor
    <2>2. CASE \E s \in Slots : calls' = WithTop(t, [Top(t) EXCEPT !.at = "take", !.slot = s])
      <3>1. PICK s \in Slots : calls' = WithTop(t, [Top(t) EXCEPT !.at = "take", !.slot = s])
        BY <2>2
      <3>2. s \in Nat
        BY BoundsAssumption DEF Slots
      <3>3. Moves(t, Len(calls[t]), "slot", "take")
        BY <2>1, <3>1, <3>2, SlotShape, Names DEF TakesSlot
      <3>4. QED
        BY <1>0, <2>1, <3>3, PhasesMove
    <2>3. CASE Pop(t)
      BY <2>1, <2>3, PhasesPop
    <2>4. QED
      BY <1>8, <2>2, <2>3 DEF SlotFor
  <1>9. ASSUME NEW t \in Threads, Take(t) PROVE Phases'
    <2>1. At(t, "take") /\ UNCHANGED <<regexes, build_mu>>
      BY <1>9 DEF Take
    <2>2. (\E i \in Nat : Hold(t, i)) \/ Pop(t)
      <3>1. slots[Top(t).slot].free \subseteq Nat
        BY <2>1, SlotInUse, SlotFacts DEF Typing, SlotType
      <3>2. NewSet \in Nat
        BY NewSetFacts DEF Typing
      <3>3. QED
        BY <1>9, <3>1, <3>2 DEF Take, MakeSet
    <2>3. CASE \E i \in Nat : Hold(t, i)
      <3>1. Moves(t, Len(calls[t]), "take", "check")
        BY <2>1, <2>3, HoldShape
      <3>2. QED
        BY <1>0, <2>1, <3>1, PhasesMove
    <2>4. QED
      BY <2>1, <2>2, <2>3, PhasesPop
  <1>10. ASSUME NEW t \in Threads, CheckGeneration(t) PROVE Phases'
    <2>1. Moves(t, Len(calls[t]), "check", "fill")
      BY <1>10, GotoShape, Names DEF CheckGeneration
    <2>2. QED
      BY <1>0, <1>10, <2>1, PhasesMove DEF CheckGeneration
  <1>11. ASSUME NEW t \in Threads, Fill(t) PROVE Phases'
    <2>1. Moves(t, Len(calls[t]), "fill", "walk")
      BY <1>11, GotoShape, Names DEF Fill
    <2>2. QED
      BY <1>0, <1>11, <2>1, PhasesMove DEF Fill
  <1>12. ASSUME NEW t \in Threads, EndLease(t) PROVE Phases'
    BY <1>12, PhasesPop DEF EndLease
  <1>13. ASSUME NEW t \in Threads, Unmap(t) PROVE Phases'
    <2>1. At(t, "unmap") /\ UNCHANGED build_mu /\ map[Top(t).regex] # Null
      BY <1>13 DEF Unmap
    <2>2. CASE Freed(Top(t).regex) /\ Pop(t)
      <3>1. "unmap" \in Erasing
        BY <1>0
      <3>2. QED
        BY <2>1, <2>2, <3>1, PhasesFreed
    <2>3. CASE /\ calls' = WithTop(t, [Top(t) EXCEPT !.at = "retire", !.slot = map[Top(t).regex]])
               /\ map[Top(t).regex] # Absent /\ UNCHANGED regexes
      <3>1. map[Top(t).regex] \in Nat
        BY <2>1, <2>3, AtFacts, SlotFacts, Names DEF Typing, MapTypes
      <3>2. Moves(t, Len(calls[t]), "unmap", "retire")
        BY <2>1, <2>3, <3>1, SlotShape, Names DEF TakesSlot
      <3>3. QED
        BY <1>0, <2>1, <2>3, <3>2, PhasesMove
    <2>4. QED
      BY <1>13, <2>2, <2>3 DEF Unmap
  <1>14. ASSUME NEW t \in Threads, Retire(t) PROVE Phases'
    <2>1. Moves(t, Len(calls[t]), "retire", "drain")
      BY <1>14, GotoShape, Names DEF Retire
    <2>2. QED
      BY <1>0, <1>14, <2>1, PhasesMove DEF Retire
  <1>15. ASSUME NEW t \in Threads, Drain(t) PROVE Phases'
    <2>1. Moves(t, Len(calls[t]), "drain", "drop")
      BY <1>15, GotoShape, Names DEF Drain
    <2>2. QED
      BY <1>0, <1>15, <2>1, PhasesMove DEF Drain
  <1>16. ASSUME NEW t \in Threads, Drop(t) PROVE Phases'
    <2>1. "drop" \in Erasing
      BY <1>0
    <2>2. QED
      BY <1>16, <2>1, PhasesFreed DEF Drop
  <1>17. ASSUME NEW t \in Threads, ThreadExit(t) PROVE Phases'
    BY <1>17 DEF ThreadExit, regexes, Phases, Phase, Alone, Depths
  <1>18. ASSUME NEW t \in Threads, NEW a \in Addresses, Search(t, a) PROVE Phases'
    <2>1. /\ program[a] # Null /\ ~Ending(a) /\ UNCHANGED <<regexes, build_mu>>
          /\ Push(t, a, IF ready[a] THEN "lease" ELSE "lock")
      BY <1>18 DEF Search
    <2>2. PICK step \in {"lease", "lock"} : Push(t, a, step) /\ (step = "lease" => ready[a])
      BY <2>1
    <2>3. step \notin Building /\ step \notin Erasing /\ step \in Steps /\ (step \in Leasing => ready[a])
      BY <2>2, Names DEF Building, Erasing, Leasing, Holding
    <2>4. QED
      BY <2>1, <2>2, <2>3, PhasesPush
  <1>19. ASSUME NEW t \in Threads, NEW a \in Addresses, Destroy(t, a) PROVE Phases'
    <2>1. /\ program[a] # Null /\ ~InUse(a) /\ UNCHANGED <<regexes, build_mu>> /\ Push(t, a, "unmap")
      BY <1>19 DEF Destroy
    <2>2. "unmap" \notin Building /\ "unmap" \notin Leasing /\ "unmap" \in Steps
      BY Names DEF Building, Leasing, Holding
    <2>3. ~Ending(a)
      BY <2>1 DEF InUse, Ending
    <2>4. QED
      BY <2>1, <2>2, <2>3, PhasesPush
  <1>20. ASSUME NEW a \in Addresses, Construct(a) PROVE Phases'
    <2>1. /\ program[a] = Null /\ program' = [program EXCEPT ![a] = compiled + 1]
          /\ UNCHANGED <<ready, build_mu, calls>> /\ compiled + 1 # Null
          /\ program \in [Addresses -> 0 .. compiled]
      BY <1>20, Names DEF Construct, Typing, RegexTypes
    <2>2. ASSUME NEW u \in Threads, NEW d \in Depths(u)
          PROVE  calls[u][d].regex \in Addresses /\ calls[u][d].regex # a
      BY <2>1, TopFacts DEF Phases, Phase, Typing, CallType
    <2>3. QED
      BY <2>1, <2>2 DEF Phases, Phase, Alone, Depths
  <1>21. ASSUME NEW a \in Addresses, Assign(a) PROVE Phases'
    <2>1. /\ program[a] # Null /\ program' = [program EXCEPT ![a] = compiled + 1]
          /\ ready' = [ready EXCEPT ![a] = FALSE]
          /\ UNCHANGED <<build_mu, calls>> /\ compiled + 1 # Null /\ ~InUse(a)
          /\ program \in [Addresses -> 0 .. compiled] /\ ready \in [Addresses -> BOOLEAN]
      BY <1>21, Names DEF Assign, Typing, RegexTypes
    <2>2. ASSUME NEW u \in Threads, NEW d \in Depths(u)
          PROVE  calls[u][d].regex \in Addresses /\ calls[u][d].regex # a
      <3>1. calls[u] \in Seq(CallType) /\ d \in DOMAIN calls[u]
        BY LenProperties DEF Typing, CallTypes, Depths
      <3>2. calls[u][d] \in CallsOf(u)
        BY <3>1 DEF CallsOf, ToSet
      <3>3. QED
        BY <2>1, <3>2, TopFacts DEF Typing, CallType, InUse
    <2>3. \A u \in Threads : Depths(u)' = Depths(u)
      BY <2>1 DEF Depths
    <2>4. ASSUME NEW u \in Threads, NEW d \in Depths(u) PROVE Phase(u, d)'
      BY <2>1, <2>2 DEF Phases, Phase
    <2>5. ASSUME NEW u \in Threads, NEW d \in Depths(u), calls[u][d].at \in Erasing
          PROVE  Alone(u, d)'
      BY <2>1, <2>3, <2>5 DEF Phases, Alone
    <2>6. \A b \in Addresses : ready'[b] => program'[b] # Null
      BY <2>1 DEF Phases
    <2>7. QED
      BY <2>1, <2>3, <2>4, <2>5, <2>6 DEF Phases
  <1>22. QED
    BY <1>1, <1>2, <1>3, <1>4, <1>5, <1>6, <1>7, <1>8, <1>9, <1>10, <1>11, <1>12, <1>13, <1>14,
       <1>15, <1>16, <1>17, <1>18, <1>19, <1>20, <1>21, NextCases

-----------------------------------------------------------------------------
(* The slots' owners are kept.                                             *)

\* A step that changes no owner and no entry, and frees no regex that owns a slot.
LEMMA OwnershipFrame ==
  ASSUME Typing, Ownership, NEW t \in Threads, NEW n, Changed(t, n),
         UNCHANGED map, DOMAIN slots' = DOMAIN slots,
         \A s \in DOMAIN slots :
           /\ slots'[s].owner = slots[s].owner
           /\ slots[s].owner = NoAddress => slots'[s].free \subseteq slots[s].free
           /\ slots[s].owner # NoAddress => program'[slots[s].owner] # Null,
         n \in Depths(t)' => SlotOf(t, n)',
         n \in Depths(t) => /\ calls[t][n].at # "retire"
                            /\ calls[t][n].at = "drain" => slots'[calls[t][n].slot].free = {}
  PROVE  Ownership'
  <1>1. ASSUME NEW u \in Threads, NEW d \in Depths(u)', ~(u = t /\ d = n)
        PROVE  SlotOf(u, d)'
    <2>1. d \in Depths(u) /\ calls'[u][d] = calls[u][d] /\ SlotOf(u, d)
      BY <1>1 DEF Changed, Ownership
    <2>2. calls[u][d].slot # Null => calls[u][d].slot \in DOMAIN slots
      <3>1. calls[u][d].slot \in Nat /\ calls[u][d].slot <= Len(slots)
        BY <2>1, TopFacts DEF Typing, CallTypes, CallType
      <3>2. QED
        BY <3>1, SlotFacts, Names DEF Typing
    <2>3. QED
      BY <2>1, <2>2 DEF SlotOf
  <1>2. \A a \in Addresses : map'[a] \in DOMAIN slots' => slots'[map'[a]].owner = a
    BY DEF Ownership
  <1>3. ASSUME NEW s \in DOMAIN slots, WorkedOn("retire", s) PROVE WorkedOn("retire", s)'
    BY <1>3 DEF WorkedOn, Changed
  <1>4. ASSUME NEW s \in DOMAIN slots', slots'[s].owner # NoAddress
        PROVE  /\ program'[slots'[s].owner] # Null
               /\ map'[slots'[s].owner] = s \/ WorkedOn("retire", s)'
    BY <1>3, <1>4 DEF Ownership
  <1>5. ASSUME NEW s \in DOMAIN slots', slots'[s].owner = NoAddress
        PROVE  slots'[s].free = {} \/ WorkedOn("drain", s)'
    <2>1. s \in DOMAIN slots /\ slots[s].owner = NoAddress
      BY <1>5
    <2>2. slots[s].free = {} \/ WorkedOn("drain", s)
      BY <2>1 DEF Ownership
    <2>3. CASE WorkedOn("drain", s)
      <3>0. PICK u \in Threads : \E d \in Depths(u) :
              calls[u][d].at = "drain" /\ calls[u][d].slot = s
        BY <2>3 DEF WorkedOn
      <3>1. PICK d \in Depths(u) : calls[u][d].at = "drain" /\ calls[u][d].slot = s
        BY <3>0
      <3>2. CASE u = t /\ d = n
        BY <3>1, <3>2
      <3>3. CASE ~(u = t /\ d = n)
        BY <3>1, <3>3 DEF WorkedOn, Changed
      <3>4. QED
        BY <3>2, <3>3
    <2>4. QED
      BY <2>1, <2>2, <2>3
  <1>6. QED
    BY <1>1, <1>2, <1>4, <1>5 DEF Ownership

\* No step of an erase is on the regex of a call that is not one.
LEMMA NotErased ==
  ASSUME Typing, Phases, NEW t \in Threads, NEW n \in Depths(t), calls[t][n].at \notin Erasing
  PROVE  /\ \A u \in Threads : \A d \in Depths(u) :
              calls[u][d].at \in {"retire", "drain", "drop"} => calls[u][d].regex # calls[t][n].regex
         /\ Ownership => \A s \in DOMAIN slots : slots[s].owner = calls[t][n].regex =>
                           map[calls[t][n].regex] = s
  <1>1. ASSUME NEW u \in Threads, NEW d \in Depths(u), calls[u][d].at \in {"retire", "drain", "drop"}
        PROVE  calls[u][d].regex # calls[t][n].regex
    <2>1. calls[u][d].at \in Erasing
      BY <1>1 DEF Erasing
    <2>2. Alone(u, d)
      BY <2>1 DEF Phases
    <2>3. QED
      BY <2>1, <2>2 DEF Alone
  <1>2. ASSUME Ownership, NEW s \in DOMAIN slots, slots[s].owner = calls[t][n].regex
        PROVE  map[calls[t][n].regex] = s
    <2>1. slots[s].owner # NoAddress
      BY <1>2, TopFacts, NamesAssumption DEF Typing, CallType
    <2>2. map[slots[s].owner] = s \/ WorkedOn("retire", s)
      BY <1>2, <2>1 DEF Ownership
    <2>3. ~WorkedOn("retire", s)
      <3>1. ASSUME NEW u \in Threads, NEW d \in Depths(u), calls[u][d].at = "retire",
                   calls[u][d].slot = s
            PROVE  FALSE
        <4>1. slots[s].owner = calls[u][d].regex
          BY <1>2, <3>1 DEF Ownership, SlotOf
        <4>2. QED
          BY <1>1, <1>2, <3>1, <4>1
      <3>2. QED
        BY <3>1 DEF WorkedOn
    <2>4. QED
      BY <1>2, <2>2, <2>3
  <1>3. QED
    BY <1>1, <1>2

\* A slot is asked for: found, or made for an address that has none.
LEMMA OwnershipMade ==
  ASSUME Typing, Phases, Ownership, NEW t \in Threads, NEW n, NEW from, NEW step,
         Moves(t, n, from, step), from \notin Erasing, step \notin Erasing, from # "walk",
         UNCHANGED program, NEW s \in Slots, SlotMade(calls[t][n].regex, s),
         calls'[t][n].slot = s
  PROVE  Ownership'
  <1> DEFINE a == calls[t][n].regex
  <1>1. /\ Changed(t, n) /\ n \in Depths(t) /\ calls[t][n].at = from /\ calls'[t][n].at = step
        /\ calls'[t][n].regex = a /\ a \in Addresses
    BY TopFacts DEF Moves, Typing, CallType
  <1>2. /\ s \in DOMAIN slots' /\ DOMAIN slots \subseteq DOMAIN slots'
        /\ map' = [map EXCEPT ![a] = s]
        /\ \A r \in DOMAIN slots : slots'[r] = slots[r]
        /\ \/ s \in DOMAIN slots /\ map[a] = s /\ UNCHANGED <<slots, map>>
           \/ /\ s \notin DOMAIN slots /\ DOMAIN slots' = DOMAIN slots \cup {s}
              /\ map[a] \in {Absent, Null} /\ slots'[s] = FreshSlot(a)
    BY <1>1, SlotMadeFacts DEF Typing
  <1>3. /\ \A u \in Threads : \A d \in Depths(u) :
             calls[u][d].at \in {"retire", "drain", "drop"} => calls[u][d].regex # a
        /\ \A r \in DOMAIN slots : slots[r].owner = a => map[a] = r
    BY <1>1, NotErased
  <1>4. slots'[s].owner = a /\ (s \notin DOMAIN slots => slots'[s].free = {})
    BY <1>1, <1>2 DEF FreshSlot, Ownership
  <1>5. map \in [Addresses -> Int] /\ program[a] # Null /\ a # NoAddress /\ s # Null
        /\ DOMAIN slots \subseteq Nat \ {0}
    BY <1>1, SlotFacts, NamesAssumption, Names DEF Typing, MapTypes, Phases, Phase, Slots
  <1>6. \A r \in DOMAIN slots : s \notin DOMAIN slots => slots[r].owner # a
    BY <1>2, <1>3, <1>5, Names
  <1>7. step \notin {"retire", "drain", "drop"} /\ from \notin {"retire", "drain", "drop"}
    BY DEF Erasing
  <1> HIDE DEF a
  <1>8. ASSUME NEW u \in Threads, NEW d \in Depths(u)' PROVE SlotOf(u, d)'
    <2>1. CASE u = t /\ d = n
      BY <1>1, <1>4, <1>5, <1>7, <2>1 DEF SlotOf
    <2>2. CASE ~(u = t /\ d = n)
      <3>1. d \in Depths(u) /\ calls'[u][d] = calls[u][d] /\ SlotOf(u, d)
        BY <1>1, <1>8, <2>2 DEF Changed, Ownership
      <3>2. calls[u][d].slot # Null => calls[u][d].slot \in DOMAIN slots
        <4>1. calls[u][d].slot \in Nat /\ calls[u][d].slot <= Len(slots)
          BY <3>1, TopFacts DEF Typing, CallTypes, CallType
        <4>2. QED
          BY <4>1, SlotFacts, Names DEF Typing
      <3>3. calls[u][d].regex \in Addresses
        BY <3>1, TopFacts DEF Typing, CallType
      <3>4. QED
        BY <1>2, <1>3, <1>5, <3>1, <3>2, <3>3 DEF SlotOf
    <2>3. QED
      BY <2>1, <2>2
  <1>9. ASSUME NEW b \in Addresses, map'[b] \in DOMAIN slots' PROVE slots'[map'[b]].owner = b
    <2>1. CASE b = a
      BY <1>1, <1>2, <1>4, <1>5, <2>1
    <2>2. CASE b # a
      <3>1. map'[b] = map[b]
        BY <1>1, <1>2, <1>5, <2>2
      <3>2. map[b] \in DOMAIN slots
        <4>1. map[b] <= Len(slots) /\ map[b] \in Int /\ DOMAIN slots = 1 .. Len(slots) /\ Len(slots) \in Nat
          BY SlotFacts DEF Typing, MapTypes
        <4>2. DOMAIN slots' \subseteq Nat \ {0}
          BY <1>2, <1>5, BoundsAssumption DEF Slots
        <4>3. QED
          BY <1>9, <3>1, <4>1, <4>2
      <3>3. QED
        BY <1>2, <3>1, <3>2 DEF Ownership
    <2>3. QED
      BY <2>1, <2>2
  <1>10. ASSUME NEW r \in DOMAIN slots', slots'[r].owner # NoAddress
         PROVE  /\ program'[slots'[r].owner] # Null
                /\ map'[slots'[r].owner] = r \/ WorkedOn("retire", r)'
    <2>1. CASE slots'[r].owner = a
      BY <1>1, <1>2, <1>3, <1>5, <1>6, <1>10, <2>1
    <2>2. CASE slots'[r].owner # a
      <3>1. r \in DOMAIN slots /\ slots'[r] = slots[r]
        BY <1>2, <1>4, <1>10, <2>2
      <3>2. slots[r].owner \in Addresses
        BY <1>10, <3>1, SlotFacts DEF Typing, SlotType
      <3>3. WorkedOn("retire", r) => WorkedOn("retire", r)'
        BY <1>1, <1>7 DEF WorkedOn, Changed
      <3>4. QED
        BY <1>2, <1>5, <1>10, <2>2, <3>1, <3>2, <3>3 DEF Ownership
    <2>3. QED
      BY <2>1, <2>2
  <1>11. ASSUME NEW r \in DOMAIN slots', slots'[r].owner = NoAddress
         PROVE  slots'[r].free = {} \/ WorkedOn("drain", r)'
    <2>1. r \in DOMAIN slots /\ slots'[r] = slots[r]
      BY <1>2, <1>4, <1>5, <1>11
    <2>2. WorkedOn("drain", r) => WorkedOn("drain", r)'
      BY <1>1, <1>7 DEF WorkedOn, Changed
    <2>3. QED
      BY <1>11, <2>1, <2>2 DEF Ownership
  <1>12. QED
    BY <1>8, <1>9, <1>10, <1>11 DEF Ownership

\* The entry is there but its slot could not be made.
LEMMA OwnershipFailed ==
  ASSUME Typing, Phases, Ownership, NEW t \in Threads, NEW from, At(t, from), Pop(t),
         from \notin Erasing, UNCHANGED <<program, slots>>, SlotFails(Top(t).regex)
  PROVE  Ownership'
  <1> DEFINE a == Top(t).regex
  <1>0. PICK n : n = Len(calls[t])
    OBVIOUS
  <1>1. /\ Changed(t, n) /\ n \in Depths(t) /\ n \notin Depths(t)' /\ calls[t][n] = Top(t)
        /\ calls[t][n].at = from /\ a \in Addresses
    BY <1>0, PopShape, AtFacts
  <1>2. /\ \A u \in Threads : \A d \in Depths(u) :
             calls[u][d].at \in {"retire", "drain", "drop"} => calls[u][d].regex # a
        /\ \A r \in DOMAIN slots : slots[r].owner = a => map[a] = r
    BY <1>1, NotErased
  <1>3. map \in [Addresses -> Int] /\ DOMAIN slots \subseteq Nat \ {0}
    BY SlotFacts DEF Typing, MapTypes
  <1>4. PICK entry \in {Absent, Null} : map' = [map EXCEPT ![a] = entry] /\ map[a] \in {Absent, Null}
    BY DEF SlotFails
  <1>5. \A r \in DOMAIN slots : slots[r].owner # a
    BY <1>2, <1>3, <1>4, Names
  <1>6. from \notin {"retire", "drain", "drop"}
    BY DEF Erasing
  <1> HIDE DEF a
  <1>7. ASSUME NEW u \in Threads, NEW d \in Depths(u)' PROVE SlotOf(u, d)'
    <2>1. d \in Depths(u) /\ calls'[u][d] = calls[u][d] /\ SlotOf(u, d)
      BY <1>1, <1>7 DEF Changed, Ownership
    <2>2. calls[u][d].regex \in Addresses
      BY <2>1, TopFacts DEF Typing, CallType
    <2>3. QED
      BY <1>2, <1>3, <1>4, <2>1, <2>2 DEF SlotOf
  <1>8. \A b \in Addresses : map'[b] \in DOMAIN slots' => slots'[map'[b]].owner = b
    BY <1>3, <1>4, Names DEF Ownership
  <1>9. ASSUME NEW r \in DOMAIN slots', slots'[r].owner # NoAddress
        PROVE  /\ program'[slots'[r].owner] # Null
               /\ map'[slots'[r].owner] = r \/ WorkedOn("retire", r)'
    <2>1. slots[r].owner \in Addresses
      BY <1>9, SlotFacts DEF Typing, SlotType
    <2>2. WorkedOn("retire", r) => WorkedOn("retire", r)'
      BY <1>1, <1>6 DEF WorkedOn, Changed
    <2>3. QED
      BY <1>3, <1>4, <1>5, <1>9, <2>1, <2>2 DEF Ownership
  <1>10. ASSUME NEW r \in DOMAIN slots', slots'[r].owner = NoAddress
         PROVE  slots'[r].free = {} \/ WorkedOn("drain", r)'
    <2>1. WorkedOn("drain", r) => WorkedOn("drain", r)'
      BY <1>1, <1>6 DEF WorkedOn, Changed
    <2>2. QED
      BY <1>10, <2>1 DEF Ownership
  <1>11. QED
    BY <1>7, <1>8, <1>9, <1>10 DEF Ownership

\* A call goes on with the slot it has, and nothing is done to the slots' owners.
LEMMA OwnershipMove ==
  ASSUME Typing, Ownership, NEW t \in Threads, NEW n, NEW from, NEW step, Moves(t, n, from, step),
         UNCHANGED <<program, map>>, DOMAIN slots' = DOMAIN slots,
         \A s \in DOMAIN slots : /\ slots'[s].owner = slots[s].owner
                                 /\ slots[s].owner = NoAddress => slots'[s].free \subseteq slots[s].free,
         calls'[t][n].slot = calls[t][n].slot,
         <<from, step>> \in {<<"lock", "lease">>, <<"lock", "resolve">>, <<"bump", "clear">>,
           <<"clear", "publish">>, <<"lease", "slot">>, <<"lease", "give_back">>,
           <<"give_back", "slot">>, <<"take", "check">>, <<"check", "fill">>, <<"fill", "walk">>}
  PROVE  Ownership'
  <1>1. /\ Changed(t, n) /\ n \in Depths(t) /\ calls[t][n].at = from /\ calls'[t][n].at = step
        /\ calls'[t][n].regex = calls[t][n].regex
    BY DEF Moves
  <1>2. /\ from \notin {"retire", "drain"} /\ step \notin {"retire", "drain", "drop"}
        /\ step \in {"bump", "clear", "publish", "take"} \cup Holding =>
             from \in {"bump", "clear", "publish", "take"} \cup Holding
    BY DEF Holding
  <1>3. calls[t][n].slot # Null => calls[t][n].slot \in DOMAIN slots
    <2>1. calls[t][n].slot \in Nat /\ calls[t][n].slot <= Len(slots)
      BY <1>1, TopFacts DEF Typing, CallTypes, CallType
    <2>2. QED
      BY <2>1, SlotFacts, Names DEF Typing
  <1>4. SlotOf(t, n)'
    <2>1. SlotOf(t, n)
      BY <1>1 DEF Ownership
    <2>2. step \in {"bump", "clear", "publish", "take"} \cup Holding =>
            calls[t][n].slot # Null /\ slots[calls[t][n].slot].owner = calls[t][n].regex
      BY <1>1, <1>2, <2>1 DEF SlotOf
    <2>3. QED
      BY <1>1, <1>2, <1>3, <2>2 DEF SlotOf
  <1>5. \A s \in DOMAIN slots : slots[s].owner # NoAddress => program'[slots[s].owner] # Null
    BY DEF Ownership
  <1>6. QED
    BY <1>1, <1>2, <1>4, <1>5, OwnershipFrame

\* A call ends, and nothing is done to the slots' owners.
LEMMA OwnershipPop ==
  ASSUME Typing, Ownership, NEW t \in Threads, NEW from, At(t, from), Pop(t),
         UNCHANGED map, DOMAIN slots' = DOMAIN slots, from \notin {"retire", "drain"},
         \A s \in DOMAIN slots :
           /\ slots'[s].owner = slots[s].owner
           /\ slots[s].owner = NoAddress => slots'[s].free \subseteq slots[s].free
           /\ slots[s].owner # NoAddress => program'[slots[s].owner] # Null
  PROVE  Ownership'
  <1>0. PICK n : n = Len(calls[t])
    OBVIOUS
  <1>1. Changed(t, n) /\ n \notin Depths(t)' /\ calls[t][n].at = from
    BY <1>0, PopShape
  <1>2. QED
    BY <1>1, OwnershipFrame

\* A regex is freed when no slot is its any more.
LEMMA OwnershipFreed ==
  ASSUME Typing, Phases, Ownership, NEW t \in Threads, NEW from, At(t, from), from \in {"unmap", "drop"},
         Freed(Top(t).regex), Pop(t), UNCHANGED <<map, slots>>, map[Top(t).regex] = Absent
  PROVE  Ownership' /\ \A s \in DOMAIN slots : slots[s].owner # Top(t).regex
  <1>0. PICK n : n = Len(calls[t])
    OBVIOUS
  <1>1. n \in Depths(t) /\ calls[t][n] = Top(t) /\ calls[t][n].at = from /\ Top(t).regex \in Addresses
    BY <1>0, PopShape, AtFacts
  <1>2. Alone(t, n)
    BY <1>1 DEF Phases, Erasing
  <1>3. ASSUME NEW s \in DOMAIN slots PROVE slots[s].owner # Top(t).regex
    <2>1. SUFFICES ASSUME slots[s].owner = Top(t).regex PROVE FALSE
      OBVIOUS
    <2>2. Top(t).regex # NoAddress
      BY <1>1, NamesAssumption
    <2>3. s # Absent
      BY SlotFacts, Names DEF Typing
    <2>4. WorkedOn("retire", s)
      BY <2>1, <2>2, <2>3 DEF Ownership
    <2>5. PICK u \in Threads : \E d \in Depths(u) : calls[u][d].at = "retire" /\ calls[u][d].slot = s
      BY <2>4 DEF WorkedOn
    <2>6. PICK d \in Depths(u) : calls[u][d].at = "retire" /\ calls[u][d].slot = s
      BY <2>5
    <2>7. slots[s].owner = calls[u][d].regex
      BY <2>6 DEF Ownership, SlotOf
    <2>8. QED
      BY <1>1, <1>2, <2>1, <2>6, <2>7 DEF Alone
  <1>4. program' = [program EXCEPT ![Top(t).regex] = Null] /\ program \in [Addresses -> 0 .. compiled]
    BY DEF Freed, Typing, RegexTypes
  <1>5. ASSUME NEW s \in DOMAIN slots, slots[s].owner # NoAddress
        PROVE  program'[slots[s].owner] # Null
    <2>1. slots[s].owner \in Addresses /\ slots[s].owner # Top(t).regex
      BY <1>3, <1>5, SlotFacts DEF Typing, SlotType
    <2>2. QED
      BY <1>4, <1>5, <2>1 DEF Ownership
  <1>6. /\ DOMAIN slots' = DOMAIN slots /\ from \notin {"retire", "drain"}
        /\ \A s \in DOMAIN slots :
             /\ slots'[s].owner = slots[s].owner
             /\ slots[s].owner = NoAddress => slots'[s].free \subseteq slots[s].free
             /\ slots[s].owner # NoAddress => program'[slots[s].owner] # Null
    BY <1>5
  <1>7. Ownership'
    BY <1>6, OwnershipPop
  <1>8. QED
    BY <1>3, <1>7

\* A set given back leaves the slots' owners alone, and goes to no retired slot's pool.
LEMMA GiveOwners ==
  ASSUME NEW s \in DOMAIN slots, NEW i, SlotTypes, Give(s, i) \/ UNCHANGED slots
  PROVE  /\ DOMAIN slots' = DOMAIN slots
         /\ \A r \in DOMAIN slots :
              /\ slots'[r].owner = slots[r].owner
              /\ slots[r].owner = NoAddress => slots'[r].free \subseteq slots[r].free
  <1>1. \A r \in DOMAIN slots : slots[r] \in SlotType
    BY SlotFacts
  <1>2. CASE UNCHANGED slots
    BY <1>2
  <1>3. CASE slots[s].owner # NoAddress /\ slots' = [slots EXCEPT ![s].free = @ \cup {i}]
    BY <1>1, <1>3 DEF SlotTypes, SlotType
  <1>4. QED
    BY <1>2, <1>3 DEF Give

LEMMA GivesBackOwners ==
  ASSUME Typing, NEW t \in Threads, CacheGivesBack(t)
  PROVE  /\ DOMAIN slots' = DOMAIN slots
         /\ \A r \in DOMAIN slots :
              /\ slots'[r].owner = slots[r].owner
              /\ slots[r].owner = NoAddress => slots'[r].free \subseteq slots[r].free
  <1>1. \/ UNCHANGED slots
        \/ cache[t].slot \in DOMAIN slots /\ Give(cache[t].slot, cache[t].set)
    BY CacheGivesBackFacts
  <1>2. SlotTypes
    BY DEF Typing
  <1>3. QED
    BY <1>1, <1>2, GiveOwners

LEMMA OwnershipStep ==
  ASSUME Typing, Phases, Ownership, Leases, Next
  PROVE  Ownership'
  <1>0. SlotTypes /\ SetTypes /\ MapTypes /\ CacheTypes
    BY DEF Typing
  <1>a. \A s \in DOMAIN slots : slots[s].owner # NoAddress => program[slots[s].owner] # Null
    BY DEF Ownership
  <1>1. ASSUME NEW t \in Threads, LockBuild(t) PROVE Ownership'
    <2>1. \E step \in {"lease", "resolve"} : At(t, "lock") /\ Goto(t, step)
      BY <1>1 DEF LockBuild
    <2>2. UNCHANGED <<program, map, slots>>
      BY <1>1 DEF LockBuild, regexes
    <2>3. \E step \in {"lease", "resolve"} : /\ Moves(t, Len(calls[t]), "lock", step)
                                             /\ calls'[t][Len(calls[t])].slot = calls[t][Len(calls[t])].slot
      BY <2>1, GotoShape, Names
    <2>4. QED
      BY <2>2, <2>3, OwnershipMove
  <1>2. ASSUME NEW t \in Threads, Resolve(t) PROVE Ownership'
    <2>0. PICK n : n = Len(calls[t])
      OBVIOUS
    <2>1. At(t, "resolve") /\ UNCHANGED program /\ "resolve" \notin Erasing /\ "bump" \notin Erasing
      BY <1>2 DEF Resolve, regexes, Erasing
    <2>2. CASE \E s \in Slots :
                 /\ IF HitIsValid(t, Top(t).regex) THEN s = hit[t] /\ UNCHANGED <<slots, map>>
                                                   ELSE SlotMade(Top(t).regex, s)
                 /\ calls' = WithTop(t, [Top(t) EXCEPT !.at = "bump", !.slot = s])
      <3>1. PICK s \in Slots :
              /\ IF HitIsValid(t, Top(t).regex) THEN s = hit[t] /\ UNCHANGED <<slots, map>>
                                                ELSE SlotMade(Top(t).regex, s)
              /\ calls' = WithTop(t, [Top(t) EXCEPT !.at = "bump", !.slot = s])
        BY <2>2
      <3>2. s \in Nat /\ "bump" \in Steps
        BY BoundsAssumption, Names DEF Slots
      <3>3. Moves(t, n, "resolve", "bump") /\ calls'[t][n].slot = s
        <4>1. /\ At(t, "resolve")
              /\ calls' = WithTop(t, [Top(t) EXCEPT !.at = "bump", !.slot = s])
          BY <2>1, <3>1
        <4>2. TakesSlot(t, n, "resolve", "bump", s)
          BY <2>0, <3>2, <4>1, SlotShape
        <4>3. QED
          BY <4>2 DEF TakesSlot
      <3>4. calls[t][n].regex = Top(t).regex /\ Top(t).regex \in Addresses
        BY <2>1, <3>3, AtFacts DEF Moves
      <3>5. CASE HitIsValid(t, Top(t).regex)
        <4>1. s = hit[t] /\ UNCHANGED <<slots, map>> /\ slots[s].owner = Top(t).regex /\ s # Null
          BY <3>1, <3>5 DEF HitIsValid
        <4>2. SlotOf(t, n)'
          BY <3>3, <3>4, <4>1 DEF SlotOf, Moves, Holding
        <4>3. Changed(t, n) /\ calls[t][n].at = "resolve"
          BY <3>3 DEF Moves
        <4>4. QED
          BY <1>a, <2>1, <4>1, <4>2, <4>3, OwnershipFrame
      <3>6. CASE ~HitIsValid(t, Top(t).regex)
        <4>1. SlotMade(calls[t][n].regex, s)
          BY <3>1, <3>4, <3>6
        <4>2. QED
          BY <2>1, <3>3, <4>1, OwnershipMade
      <3>7. QED
        BY <3>5, <3>6
    <2>3. CASE SlotFails(Top(t).regex) /\ Pop(t) /\ UNCHANGED slots
      BY <2>1, <2>3, OwnershipFailed
    <2>4. QED
      BY <1>2, <2>2, <2>3 DEF Resolve
  <1>3. ASSUME NEW t \in Threads, Bump(t) PROVE Ownership'
    <2>1. /\ At(t, "bump") /\ Goto(t, "clear") /\ UNCHANGED <<program, map>>
          /\ slots' = [slots EXCEPT ![Top(t).slot].generation = @ + 1]
      BY <1>3 DEF Bump, regexes
    <2>2. Top(t).slot \in DOMAIN slots
      BY <2>1, SlotInUse
    <2>3. DOMAIN slots' = DOMAIN slots
          /\ \A s \in DOMAIN slots : slots'[s].owner = slots[s].owner /\ slots'[s].free = slots[s].free
      BY <1>0, <2>1, <2>2, SlotFieldWrite
    <2>4. /\ Moves(t, Len(calls[t]), "bump", "clear")
          /\ calls'[t][Len(calls[t])].slot = calls[t][Len(calls[t])].slot
      BY <2>1, GotoShape, Names
    <2>5. QED
      BY <2>1, <2>3, <2>4, OwnershipMove
  <1>4. ASSUME NEW t \in Threads, ClearPool(t) PROVE Ownership'
    <2>1. /\ At(t, "clear") /\ Goto(t, "publish") /\ UNCHANGED <<program, map>>
          /\ slots' = [slots EXCEPT ![Top(t).slot].free = {}]
      BY <1>4 DEF ClearPool, regexes
    <2>2. Top(t).slot \in DOMAIN slots
      BY <2>1, SlotInUse
    <2>3. DOMAIN slots' = DOMAIN slots
          /\ \A s \in DOMAIN slots : slots'[s].owner = slots[s].owner /\ slots'[s].free \subseteq slots[s].free
      BY <1>0, <2>1, <2>2, SlotEmptied
    <2>4. /\ Moves(t, Len(calls[t]), "clear", "publish")
          /\ calls'[t][Len(calls[t])].slot = calls[t][Len(calls[t])].slot
      BY <2>1, GotoShape, Names
    <2>5. QED
      BY <2>1, <2>3, <2>4, OwnershipMove
  <1>5. ASSUME NEW t \in Threads, Publish(t) PROVE Ownership'
    <2>0. PICK n : n = Len(calls[t])
      OBVIOUS
    <2>1. /\ At(t, "publish") /\ UNCHANGED <<program, map, slots>>
          /\ calls' = WithTop(t, [Top(t) EXCEPT !.at = "lease", !.slot = Null])
      BY <1>5 DEF Publish
    <2>2. Null \in Nat
      BY DEF Null
    <2>3. Moves(t, n, "publish", "lease")
      BY <2>0, <2>1, <2>2, SlotShape, Names DEF TakesSlot
    <2>4. SlotOf(t, n)' /\ Changed(t, n) /\ calls[t][n].at = "publish"
      BY <2>3 DEF SlotOf, Moves, Holding
    <2>5. QED
      BY <1>a, <2>1, <2>4, OwnershipFrame
  <1>6. ASSUME NEW t \in Threads, Lease(t) PROVE Ownership'
    <2>0. PICK n : n = Len(calls[t])
      OBVIOUS
    <2>1. /\ At(t, "lease") /\ UNCHANGED <<program, map, slots>>
          /\ \/ \E step \in {"slot", "give_back"} : Goto(t, step)
             \/ /\ CacheServes(t, Top(t).regex)
                /\ calls' = WithTop(t, [Top(t) EXCEPT !.at = "check", !.cached = TRUE,
                                         !.slot = cache[t].slot, !.set = cache[t].set])
      BY <1>6 DEF Lease, regexes
    <2>2. CASE \E step \in {"slot", "give_back"} : Goto(t, step)
      <3>1. \E step \in {"slot", "give_back"} :
              Moves(t, n, "lease", step) /\ calls'[t][n].slot = calls[t][n].slot
        BY <2>0, <2>1, <2>2, GotoShape, Names
      <3>2. QED
        BY <2>1, <3>1, OwnershipMove
    <2>3. CASE /\ CacheServes(t, Top(t).regex)
               /\ calls' = WithTop(t, [Top(t) EXCEPT !.at = "check", !.cached = TRUE,
                                        !.slot = cache[t].slot, !.set = cache[t].set])
      <3>1. Moves(t, n, "lease", "check") /\ calls'[t][n].slot = cache[t].slot
        BY <2>0, <2>1, <2>3, LeaseShape
      <3>2. cache[t].slot # Null /\ slots[cache[t].slot].owner = Top(t).regex
        BY <2>3 DEF CacheServes
      <3>3. SlotOf(t, n)' /\ Changed(t, n) /\ calls[t][n].at = "lease"
        BY <2>1, <3>1, <3>2 DEF SlotOf, Moves
      <3>4. QED
        BY <1>a, <2>1, <3>3, OwnershipFrame
    <2>4. QED
      BY <2>1, <2>2, <2>3
  <1>7. ASSUME NEW t \in Threads, GiveBack(t) PROVE Ownership'
    <2>1. /\ At(t, "give_back") /\ CacheGivesBack(t) /\ Goto(t, "slot") /\ UNCHANGED <<program, map>>
      BY <1>7 DEF GiveBack, regexes
    <2>2. /\ DOMAIN slots' = DOMAIN slots
          /\ \A s \in DOMAIN slots : slots'[s].owner = slots[s].owner
          /\ \A s \in DOMAIN slots : slots[s].owner = NoAddress => slots'[s].free \subseteq slots[s].free
      BY <2>1, GivesBackOwners
    <2>3. /\ Moves(t, Len(calls[t]), "give_back", "slot")
          /\ calls'[t][Len(calls[t])].slot = calls[t][Len(calls[t])].slot
      BY <2>1, GotoShape, Names
    <2>4. QED
      BY <2>1, <2>2, <2>3, OwnershipMove
  <1>8. ASSUME NEW t \in Threads, SlotFor(t) PROVE Ownership'
    <2>0. PICK n : n = Len(calls[t])
      OBVIOUS
    <2>1. At(t, "slot") /\ UNCHANGED program /\ "slot" \notin Erasing /\ "take" \notin Erasing
      BY <1>8 DEF SlotFor, regexes, Erasing
    <2>2. CASE \E s \in Slots :
                 /\ SlotMade(Top(t).regex, s)
                 /\ calls' = WithTop(t, [Top(t) EXCEPT !.at = "take", !.slot = s])
      <3>1. PICK s \in Slots :
              /\ SlotMade(Top(t).regex, s)
              /\ calls' = WithTop(t, [Top(t) EXCEPT !.at = "take", !.slot = s])
        BY <2>2
      <3>2. s \in Nat /\ "take" \in Steps
        BY BoundsAssumption, Names DEF Slots
      <3>3. Moves(t, n, "slot", "take") /\ calls'[t][n].slot = s
        <4>1. /\ At(t, "slot")
              /\ calls' = WithTop(t, [Top(t) EXCEPT !.at = "take", !.slot = s])
          BY <2>1, <3>1
        <4>2. TakesSlot(t, n, "slot", "take", s)
          BY <2>0, <3>2, <4>1, SlotShape
        <4>3. QED
          BY <4>2 DEF TakesSlot
      <3>4. calls[t][n].regex = Top(t).regex
        BY <3>3 DEF Moves
      <3>5. QED
        BY <2>1, <3>1, <3>3, <3>4, OwnershipMade
    <2>3. CASE SlotFails(Top(t).regex) /\ Pop(t) /\ UNCHANGED slots
      BY <2>1, <2>3, OwnershipFailed
    <2>4. QED
      BY <1>8, <2>2, <2>3 DEF SlotFor
  <1>9. ASSUME NEW t \in Threads, Take(t) PROVE Ownership'
    <2>1. At(t, "take") /\ UNCHANGED <<program, map>>
      BY <1>9 DEF Take, regexes
    <2>2. Top(t).slot \in DOMAIN slots /\ slots[Top(t).slot].free \in SUBSET (Nat \ {0})
      BY <1>0, <2>1, SlotInUse, SlotFacts DEF SlotType
    <2>3. /\ \/ \E i \in Nat : Hold(t, i)
             \/ Pop(t)
          /\ \/ UNCHANGED slots
             \/ \E i \in slots[Top(t).slot].free :
                  slots' = [slots EXCEPT ![Top(t).slot].free = @ \ {i}]
      <3>1. NewSet \in Nat
        BY <1>0, NewSetFacts
      <3>2. QED
        BY <1>9, <2>2, <3>1 DEF Take, MakeSet
    <2>4. /\ DOMAIN slots' = DOMAIN slots
          /\ \A s \in DOMAIN slots : slots'[s].owner = slots[s].owner /\ slots'[s].free \subseteq slots[s].free
      <3>1. CASE \E i \in slots[Top(t).slot].free :
                   slots' = [slots EXCEPT ![Top(t).slot].free = @ \ {i}]
        <4>1. PICK i \in slots[Top(t).slot].free :
                slots' = [slots EXCEPT ![Top(t).slot].free = @ \ {i}]
          BY <3>1
        <4> DEFINE F == slots[Top(t).slot].free \ {i}
        <4>2. /\ slots' = [slots EXCEPT ![Top(t).slot].free = F] /\ F \in SUBSET (Nat \ {0})
              /\ F \subseteq slots[Top(t).slot].free
          BY <2>2, <4>1
        <4> HIDE DEF F
        <4>3. QED
          BY <1>0, <2>2, <4>2, SlotFieldWrite
      <3>2. QED
        BY <2>3, <3>1
    <2>5. CASE \E i \in Nat : Hold(t, i)
      <3>1. /\ Moves(t, Len(calls[t]), "take", "check")
            /\ calls'[t][Len(calls[t])].slot = calls[t][Len(calls[t])].slot
        BY <2>1, <2>5, HoldShape
      <3>2. QED
        BY <2>1, <2>4, <3>1, OwnershipMove
    <2>6. CASE Pop(t)
      BY <1>a, <2>1, <2>4, <2>6, OwnershipPop
    <2>7. QED
      BY <2>3, <2>5, <2>6
  <1>10. ASSUME NEW t \in Threads, CheckGeneration(t) PROVE Ownership'
    <2>1. At(t, "check") /\ Goto(t, "fill") /\ UNCHANGED <<program, map, slots>>
      BY <1>10 DEF CheckGeneration, regexes
    <2>2. /\ Moves(t, Len(calls[t]), "check", "fill")
          /\ calls'[t][Len(calls[t])].slot = calls[t][Len(calls[t])].slot
      BY <2>1, GotoShape, Names
    <2>3. QED
      BY <2>1, <2>2, OwnershipMove
  <1>11. ASSUME NEW t \in Threads, Fill(t) PROVE Ownership'
    <2>1. At(t, "fill") /\ Goto(t, "walk") /\ UNCHANGED <<program, map, slots>>
      BY <1>11 DEF Fill, regexes
    <2>2. /\ Moves(t, Len(calls[t]), "fill", "walk")
          /\ calls'[t][Len(calls[t])].slot = calls[t][Len(calls[t])].slot
      BY <2>1, GotoShape, Names
    <2>3. QED
      BY <2>1, <2>2, OwnershipMove
  <1>12. ASSUME NEW t \in Threads, EndLease(t) PROVE Ownership'
    <2>1. /\ At(t, "walk") /\ Pop(t) /\ UNCHANGED <<program, map>>
          /\ UNCHANGED slots \/ Give(Top(t).slot, Top(t).set)
      BY <1>12 DEF EndLease, regexes
    <2>2. Top(t).slot \in DOMAIN slots
      BY <2>1, SlotInUse
    <2>3. /\ DOMAIN slots' = DOMAIN slots
          /\ \A s \in DOMAIN slots : slots'[s].owner = slots[s].owner
          /\ \A s \in DOMAIN slots : slots[s].owner = NoAddress => slots'[s].free \subseteq slots[s].free
      BY <1>0, <2>1, <2>2, GiveOwners
    <2>4. QED
      BY <1>a, <2>1, <2>3, OwnershipPop
  <1>13. ASSUME NEW t \in Threads, Unmap(t) PROVE Ownership'
    <2>0. PICK n : n = Len(calls[t])
      OBVIOUS
    <2>1. At(t, "unmap") /\ map[Top(t).regex] # Null /\ UNCHANGED slots
      BY <1>13 DEF Unmap
    <2>2. CASE map[Top(t).regex] = Absent
      <3>1. Freed(Top(t).regex) /\ Pop(t) /\ UNCHANGED map
        BY <1>13, <2>2 DEF Unmap
      <3>2. QED
        BY <2>1, <2>2, <3>1, OwnershipFreed
    <2>3. CASE map[Top(t).regex] # Absent
      <3>0. PICK a, s : a = Top(t).regex /\ s = map[a]
        OBVIOUS
      <3>1. /\ map' = [map EXCEPT ![a] = Absent] /\ UNCHANGED program
            /\ calls' = WithTop(t, [Top(t) EXCEPT !.at = "retire", !.slot = s])
        BY <1>13, <2>3, <3>0 DEF Unmap, regexes
      <3>2. /\ s \in DOMAIN slots /\ s \in Nat /\ a \in Addresses /\ map \in [Addresses -> Int]
            /\ s # Null /\ "retire" \in Steps
        BY <1>0, <2>1, <2>3, <3>0, AtFacts, SlotFacts, Names DEF MapTypes
      <3>3. Moves(t, n, "unmap", "retire") /\ calls'[t][n].slot = s
        <4>1. /\ At(t, "unmap")
              /\ calls' = WithTop(t, [Top(t) EXCEPT !.at = "retire", !.slot = s])
          BY <2>1, <3>1
        <4>2. TakesSlot(t, n, "unmap", "retire", s)
          BY <2>0, <3>2, <4>1, SlotShape
        <4>3. QED
          BY <4>2 DEF TakesSlot
      <3>4. /\ Changed(t, n) /\ n \in Depths(t) /\ n \in Depths(t)' /\ calls[t][n].at = "unmap"
            /\ calls'[t][n].at = "retire" /\ calls[t][n].regex = a /\ calls'[t][n].regex = a
        BY <3>0, <3>3 DEF Moves
      <3>5. slots[s].owner = a
        BY <3>0, <3>2 DEF Ownership
      <3>6. Alone(t, n)
        BY <3>4 DEF Phases, Erasing
      <3>7. ASSUME NEW u \in Threads, NEW d \in Depths(u)' PROVE SlotOf(u, d)'
        <4>1. CASE u = t /\ d = n
          BY <2>1, <3>1, <3>2, <3>3, <3>4, <3>5, <4>1, Names DEF SlotOf, Holding
        <4>2. CASE ~(u = t /\ d = n)
          <5>1. d \in Depths(u) /\ calls'[u][d] = calls[u][d] /\ SlotOf(u, d)
            BY <3>4, <3>7, <4>2 DEF Changed, Ownership
          <5>2. calls[u][d].regex \in Addresses /\ calls[u][d].regex # a
            BY <3>4, <3>6, <4>2, <5>1, TopFacts DEF Typing, CallType, Alone
          <5>3. QED
            BY <2>1, <3>1, <3>2, <5>1, <5>2 DEF SlotOf
        <4>3. QED
          BY <4>1, <4>2
      <3>8. \A b \in Addresses : map'[b] \in DOMAIN slots' => slots'[map'[b]].owner = b
        <4>1. Absent \notin DOMAIN slots
          BY <1>0, SlotFacts, Names
        <4>2. QED
          BY <2>1, <3>1, <3>2, <4>1 DEF Ownership
      <3>9. ASSUME NEW r \in DOMAIN slots', slots'[r].owner # NoAddress
            PROVE  /\ program'[slots'[r].owner] # Null
                   /\ map'[slots'[r].owner] = r \/ WorkedOn("retire", r)'
        <4>1. slots[r].owner \in Addresses
          BY <1>0, <2>1, <3>9, SlotFacts DEF SlotType
        <4>2. WorkedOn("retire", r) => WorkedOn("retire", r)'
          BY <3>4 DEF WorkedOn, Changed
        <4>3. WorkedOn("retire", s)'
          BY <3>3, <3>4 DEF WorkedOn
        <4>4. map[slots[r].owner] = r \/ WorkedOn("retire", r)
          BY <2>1, <3>9 DEF Ownership
        <4>5. CASE slots[r].owner = a /\ map[a] = r
          BY <1>a, <2>1, <3>0, <3>1, <3>9, <4>3, <4>5
        <4>6. CASE ~(slots[r].owner = a /\ map[a] = r)
          BY <1>a, <2>1, <3>1, <3>2, <3>9, <4>1, <4>2, <4>4, <4>6
        <4>7. QED
          BY <4>5, <4>6
      <3>10. ASSUME NEW r \in DOMAIN slots', slots'[r].owner = NoAddress
             PROVE  slots'[r].free = {} \/ WorkedOn("drain", r)'
        <4>1. WorkedOn("drain", r) => WorkedOn("drain", r)'
          BY <3>4 DEF WorkedOn, Changed
        <4>2. QED
          BY <2>1, <3>10, <4>1 DEF Ownership
      <3>11. QED
        BY <3>7, <3>8, <3>9, <3>10 DEF Ownership
    <2>4. QED
      BY <2>2, <2>3
  <1>14. ASSUME NEW t \in Threads, Retire(t) PROVE Ownership'
    <2> DEFINE a == Top(t).regex
               s == Top(t).slot
    <2>0. PICK n : n = Len(calls[t])
      OBVIOUS
    <2>1. /\ At(t, "retire") /\ Goto(t, "drain") /\ UNCHANGED <<program, map>>
          /\ slots' = [slots EXCEPT ![s].owner = NoAddress]
      BY <1>14 DEF Retire, regexes
    <2>2. s \in DOMAIN slots /\ slots[s].owner = a /\ map[a] = Absent
      BY <2>1, SlotInUse
    <2>3. /\ DOMAIN slots' = DOMAIN slots /\ slots'[s].owner = NoAddress
          /\ \A r \in DOMAIN slots : r # s => slots'[r] = slots[r]
      BY <1>0, <2>1, <2>2, SlotFieldWrite
    <2>4. /\ Moves(t, n, "retire", "drain") /\ calls'[t][n].slot = calls[t][n].slot
      BY <2>0, <2>1, GotoShape, Names
    <2>5. /\ Changed(t, n) /\ n \in Depths(t) /\ n \in Depths(t)' /\ calls[t][n].at = "retire"
          /\ calls'[t][n].at = "drain" /\ calls[t][n].regex = a /\ calls'[t][n].regex = a
          /\ calls[t][n].slot = s /\ calls'[t][n].slot = s
      BY <2>4 DEF Moves
    <2>6. Alone(t, n)
      BY <2>5 DEF Phases, Erasing
    <2>7. Absent \notin DOMAIN slots /\ Null \notin DOMAIN slots
      BY <1>0, SlotFacts, Names
    <2> HIDE DEF a, s
    <2>8. ASSUME NEW u \in Threads, NEW d \in Depths(u)' PROVE SlotOf(u, d)'
      <3>1. CASE u = t /\ d = n
        BY <2>1, <2>2, <2>3, <2>5, <2>7, <3>1 DEF SlotOf, Holding
      <3>2. CASE ~(u = t /\ d = n)
        <4>1. d \in Depths(u) /\ calls'[u][d] = calls[u][d] /\ SlotOf(u, d)
          BY <2>5, <2>8, <3>2 DEF Changed, Ownership
        <4>2. calls[u][d].regex # a
          BY <2>5, <2>6, <3>2, <4>1 DEF Alone
        <4>3. calls[u][d].slot # Null => calls[u][d].slot \in DOMAIN slots
          <5>1. calls[u][d].slot \in Nat /\ calls[u][d].slot <= Len(slots)
            BY <4>1, TopFacts DEF Typing, CallTypes, CallType
          <5>2. QED
            BY <1>0, <5>1, SlotFacts, Names
        <4>4. CASE calls[u][d].slot = s
          BY <2>1, <2>2, <2>3, <4>1, <4>2, <4>4 DEF SlotOf
        <4>5. CASE calls[u][d].slot # s
          BY <2>1, <2>3, <4>1, <4>3, <4>5 DEF SlotOf
        <4>6. QED
          BY <4>4, <4>5
      <3>3. QED
        BY <3>1, <3>2
    <2>9. ASSUME NEW b \in Addresses, map'[b] \in DOMAIN slots' PROVE slots'[map'[b]].owner = b
      <3>1. slots[map[b]].owner = b /\ map[b] \in DOMAIN slots
        BY <2>1, <2>3, <2>9 DEF Ownership
      <3>2. map[b] # s
        BY <2>2, <2>7, <3>1
      <3>3. QED
        BY <2>1, <2>3, <3>1, <3>2
    <2>10. ASSUME NEW r \in DOMAIN slots', slots'[r].owner # NoAddress
           PROVE  /\ program'[slots'[r].owner] # Null
                  /\ map'[slots'[r].owner] = r \/ WorkedOn("retire", r)'
      <3>1. r # s /\ slots'[r] = slots[r] /\ r \in DOMAIN slots
        BY <2>3, <2>10
      <3>2. WorkedOn("retire", r) => WorkedOn("retire", r)'
        BY <2>5, <3>1 DEF WorkedOn, Changed
      <3>3. QED
        BY <2>1, <2>10, <3>1, <3>2 DEF Ownership
    <2>11. ASSUME NEW r \in DOMAIN slots', slots'[r].owner = NoAddress
           PROVE  slots'[r].free = {} \/ WorkedOn("drain", r)'
      <3>1. CASE r = s
        BY <2>5, <3>1 DEF WorkedOn
      <3>2. CASE r # s
        <4>1. WorkedOn("drain", r) => WorkedOn("drain", r)'
          BY <2>5 DEF WorkedOn, Changed
        <4>2. QED
          BY <2>3, <2>11, <3>2, <4>1 DEF Ownership
      <3>3. QED
        BY <3>1, <3>2
    <2>12. QED
      BY <2>8, <2>9, <2>10, <2>11 DEF Ownership
  <1>15. ASSUME NEW t \in Threads, Drain(t) PROVE Ownership'
    <2>0. PICK n : n = Len(calls[t])
      OBVIOUS
    <2>1. /\ At(t, "drain") /\ Goto(t, "drop") /\ UNCHANGED <<program, map>>
          /\ slots' = [slots EXCEPT ![Top(t).slot].free = {}]
      BY <1>15 DEF Drain, regexes
    <2>2. /\ Top(t).slot \in DOMAIN slots /\ slots[Top(t).slot].owner = NoAddress
          /\ map[Top(t).regex] = Absent /\ Top(t).slot # Null
      BY <1>0, <2>1, SlotInUse, SlotFacts, Names
    <2>3. /\ DOMAIN slots' = DOMAIN slots /\ slots'[Top(t).slot].free = {}
          /\ \A s \in DOMAIN slots : slots'[s].owner = slots[s].owner /\ slots'[s].free \subseteq slots[s].free
      BY <1>0, <2>1, <2>2, SlotEmptied
    <2>4. /\ Moves(t, n, "drain", "drop") /\ calls'[t][n].slot = calls[t][n].slot
      BY <2>0, <2>1, GotoShape, Names
    <2>5. /\ Changed(t, n) /\ calls[t][n] = Top(t) /\ calls[t][n].at = "drain"
          /\ SlotOf(t, n)'
      BY <2>1, <2>2, <2>3, <2>4 DEF SlotOf, Moves, Holding
    <2>6. QED
      BY <1>a, <2>1, <2>3, <2>5, OwnershipFrame
  <1>16. ASSUME NEW t \in Threads, Drop(t) PROVE Ownership'
    <2>1. At(t, "drop") /\ Freed(Top(t).regex) /\ Pop(t) /\ UNCHANGED <<map, slots>>
      BY <1>16 DEF Drop
    <2>2. map[Top(t).regex] = Absent
      BY <2>1, SlotInUse
    <2>3. QED
      BY <2>1, <2>2, OwnershipFreed
  <1>17. ASSUME NEW t \in Threads, ThreadExit(t) PROVE Ownership'
    <2>1. CacheGivesBack(t) /\ UNCHANGED <<program, map, calls>>
      BY <1>17 DEF ThreadExit, regexes
    <2>2. /\ DOMAIN slots' = DOMAIN slots
          /\ \A s \in DOMAIN slots : slots'[s].owner = slots[s].owner
          /\ \A s \in DOMAIN slots : slots[s].owner = NoAddress => slots'[s].free \subseteq slots[s].free
      BY <2>1, GivesBackOwners
    <2>3. Changed(t, 0) /\ 0 \notin Depths(t) /\ 0 \notin Depths(t)'
      BY <2>1 DEF Changed, Depths
    <2>4. QED
      BY <1>a, <2>1, <2>2, <2>3, OwnershipFrame
  <1>18. ASSUME NEW t \in Threads, NEW a \in Addresses, NEW step \in {"lock", "lease", "unmap"},
                Push(t, a, step), UNCHANGED <<program, map, slots>>
         PROVE  Ownership'
    <2>0. PICK n : n = Len(calls[t]) + 1
      OBVIOUS
    <2>1. Changed(t, n) /\ n \notin Depths(t) /\ calls'[t][n] = NewCall(a, step)
      BY <1>18, <2>0, PushShape, Names
    <2>2. SlotOf(t, n)'
      BY <2>1 DEF SlotOf, NewCall, Holding
    <2>3. QED
      BY <1>a, <1>18, <2>1, <2>2, OwnershipFrame
  <1>19. ASSUME NEW t \in Threads, NEW a \in Addresses, Search(t, a) \/ Destroy(t, a) PROVE Ownership'
    <2>1. UNCHANGED <<program, map, slots>>
      BY <1>19 DEF Search, Destroy, regexes
    <2>2. \E step \in {"lock", "lease", "unmap"} : Push(t, a, step)
      BY <1>19 DEF Search, Destroy
    <2>3. QED
      BY <1>18, <2>1, <2>2
  <1>20. ASSUME NEW a \in Addresses, Construct(a) \/ Assign(a) PROVE Ownership'
    <2>1. /\ program' = [program EXCEPT ![a] = compiled + 1] /\ UNCHANGED <<map, slots, calls>>
          /\ compiled + 1 # Null /\ program \in [Addresses -> 0 .. compiled]
      BY <1>20, Names DEF Construct, Assign, Typing, RegexTypes
    <2>2. ASSUME NEW s \in DOMAIN slots, slots[s].owner # NoAddress
          PROVE  program'[slots[s].owner] # Null
      BY <1>a, <2>1, <2>2, <1>0, SlotFacts DEF SlotType
    <2>3. QED
      BY <2>1, <2>2 DEF Ownership, SlotOf, WorkedOn, Depths
  <1>21. QED
    BY <1>1, <1>2, <1>3, <1>4, <1>5, <1>6, <1>7, <1>8, <1>9, <1>10, <1>11, <1>12, <1>13, <1>14,
       <1>15, <1>16, <1>17, <1>19, <1>20, NextCases

-----------------------------------------------------------------------------
(* The leases are kept.                                                    *)

\* A call that is not a thread's first is nested in a walk that has the thread's set.
LEMMA Nested ==
  ASSUME Typing, Leases, NEW t \in Threads, NEW n \in Depths(t), n # 1
  PROVE  1 \in Depths(t) /\ calls[t][1].at = "walk" /\ cache[t].busy
  <1>0. Len(calls[t]) \in Nat
    BY TopFacts DEF Typing
  <1>1. 1 \in Depths(t) /\ 1 < Len(calls[t])
    BY <1>0 DEF Depths
  <1>2. calls[t][1].at = "walk"
    BY <1>1 DEF Typing, CallTypes
  <1>3. QED
    BY <1>1, <1>2 DEF Leases, CacheOf, Holding

\* A first call is alone on its stack.
LEMMA First ==
  ASSUME Typing, NEW t \in Threads, 1 = Len(calls[t])
  PROVE  Depths(t) = {1}
  <1>1. Depths(t) = 1 .. 1
    BY DEF Depths
  <1>2. 1 .. 1 = {1}
    OBVIOUS
  <1>3. QED
    BY <1>1, <1>2

LEMMA LeasesFrame ==
  ASSUME Typing, Leases, NEW t \in Threads, NEW n, Changed(t, n),
         \A u \in Threads : u # t => cache'[u] = cache[u],
         \A d \in Depths(t)' : LeaseOf(t, d)', CacheOf(t)'
  PROVE  Leases'
  <1>1. ASSUME NEW u \in Threads, u # t PROVE Depths(u)' = Depths(u) /\ \A d \in Depths(u) : calls'[u][d] = calls[u][d]
    BY <1>1 DEF Changed
  <1>2. ASSUME NEW u \in Threads, NEW d \in Depths(u)' PROVE LeaseOf(u, d)'
    <2>1. CASE u # t
      BY <1>1, <1>2, <2>1 DEF Leases, LeaseOf
    <2>2. QED
      BY <1>2, <2>1
  <1>3. ASSUME NEW u \in Threads PROVE CacheOf(u)'
    <2>1. CASE u # t
      BY <1>1, <2>1 DEF Leases, CacheOf
    <2>2. QED
      BY <2>1
  <1>4. QED
    BY <1>2, <1>3 DEF Leases

\* The caches are left alone.
LEMMA LeasesQuiet ==
  ASSUME Typing, Leases, NEW t \in Threads, NEW n, Changed(t, n), UNCHANGED cache,
         n \in Depths(t)' => LeaseOf(t, n)', CacheOf(t)'
  PROVE  Leases'
  <1>1. ASSUME NEW d \in Depths(t)', d # n PROVE LeaseOf(t, d)'
    <2>1. d \in Depths(t) /\ calls'[t][d] = calls[t][d] /\ LeaseOf(t, d)
      BY <1>1 DEF Changed, Leases
    <2>2. QED
      BY <2>1 DEF LeaseOf
  <1>2. QED
    BY <1>1, LeasesFrame

LEMMA LeasesMove ==
  ASSUME Typing, Leases, NEW t \in Threads, NEW n, NEW from, NEW step, Moves(t, n, from, step),
         UNCHANGED cache,
         calls'[t][n].set = calls[t][n].set, calls'[t][n].cached = calls[t][n].cached,
         from \in Holding <=> step \in Holding,
         step \in Holding => calls'[t][n].slot = calls[t][n].slot,
         step \notin {"take", "check"}, step = "slot" => n # 1, step = "give_back" => n = 1,
         step \in {"fill", "walk"} => calls[t][n].set # Null
  PROVE  Leases'
  <1>1. /\ Changed(t, n) /\ n \in Depths(t) /\ n \in Depths(t)' /\ calls[t][n].at = from
        /\ calls'[t][n].at = step
    BY DEF Moves
  <1>2. LeaseOf(t, n) /\ CacheOf(t)
    BY <1>1 DEF Leases
  <1>3. LeaseOf(t, n)'
    BY <1>1, <1>2 DEF LeaseOf, Holding
  <1>4. CacheOf(t)'
    <2>1. CASE n = 1
      BY <1>1, <1>2, <2>1 DEF CacheOf
    <2>2. CASE n # 1
      BY <1>1, <1>2, <2>2 DEF CacheOf, Changed
    <2>3. QED
      BY <2>1, <2>2
  <1>5. QED
    BY <1>1, <1>3, <1>4, LeasesQuiet

\* A call ends that has no lease.
LEMMA LeasesPop ==
  ASSUME Typing, Leases, NEW t \in Threads, NEW from, At(t, from), Pop(t), from \notin Holding,
         UNCHANGED cache
  PROVE  Leases'
  <1>0. PICK n : n = Len(calls[t])
    OBVIOUS
  <1>1. Changed(t, n) /\ n \in Depths(t) /\ n \notin Depths(t)' /\ calls[t][n].at = from
    BY <1>0, PopShape
  <1>2. CacheOf(t)
    BY DEF Leases
  <1>3. CacheOf(t)'
    <2>1. CASE n = 1
      BY <1>1, <1>2, <2>1 DEF CacheOf
    <2>2. CASE n # 1
      BY <1>1, <1>2, <2>2 DEF CacheOf, Changed
    <2>3. QED
      BY <2>1, <2>2
  <1>4. QED
    BY <1>1, <1>3, LeasesQuiet

LEMMA LeasesPush ==
  ASSUME Typing, Leases, NEW t \in Threads, NEW a \in Addresses, NEW step \in {"lock", "lease", "unmap"},
         Push(t, a, step), UNCHANGED cache
  PROVE  Leases'
  <1>0. PICK n : n = Len(calls[t]) + 1
    OBVIOUS
  <1>1. /\ Changed(t, n) /\ n \notin Depths(t) /\ n \in Depths(t)'
        /\ calls'[t][n] = NewCall(a, step)
    BY <1>0, PushShape, Names
  <1>2. CacheOf(t)
    BY DEF Leases
  <1>3. CacheOf(t)'
    <2>1. CASE n = 1
      BY <1>1, <1>2, <2>1 DEF CacheOf, NewCall, Holding
    <2>2. CASE n # 1
      BY <1>1, <1>2, <2>2 DEF CacheOf, Changed
    <2>3. QED
      BY <2>1, <2>2
  <1>4. LeaseOf(t, n)'
    BY <1>1 DEF LeaseOf, NewCall, Holding
  <1>5. QED
    BY <1>1, <1>3, <1>4, LeasesQuiet

LEMMA LeasesStep ==
  ASSUME Typing, Phases, Ownership, Leases, Next
  PROVE  Leases'
  <1>0. cache \in [Threads -> CacheType] /\ SlotTypes /\ SetTypes /\ MapTypes
    BY DEF Typing, CacheTypes
  <1>a. ASSUME NEW t \in Threads, NEW from, NEW step \in Steps, At(t, from), Goto(t, step), UNCHANGED cache,
               from \in Holding <=> step \in Holding, step \notin {"slot", "give_back", "take", "check"},
               step \in {"fill", "walk"} => Top(t).set # Null
        PROVE  Leases'
    <2>0. PICK n : n = Len(calls[t])
      OBVIOUS
    <2>1. /\ Moves(t, n, from, step)
          /\ calls'[t][n].slot = calls[t][n].slot
          /\ calls'[t][n].set = calls[t][n].set /\ calls'[t][n].cached = calls[t][n].cached
      BY <1>a, <2>0, GotoShape
    <2>2. calls[t][n] = Top(t)
      BY <2>1 DEF Moves
    <2>3. QED
      BY <1>a, <2>1, <2>2, LeasesMove
  <1>b. ASSUME NEW t \in Threads, NEW from, NEW step \in Steps, At(t, from), NEW s, s \in Nat,
               calls' = WithTop(t, [Top(t) EXCEPT !.at = step, !.slot = s]), UNCHANGED cache,
               from \notin Holding, step \notin Holding, step \notin {"slot", "give_back", "take", "check"}
        PROVE  Leases'
    <2>0. PICK n : n = Len(calls[t])
      OBVIOUS
    <2>1. TakesSlot(t, n, from, step, s)
      BY <1>b, <2>0, SlotShape
    <2>2. /\ Moves(t, n, from, step) /\ calls'[t][n].set = calls[t][n].set
          /\ calls'[t][n].cached = calls[t][n].cached
      BY <2>1 DEF TakesSlot
    <2>3. step \notin {"fill", "walk"}
      BY <1>b DEF Holding
    <2>4. QED
      BY <1>b, <2>2, <2>3, LeasesMove
  <1>1. ASSUME NEW t \in Threads, LockBuild(t) PROVE Leases'
    <2>1. /\ At(t, "lock") /\ UNCHANGED cache
          /\ \E step \in {"lease", "resolve"} : Goto(t, step)
      BY <1>1 DEF LockBuild
    <2>2. QED
      BY <1>a, <2>1, Names DEF Holding
  <1>2. ASSUME NEW t \in Threads, Resolve(t) PROVE Leases'
    <2>1. At(t, "resolve") /\ UNCHANGED cache /\ "resolve" \notin Holding /\ "bump" \notin Holding
          /\ "bump" \in Steps
      BY <1>2, Names DEF Resolve, Holding
    <2>2. CASE \E s \in Slots : calls' = WithTop(t, [Top(t) EXCEPT !.at = "bump", !.slot = s])
      <3>1. PICK s \in Slots : calls' = WithTop(t, [Top(t) EXCEPT !.at = "bump", !.slot = s])
        BY <2>2
      <3>2. s \in Nat
        BY BoundsAssumption DEF Slots
      <3>3. QED
        BY <1>b, <2>1, <3>1, <3>2
    <2>3. CASE Pop(t)
      BY <2>1, <2>3, LeasesPop
    <2>4. QED
      BY <1>2, <2>2, <2>3 DEF Resolve
  <1>3. ASSUME NEW t \in Threads, Bump(t) PROVE Leases'
    BY <1>a, <1>3, Names DEF Bump, Holding
  <1>4. ASSUME NEW t \in Threads, ClearPool(t) PROVE Leases'
    BY <1>a, <1>4, Names DEF ClearPool, Holding
  <1>5. ASSUME NEW t \in Threads, Publish(t) PROVE Leases'
    <2>1. /\ At(t, "publish") /\ UNCHANGED cache
          /\ calls' = WithTop(t, [Top(t) EXCEPT !.at = "lease", !.slot = Null])
      BY <1>5 DEF Publish
    <2>2. "publish" \notin Holding /\ "lease" \notin Holding /\ "lease" \in Steps /\ Null \in Nat
      BY Names DEF Holding, Null
    <2>3. QED
      BY <1>b, <2>1, <2>2
  <1>6. ASSUME NEW t \in Threads, Lease(t) PROVE Leases'
    <2>0. PICK n : n = Len(calls[t])
      OBVIOUS
    <2>1. At(t, "lease") /\ n \in Depths(t) /\ calls[t][n] = Top(t) /\ calls[t][n].at = "lease"
      BY <1>6, <2>0, AtFacts DEF Lease
    <2>2. CASE cache[t].busy
      <3>1. Goto(t, "slot") /\ UNCHANGED cache
        BY <1>6, <2>2 DEF Lease
      <3>2. n # 1
        BY <2>1, <2>2 DEF Leases, CacheOf, Holding
      <3>3. /\ Moves(t, n, "lease", "slot")
            /\ calls'[t][n].set = calls[t][n].set /\ calls'[t][n].cached = calls[t][n].cached
        BY <2>0, <2>1, <3>1, GotoShape, Names
      <3>4. QED
        BY <3>1, <3>2, <3>3, LeasesMove DEF Holding
    <2>3. CASE ~cache[t].busy
      <3>1. n = 1
        BY <2>0, <2>1, <2>3, Nested
      <3>2. CASE Goto(t, "give_back") /\ UNCHANGED cache
        <4>1. /\ Moves(t, n, "lease", "give_back")
              /\ calls'[t][n].set = calls[t][n].set /\ calls'[t][n].cached = calls[t][n].cached
          BY <2>0, <2>1, <3>2, GotoShape, Names
        <4>2. QED
          BY <3>1, <3>2, <4>1, LeasesMove DEF Holding
      <3>3. CASE /\ cache' = [cache EXCEPT ![t].busy = TRUE]
                 /\ calls' = WithTop(t, [Top(t) EXCEPT !.at = "check", !.cached = TRUE,
                                          !.slot = cache[t].slot, !.set = cache[t].set])
        <4>1. /\ Moves(t, n, "lease", "check")
              /\ calls'[t][n].slot = cache[t].slot /\ calls'[t][n].set = cache[t].set
              /\ calls'[t][n].cached = TRUE
          BY <2>0, <2>1, <3>3, LeaseShape
        <4>2. /\ cache'[t].slot = cache[t].slot /\ cache'[t].set = cache[t].set /\ cache'[t].busy
              /\ \A u \in Threads : u # t => cache'[u] = cache[u]
          BY <1>0, <3>3 DEF CacheType
        <4>3. Changed(t, n) /\ 1 \in Depths(t)' /\ calls'[t][1].at = "check"
          BY <3>1, <4>1 DEF Moves
        <4>4. LeaseOf(t, 1)'
          BY <3>1, <4>1, <4>2, <4>3 DEF LeaseOf, Holding
        <4>5. \A d \in Depths(t)' : d = 1
          BY <2>0, <3>1, <4>3, First DEF Changed
        <4>6. CacheOf(t)'
          BY <4>2, <4>3 DEF Leases, CacheOf, Holding
        <4>7. QED
          BY <4>2, <4>3, <4>4, <4>5, <4>6, LeasesFrame
      <3>4. QED
        BY <1>6, <2>3, <3>2, <3>3 DEF Lease
    <2>4. QED
      BY <2>2, <2>3
  <1>7. ASSUME NEW t \in Threads, GiveBack(t) PROVE Leases'
    <2>0. PICK n : n = Len(calls[t])
      OBVIOUS
    <2>1. /\ At(t, "give_back") /\ Goto(t, "slot") /\ cache' = [cache EXCEPT ![t] = EmptyCache]
      BY <1>7 DEF GiveBack, CacheGivesBack
    <2>2. /\ Moves(t, n, "give_back", "slot")
          /\ calls'[t][n].set = calls[t][n].set /\ calls'[t][n].cached = calls[t][n].cached
      BY <2>0, <2>1, GotoShape, Names
    <2>3. /\ Changed(t, n) /\ n \in Depths(t) /\ n \in Depths(t)' /\ calls[t][n].at = "give_back"
          /\ calls'[t][n].at = "slot"
      BY <2>2 DEF Moves
    <2>4. LeaseOf(t, n)
      BY <2>3 DEF Leases
    <2>5. n = 1
      BY <2>3, <2>4 DEF LeaseOf
    <2>6. /\ cache'[t].slot = Null /\ cache'[t].set = Null /\ ~cache'[t].busy
          /\ \A u \in Threads : u # t => cache'[u] = cache[u]
      BY <1>0, <2>1, Names
    <2>7. LeaseOf(t, n)'
      BY <2>2, <2>3, <2>4, <2>6 DEF LeaseOf, Holding
    <2>8. \A d \in Depths(t)' : d = n
      BY <2>0, <2>3, <2>5, First DEF Changed
    <2>9. CacheOf(t)'
      BY <2>3, <2>5, <2>6 DEF CacheOf, Holding
    <2>10. QED
      BY <2>3, <2>6, <2>7, <2>8, <2>9, LeasesFrame
  <1>8. ASSUME NEW t \in Threads, SlotFor(t) PROVE Leases'
    <2>0. PICK n : n = Len(calls[t])
      OBVIOUS
    <2>1. /\ At(t, "slot") /\ "take" \in Steps /\ "slot" \notin Holding
          /\ n \in Depths(t) /\ calls[t][n] = Top(t) /\ calls[t][n].at = "slot"
      BY <1>8, <2>0, AtFacts, Names DEF SlotFor, Holding
    <2>2. LeaseOf(t, n) /\ CacheOf(t)
      BY <2>1 DEF Leases
    <2>3. CASE \E s \in Slots :
                 /\ cache' = IF cache[t].busy THEN cache ELSE [cache EXCEPT ![t].slot = s]
                 /\ calls' = WithTop(t, [Top(t) EXCEPT !.at = "take", !.slot = s])
      <3>1. PICK s \in Slots :
              /\ cache' = IF cache[t].busy THEN cache ELSE [cache EXCEPT ![t].slot = s]
              /\ calls' = WithTop(t, [Top(t) EXCEPT !.at = "take", !.slot = s])
        BY <2>3
      <3>2. s \in Nat
        BY BoundsAssumption DEF Slots
      <3>3. TakesSlot(t, n, "slot", "take", s)
        BY <2>0, <2>1, <3>1, <3>2, SlotShape
      <3>4. /\ Changed(t, n) /\ n \in Depths(t)' /\ calls'[t][n].at = "take" /\ calls'[t][n].slot = s
            /\ calls'[t][n].set = calls[t][n].set /\ calls'[t][n].cached = calls[t][n].cached
        BY <3>3 DEF TakesSlot, Moves
      <3>5. CASE cache[t].busy
        <4>1. UNCHANGED cache /\ n # 1
          BY <2>1, <2>2, <3>1, <3>5 DEF CacheOf, Holding
        <4>2. LeaseOf(t, n)'
          BY <2>1, <2>2, <3>4, <4>1 DEF LeaseOf, Holding
        <4>3. CacheOf(t)'
          BY <2>2, <3>4, <4>1 DEF CacheOf, Changed
        <4>4. QED
          BY <3>4, <4>1, <4>2, <4>3, LeasesQuiet
      <3>6. CASE ~cache[t].busy
        <4>1. n = 1
          BY <2>0, <2>1, <3>6, Nested
        <4>2. cache[t].set = Null
          BY <2>1, <2>2, <4>1 DEF LeaseOf, CacheOf
        <4>3. /\ cache'[t].slot = s /\ cache'[t].set = Null /\ ~cache'[t].busy
              /\ \A u \in Threads : u # t => cache'[u] = cache[u]
          BY <1>0, <3>1, <3>6, <4>2 DEF CacheType
        <4>4. LeaseOf(t, n)'
          BY <2>1, <2>2, <3>4, <4>3 DEF LeaseOf, Holding
        <4>5. \A d \in Depths(t)' : d = n
          BY <2>0, <3>4, <4>1, First DEF Changed
        <4>6. CacheOf(t)'
          BY <3>4, <4>1, <4>3 DEF CacheOf, Holding
        <4>7. QED
          BY <3>4, <4>3, <4>4, <4>5, <4>6, LeasesFrame
      <3>7. QED
        BY <3>5, <3>6
    <2>4. CASE Pop(t) /\ UNCHANGED cache
      BY <2>1, <2>4, LeasesPop
    <2>5. QED
      BY <1>8, <2>3, <2>4 DEF SlotFor
  <1>9. ASSUME NEW t \in Threads, Take(t) PROVE Leases'
    <2>0. PICK n : n = Len(calls[t])
      OBVIOUS
    <2>1. /\ At(t, "take") /\ "take" \notin Holding
          /\ n \in Depths(t) /\ calls[t][n] = Top(t) /\ calls[t][n].at = "take"
      BY <1>9, <2>0, AtFacts DEF Take, Holding
    <2>2. LeaseOf(t, n) /\ CacheOf(t)
      BY <2>1 DEF Leases
    <2>3. Top(t).slot \in DOMAIN slots /\ Top(t).slot # Null
      BY <1>0, <2>1, SlotInUse, SlotFacts, Names
    <2>4. (\E i \in Nat \ {0} : Hold(t, i)) \/ (Pop(t) /\ UNCHANGED cache)
      <3>1. slots[Top(t).slot].free \subseteq Nat \ {0}
        BY <1>0, <2>3, SlotFacts DEF SlotType
      <3>2. NewSet \in Nat \ {0}
        BY <1>0, NewSetFacts
      <3>3. QED
        BY <1>9, <3>1, <3>2 DEF Take, MakeSet
    <2>5. CASE \E i \in Nat \ {0} : Hold(t, i)
      <3>1. PICK i \in Nat \ {0} : Hold(t, i)
        BY <2>5
      <3>2. /\ Moves(t, n, "take", "check")
            /\ calls'[t][n].slot = calls[t][n].slot /\ calls'[t][n].set = i
            /\ calls'[t][n].cached = ~cache[t].busy
        BY <2>0, <2>1, <3>1, HoldShape
      <3>3. Changed(t, n) /\ n \in Depths(t)' /\ calls'[t][n].at = "check"
        BY <3>2 DEF Moves
      <3>4. cache' = IF cache[t].busy THEN cache
                       ELSE [cache EXCEPT ![t] = [slot |-> @.slot, set |-> i, busy |-> TRUE]]
        BY <3>1 DEF Hold
      <3>5. CASE cache[t].busy
        <4>1. UNCHANGED cache /\ n # 1
          BY <2>1, <2>2, <3>4, <3>5 DEF CacheOf, Holding
        <4>2. LeaseOf(t, n)'
          <5>1. ~calls'[t][n].cached /\ calls'[t][n].set # Null
            BY <3>1, <3>2, <3>5, Names
          <5>2. QED
            BY <3>3, <4>1, <5>1 DEF LeaseOf, Holding
        <4>3. CacheOf(t)'
          BY <2>2, <3>3, <4>1 DEF CacheOf, Changed
        <4>4. QED
          BY <3>3, <4>1, <4>2, <4>3, LeasesQuiet
      <3>6. CASE ~cache[t].busy
        <4>1. n = 1
          BY <2>0, <2>1, <3>6, Nested
        <4>2. cache[t].slot = Top(t).slot
          BY <2>1, <2>2, <4>1 DEF LeaseOf
        <4>3. /\ cache'[t].slot = cache[t].slot /\ cache'[t].set = i /\ cache'[t].busy
              /\ \A u \in Threads : u # t => cache'[u] = cache[u]
          BY <1>0, <3>4, <3>6 DEF CacheType
        <4>4. LeaseOf(t, n)'
          <5>1. calls'[t][n].cached /\ calls'[t][n].slot = cache'[t].slot /\ calls'[t][n].set = cache'[t].set
            BY <2>1, <3>2, <3>6, <4>2, <4>3
          <5>2. QED
            BY <3>3, <4>1, <5>1 DEF LeaseOf, Holding
        <4>5. \A d \in Depths(t)' : d = n
          BY <2>0, <3>3, <4>1, First DEF Changed
        <4>6. CacheOf(t)'
          BY <2>3, <3>3, <4>1, <4>2, <4>3 DEF CacheOf, Holding
        <4>7. QED
          BY <3>3, <4>3, <4>4, <4>5, <4>6, LeasesFrame
      <3>7. QED
        BY <3>5, <3>6
    <2>6. CASE Pop(t) /\ UNCHANGED cache
      BY <2>1, <2>6, LeasesPop
    <2>7. QED
      BY <2>4, <2>5, <2>6
  <1>10. ASSUME NEW t \in Threads, CheckGeneration(t) PROVE Leases'
    <2>1. At(t, "check") /\ Goto(t, "fill") /\ UNCHANGED cache /\ Top(t).set # Null
      BY <1>10 DEF CheckGeneration
    <2>2. QED
      BY <1>a, <2>1, Names DEF Holding
  <1>11. ASSUME NEW t \in Threads, Fill(t) PROVE Leases'
    <2>1. At(t, "fill") /\ Goto(t, "walk") /\ UNCHANGED cache
      BY <1>11 DEF Fill
    <2>2. Top(t).set # Null
      <3>1. Len(calls[t]) \in Depths(t) /\ Top(t) = calls[t][Len(calls[t])] /\ Top(t).at = "fill"
        BY <2>1, AtFacts
      <3>2. QED
        BY <3>1 DEF Leases, LeaseOf
    <2>3. QED
      BY <1>a, <2>1, <2>2, Names DEF Holding
  <1>12. ASSUME NEW t \in Threads, EndLease(t) PROVE Leases'
    <2>0. PICK n : n = Len(calls[t])
      OBVIOUS
    <2>1. /\ At(t, "walk") /\ Pop(t)
          /\ cache' = IF Top(t).cached THEN [cache EXCEPT ![t].busy = FALSE] ELSE cache
      BY <1>12 DEF EndLease
    <2>2. /\ Changed(t, n) /\ n \in Depths(t) /\ n \notin Depths(t)' /\ calls[t][n] = Top(t)
          /\ calls[t][n].at = "walk"
      BY <2>0, <2>1, PopShape
    <2>3. (Top(t).cached <=> n = 1) /\ CacheOf(t)
      BY <2>2 DEF Leases, LeaseOf, Holding
    <2>4. CASE n = 1
      <3>1. \A d \in Depths(t)' : FALSE
        <4>1. Depths(t) = {1}
          BY <2>0, <2>4, First
        <4>2. \A d \in Depths(t)' : d = n
          BY <2>2, <2>4, <4>1 DEF Changed
        <4>3. QED
          BY <2>2, <4>2
      <3>2. /\ cache'[t].slot = cache[t].slot /\ cache'[t].set = cache[t].set /\ ~cache'[t].busy
            /\ \A u \in Threads : u # t => cache'[u] = cache[u]
        BY <1>0, <2>1, <2>3, <2>4 DEF CacheType
      <3>3. CacheOf(t)'
        BY <2>2, <2>3, <2>4, <3>2 DEF CacheOf
      <3>4. QED
        BY <2>2, <3>1, <3>2, <3>3, LeasesFrame
    <2>5. CASE n # 1
      <3>1. UNCHANGED cache
        BY <2>1, <2>3, <2>5
      <3>2. CacheOf(t)'
        BY <2>2, <2>3, <2>5, <3>1 DEF CacheOf, Changed
      <3>3. QED
        BY <2>2, <3>1, <3>2, LeasesQuiet
    <2>6. QED
      BY <2>4, <2>5
  <1>13. ASSUME NEW t \in Threads, Unmap(t) PROVE Leases'
    <2>1. At(t, "unmap") /\ UNCHANGED cache /\ map[Top(t).regex] # Null
          /\ "unmap" \notin Holding /\ "retire" \notin Holding /\ "retire" \in Steps
      BY <1>13, Names DEF Unmap, Holding
    <2>2. CASE Pop(t)
      BY <2>1, <2>2, LeasesPop
    <2>3. CASE /\ map[Top(t).regex] # Absent
               /\ calls' = WithTop(t, [Top(t) EXCEPT !.at = "retire", !.slot = map[Top(t).regex]])
      <3>1. map[Top(t).regex] \in Nat
        BY <1>0, <2>1, <2>3, AtFacts, SlotFacts, Names DEF MapTypes
      <3>2. QED
        BY <1>b, <2>1, <2>3, <3>1
    <2>4. QED
      BY <1>13, <2>2, <2>3 DEF Unmap
  <1>14. ASSUME NEW t \in Threads, Retire(t) PROVE Leases'
    BY <1>a, <1>14, Names DEF Retire, Holding
  <1>15. ASSUME NEW t \in Threads, Drain(t) PROVE Leases'
    BY <1>a, <1>15, Names DEF Drain, Holding
  <1>16. ASSUME NEW t \in Threads, Drop(t) PROVE Leases'
    <2>0. PICK n : n = Len(calls[t])
      OBVIOUS
    <2>1. /\ At(t, "drop") /\ Pop(t) /\ "drop" \notin Holding
          /\ \/ ~cache[t].busy /\ cache' = [cache EXCEPT ![t] = EmptyCache]
             \/ UNCHANGED cache
      BY <1>16 DEF Drop, Holding
    <2>2. Changed(t, n) /\ n \in Depths(t) /\ n \notin Depths(t)'
      BY <2>0, <2>1, PopShape
    <2>3. CASE ~cache[t].busy /\ cache' = [cache EXCEPT ![t] = EmptyCache]
      <3>1. n = 1
        BY <2>0, <2>2, <2>3, Nested
      <3>2. \A d \in Depths(t)' : FALSE
        <4>1. Depths(t) = {1} /\ 1 \notin Depths(t)'
          BY <2>0, <2>2, <3>1, First
        <4>2. ASSUME NEW d \in Depths(t)' PROVE FALSE
          <5>1. d = n \/ d \in Depths(t)
            BY <2>2, <4>2 DEF Changed
          <5>2. QED
            BY <3>1, <4>1, <4>2, <5>1
        <4>3. QED
          BY <4>2
      <3>3. /\ cache'[t].slot = Null /\ cache'[t].set = Null /\ ~cache'[t].busy
            /\ \A u \in Threads : u # t => cache'[u] = cache[u]
        BY <1>0, <2>3, Names
      <3>4. CacheOf(t)'
        BY <3>2, <3>3 DEF CacheOf
      <3>5. QED
        BY <2>2, <3>2, <3>3, <3>4, LeasesFrame
    <2>4. CASE UNCHANGED cache
      BY <2>1, <2>4, LeasesPop
    <2>5. QED
      BY <2>1, <2>3, <2>4
  <1>17. ASSUME NEW t \in Threads, ThreadExit(t) PROVE Leases'
    <2>1. calls[t] = <<>> /\ UNCHANGED calls /\ cache' = [cache EXCEPT ![t] = EmptyCache]
      BY <1>17 DEF ThreadExit, CacheGivesBack
    <2>2. Changed(t, 0) /\ Depths(t) = {} /\ Depths(t)' = {}
      <3>1. Depths(t) = {} /\ \A u \in Threads : 0 \notin Depths(u)
        BY <2>1, TopFacts DEF Typing, Depths
      <3>2. \A u \in Threads : Depths(u)' = Depths(u)
        BY <2>1 DEF Depths
      <3>3. QED
        BY <2>1, <3>1, <3>2 DEF Changed
    <2>3. /\ cache'[t].slot = Null /\ cache'[t].set = Null /\ ~cache'[t].busy
          /\ \A u \in Threads : u # t => cache'[u] = cache[u]
      BY <1>0, <2>1, Names
    <2>4. CacheOf(t)'
      BY <2>2, <2>3 DEF CacheOf
    <2>5. QED
      BY <2>2, <2>3, <2>4, LeasesFrame
  <1>18. ASSUME NEW t \in Threads, NEW a \in Addresses, Search(t, a) \/ Destroy(t, a) PROVE Leases'
    <2>1. UNCHANGED cache /\ \E step \in {"lock", "lease", "unmap"} : Push(t, a, step)
      BY <1>18 DEF Search, Destroy
    <2>2. QED
      BY <2>1, LeasesPush
  <1>19. ASSUME NEW a \in Addresses, Construct(a) \/ Assign(a) PROVE Leases'
    <2>1. UNCHANGED <<cache, calls>>
      BY <1>19 DEF Construct, Assign
    <2>2. QED
      BY <2>1 DEF Leases, LeaseOf, CacheOf, Depths
  <1>20. QED
    BY <1>1, <1>2, <1>3, <1>4, <1>5, <1>6, <1>7, <1>8, <1>9, <1>10, <1>11, <1>12, <1>13, <1>14,
       <1>15, <1>16, <1>17, <1>18, <1>19, NextCases

-----------------------------------------------------------------------------
(* What a step does to a set: it leaves it where it is, moves it, makes it  *)
(* or destroys it.                                                          *)

\* Where a set is, it is alone.
InPool(i, s) ==
  /\ s \in DOMAIN slots /\ \A r \in DOMAIN slots : Pools(i, r) <=> r = s
  /\ \A u \in Threads : ~Caches(i, u)
  /\ \A u \in Threads : \A e \in Depths(u) : ~Holds(i, u, e)
InCache(i, t) ==
  /\ \A r \in DOMAIN slots : ~Pools(i, r)
  /\ t \in Threads /\ \A u \in Threads : Caches(i, u) <=> u = t
  /\ \A u \in Threads : \A e \in Depths(u) : ~Holds(i, u, e)
InLease(i, t, d) ==
  /\ \A r \in DOMAIN slots : ~Pools(i, r)
  /\ \A u \in Threads : ~Caches(i, u)
  /\ t \in Threads /\ d \in Depths(t)
  /\ \A u \in Threads : \A e \in Depths(u) : Holds(i, u, e) <=> u = t /\ e = d
Nowhere(i) ==
  /\ \A r \in DOMAIN slots : ~Pools(i, r)
  /\ \A u \in Threads : ~Caches(i, u)
  /\ \A u \in Threads : \A e \in Depths(u) : ~Holds(i, u, e)

Under(i, s) ==
  \/ InPool(i, s)
  \/ \E t \in Threads : InCache(i, t) /\ cache[t].slot = s
  \/ \E t \in Threads : \E d \in Depths(t) : InLease(i, t, d) /\ calls[t][d].slot = s

LEMMA WhereItIs ==
  ASSUME Owned, NEW i \in SetIds
  PROVE  /\ \A s \in DOMAIN slots : Pools(i, s) => InPool(i, s) /\ i \in DOMAIN sets
         /\ \A t \in Threads : Caches(i, t) => InCache(i, t) /\ i \in DOMAIN sets
         /\ \A t \in Threads : \A d \in Depths(t) : Holds(i, t, d) => InLease(i, t, d) /\ i \in DOMAIN sets
         /\ i \notin DOMAIN sets => Nowhere(i)
  <1>1. Exclusive(i) /\ (Had(i) <=> i \in DOMAIN sets)
    BY DEF Owned
  <1>2. \A s \in DOMAIN slots : Pools(i, s) => InPool(i, s)
    BY <1>1 DEF Exclusive, InPool
  <1>3. \A t \in Threads : Caches(i, t) => InCache(i, t)
    BY <1>1 DEF Exclusive, InCache
  <1>4. \A t \in Threads : \A d \in Depths(t) : Holds(i, t, d) => InLease(i, t, d)
    BY <1>1 DEF Exclusive, InLease
  <1>5. i \notin DOMAIN sets => Nowhere(i)
    BY <1>1 DEF Had, Nowhere
  <1>6. QED
    BY <1>1, <1>2, <1>3, <1>4, <1>5 DEF Had

LEMMA UnderIsExclusive ==
  ASSUME NEW i, NEW s, Under(i, s)
  PROVE  Exclusive(i) /\ Had(i) /\ \A r \in DOMAIN slots : Home(i, r) => r = s
  <1>1. CASE InPool(i, s)
    BY <1>1 DEF InPool, Exclusive, Had, Home
  <1>2. CASE \E t \in Threads : InCache(i, t) /\ cache[t].slot = s
    BY <1>2 DEF InCache, Exclusive, Had, Home
  <1>3. CASE \E t \in Threads : \E d \in Depths(t) : InLease(i, t, d) /\ calls[t][d].slot = s
    BY <1>3 DEF InLease, Exclusive, Had, Home
  <1>4. QED
    BY <1>1, <1>2, <1>3 DEF Under

\* The same in a form that holds of the next state too.
OneHomeEach == \A i, s : Under(i, s) => \A r \in DOMAIN slots : Home(i, r) => r = s

LEMMA HomesAreSingle == OneHomeEach
  BY UnderIsExclusive DEF OneHomeEach

LEMMA NowhereFacts ==
  ASSUME NEW i, Nowhere(i)
  PROVE  Exclusive(i) /\ ~Had(i)
  BY DEF Nowhere, Exclusive, Had

PoolsSame(i) ==
  /\ \A s \in DOMAIN slots' : Pools(i, s)' => s \in DOMAIN slots /\ Pools(i, s)
  /\ \A s \in DOMAIN slots : Pools(i, s) => s \in DOMAIN slots' /\ Pools(i, s)'
CachesSame(i) ==
  \A u \in Threads : /\ Caches(i, u)' <=> Caches(i, u)
                     /\ Caches(i, u) => cache'[u].slot = cache[u].slot
HoldsSame(i) ==
  /\ \A u \in Threads : \A e \in Depths(u)' :
       Holds(i, u, e)' => /\ e \in Depths(u) /\ Holds(i, u, e)
                          /\ calls'[u][e].slot = calls[u][e].slot
  /\ \A u \in Threads : \A e \in Depths(u) : Holds(i, u, e) => e \in Depths(u)' /\ Holds(i, u, e)'

Same(i) ==
  PoolsSame(i) /\ CachesSame(i) /\ HoldsSame(i) /\ (i \in DOMAIN sets' <=> i \in DOMAIN sets)
Moved(i, s) ==
  s \in DOMAIN slots /\ Home(i, s) /\ Under(i, s)' /\ i \in DOMAIN sets /\ i \in DOMAIN sets'
Made(i, s) ==
  /\ \E t \in Threads : At(t, "take") /\ s = Top(t).slot /\ Take(t)
  /\ s \in DOMAIN slots /\ slots[s].free = {} /\ UNCHANGED slots
  /\ Under(i, s)' /\ i \notin DOMAIN sets /\ i \in DOMAIN sets' /\ sets'[i] = FreshSet
Lost(i) == Nowhere(i)' /\ i \notin DOMAIN sets'

Fate(i) == Same(i) \/ Lost(i) \/ \E s \in DOMAIN slots : Moved(i, s) \/ Made(i, s)

LEMMA SameKeeps ==
  ASSUME NEW i, Same(i)
  PROVE  /\ Exclusive(i) => Exclusive(i)'
         /\ Had(i)' <=> Had(i)
         /\ \A s \in DOMAIN slots' : Home(i, s)' => Home(i, s)
  <1>1. Exclusive(i) => Exclusive(i)'
    BY DEF Same, PoolsSame, CachesSame, HoldsSame, Exclusive
  <1>2. Had(i)' <=> Had(i)
    BY DEF Same, PoolsSame, CachesSame, HoldsSame, Had
  <1>3. ASSUME NEW s \in DOMAIN slots', Home(i, s)' PROVE Home(i, s)
    BY <1>3 DEF Same, PoolsSame, CachesSame, HoldsSame, Home
  <1>4. QED
    BY <1>1, <1>2, <1>3

LEMMA OwnedKept ==
  ASSUME Owned, \A i \in SetIds : Fate(i)
  PROVE  Owned'
  <1>1. ASSUME NEW i \in SetIds PROVE Exclusive(i)' /\ (Had(i)' <=> i \in DOMAIN sets')
    <2>1. Exclusive(i) /\ (Had(i) <=> i \in DOMAIN sets)
      BY DEF Owned
    <2>2. CASE Same(i)
      BY <2>1, <2>2, SameKeeps DEF Same
    <2>3. CASE Lost(i)
      <3>1. Nowhere(i)' => (Exclusive(i) /\ ~Had(i))'
        BY NowhereFacts, PTL
      <3>2. QED
        BY <2>3, <3>1 DEF Lost
    <2>4. CASE \E s \in DOMAIN slots : Moved(i, s) \/ Made(i, s)
      <3>1. PICK s \in DOMAIN slots : Moved(i, s) \/ Made(i, s)
        BY <2>4
      <3>2. Under(i, s)' /\ i \in DOMAIN sets'
        BY <3>1 DEF Moved, Made
      <3>3. QED
        BY <3>2, UnderIsExclusive, PTL
    <2>5. QED
      BY <2>2, <2>3, <2>4 DEF Fate
  <1>2. SetIds' = SetIds
    BY DEF SetIds
  <1>3. QED
    BY <1>1, <1>2 DEF Owned

\* The steps that leave every set where it is.
LEMMA HoldsKept ==
  ASSUME NEW t \in Threads, NEW n, Changed(t, n), NEW i \in SetIds,
         n \in Depths(t)' => \/ calls'[t][n].cached \/ calls'[t][n].set = Null
                             \/ /\ n \in Depths(t) /\ calls[t][n].slot = calls'[t][n].slot
                                /\ calls[t][n].set = calls'[t][n].set
                                /\ calls[t][n].cached = calls'[t][n].cached,
         n \in Depths(t) => \/ calls[t][n].cached \/ calls[t][n].set = Null
                            \/ /\ n \in Depths(t)' /\ calls[t][n].slot = calls'[t][n].slot
                               /\ calls[t][n].set = calls'[t][n].set
                               /\ calls[t][n].cached = calls'[t][n].cached
  PROVE  HoldsSame(i)
  <1>1. i # Null
    BY Names DEF SetIds
  <1>2. ASSUME NEW u \in Threads, NEW e \in Depths(u)', Holds(i, u, e)'
        PROVE  /\ e \in Depths(u) /\ Holds(i, u, e)
               /\ calls'[u][e].slot = calls[u][e].slot
    BY <1>1, <1>2 DEF Holds, Changed
  <1>3. ASSUME NEW u \in Threads, NEW e \in Depths(u), Holds(i, u, e)
        PROVE  e \in Depths(u)' /\ Holds(i, u, e)'
    BY <1>1, <1>3 DEF Holds, Changed
  <1>4. QED
    BY <1>2, <1>3 DEF HoldsSame

LEMMA GotoHolds ==
  ASSUME Typing, NEW t \in Threads, NEW from, At(t, from), NEW step \in Steps, Goto(t, step)
  PROVE  \A i \in SetIds : HoldsSame(i)
  <1>0. PICK n : n = Len(calls[t])
    OBVIOUS
  <1>1. /\ Moves(t, n, from, step)
        /\ calls'[t][n].slot = calls[t][n].slot
        /\ calls'[t][n].set = calls[t][n].set /\ calls'[t][n].cached = calls[t][n].cached
    BY <1>0, GotoShape
  <1>2. Changed(t, n) /\ n \in Depths(t) /\ n \in Depths(t)'
    BY <1>1 DEF Moves
  <1>3. QED
    BY <1>1, <1>2, HoldsKept

LEMMA TakesSlotHolds ==
  ASSUME Typing, Leases, NEW t \in Threads, NEW from, At(t, from), from \notin Holding,
         NEW step \in Steps, NEW s \in Nat,
         calls' = WithTop(t, [Top(t) EXCEPT !.at = step, !.slot = s])
  PROVE  \A i \in SetIds : HoldsSame(i)
  <1>0. PICK n : n = Len(calls[t])
    OBVIOUS
  <1>1. TakesSlot(t, n, from, step, s)
    BY <1>0, SlotShape, Zenon
  <1>2. /\ Changed(t, n) /\ n \in Depths(t) /\ n \in Depths(t)' /\ calls[t][n].at = from
        /\ calls'[t][n].set = calls[t][n].set
    BY <1>1 DEF TakesSlot, Moves
  <1>3. calls[t][n].set = Null
    BY <1>2 DEF Leases, LeaseOf
  <1>4. QED
    BY <1>2, <1>3, HoldsKept

LEMMA PopHolds ==
  ASSUME Typing, Leases, NEW t \in Threads, NEW from, At(t, from), Pop(t),
         from \notin Holding \/ Top(t).cached
  PROVE  \A i \in SetIds : HoldsSame(i)
  <1>0. PICK n : n = Len(calls[t])
    OBVIOUS
  <1>1. /\ Changed(t, n) /\ n \in Depths(t) /\ n \notin Depths(t)' /\ calls[t][n].at = from
        /\ calls[t][n] = Top(t)
    BY <1>0, PopShape
  <1>2. calls[t][n].set = Null \/ calls[t][n].cached
    BY <1>1 DEF Leases, LeaseOf
  <1>3. QED
    BY <1>1, <1>2, HoldsKept

LEMMA PushHolds ==
  ASSUME Typing, NEW t \in Threads, NEW a \in Addresses, NEW step \in Steps, Push(t, a, step)
  PROVE  \A i \in SetIds : HoldsSame(i)
  <1>0. PICK n : n = Len(calls[t]) + 1
    OBVIOUS
  <1>1. /\ Changed(t, n) /\ n \notin Depths(t) /\ n \in Depths(t)'
        /\ calls'[t][n] = NewCall(a, step)
    BY <1>0, PushShape
  <1>2. calls'[t][n].set = Null
    BY <1>1 DEF NewCall
  <1>3. QED
    BY <1>1, <1>2, HoldsKept

LEMMA StoresKept ==
  /\ UNCHANGED slots => \A i : PoolsSame(i)
  /\ (/\ DOMAIN slots \subseteq DOMAIN slots'
      /\ \A r \in DOMAIN slots : slots'[r].free = slots[r].free
      /\ \A r \in DOMAIN slots' : r \in DOMAIN slots \/ slots'[r].free = {}) => \A i : PoolsSame(i)
  /\ UNCHANGED cache => \A i : CachesSame(i)
  /\ UNCHANGED calls => \A i : HoldsSame(i)
  /\ UNCHANGED sets => DOMAIN sets' = DOMAIN sets
  <1>1. UNCHANGED slots => \A i : PoolsSame(i)
    BY DEF PoolsSame, Pools
  <1>2. (/\ DOMAIN slots \subseteq DOMAIN slots'
         /\ \A r \in DOMAIN slots : slots'[r].free = slots[r].free
         /\ \A r \in DOMAIN slots' : r \in DOMAIN slots \/ slots'[r].free = {}) => \A i : PoolsSame(i)
    BY DEF PoolsSame, Pools
  <1>3. UNCHANGED cache => \A i : CachesSame(i)
    BY DEF CachesSame, Caches
  <1>4. UNCHANGED calls => \A i : HoldsSame(i)
    BY DEF HoldsSame, Holds, Depths
  <1>5. QED
    BY <1>1, <1>2, <1>3, <1>4

\* A thread's cache keeps its set: all else of it may change while it has none.
LEMMA CachesKept ==
  ASSUME Typing, NEW t \in Threads, \A u \in Threads : u # t => cache'[u] = cache[u],
         cache'[t].set = cache[t].set, cache[t].set # Null => cache'[t].slot = cache[t].slot
  PROVE  \A i \in SetIds : CachesSame(i)
  BY Names DEF CachesSame, Caches, SetIds

\* A slot's free sets are destroyed.
LEMMA PoolDestroyed ==
  ASSUME Typing, Owned, NEW s \in DOMAIN slots, slots' = [slots EXCEPT ![s].free = {}],
         sets' = Destroyed(slots[s].free), UNCHANGED cache, \A i \in SetIds : HoldsSame(i)
  PROVE  \A i \in SetIds : Fate(i)
  <1> SUFFICES ASSUME NEW i \in SetIds PROVE Fate(i)
    OBVIOUS
  <1>1. /\ DOMAIN slots' = DOMAIN slots /\ slots'[s].free = {}
        /\ \A r \in DOMAIN slots : r # s => slots'[r] = slots[r]
    BY SlotEmptied DEF Typing
  <1>2. DOMAIN sets' = DOMAIN sets \ slots[s].free
    BY DestroyedFacts DEF Typing
  <1>3. CachesSame(i) /\ HoldsSame(i)
    BY StoresKept
  <1>4. CASE Pools(i, s)
    <2>1. InPool(i, s)
      BY <1>4, WhereItIs
    <2>2. Nowhere(i)'
      BY <1>1, <1>3, <2>1 DEF InPool, Nowhere, CachesSame, HoldsSame, Pools
    <2>3. QED
      BY <1>2, <1>4, <2>2 DEF Fate, Lost, Pools
  <1>5. CASE ~Pools(i, s)
    <2>1. PoolsSame(i)
      BY <1>1, <1>5 DEF PoolsSame, Pools
    <2>2. QED
      BY <1>2, <1>3, <1>5, <2>1 DEF Fate, Same, Pools
  <1>6. QED
    BY <1>4, <1>5

\* A thread's own set, or a nested lease's, goes back to its slot.
LEMMA SetGivenBack ==
  ASSUME Typing, Owned, NEW s \in DOMAIN slots, NEW j \in SetIds, Give(s, j), Home(j, s),
         j \in DOMAIN sets, \A r \in DOMAIN slots : ~Pools(j, r),
         \A u \in Threads : ~Caches(j, u)', \A u \in Threads : \A e \in Depths(u)' : ~Holds(j, u, e)',
         \A i \in SetIds : i # j => CachesSame(i) /\ HoldsSame(i)
  PROVE  \A i \in SetIds : Fate(i)
  <1>1. /\ DOMAIN slots' = DOMAIN slots
        /\ \A r \in DOMAIN slots : r # s => slots'[r] = slots[r]
        /\ \/ slots'[s].free = slots[s].free \cup {j} /\ UNCHANGED sets
           \/ UNCHANGED slots /\ sets' = Destroyed({j})
    BY GiveFacts DEF Typing, SetIds
  <1>2. sets' = Destroyed({j}) => DOMAIN sets' = DOMAIN sets \ {j}
    BY DestroyedFacts DEF Typing
  <1>3. ASSUME NEW i \in SetIds, i # j PROVE Fate(i)
    <2>1. PoolsSame(i)
      BY <1>1, <1>3 DEF PoolsSame, Pools
    <2>2. QED
      BY <1>1, <1>2, <1>3, <2>1 DEF Fate, Same
  <1>4. Fate(j)
    <2>1. CASE slots'[s].free = slots[s].free \cup {j} /\ UNCHANGED sets
      <3>1. InPool(j, s)'
        BY <1>1, <2>1 DEF InPool, Pools
      <3>2. Moved(j, s)
        BY <2>1, <3>1 DEF Moved, Under
      <3>3. QED
        BY <3>2 DEF Fate
    <2>2. CASE UNCHANGED slots /\ sets' = Destroyed({j})
      BY <1>2, <2>2 DEF Fate, Lost, Nowhere, Pools
    <2>3. QED
      BY <1>1, <2>1, <2>2
  <1>5. QED
    BY <1>3, <1>4

LEMMA CacheReleased ==
  ASSUME Typing, NEW t \in Threads, cache' = [cache EXCEPT ![t] = EmptyCache]
  PROVE  /\ \A u \in Threads : u # t => cache'[u] = cache[u]
         /\ cache'[t].set = Null
         /\ \A i \in SetIds : i # cache[t].set => CachesSame(i)
         /\ cache[t].set = Null => \A i \in SetIds : CachesSame(i)
  <1>1. (\A u \in Threads : u # t => cache'[u] = cache[u]) /\ cache'[t].set = Null
    BY Names DEF Typing, CacheTypes
  <1>2. ASSUME NEW i \in SetIds, i # cache[t].set \/ cache[t].set = Null PROVE CachesSame(i)
    <2>1. i # Null
      BY Names DEF SetIds
    <2>2. ~Caches(i, t) /\ ~Caches(i, t)'
      BY <1>1, <1>2, <2>1 DEF Caches
    <2>3. QED
      BY <1>1, <2>2 DEF CachesSame, Caches
  <1>3. QED
    BY <1>1, <1>2

LEMMA CacheGivenBack ==
  ASSUME Typing, Leases, Owned, NEW t \in Threads, CacheGivesBack(t), \A i \in SetIds : HoldsSame(i)
  PROVE  \A i \in SetIds : Fate(i)
  <1>1. /\ cache' = [cache EXCEPT ![t] = EmptyCache]
        /\ \/ (cache[t].slot = 0 \/ cache[t].set = 0) /\ UNCHANGED <<slots, sets>>
           \/ /\ cache[t].slot \in DOMAIN slots /\ cache[t].set \in Nat \ {0}
              /\ Give(cache[t].slot, cache[t].set)
    BY CacheGivesBackFacts
  <1>2. CASE (cache[t].slot = 0 \/ cache[t].set = 0) /\ UNCHANGED <<slots, sets>>
    <2>1. cache[t].set = Null
      BY <1>2, Names DEF Leases, CacheOf
    <2>2. \A i \in SetIds : CachesSame(i)
      BY <1>1, <2>1, CacheReleased
    <2>3. \A i \in SetIds : PoolsSame(i) /\ (i \in DOMAIN sets' <=> i \in DOMAIN sets)
      BY <1>2, StoresKept
    <2>4. QED
      BY <2>2, <2>3 DEF Fate, Same
  <1>3. CASE /\ cache[t].slot \in DOMAIN slots /\ cache[t].set \in Nat \ {0}
             /\ Give(cache[t].slot, cache[t].set)
    <2>1. PICK j \in SetIds : j = cache[t].set
      BY <1>3 DEF SetIds
    <2>2. PICK s \in DOMAIN slots : s = cache[t].slot
      BY <1>3
    <2>3. Caches(j, t) /\ InCache(j, t) /\ j \in DOMAIN sets
      BY <2>1, WhereItIs DEF Caches
    <2>4. Home(j, s)
      BY <2>2, <2>3 DEF Home
    <2>5. \A r \in DOMAIN slots : ~Pools(j, r)
      BY <2>3 DEF InCache
    <2>6. /\ \A u \in Threads : ~Caches(j, u)'
          /\ \A i \in SetIds : i # j => CachesSame(i)
      <3>1. j # Null
        BY Names DEF SetIds
      <3>2. \A i \in SetIds : i # j => CachesSame(i)
        BY <1>1, <2>1, CacheReleased
      <3>3. \A u \in Threads : u # t => cache'[u] = cache[u] /\ ~Caches(j, u)
        BY <1>1, <2>3, CacheReleased DEF InCache
      <3>4. cache'[t].set = Null
        BY <1>1, CacheReleased
      <3>5. QED
        BY <3>1, <3>2, <3>3, <3>4 DEF Caches
    <2>7. \A u \in Threads : \A e \in Depths(u)' : ~Holds(j, u, e)'
      BY <2>3 DEF InCache, HoldsSame
    <2>8. Give(s, j)
      BY <1>3, <2>1, <2>2
    <2>9. QED
      BY <2>3, <2>4, <2>5, <2>6, <2>7, <2>8, SetGivenBack
  <1>4. QED
    BY <1>1, <1>2, <1>3

\* The set taken goes to the thread's cache or to the nested lease, whatever the slot's pool does.
LEMMA SetHeld ==
  ASSUME Typing, Ownership, Leases, NEW t \in Threads, At(t, "take"), NEW j \in SetIds, Hold(t, j),
         \A u \in Threads : ~Caches(j, u), \A u \in Threads : \A e \in Depths(u) : ~Holds(j, u, e),
         \A r \in DOMAIN slots' : ~Pools(j, r)', NEW s, s = Top(t).slot
  PROVE  /\ \A i \in SetIds : i # j => CachesSame(i) /\ HoldsSame(i)
         /\ Under(j, s)'
  <1>0. PICK n : n = Len(calls[t])
    OBVIOUS
  <1>2. j \in Nat /\ j # Null
    BY Names DEF SetIds
  <1>3. /\ Moves(t, n, "take", "check")
        /\ calls'[t][n].slot = calls[t][n].slot /\ calls'[t][n].set = j
        /\ calls'[t][n].cached = ~cache[t].busy
    BY <1>0, <1>2, HoldShape
  <1>4. /\ Changed(t, n) /\ n \in Depths(t) /\ n \in Depths(t)' /\ calls[t][n] = Top(t)
        /\ calls[t][n].at = "take"
    BY <1>3 DEF Moves
  <1>5. LeaseOf(t, n) /\ CacheOf(t)
    BY <1>4 DEF Leases
  <1>6. calls[t][n].set = Null /\ ~calls[t][n].cached
    BY <1>4, <1>5 DEF LeaseOf, Holding
  <1>7. CASE cache[t].busy
    <2>1. UNCHANGED cache
      BY <1>7 DEF Hold
    <2>2. ASSUME NEW i \in SetIds, i # j PROVE HoldsSame(i)
      <3>1. i # Null
        BY Names DEF SetIds
      <3>2. ~Holds(i, t, n) /\ ~Holds(i, t, n)'
        BY <1>3, <1>6, <2>2, <3>1 DEF Holds
      <3>3. QED
        BY <1>4, <3>2 DEF HoldsSame, Changed, Holds
    <2>3. ~calls'[t][n].cached
      BY <1>3, <1>7
    <2>4. InLease(j, t, n)'
      <3>1. \A u \in Threads : ~Caches(j, u)'
        BY <2>1 DEF Caches
      <3>2. ASSUME NEW u \in Threads, NEW e \in Depths(u)'
            PROVE  Holds(j, u, e)' <=> u = t /\ e = n
        BY <1>3, <1>4, <2>3, <3>2 DEF Changed, Holds
      <3>3. QED
        BY <1>4, <3>1, <3>2 DEF InLease
    <2>5. calls'[t][n].slot = s
      BY <1>3, <1>4
    <2>6. Under(j, s)'
      BY <1>4, <2>4, <2>5 DEF Under
    <2>7. QED
      BY <2>1, <2>2, <2>6, StoresKept
  <1>8. CASE ~cache[t].busy
    <2>1. n = 1
      BY <1>4, <1>8, Nested
    <2>2. cache[t].slot = s /\ cache[t].set = Null
      BY <1>4, <1>5, <2>1 DEF LeaseOf, CacheOf
    <2>3. /\ cache'[t].slot = s /\ cache'[t].set = j
          /\ \A u \in Threads : u # t => cache'[u] = cache[u]
      <3>1. cache' = [cache EXCEPT ![t] = [slot |-> @.slot, set |-> j, busy |-> TRUE]]
        BY <1>8 DEF Hold
      <3>2. QED
        BY <2>2, <3>1 DEF Typing, CacheTypes
    <2>4. ASSUME NEW i \in SetIds, i # j PROVE CachesSame(i) /\ HoldsSame(i)
      <3>1. CachesSame(i)
        <4>1. ~Caches(i, t) /\ ~Caches(i, t)'
          BY <2>2, <2>3, <2>4, Names DEF Caches, SetIds
        <4>2. QED
          BY <2>3, <4>1 DEF CachesSame, Caches
      <3>2. HoldsSame(i)
        BY <1>3, <1>4, <1>6, <1>8, HoldsKept
      <3>3. QED
        BY <3>1, <3>2
    <2>5. InCache(j, t)'
      <3>1. HoldsSame(j)
        BY <1>3, <1>4, <1>6, <1>8, HoldsKept
      <3>2. \A u \in Threads : \A e \in Depths(u)' : ~Holds(j, u, e)'
        BY <3>1 DEF HoldsSame
      <3>3. \A u \in Threads : Caches(j, u)' <=> u = t
        BY <2>3 DEF Caches
      <3>4. QED
        BY <3>2, <3>3 DEF InCache
    <2>6. Under(j, s)'
      BY <2>3, <2>5 DEF Under
    <2>7. QED
      BY <2>4, <2>6
  <1>9. QED
    BY <1>7, <1>8

LEMMA SlotMadePools ==
  ASSUME Typing, NEW a \in Addresses, NEW s \in Slots, SlotMade(a, s)
  PROVE  \A i \in SetIds : PoolsSame(i)
  <1>1. /\ DOMAIN slots \subseteq DOMAIN slots'
        /\ \A r \in DOMAIN slots : slots'[r] = slots[r]
        /\ \/ UNCHANGED slots
           \/ DOMAIN slots' = DOMAIN slots \cup {s} /\ slots'[s] = FreshSlot(a)
    BY SlotMadeFacts DEF Typing
  <1>2. \A r \in DOMAIN slots' : r \in DOMAIN slots \/ slots'[r].free = {}
    BY <1>1 DEF FreshSlot
  <1>3. QED
    BY <1>1, <1>2, StoresKept

LEMMA FateStep ==
  ASSUME Typing, Phases, Ownership, Leases, Owned, Next
  PROVE  \A i \in SetIds : Fate(i)
  <1>0. SlotTypes /\ SetTypes /\ MapTypes /\ cache \in [Threads -> CacheType]
    BY DEF Typing, CacheTypes
  <1>a. ASSUME \A i \in SetIds : PoolsSame(i), \A i \in SetIds : CachesSame(i),
               \A i \in SetIds : HoldsSame(i), DOMAIN sets' = DOMAIN sets
        PROVE  \A i \in SetIds : Fate(i)
    BY <1>a DEF Fate, Same
  <1>1. ASSUME NEW t \in Threads, LockBuild(t) PROVE \A i \in SetIds : Fate(i)
    <2>1. /\ At(t, "lock") /\ UNCHANGED cache /\ UNCHANGED slots /\ UNCHANGED sets
          /\ \E step \in {"lease", "resolve"} : Goto(t, step)
      BY <1>1 DEF LockBuild
    <2>2. \A i \in SetIds : HoldsSame(i)
      BY <2>1, GotoHolds, Names
    <2>3. QED
      BY <1>a, <2>1, <2>2, StoresKept
  <1>2. ASSUME NEW t \in Threads, Resolve(t) PROVE \A i \in SetIds : Fate(i)
    <2>1. At(t, "resolve") /\ UNCHANGED cache /\ UNCHANGED sets
      BY <1>2 DEF Resolve
    <2>2. "resolve" \notin Holding /\ "bump" \in Steps /\ Top(t).regex \in Addresses
      BY <2>1, AtFacts, Names DEF Holding
    <2>3. CASE \E s \in Slots :
                 /\ \/ UNCHANGED slots
                    \/ SlotMade(Top(t).regex, s)
                 /\ calls' = WithTop(t, [Top(t) EXCEPT !.at = "bump", !.slot = s])
      <3>1. PICK s \in Slots :
              /\ UNCHANGED slots \/ SlotMade(Top(t).regex, s)
              /\ calls' = WithTop(t, [Top(t) EXCEPT !.at = "bump", !.slot = s])
        BY <2>3
      <3>2. s \in Nat
        BY BoundsAssumption DEF Slots
      <3>3. \A i \in SetIds : HoldsSame(i)
        BY <2>1, <2>2, <3>1, <3>2, TakesSlotHolds
      <3>4. SlotMade(Top(t).regex, s) => \A i \in SetIds : PoolsSame(i)
        BY <2>2, SlotMadePools
      <3>5. QED
        BY <1>a, <2>1, <3>1, <3>3, <3>4, StoresKept
    <2>4. CASE UNCHANGED slots /\ Pop(t)
      <3>1. \A i \in SetIds : HoldsSame(i)
        BY <2>1, <2>2, <2>4, PopHolds
      <3>2. QED
        BY <1>a, <2>1, <2>4, <3>1, StoresKept
    <2>5. QED
      BY <1>2, <2>3, <2>4 DEF Resolve
  <1>3. ASSUME NEW t \in Threads, Bump(t) PROVE \A i \in SetIds : Fate(i)
    <2>1. /\ At(t, "bump") /\ UNCHANGED cache /\ UNCHANGED sets /\ Goto(t, "clear")
          /\ slots' = [slots EXCEPT ![Top(t).slot].generation = @ + 1]
      BY <1>3 DEF Bump
    <2>2. \A i \in SetIds : HoldsSame(i)
      BY <2>1, GotoHolds, Names
    <2>3. Top(t).slot \in DOMAIN slots
      BY <2>1, SlotInUse
    <2>4. \A i \in SetIds : PoolsSame(i)
      <3>1. /\ DOMAIN slots' = DOMAIN slots
            /\ \A r \in DOMAIN slots : slots'[r].free = slots[r].free
        BY <1>0, <2>1, <2>3, SlotFieldWrite
      <3>2. QED
        BY <3>1, StoresKept
    <2>5. QED
      BY <1>a, <2>1, <2>2, <2>4, StoresKept
  <1>4. ASSUME NEW t \in Threads, ClearPool(t) PROVE \A i \in SetIds : Fate(i)
    <2>1. /\ At(t, "clear") /\ UNCHANGED cache /\ Goto(t, "publish")
          /\ slots' = [slots EXCEPT ![Top(t).slot].free = {}]
          /\ sets' = Destroyed(slots[Top(t).slot].free)
      BY <1>4 DEF ClearPool
    <2>2. \A i \in SetIds : HoldsSame(i)
      BY <2>1, GotoHolds, Names
    <2>3. Top(t).slot \in DOMAIN slots
      BY <2>1, SlotInUse
    <2>4. QED
      BY <2>1, <2>2, <2>3, PoolDestroyed
  <1>5. ASSUME NEW t \in Threads, Publish(t) PROVE \A i \in SetIds : Fate(i)
    <2>1. /\ At(t, "publish") /\ UNCHANGED cache /\ UNCHANGED slots /\ UNCHANGED sets
          /\ calls' = WithTop(t, [Top(t) EXCEPT !.at = "lease", !.slot = Null])
      BY <1>5 DEF Publish
    <2>2. "publish" \notin Holding /\ "lease" \in Steps /\ Null \in Nat
      BY Names DEF Holding, Null
    <2>3. \A i \in SetIds : HoldsSame(i)
      BY <2>1, <2>2, TakesSlotHolds
    <2>4. QED
      BY <1>a, <2>1, <2>3, StoresKept
  <1>6. ASSUME NEW t \in Threads, Lease(t) PROVE \A i \in SetIds : Fate(i)
    <2>0. PICK n : n = Len(calls[t])
      OBVIOUS
    <2>1. At(t, "lease") /\ UNCHANGED slots /\ UNCHANGED sets
      BY <1>6 DEF Lease
    <2>2. CASE UNCHANGED cache /\ \E step \in {"slot", "give_back"} : Goto(t, step)
      <3>1. \A i \in SetIds : HoldsSame(i)
        BY <2>1, <2>2, GotoHolds, Names
      <3>2. QED
        BY <1>a, <2>1, <2>2, <3>1, StoresKept
    <2>3. CASE /\ cache' = [cache EXCEPT ![t].busy = TRUE]
               /\ calls' = WithTop(t, [Top(t) EXCEPT !.at = "check", !.cached = TRUE,
                                        !.slot = cache[t].slot, !.set = cache[t].set])
      <3>1. /\ Moves(t, n, "lease", "check") /\ calls'[t][n].cached = TRUE
        BY <2>0, <2>1, <2>3, LeaseShape
      <3>2. Changed(t, n) /\ n \in Depths(t) /\ calls[t][n].at = "lease"
        BY <3>1 DEF Moves
      <3>3. calls[t][n].set = Null
        BY <3>2 DEF Leases, LeaseOf, Holding
      <3>4. \A i \in SetIds : HoldsSame(i)
        BY <3>1, <3>2, <3>3, HoldsKept
      <3>5. /\ cache'[t].slot = cache[t].slot /\ cache'[t].set = cache[t].set
            /\ \A u \in Threads : u # t => cache'[u] = cache[u]
        BY <1>0, <2>3 DEF CacheType
      <3>6. \A i \in SetIds : CachesSame(i)
        BY <3>5, CachesKept
      <3>7. QED
        BY <1>a, <2>1, <3>4, <3>6, StoresKept
    <2>4. QED
      BY <1>6, <2>2, <2>3 DEF Lease
  <1>7. ASSUME NEW t \in Threads, GiveBack(t) PROVE \A i \in SetIds : Fate(i)
    <2>1. At(t, "give_back") /\ CacheGivesBack(t) /\ Goto(t, "slot")
      BY <1>7 DEF GiveBack
    <2>2. \A i \in SetIds : HoldsSame(i)
      BY <2>1, GotoHolds, Names
    <2>3. QED
      BY <2>1, <2>2, CacheGivenBack
  <1>8. ASSUME NEW t \in Threads, SlotFor(t) PROVE \A i \in SetIds : Fate(i)
    <2>1. At(t, "slot") /\ UNCHANGED sets
      BY <1>8 DEF SlotFor
    <2>2. "slot" \notin Holding /\ "take" \in Steps /\ Top(t).regex \in Addresses
      BY <2>1, AtFacts, Names DEF Holding
    <2>3. CASE \E s \in Slots :
                 /\ SlotMade(Top(t).regex, s)
                 /\ cache' = IF cache[t].busy THEN cache ELSE [cache EXCEPT ![t].slot = s]
                 /\ calls' = WithTop(t, [Top(t) EXCEPT !.at = "take", !.slot = s])
      <3>1. PICK s \in Slots :
              /\ SlotMade(Top(t).regex, s)
              /\ cache' = IF cache[t].busy THEN cache ELSE [cache EXCEPT ![t].slot = s]
              /\ calls' = WithTop(t, [Top(t) EXCEPT !.at = "take", !.slot = s])
        BY <2>3
      <3>2. s \in Nat
        BY BoundsAssumption DEF Slots
      <3>3. \A i \in SetIds : HoldsSame(i)
        BY <2>1, <2>2, <3>1, <3>2, TakesSlotHolds
      <3>4. \A i \in SetIds : PoolsSame(i)
        BY <2>2, <3>1, SlotMadePools
      <3>5. \A i \in SetIds : CachesSame(i)
        <4>1. CASE cache[t].busy
          BY <3>1, <4>1, StoresKept
        <4>2. CASE ~cache[t].busy
          <5>1. /\ Len(calls[t]) \in Depths(t) /\ calls[t][Len(calls[t])].at = "slot"
            BY <2>1, AtFacts
          <5>2. Len(calls[t]) = 1
            BY <4>2, <5>1, Nested
          <5>3. cache[t].slot = Null
            BY <5>1, <5>2 DEF Leases, LeaseOf
          <5>4. cache[t].set = Null
            BY <5>3 DEF Leases, CacheOf
          <5>5. /\ \A u \in Threads : u # t => cache'[u] = cache[u]
                /\ cache'[t].set = cache[t].set
            BY <1>0, <3>1, <4>2 DEF CacheType
          <5>6. QED
            BY <5>4, <5>5, CachesKept
        <4>3. QED
          BY <4>1, <4>2
      <3>6. QED
        BY <1>a, <2>1, <3>3, <3>4, <3>5, StoresKept
    <2>4. CASE Pop(t) /\ UNCHANGED slots /\ UNCHANGED cache
      <3>1. \A i \in SetIds : HoldsSame(i)
        BY <2>1, <2>2, <2>4, PopHolds
      <3>2. QED
        BY <1>a, <2>1, <2>4, <3>1, StoresKept
    <2>5. QED
      BY <1>8, <2>3, <2>4 DEF SlotFor
  <1>9. ASSUME NEW t \in Threads, Take(t) PROVE \A i \in SetIds : Fate(i)
    <2>0. PICK s \in DOMAIN slots : s = Top(t).slot
      BY <1>9, SlotInUse DEF Take
    <2>1. At(t, "take") /\ slots[s] \in SlotType
      BY <1>0, <1>9, SlotFacts DEF Take
    <2>2. CASE \E j \in slots[s].free :
                 /\ slots' = [slots EXCEPT ![s].free = @ \ {j}]
                 /\ Hold(t, j) /\ UNCHANGED sets
      <3>1. PICK j \in slots[s].free :
              /\ slots' = [slots EXCEPT ![s].free = @ \ {j}]
              /\ Hold(t, j) /\ UNCHANGED sets
        BY <2>2
      <3>2. j \in SetIds /\ Pools(j, s) /\ slots[s].free \ {j} \in SUBSET (Nat \ {0})
        BY <2>1 DEF SlotType, SetIds, Pools
      <3>3. InPool(j, s) /\ j \in DOMAIN sets
        BY <3>2, WhereItIs
      <3>4. slots' = [slots EXCEPT ![s].free = slots[s].free \ {j}]
        BY <3>1
      <3>5. /\ DOMAIN slots' = DOMAIN slots /\ slots'[s].free = slots[s].free \ {j}
            /\ \A r \in DOMAIN slots : r # s => slots'[r] = slots[r]
        BY <1>0, <3>2, <3>4, SlotFieldWrite
      <3>6. \A r \in DOMAIN slots' : ~Pools(j, r)'
        BY <3>3, <3>5 DEF InPool, Pools
      <3>7. Home(j, s)
        BY <3>3 DEF InPool, Home
      <3>8. (\A i \in SetIds : i # j => CachesSame(i) /\ HoldsSame(i)) /\ Under(j, s)'
        BY <2>0, <2>1, <3>1, <3>2, <3>3, <3>6, SetHeld DEF InPool
      <3>9. \A i \in SetIds : i # j => PoolsSame(i)
        BY <3>5 DEF PoolsSame, Pools
      <3>10. \A i \in SetIds : i # j => Fate(i)
        BY <3>1, <3>8, <3>9 DEF Fate, Same
      <3>11. Fate(j)
        BY <3>1, <3>3, <3>7, <3>8 DEF Fate, Moved
      <3>12. QED
        BY <3>10, <3>11
    <2>3. CASE slots[s].free = {} /\ MakeSet(t) /\ UNCHANGED slots
      <3>1. PICK j : j = NewSet
        OBVIOUS
      <3>2. j \in SetIds /\ j \notin DOMAIN sets
        BY <1>0, <3>1, NewSetFacts DEF SetIds
      <3>3. /\ DOMAIN sets' = DOMAIN sets \cup {j} /\ sets'[j] = FreshSet
        BY <1>0, <2>3, <3>1, MakeSetFacts
      <3>4. Nowhere(j) /\ Hold(t, j)
        BY <2>3, <3>1, <3>2, WhereItIs DEF MakeSet
      <3>5. \A r \in DOMAIN slots' : ~Pools(j, r)'
        BY <2>3, <3>4 DEF Nowhere, Pools
      <3>6. (\A i \in SetIds : i # j => CachesSame(i) /\ HoldsSame(i)) /\ Under(j, s)'
        BY <2>0, <2>1, <3>2, <3>4, <3>5, SetHeld DEF Nowhere
      <3>7. \A i \in SetIds : i # j => Fate(i)
        BY <2>3, <3>3, <3>6, StoresKept DEF Fate, Same
      <3>8. Made(j, s)
        BY <1>9, <2>0, <2>1, <2>3, <3>2, <3>3, <3>6 DEF Made
      <3>9. QED
        BY <3>7, <3>8 DEF Fate
    <2>4. CASE Pop(t) /\ UNCHANGED slots /\ UNCHANGED cache /\ UNCHANGED sets
      <3>1. \A i \in SetIds : HoldsSame(i)
        BY <2>1, <2>4, PopHolds DEF Holding
      <3>2. QED
        BY <1>a, <2>4, <3>1, StoresKept
    <2>5. QED
      BY <1>9, <2>0, <2>2, <2>3, <2>4 DEF Take
  <1>10. ASSUME NEW t \in Threads, CheckGeneration(t) \/ Fill(t) PROVE \A i \in SetIds : Fate(i)
    <2>1. /\ UNCHANGED cache /\ UNCHANGED slots /\ DOMAIN sets' = DOMAIN sets
          /\ \E from \in {"check", "fill"}, step \in {"fill", "walk"} : At(t, from) /\ Goto(t, step)
      BY <1>10 DEF CheckGeneration, Fill
    <2>2. \A i \in SetIds : HoldsSame(i)
      BY <2>1, GotoHolds, Names
    <2>3. QED
      BY <1>a, <2>1, <2>2, StoresKept
  <1>12. ASSUME NEW t \in Threads, EndLease(t) PROVE \A i \in SetIds : Fate(i)
    <2>0. PICK n : n = Len(calls[t])
      OBVIOUS
    <2>1. At(t, "walk") /\ Pop(t)
      BY <1>12 DEF EndLease
    <2>2. CASE Top(t).cached /\ cache' = [cache EXCEPT ![t].busy = FALSE] /\ UNCHANGED <<slots, sets>>
      <3>1. \A i \in SetIds : HoldsSame(i)
        BY <2>1, <2>2, PopHolds
      <3>2. /\ cache'[t].slot = cache[t].slot /\ cache'[t].set = cache[t].set
            /\ \A u \in Threads : u # t => cache'[u] = cache[u]
        BY <1>0, <2>2 DEF CacheType
      <3>3. \A i \in SetIds : CachesSame(i)
        BY <3>2, CachesKept
      <3>4. QED
        BY <1>a, <2>2, <3>1, <3>3, StoresKept
    <2>3. CASE ~Top(t).cached /\ Give(Top(t).slot, Top(t).set) /\ UNCHANGED cache
      <3>1. /\ Changed(t, n) /\ n \in Depths(t) /\ n \notin Depths(t)' /\ calls[t][n] = Top(t)
            /\ calls[t][n].at = "walk"
        BY <2>0, <2>1, PopShape
      <3>2. calls[t][n].set # Null
        BY <3>1 DEF Leases, LeaseOf
      <3>3. PICK j \in SetIds : j = Top(t).set
        BY <2>1, <3>1, <3>2, AtFacts, Names DEF SetIds
      <3>4. PICK s \in DOMAIN slots : s = Top(t).slot
        BY <2>1, SlotInUse
      <3>5. Holds(j, t, n)
        BY <2>3, <3>1, <3>3 DEF Holds
      <3>6. InLease(j, t, n) /\ j \in DOMAIN sets
        BY <3>1, <3>5, WhereItIs
      <3>7. Home(j, s)
        BY <3>1, <3>4, <3>5 DEF Home
      <3>8. (\A r \in DOMAIN slots : ~Pools(j, r)) /\ \A u \in Threads : ~Caches(j, u)'
        BY <2>3, <3>6 DEF InLease, Caches
      <3>9. \A u \in Threads : \A e \in Depths(u)' : ~Holds(j, u, e)'
        BY <3>1, <3>6 DEF InLease, Changed, Holds
      <3>10. ASSUME NEW i \in SetIds, i # j PROVE CachesSame(i) /\ HoldsSame(i)
        <4>1. ~Holds(i, t, n)
          BY <3>1, <3>3, <3>10 DEF Holds
        <4>2. HoldsSame(i)
          BY <3>1, <4>1 DEF HoldsSame, Holds, Changed
        <4>3. QED
          BY <2>3, <4>2, StoresKept
      <3>11. Give(s, j)
        BY <2>3, <3>3, <3>4
      <3>12. QED
        BY <3>6, <3>7, <3>8, <3>9, <3>10, <3>11, SetGivenBack
    <2>4. QED
      BY <1>12, <2>2, <2>3 DEF EndLease
  <1>13. ASSUME NEW t \in Threads, Unmap(t) PROVE \A i \in SetIds : Fate(i)
    <2>1. At(t, "unmap") /\ UNCHANGED cache /\ UNCHANGED slots /\ UNCHANGED sets
          /\ map[Top(t).regex] # Null
      BY <1>13 DEF Unmap
    <2>2. "unmap" \notin Holding /\ "retire" \in Steps
      BY Names DEF Holding
    <2>3. \A i \in SetIds : HoldsSame(i)
      <3>1. CASE Pop(t)
        BY <2>1, <2>2, <3>1, PopHolds
      <3>2. CASE /\ map[Top(t).regex] # Absent
                 /\ calls' = WithTop(t, [Top(t) EXCEPT !.at = "retire", !.slot = map[Top(t).regex]])
        <4>1. PICK m \in Nat : m = map[Top(t).regex]
          BY <1>0, <2>1, <3>2, AtFacts, SlotFacts, Names DEF MapTypes
        <4>2. calls' = WithTop(t, [Top(t) EXCEPT !.at = "retire", !.slot = m])
          BY <3>2, <4>1
        <4>3. QED
          BY <2>1, <2>2, <4>2, TakesSlotHolds
      <3>3. QED
        BY <1>13, <3>1, <3>2 DEF Unmap
    <2>4. QED
      BY <1>a, <2>1, <2>3, StoresKept
  <1>14. ASSUME NEW t \in Threads, Retire(t) PROVE \A i \in SetIds : Fate(i)
    <2>1. /\ At(t, "retire") /\ UNCHANGED cache /\ UNCHANGED sets /\ Goto(t, "drain")
          /\ slots' = [slots EXCEPT ![Top(t).slot].owner = NoAddress]
      BY <1>14 DEF Retire
    <2>2. \A i \in SetIds : HoldsSame(i)
      BY <2>1, GotoHolds, Names
    <2>3. Top(t).slot \in DOMAIN slots
      BY <2>1, SlotInUse
    <2>4. \A i \in SetIds : PoolsSame(i)
      <3>1. /\ DOMAIN slots' = DOMAIN slots
            /\ \A r \in DOMAIN slots : slots'[r].free = slots[r].free
        BY <1>0, <2>1, <2>3, SlotFieldWrite
      <3>2. QED
        BY <3>1, StoresKept
    <2>5. QED
      BY <1>a, <2>1, <2>2, <2>4, StoresKept
  <1>15. ASSUME NEW t \in Threads, Drain(t) PROVE \A i \in SetIds : Fate(i)
    <2>1. /\ At(t, "drain") /\ UNCHANGED cache /\ Goto(t, "drop")
          /\ slots' = [slots EXCEPT ![Top(t).slot].free = {}]
          /\ sets' = Destroyed(slots[Top(t).slot].free)
      BY <1>15 DEF Drain
    <2>2. \A i \in SetIds : HoldsSame(i)
      BY <2>1, GotoHolds, Names
    <2>3. Top(t).slot \in DOMAIN slots
      BY <2>1, SlotInUse
    <2>4. QED
      BY <2>1, <2>2, <2>3, PoolDestroyed
  <1>16. ASSUME NEW t \in Threads, Drop(t) PROVE \A i \in SetIds : Fate(i)
    <2>1. At(t, "drop") /\ Pop(t) /\ UNCHANGED slots
      BY <1>16 DEF Drop
    <2>2. \A i \in SetIds : HoldsSame(i) /\ PoolsSame(i)
      BY <2>1, PopHolds, StoresKept DEF Holding
    <2>3. CASE UNCHANGED <<sets, cache>>
      BY <1>a, <2>2, <2>3, StoresKept
    <2>4. CASE sets' = Destroyed({cache[t].set}) /\ cache' = [cache EXCEPT ![t] = EmptyCache]
      <3>1. DOMAIN sets' = DOMAIN sets \ {cache[t].set}
        BY <1>0, <2>4, DestroyedFacts
      <3>2. /\ \A u \in Threads : u # t => cache'[u] = cache[u]
            /\ cache'[t].set = Null
            /\ \A i \in SetIds : i # cache[t].set => CachesSame(i)
        BY <2>4, CacheReleased
      <3>3. ASSUME NEW i \in SetIds, i # cache[t].set PROVE Fate(i)
        BY <2>2, <3>1, <3>2, <3>3 DEF Fate, Same
      <3>4. ASSUME NEW i \in SetIds, i = cache[t].set PROVE Fate(i)
        <4>1. InCache(i, t)
          BY <3>4, WhereItIs DEF Caches
        <4>2. i # Null
          BY Names DEF SetIds
        <4>3. Nowhere(i)'
          BY <2>2, <3>2, <4>1, <4>2 DEF InCache, Nowhere, HoldsSame, PoolsSame, Caches
        <4>4. QED
          BY <3>1, <3>4, <4>3 DEF Fate, Lost
      <3>5. QED
        BY <3>3, <3>4
    <2>5. QED
      BY <1>16, <2>3, <2>4 DEF Drop
  <1>17. ASSUME NEW t \in Threads, ThreadExit(t) PROVE \A i \in SetIds : Fate(i)
    <2>1. UNCHANGED calls /\ CacheGivesBack(t)
      BY <1>17 DEF ThreadExit
    <2>2. QED
      BY <2>1, CacheGivenBack, StoresKept
  <1>18. ASSUME NEW t \in Threads, NEW a \in Addresses, Search(t, a) \/ Destroy(t, a)
         PROVE  \A i \in SetIds : Fate(i)
    <2>1. UNCHANGED cache /\ UNCHANGED slots /\ UNCHANGED sets
          /\ \E step \in {"lock", "lease", "unmap"} : Push(t, a, step)
      BY <1>18 DEF Search, Destroy
    <2>2. \A i \in SetIds : HoldsSame(i)
      BY <2>1, PushHolds, Names
    <2>3. QED
      BY <1>a, <2>1, <2>2, StoresKept
  <1>19. ASSUME NEW a \in Addresses, Construct(a) \/ Assign(a) PROVE \A i \in SetIds : Fate(i)
    <2>1. UNCHANGED cache /\ UNCHANGED slots /\ UNCHANGED sets /\ UNCHANGED calls
      BY <1>19 DEF Construct, Assign
    <2>2. QED
      BY <1>a, <2>1, StoresKept
  <1>20. QED
    BY <1>1, <1>2, <1>3, <1>4, <1>5, <1>6, <1>7, <1>8, <1>9, <1>10, <1>12, <1>13, <1>14,
       <1>15, <1>16, <1>17, <1>18, <1>19, NextCases

-----------------------------------------------------------------------------
(* What a step does to what the walks depend on: sets, slots, regexes and   *)
(* the builds under way.                                                    *)

\* A set that is not destroyed changes only under the call that checks or fills it.
SetChecked(i) == \E t \in Threads : CheckGeneration(t) /\ i = Top(t).set
SetFilled(i) == \E t \in Threads : Fill(t) /\ i = Top(t).set

LEMMA SetsEffect ==
  ASSUME Typing, Ownership, Leases, Next
  PROVE  /\ SetTypes'
         /\ \A i \in DOMAIN sets : i \in DOMAIN sets' =>
              sets'[i] = sets[i] \/ SetChecked(i) \/ SetFilled(i)
  <1> DEFINE P == \A i \in DOMAIN sets : i \in DOMAIN sets' =>
                    sets'[i] = sets[i] \/ SetChecked(i) \/ SetFilled(i)
  <1>0. SlotTypes /\ SetTypes
    BY DEF Typing
  <1>1. ASSUME NEW t \in Threads,
               \/ LockBuild(t) \/ Resolve(t) \/ Bump(t) \/ Publish(t) \/ Lease(t)
               \/ SlotFor(t) \/ Unmap(t) \/ Retire(t)
        PROVE  P
    BY <1>1 DEF LockBuild, Resolve, Bump, Publish, Lease, SlotFor, Unmap, Retire
  <1>2. ASSUME NEW ids, sets' = Destroyed(ids) PROVE P
    BY <1>0, <1>2, DestroyedFacts
  <1>3. ASSUME NEW t \in Threads, ClearPool(t) \/ Drain(t) \/ Drop(t) PROVE P
    <2>1. UNCHANGED sets \/ \E ids : sets' = Destroyed(ids)
      BY <1>3 DEF ClearPool, Drain, Drop
    <2>2. QED
      BY <1>2, <2>1
  <1>4. ASSUME NEW s, NEW i, Give(s, i) PROVE P
    BY <1>2, <1>4 DEF Give
  <1>5. ASSUME NEW t \in Threads, GiveBack(t) \/ ThreadExit(t) \/ EndLease(t) PROVE P
    <2>1. UNCHANGED sets \/ \E s, i : Give(s, i)
      BY <1>5 DEF GiveBack, ThreadExit, EndLease, CacheGivesBack
    <2>2. QED
      BY <1>4, <2>1
  <1>6. ASSUME NEW t \in Threads, Take(t) PROVE P
    <2>1. UNCHANGED sets \/ MakeSet(t)
      BY <1>6 DEF Take
    <2>2. QED
      BY <1>0, <2>1, MakeSetFacts
  <1>7. ASSUME NEW t \in Threads, CheckGeneration(t) PROVE P
    <2>1. \A i \in DOMAIN sets : i # Top(t).set => sets'[i] = sets[i]
      BY <1>0, <1>7 DEF CheckGeneration, SetTypes
    <2>2. QED
      BY <1>7, <2>1 DEF SetChecked
  <1>8. ASSUME NEW t \in Threads, Fill(t) PROVE P
    <2>1. \A i \in DOMAIN sets : i # Top(t).set => sets'[i] = sets[i]
      BY <1>0, <1>8 DEF Fill, SetTypes
    <2>2. QED
      BY <1>8, <2>1 DEF SetFilled
  <1>9. ASSUME NEW t \in Threads, NEW a \in Addresses,
               Search(t, a) \/ Destroy(t, a) \/ Construct(a) \/ Assign(a)
        PROVE  P
    BY <1>9 DEF Search, Destroy, Construct, Assign
  <1>10. ASSUME NEW a \in Addresses, Construct(a) \/ Assign(a) PROVE P
    BY <1>10 DEF Construct, Assign
  <1>11. SetTypes'
    BY TypingStep DEF Typing
  <1>12. P
    BY <1>1, <1>3, <1>5, <1>6, <1>7, <1>8, <1>9, <1>10, NextCases
  <1>13. QED
    BY <1>11, <1>12

\* Slots are made at generation 0, bumped by a build of their regex and retired for good.
Bumped(s) == /\ slots'[s].generation = slots[s].generation + 1
             /\ \E t \in Threads : Bump(t) /\ s = Top(t).slot
SlotMadeFor(s, a) ==
  /\ slots'[s].generation = 0 /\ slots'[s].owner = a /\ a \in Addresses
  /\ \E t \in Threads : \E d \in Depths(t) : calls[t][d].regex = a /\ UNCHANGED <<program, ready>>

LEMMA SlotsEffect ==
  ASSUME Typing, Ownership, Leases, Next
  PROVE  /\ \A s \in DOMAIN slots :
              /\ s \in DOMAIN slots'
              /\ slots'[s].owner \in {slots[s].owner, NoAddress}
              /\ slots'[s].generation = slots[s].generation \/ Bumped(s)
         /\ \A s \in DOMAIN slots' : s \in DOMAIN slots \/ \E a \in Addresses : SlotMadeFor(s, a)
  <1> DEFINE Old == \A s \in DOMAIN slots :
                      /\ s \in DOMAIN slots'
                      /\ slots'[s].owner \in {slots[s].owner, NoAddress}
                      /\ slots'[s].generation = slots[s].generation \/ Bumped(s)
             New == \A s \in DOMAIN slots' :
                      s \in DOMAIN slots \/ \E a \in Addresses : SlotMadeFor(s, a)
             P == Old /\ New
  <1>0. SlotTypes /\ SetTypes /\ MapTypes
    BY DEF Typing
  <1>1. ASSUME UNCHANGED slots PROVE P
    BY <1>1
  <1>2. ASSUME NEW t \in Threads,
               \/ LockBuild(t) \/ Publish(t) \/ Lease(t) \/ CheckGeneration(t) \/ Fill(t)
               \/ Unmap(t) \/ Drop(t)
        PROVE  P
    <2>1. UNCHANGED slots
      BY <1>2 DEF LockBuild, Publish, Lease, CheckGeneration, Fill, Unmap, Drop
    <2>2. QED
      BY <1>1, <2>1
  <1>3. ASSUME NEW t \in Threads, NEW from, At(t, from), NEW s \in Slots, SlotMade(Top(t).regex, s),
               UNCHANGED <<program, ready>>
        PROVE  P
    <2>0. PICK a \in Addresses : a = Top(t).regex
      BY <1>3, AtFacts
    <2>1. /\ Len(calls[t]) \in Depths(t) /\ calls[t][Len(calls[t])].regex = a
      BY <1>3, <2>0, AtFacts
    <2>2. /\ DOMAIN slots \subseteq DOMAIN slots'
          /\ \A r \in DOMAIN slots : slots'[r] = slots[r]
          /\ \/ UNCHANGED slots
             \/ DOMAIN slots' = DOMAIN slots \cup {s} /\ slots'[s] = FreshSlot(a)
      BY <1>0, <1>3, <2>0, SlotMadeFacts
    <2>3. Old
      BY <2>2
    <2>4. New
      <3>1. CASE DOMAIN slots' = DOMAIN slots \cup {s} /\ slots'[s] = FreshSlot(a)
        <4>1. SlotMadeFor(s, a)
          BY <1>3, <2>1, <3>1 DEF SlotMadeFor, FreshSlot
        <4>2. QED
          BY <3>1, <4>1
      <3>2. QED
        BY <2>2, <3>1
    <2>5. QED
      BY <2>3, <2>4
  <1>4. ASSUME NEW t \in Threads, Resolve(t) PROVE P
    <2>1. At(t, "resolve") /\ UNCHANGED regexes
          /\ (UNCHANGED slots \/ \E s \in Slots : SlotMade(Top(t).regex, s))
      BY <1>4 DEF Resolve
    <2>2. UNCHANGED <<program, ready>>
      BY <2>1 DEF regexes
    <2>3. QED
      BY <1>1, <1>3, <2>1, <2>2
  <1>5. ASSUME NEW t \in Threads, SlotFor(t) PROVE P
    <2>1. At(t, "slot") /\ UNCHANGED regexes
          /\ (UNCHANGED slots \/ \E s \in Slots : SlotMade(Top(t).regex, s))
      BY <1>5 DEF SlotFor
    <2>2. UNCHANGED <<program, ready>>
      BY <2>1 DEF regexes
    <2>3. QED
      BY <1>1, <1>3, <2>1, <2>2
  <1>6. ASSUME NEW t \in Threads, Bump(t) PROVE P
    <2>1. PICK s \in DOMAIN slots : s = Top(t).slot
      BY <1>6, SlotInUse DEF Bump
    <2>2. /\ DOMAIN slots' = DOMAIN slots /\ \A r \in DOMAIN slots : r # s => slots'[r] = slots[r]
          /\ slots'[s].owner = slots[s].owner /\ slots'[s].generation = slots[s].generation + 1
      BY <1>0, <1>6, <2>1, SlotFieldWrite DEF Bump
    <2>3. Bumped(s)
      BY <1>6, <2>1, <2>2 DEF Bumped
    <2>4. QED
      BY <2>2, <2>3
  <1>7. ASSUME NEW t \in Threads, ClearPool(t) \/ Drain(t) PROVE P
    <2>1. PICK s \in DOMAIN slots : s = Top(t).slot
      BY <1>7, SlotInUse DEF ClearPool, Drain
    <2>2. slots' = [slots EXCEPT ![s].free = {}]
      BY <1>7, <2>1 DEF ClearPool, Drain
    <2>3. /\ DOMAIN slots' = DOMAIN slots /\ \A r \in DOMAIN slots : r # s => slots'[r] = slots[r]
          /\ slots'[s].owner = slots[s].owner /\ slots'[s].generation = slots[s].generation
      BY <1>0, <2>2, SlotEmptied
    <2>4. QED
      BY <2>3
  <1>8. ASSUME NEW t \in Threads, Retire(t) PROVE P
    <2>1. PICK s \in DOMAIN slots : s = Top(t).slot
      BY <1>8, SlotInUse DEF Retire
    <2>2. /\ DOMAIN slots' = DOMAIN slots /\ \A r \in DOMAIN slots : r # s => slots'[r] = slots[r]
          /\ slots'[s].owner = NoAddress /\ slots'[s].generation = slots[s].generation
      BY <1>0, <1>8, <2>1, SlotFieldWrite DEF Retire
    <2>3. QED
      BY <2>2
  <1>9. ASSUME NEW s \in DOMAIN slots, NEW i \in Nat \ {0}, Give(s, i) PROVE P
    <2>1. /\ DOMAIN slots' = DOMAIN slots
          /\ \A r \in DOMAIN slots :
               slots'[r].owner = slots[r].owner /\ slots'[r].generation = slots[r].generation
      BY <1>0, <1>9, GiveFacts
    <2>2. QED
      BY <2>1
  <1>10. ASSUME NEW t \in Threads, GiveBack(t) \/ ThreadExit(t) PROVE P
    <2>1. CacheGivesBack(t)
      BY <1>10 DEF GiveBack, ThreadExit
    <2>2. /\ DOMAIN slots' = DOMAIN slots
          /\ \A r \in DOMAIN slots :
               slots'[r].owner = slots[r].owner /\ slots'[r].generation = slots[r].generation
      BY <2>1, CacheGivesBackFacts
    <2>3. QED
      BY <2>2
  <1>11. ASSUME NEW t \in Threads, EndLease(t) PROVE P
    <2>1. At(t, "walk") /\ (UNCHANGED slots \/ Give(Top(t).slot, Top(t).set))
      BY <1>11 DEF EndLease
    <2>2. Top(t).slot \in DOMAIN slots
      BY <2>1, SlotInUse
    <2>3. Top(t).set \in Nat \ {0}
      <3>1. /\ Len(calls[t]) \in Depths(t) /\ Top(t) = calls[t][Len(calls[t])] /\ Top(t).at = "walk"
            /\ Top(t).set \in Nat
        BY <2>1, AtFacts
      <3>2. Top(t).set # Null
        BY <3>1 DEF Leases, LeaseOf
      <3>3. QED
        BY <3>1, <3>2, Names
    <2>4. QED
      BY <1>1, <1>9, <2>1, <2>2, <2>3
  <1>12. ASSUME NEW t \in Threads, Take(t) PROVE P
    <2>1. PICK s \in DOMAIN slots : s = Top(t).slot
      BY <1>12, SlotInUse DEF Take
    <2>2. CASE UNCHANGED slots
      BY <1>1, <2>2
    <2>3. CASE \E j \in slots[s].free : slots' = [slots EXCEPT ![s].free = @ \ {j}]
      <3>1. PICK j \in slots[s].free : slots' = [slots EXCEPT ![s].free = @ \ {j}]
        BY <2>3
      <3>2. PICK F \in SUBSET (Nat \ {0}) : F = slots[s].free \ {j}
        BY <1>0, SlotFacts DEF SlotType
      <3>3. slots' = [slots EXCEPT ![s].free = F]
        BY <3>1, <3>2
      <3>4. /\ DOMAIN slots' = DOMAIN slots /\ \A r \in DOMAIN slots : r # s => slots'[r] = slots[r]
            /\ slots'[s].owner = slots[s].owner /\ slots'[s].generation = slots[s].generation
        BY <1>0, <3>3, SlotFieldWrite
      <3>5. QED
        BY <3>4
    <2>4. QED
      BY <1>12, <2>1, <2>2, <2>3 DEF Take
  <1>13. ASSUME NEW t \in Threads, NEW a \in Addresses, Search(t, a) \/ Destroy(t, a) PROVE P
    BY <1>1, <1>13 DEF Search, Destroy
  <1>14. ASSUME NEW a \in Addresses, Construct(a) \/ Assign(a) PROVE P
    BY <1>1, <1>14 DEF Construct, Assign
  <1> HIDE DEF Old, New
  <1>15. P
    BY <1>2, <1>4, <1>5, <1>6, <1>7, <1>8, <1>10, <1>11, <1>12, <1>13, <1>14, NextCases
  <1>16. QED
    BY <1>15 DEF Old, New

\* A regex is left as it is, or constructed, assigned, published or freed.
RegexKept(a) == program'[a] = program[a] /\ ready'[a] = ready[a]
RegexMade(a) == program[a] = Null /\ UNCHANGED calls /\ UNCHANGED ready
RegexAssigned(a) ==
  /\ program'[a] = compiled + 1 /\ compiled' = compiled + 1 /\ ~ready'[a] /\ ~InUse(a)
  /\ UNCHANGED calls /\ UNCHANGED slots
RegexPublished(a) == program'[a] = program[a] /\ Rebuilding(a) /\ UNCHANGED slots
RegexFreed(a) ==
  /\ ~ready'[a] /\ \A s \in DOMAIN slots : slots[s].owner # a
  /\ \A u \in Threads : \A d \in Depths(u)' : calls'[u][d].regex # a

LEMMA RegexEffect ==
  ASSUME Typing, Phases, Ownership, Next
  PROVE  /\ compiled \in Nat /\ compiled' \in Nat /\ compiled <= compiled'
         /\ \A a \in Addresses : \/ RegexKept(a) \/ RegexMade(a) \/ RegexAssigned(a)
                                 \/ RegexPublished(a) \/ RegexFreed(a)
  <1> DEFINE Some(a) == \/ RegexKept(a) \/ RegexMade(a) \/ RegexAssigned(a)
                        \/ RegexPublished(a) \/ RegexFreed(a)
             P == compiled' \in Nat /\ compiled <= compiled' /\ \A a \in Addresses : Some(a)
  <1>0. /\ compiled \in Nat /\ program \in [Addresses -> 0 .. compiled]
        /\ ready \in [Addresses -> BOOLEAN]
    BY DEF Typing, RegexTypes
  <1>1. ASSUME UNCHANGED regexes PROVE P
    <2>1. UNCHANGED <<compiled, program, ready>>
      BY <1>1 DEF regexes
    <2>2. QED
      BY <1>0, <2>1 DEF RegexKept
  <1>2. ASSUME NEW t \in Threads,
               \/ LockBuild(t) \/ Resolve(t) \/ Bump(t) \/ ClearPool(t) \/ Lease(t) \/ GiveBack(t)
               \/ SlotFor(t) \/ Take(t) \/ CheckGeneration(t) \/ Fill(t) \/ EndLease(t)
               \/ Retire(t) \/ Drain(t) \/ ThreadExit(t)
        PROVE  P
    <2>1. UNCHANGED regexes
      BY <1>2 DEF LockBuild, Resolve, Bump, ClearPool, Lease, GiveBack, SlotFor, Take, CheckGeneration,
           Fill, EndLease, Retire, Drain, ThreadExit
    <2>2. QED
      BY <1>1, <2>1, Zenon
  <1>3. ASSUME NEW t \in Threads, Publish(t) PROVE P
    <2>1. At(t, "publish") /\ UNCHANGED <<compiled, program>> /\ UNCHANGED slots
          /\ ready' = [ready EXCEPT ![Top(t).regex] = TRUE]
      BY <1>3 DEF Publish
    <2>2. Rebuilding(Top(t).regex)
      <3>1. /\ Len(calls[t]) \in Depths(t) /\ Top(t) = calls[t][Len(calls[t])] /\ Top(t).at = "publish"
        BY <2>1, AtFacts
      <3>2. QED
        BY <3>1 DEF Rebuilding
    <2>3. ASSUME NEW a \in Addresses PROVE Some(a)
      <3>1. CASE a = Top(t).regex
        BY <2>1, <2>2, <3>1 DEF RegexPublished
      <3>2. CASE a # Top(t).regex
        BY <1>0, <2>1, <3>2 DEF RegexKept
      <3>3. QED
        BY <3>1, <3>2
    <2>4. QED
      BY <1>0, <2>1, <2>3
  <1>4. ASSUME NEW t \in Threads, NEW from, At(t, from), from \in {"unmap", "drop"},
               Freed(Top(t).regex), Pop(t), UNCHANGED <<map, slots>>, map[Top(t).regex] = Absent
        PROVE  P
    <2>0. PICK n : n = Len(calls[t])
      OBVIOUS
    <2>1. /\ Changed(t, n) /\ n \in Depths(t) /\ n \notin Depths(t)' /\ calls[t][n] = Top(t)
          /\ calls[t][n].at = from
      BY <1>4, <2>0, PopShape
    <2>2. Alone(t, n)
      BY <1>4, <2>1 DEF Phases, Erasing
    <2>3. \A s \in DOMAIN slots : slots[s].owner # Top(t).regex
      BY <1>4, OwnershipFreed
    <2>4. /\ program' = [program EXCEPT ![Top(t).regex] = Null]
          /\ ready' = [ready EXCEPT ![Top(t).regex] = FALSE] /\ compiled' = compiled
      BY <1>4 DEF Freed
    <2>5. ASSUME NEW a \in Addresses PROVE Some(a)
      <3>1. CASE a = Top(t).regex
        <4>1. \A u \in Threads : \A d \in Depths(u)' : calls'[u][d].regex # a
          BY <2>1, <2>2, <3>1 DEF Alone, Changed
        <4>2. ~ready'[a]
          BY <1>0, <2>4, <3>1
        <4>3. QED
          BY <2>3, <3>1, <4>1, <4>2 DEF RegexFreed
      <3>2. CASE a # Top(t).regex
        BY <1>0, <2>4, <3>2 DEF RegexKept
      <3>3. QED
        BY <3>1, <3>2
    <2>6. QED
      BY <1>0, <2>4, <2>5
  <1>5. ASSUME NEW t \in Threads, Unmap(t) PROVE P
    <2>1. CASE UNCHANGED regexes
      BY <1>1, <2>1
    <2>2. CASE ~UNCHANGED regexes
      <3>1. /\ At(t, "unmap") /\ Freed(Top(t).regex) /\ Pop(t) /\ UNCHANGED <<map, slots>>
            /\ map[Top(t).regex] = Absent
        BY <1>5, <2>2 DEF Unmap
      <3>2. QED
        BY <1>4, <3>1
    <2>3. QED
      BY <2>1, <2>2
  <1>6. ASSUME NEW t \in Threads, Drop(t) PROVE P
    <2>1. At(t, "drop") /\ Freed(Top(t).regex) /\ Pop(t) /\ UNCHANGED <<map, slots>>
      BY <1>6 DEF Drop
    <2>2. map[Top(t).regex] = Absent
      BY <2>1, SlotInUse
    <2>3. QED
      BY <1>4, <2>1, <2>2
  <1>7. ASSUME NEW t \in Threads, NEW a \in Addresses, Search(t, a) \/ Destroy(t, a) PROVE P
    <2>1. UNCHANGED regexes
      BY <1>7 DEF Search, Destroy
    <2>2. QED
      BY <1>1, <2>1
  <1>8. ASSUME NEW b \in Addresses, Construct(b) PROVE P
    <2>1. /\ program[b] = Null /\ compiled' = compiled + 1 /\ UNCHANGED ready /\ UNCHANGED calls
          /\ program' = [program EXCEPT ![b] = compiled + 1]
      BY <1>8 DEF Construct
    <2>2. ASSUME NEW a \in Addresses PROVE Some(a)
      BY <1>0, <2>1 DEF RegexMade, RegexKept
    <2>3. QED
      BY <1>0, <2>1, <2>2
  <1>9. ASSUME NEW b \in Addresses, Assign(b) PROVE P
    <2>1. /\ ~InUse(b) /\ compiled' = compiled + 1 /\ UNCHANGED slots /\ UNCHANGED calls
          /\ program' = [program EXCEPT ![b] = compiled + 1] /\ ready' = [ready EXCEPT ![b] = FALSE]
      BY <1>9 DEF Assign
    <2>2. ASSUME NEW a \in Addresses PROVE Some(a)
      <3>1. CASE a = b
        BY <1>0, <2>1, <3>1 DEF RegexAssigned
      <3>2. CASE a # b
        BY <1>0, <2>1, <3>2 DEF RegexKept
      <3>3. QED
        BY <3>1, <3>2
    <2>3. QED
      BY <1>0, <2>1, <2>2
  <1> HIDE DEF Some
  <1>10. P
    BY <1>2, <1>3, <1>5, <1>6, <1>7, <1>8, <1>9, NextCases
  <1>11. QED
    BY <1>0, <1>10 DEF Some

\* What becomes of a call, and where the calls that rebuild, check, fill and walk come from.
CallKept(u, d) == d \in Depths(u) /\ d \in Depths(u)' /\ calls'[u][d] = calls[u][d]
CallAlong(u, d, step) ==
  /\ d \in Depths(u) /\ d \in Depths(u)' /\ calls[u][d] = Top(u)
  /\ calls'[u][d].regex = Top(u).regex /\ calls'[u][d].slot = Top(u).slot
  /\ calls'[u][d].set = Top(u).set /\ calls'[u][d].at = step
CallElse(u, d) ==
  /\ calls'[u][d].at \notin {"fill", "walk"}
  /\ calls'[u][d].at \in {"clear", "publish"} =>
       /\ d \in Depths(u) /\ calls'[u][d].regex = calls[u][d].regex
       /\ calls[u][d].at \in {"clear", "publish"} \/ (Bump(u) /\ calls[u][d] = Top(u))
CallOf(u, d) ==
  \/ CallKept(u, d)
  \/ CheckGeneration(u) /\ CallAlong(u, d, "fill")
  \/ Fill(u) /\ CallAlong(u, d, "walk")
  \/ CallElse(u, d)
CallBuilds(u, d) ==
  \/ /\ d \in Depths(u)' /\ calls'[u][d].regex = calls[u][d].regex
     /\ calls'[u][d].at \in {"clear", "publish"}
  \/ ready'[calls[u][d].regex]

LEMMA CallsFrame ==
  ASSUME NEW t \in Threads, NEW n, Changed(t, n), n \in Depths(t)' => CallOf(t, n),
         n \in Depths(t) => calls[t][n].at \notin {"clear", "publish"} \/ CallBuilds(t, n)
  PROVE  /\ \A u \in Threads : \A d \in Depths(u)' : CallOf(u, d)
         /\ \A u \in Threads : \A d \in Depths(u) :
              calls[u][d].at \in {"clear", "publish"} => CallBuilds(u, d)
  <1>1. ASSUME NEW u \in Threads, NEW d \in Depths(u)' PROVE CallOf(u, d)
    <2>1. (u = t /\ d = n) \/ CallKept(u, d)
      BY DEF Changed, CallKept
    <2>2. QED
      BY <2>1 DEF CallOf
  <1>2. ASSUME NEW u \in Threads, NEW d \in Depths(u), calls[u][d].at \in {"clear", "publish"}
        PROVE  CallBuilds(u, d)
    <2>1. (u = t /\ d = n) \/ (d \in Depths(u)' /\ calls'[u][d] = calls[u][d])
      BY DEF Changed
    <2>2. QED
      BY <1>2, <2>1 DEF CallBuilds
  <1>3. QED
    BY <1>1, <1>2

LEMMA CallsEffect ==
  ASSUME Typing, Ownership, Next
  PROVE  /\ \A u \in Threads : \A d \in Depths(u)' : CallOf(u, d)
         /\ \A u \in Threads : \A d \in Depths(u) :
              calls[u][d].at \in {"clear", "publish"} => CallBuilds(u, d)
  <1> DEFINE P == /\ \A u \in Threads : \A d \in Depths(u)' : CallOf(u, d)
                  /\ \A u \in Threads : \A d \in Depths(u) :
                       calls[u][d].at \in {"clear", "publish"} => CallBuilds(u, d)
  <1> HIDE DEF P
  <1>a. ASSUME NEW t \in Threads, NEW n, NEW from, NEW step, Moves(t, n, from, step),
               from \notin {"clear", "publish"}, step \notin {"clear", "publish", "fill", "walk"}
        PROVE  P
    <2>1. /\ Changed(t, n) /\ n \in Depths(t) /\ n \in Depths(t)' /\ calls[t][n].at = from
          /\ calls'[t][n].at = step
      BY <1>a DEF Moves
    <2>2. CallElse(t, n)
      BY <1>a, <2>1 DEF CallElse
    <2>3. QED
      BY <1>a, <2>1, <2>2, CallsFrame DEF P, CallOf
  <1>b. ASSUME NEW t \in Threads, NEW from, At(t, from), from \notin {"clear", "publish"},
               NEW step \in Steps, step \notin {"clear", "publish", "fill", "walk"}, Goto(t, step)
        PROVE  P
    <2>0. PICK n : n = Len(calls[t])
      OBVIOUS
    <2>1. Moves(t, n, from, step)
      BY <1>b, <2>0, GotoShape
    <2>2. QED
      BY <1>a, <1>b, <2>1
  <1>c. ASSUME NEW t \in Threads, NEW from, At(t, from), from \notin {"clear", "publish"}, Pop(t)
        PROVE  P
    <2>0. PICK n : n = Len(calls[t])
      OBVIOUS
    <2>1. Changed(t, n) /\ n \in Depths(t) /\ n \notin Depths(t)' /\ calls[t][n].at = from
      BY <1>c, <2>0, PopShape
    <2>2. QED
      BY <1>c, <2>1, CallsFrame DEF P
  <1>d. ASSUME NEW t \in Threads, NEW from, At(t, from), from \notin {"clear", "publish"}, NEW s \in Nat,
               NEW step \in Steps, step \notin {"clear", "publish", "fill", "walk"},
               calls' = WithTop(t, [Top(t) EXCEPT !.at = step, !.slot = s])
        PROVE  P
    <2>0. PICK n : n = Len(calls[t])
      OBVIOUS
    <2>1. TakesSlot(t, n, from, step, s)
      BY <1>d, <2>0, SlotShape
    <2>2. Moves(t, n, from, step)
      BY <2>1 DEF TakesSlot
    <2>3. QED
      BY <1>a, <1>d, <2>2
  <1>e. ASSUME NEW t \in Threads, NEW from, At(t, from), NEW step \in Steps, Goto(t, step),
               NEW n, n = Len(calls[t])
        PROVE  /\ CallAlong(t, n, step) /\ Changed(t, n) /\ n \in Depths(t) /\ n \in Depths(t)'
               /\ calls[t][n].at = from /\ calls'[t][n].at = step
               /\ calls'[t][n].regex = calls[t][n].regex /\ calls[t][n] = Top(t)
    <2>1. /\ Moves(t, n, from, step) /\ calls'[t][n].slot = calls[t][n].slot
          /\ calls'[t][n].set = calls[t][n].set
      BY <1>e, GotoShape
    <2>2. QED
      BY <2>1 DEF Moves, CallAlong
  <1>1. ASSUME NEW t \in Threads, LockBuild(t) \/ Retire(t) \/ Drain(t) \/ GiveBack(t) PROVE P
    <2>1. \E from \in {"lock", "retire", "drain", "give_back"},
             step \in {"lease", "resolve", "drain", "drop", "slot"} :
               At(t, from) /\ Goto(t, step)
      BY <1>1 DEF LockBuild, Retire, Drain, GiveBack
    <2>2. QED
      BY <1>b, <2>1, Names
  <1>2. ASSUME NEW t \in Threads, Resolve(t) PROVE P
    <2>1. At(t, "resolve") /\ "bump" \in Steps
      BY <1>2, Names DEF Resolve
    <2>2. CASE Pop(t)
      BY <1>c, <2>1, <2>2
    <2>3. CASE \E s \in Slots : calls' = WithTop(t, [Top(t) EXCEPT !.at = "bump", !.slot = s])
      <3>1. PICK s \in Slots : calls' = WithTop(t, [Top(t) EXCEPT !.at = "bump", !.slot = s])
        BY <2>3
      <3>2. s \in Nat
        BY BoundsAssumption DEF Slots
      <3>3. QED
        BY <1>d, <2>1, <3>1, <3>2
    <2>4. QED
      BY <1>2, <2>2, <2>3 DEF Resolve
  <1>3. ASSUME NEW t \in Threads, Bump(t) PROVE P
    <2>0. PICK n : n = Len(calls[t])
      OBVIOUS
    <2>1. At(t, "bump") /\ Goto(t, "clear") /\ "clear" \in Steps
      BY <1>3, Names DEF Bump
    <2>2. /\ Changed(t, n) /\ n \in Depths(t) /\ n \in Depths(t)' /\ calls[t][n].at = "bump"
          /\ calls'[t][n].at = "clear" /\ calls'[t][n].regex = calls[t][n].regex /\ calls[t][n] = Top(t)
      BY <1>e, <2>0, <2>1
    <2>3. CallElse(t, n)
      BY <1>3, <2>2 DEF CallElse
    <2>4. QED
      BY <2>2, <2>3, CallsFrame DEF P, CallOf
  <1>4. ASSUME NEW t \in Threads, ClearPool(t) PROVE P
    <2>0. PICK n : n = Len(calls[t])
      OBVIOUS
    <2>1. At(t, "clear") /\ Goto(t, "publish") /\ "publish" \in Steps
      BY <1>4, Names DEF ClearPool
    <2>2. /\ Changed(t, n) /\ n \in Depths(t) /\ n \in Depths(t)' /\ calls[t][n].at = "clear"
          /\ calls'[t][n].at = "publish" /\ calls'[t][n].regex = calls[t][n].regex
      BY <1>e, <2>0, <2>1
    <2>3. CallElse(t, n) /\ CallBuilds(t, n)
      BY <2>2 DEF CallElse, CallBuilds
    <2>4. QED
      BY <2>2, <2>3, CallsFrame DEF P, CallOf
  <1>5. ASSUME NEW t \in Threads, Publish(t) PROVE P
    <2>0. PICK n : n = Len(calls[t])
      OBVIOUS
    <2>1. /\ At(t, "publish") /\ ready' = [ready EXCEPT ![Top(t).regex] = TRUE]
          /\ calls' = WithTop(t, [Top(t) EXCEPT !.at = "lease", !.slot = Null])
          /\ "lease" \in Steps /\ Null \in Nat
      BY <1>5, Names DEF Publish, Null
    <2>2. TakesSlot(t, n, "publish", "lease", Null)
      BY <2>0, <2>1, SlotShape
    <2>3. /\ Changed(t, n) /\ n \in Depths(t) /\ n \in Depths(t)' /\ calls[t][n] = Top(t)
          /\ calls'[t][n].at = "lease"
      BY <2>2 DEF TakesSlot, Moves
    <2>4. CallBuilds(t, n)
      <3>1. Top(t).regex \in Addresses /\ ready \in [Addresses -> BOOLEAN]
        BY <2>1, AtFacts DEF Typing, RegexTypes
      <3>2. QED
        BY <2>1, <2>3, <3>1 DEF CallBuilds
    <2>5. CallElse(t, n)
      BY <2>3 DEF CallElse
    <2>6. QED
      BY <2>3, <2>4, <2>5, CallsFrame DEF P, CallOf
  <1>6. ASSUME NEW t \in Threads, Lease(t) PROVE P
    <2>0. PICK n : n = Len(calls[t])
      OBVIOUS
    <2>1. At(t, "lease")
      BY <1>6 DEF Lease
    <2>2. CASE \E step \in {"slot", "give_back"} : Goto(t, step)
      BY <1>b, <2>1, <2>2, Names
    <2>3. CASE calls' = WithTop(t, [Top(t) EXCEPT !.at = "check", !.cached = TRUE,
                                      !.slot = cache[t].slot, !.set = cache[t].set])
      <3>1. Moves(t, n, "lease", "check")
        BY <2>0, <2>1, <2>3, LeaseShape
      <3>2. QED
        BY <1>a, <3>1
    <2>4. QED
      BY <1>6, <2>2, <2>3 DEF Lease
  <1>8. ASSUME NEW t \in Threads, SlotFor(t) PROVE P
    <2>1. At(t, "slot") /\ "take" \in Steps
      BY <1>8, Names DEF SlotFor
    <2>2. CASE Pop(t)
      BY <1>c, <2>1, <2>2
    <2>3. CASE \E s \in Slots : calls' = WithTop(t, [Top(t) EXCEPT !.at = "take", !.slot = s])
      <3>1. PICK s \in Slots : calls' = WithTop(t, [Top(t) EXCEPT !.at = "take", !.slot = s])
        BY <2>3
      <3>2. s \in Nat
        BY BoundsAssumption DEF Slots
      <3>3. QED
        BY <1>d, <2>1, <3>1, <3>2
    <2>4. QED
      BY <1>8, <2>2, <2>3 DEF SlotFor
  <1>9. ASSUME NEW t \in Threads, Take(t) PROVE P
    <2>0. PICK n : n = Len(calls[t])
      OBVIOUS
    <2>1. At(t, "take") /\ SlotTypes /\ SetTypes
      BY <1>9 DEF Take, Typing
    <2>2. Top(t).slot \in DOMAIN slots
      BY <2>1, SlotInUse
    <2>3. (\E i \in Nat \ {0} : Hold(t, i)) \/ Pop(t)
      <3>1. slots[Top(t).slot].free \subseteq Nat \ {0}
        BY <2>1, <2>2, SlotFacts DEF SlotType
      <3>2. NewSet \in Nat \ {0}
        BY <2>1, NewSetFacts
      <3>3. QED
        BY <1>9, <3>1, <3>2 DEF Take, MakeSet
    <2>4. CASE \E i \in Nat \ {0} : Hold(t, i)
      <3>1. PICK i \in Nat \ {0} : Hold(t, i)
        BY <2>4
      <3>2. Moves(t, n, "take", "check")
        BY <2>0, <2>1, <3>1, HoldShape
      <3>3. QED
        BY <1>a, <3>2
    <2>5. CASE Pop(t)
      BY <1>c, <2>1, <2>5
    <2>6. QED
      BY <2>3, <2>4, <2>5
  <1>10. ASSUME NEW t \in Threads, CheckGeneration(t) PROVE P
    <2>0. PICK n : n = Len(calls[t])
      OBVIOUS
    <2>1. At(t, "check") /\ Goto(t, "fill") /\ "fill" \in Steps
      BY <1>10, Names DEF CheckGeneration
    <2>2. CallAlong(t, n, "fill") /\ Changed(t, n) /\ calls[t][n].at = "check"
      BY <1>e, <2>0, <2>1
    <2>3. QED
      BY <1>10, <2>2, CallsFrame DEF P, CallOf
  <1>11. ASSUME NEW t \in Threads, Fill(t) PROVE P
    <2>0. PICK n : n = Len(calls[t])
      OBVIOUS
    <2>1. At(t, "fill") /\ Goto(t, "walk") /\ "walk" \in Steps
      BY <1>11, Names DEF Fill
    <2>2. CallAlong(t, n, "walk") /\ Changed(t, n) /\ calls[t][n].at = "fill"
      BY <1>e, <2>0, <2>1
    <2>3. QED
      BY <1>11, <2>2, CallsFrame DEF P, CallOf
  <1>12. ASSUME NEW t \in Threads, EndLease(t) \/ Drop(t) PROVE P
    <2>1. Pop(t) /\ \E from \in {"walk", "drop"} : At(t, from)
      BY <1>12 DEF EndLease, Drop
    <2>2. QED
      BY <1>c, <2>1
  <1>13. ASSUME NEW t \in Threads, Unmap(t) PROVE P
    <2>1. At(t, "unmap") /\ map[Top(t).regex] # Null /\ "retire" \in Steps /\ MapTypes /\ SlotTypes
      BY <1>13, Names DEF Unmap, Typing
    <2>2. CASE Pop(t)
      BY <1>c, <2>1, <2>2
    <2>3. CASE /\ map[Top(t).regex] # Absent
               /\ calls' = WithTop(t, [Top(t) EXCEPT !.at = "retire", !.slot = map[Top(t).regex]])
      <3>1. PICK m \in Nat : m = map[Top(t).regex]
        BY <2>1, <2>3, AtFacts, SlotFacts, Names DEF MapTypes
      <3>2. calls' = WithTop(t, [Top(t) EXCEPT !.at = "retire", !.slot = m])
        BY <2>3, <3>1
      <3>3. QED
        BY <1>d, <2>1, <3>2
    <2>4. QED
      BY <1>13, <2>2, <2>3 DEF Unmap
  <1>14. ASSUME NEW t \in Threads, NEW a \in Addresses, Search(t, a) \/ Destroy(t, a) PROVE P
    <2>0. PICK n : n = Len(calls[t]) + 1
      OBVIOUS
    <2>1. PICK step \in {"lock", "lease", "unmap"} : Push(t, a, step)
      BY <1>14 DEF Search, Destroy
    <2>2. /\ Changed(t, n) /\ n \notin Depths(t) /\ calls'[t][n] = NewCall(a, step)
      BY <2>0, <2>1, PushShape, Names
    <2>3. CallElse(t, n)
      BY <2>2 DEF CallElse, NewCall
    <2>4. QED
      BY <2>2, <2>3, CallsFrame DEF P, CallOf
  <1>15. ASSUME UNCHANGED calls PROVE P
    <2>1. \A u \in Threads : Depths(u)' = Depths(u)
      BY <1>15 DEF Depths
    <2>2. QED
      BY <1>15, <2>1 DEF P, CallOf, CallKept, CallBuilds
  <1>16. ASSUME NEW t \in Threads, ThreadExit(t) PROVE P
    BY <1>15, <1>16 DEF ThreadExit
  <1>17. ASSUME NEW a \in Addresses, Construct(a) \/ Assign(a) PROVE P
    BY <1>15, <1>17 DEF Construct, Assign
  <1>18. P
    BY <1>1, <1>2, <1>3, <1>4, <1>5, <1>6, <1>8, <1>9, <1>10, <1>11, <1>12, <1>13, <1>14, <1>16,
       <1>17, NextCases
  <1>19. QED
    BY <1>18 DEF P

-----------------------------------------------------------------------------
(* The sets' DFAs and the slots' generations keep up with the programs.     *)

\* An address has one slot at most.
LEMMA SlotsDiffer ==
  ASSUME Typing, Phases, Ownership, NEW s \in DOMAIN slots, NEW r \in DOMAIN slots,
         slots[s].owner = slots[r].owner, slots[s].owner # NoAddress
  PROVE  s = r
  <1>0. s # Absent /\ r # Absent
    BY SlotFacts, Names DEF Typing
  <1>1. ASSUME NEW q \in {s, r}, map[slots[q].owner] # q
        PROVE  \E t \in Threads : \E d \in Depths(t) :
                 /\ calls[t][d].at = "retire" /\ calls[t][d].slot = q
                 /\ calls[t][d].regex = slots[q].owner /\ map[slots[q].owner] = Absent
    <2>1. WorkedOn("retire", q)
      BY <1>1 DEF Ownership
    <2>2. PICK t \in Threads : \E d \in Depths(t) : calls[t][d].at = "retire" /\ calls[t][d].slot = q
      BY <2>1 DEF WorkedOn
    <2>3. PICK d \in Depths(t) : calls[t][d].at = "retire" /\ calls[t][d].slot = q
      BY <2>2
    <2>4. SlotOf(t, d)
      BY DEF Ownership
    <2>5. calls[t][d].regex = slots[q].owner /\ map[slots[q].owner] = Absent
      BY <2>3, <2>4 DEF SlotOf
    <2>6. QED
      BY <2>3, <2>5
  <1>2. CASE map[slots[s].owner] = s /\ map[slots[r].owner] = r
    BY <1>2
  <1>3. CASE map[slots[s].owner] # s /\ map[slots[r].owner] # r
    <2>1. PICK t \in Threads : \E d \in Depths(t) :
            /\ calls[t][d].at = "retire" /\ calls[t][d].slot = s
            /\ calls[t][d].regex = slots[s].owner
      BY <1>1, <1>3
    <2>2. PICK d \in Depths(t) :
            /\ calls[t][d].at = "retire" /\ calls[t][d].slot = s
            /\ calls[t][d].regex = slots[s].owner
      BY <2>1
    <2>3. PICK u \in Threads : \E e \in Depths(u) :
            calls[u][e].slot = r /\ calls[u][e].regex = slots[r].owner
      BY <1>1, <1>3
    <2>4. PICK e \in Depths(u) : calls[u][e].slot = r /\ calls[u][e].regex = slots[r].owner
      BY <2>3
    <2>5. Alone(t, d)
      BY <2>2 DEF Phases, Erasing
    <2>6. QED
      BY <2>2, <2>4, <2>5 DEF Alone
  <1>4. QED
    BY <1>0, <1>1, <1>2, <1>3

LEMMA BuildsEffect ==
  ASSUME Typing, Phases, Ownership, Next, NEW a \in Addresses
  PROVE  /\ Rebuilding(a) => ~ready[a]
         /\ Rebuilding(a)' => Rebuilding(a) \/ \E t \in Threads : Bump(t) /\ Top(t).regex = a
         /\ Rebuilding(a) => Rebuilding(a)' \/ ready'[a]
         /\ \A t \in Threads : Bump(t) /\ Top(t).regex = a => /\ ~Rebuilding(a) /\ Rebuilding(a)'
                                                              /\ ~ready[a] /\ ~ready'[a]
  <1>1. Rebuilding(a) => ~ready[a]
    BY DEF Rebuilding, Phases, Phase, Building
  <1>2. ASSUME Rebuilding(a)' PROVE Rebuilding(a) \/ \E t \in Threads : Bump(t) /\ Top(t).regex = a
    <2>1. PICK u \in Threads : \E d \in Depths(u)' :
            calls'[u][d].regex = a /\ calls'[u][d].at \in {"clear", "publish"}
      BY <1>2 DEF Rebuilding
    <2>2. PICK d \in Depths(u)' :
            calls'[u][d].regex = a /\ calls'[u][d].at \in {"clear", "publish"}
      BY <2>1
    <2>3. CallOf(u, d)
      BY CallsEffect
    <2>4. \/ d \in Depths(u) /\ calls[u][d].regex = a /\ calls[u][d].at \in {"clear", "publish"}
          \/ Bump(u) /\ Top(u).regex = a
      BY <2>2, <2>3 DEF CallOf, CallKept, CallAlong, CallElse
    <2>5. QED
      BY <2>4 DEF Rebuilding
  <1>3. ASSUME Rebuilding(a), ~ready'[a] PROVE Rebuilding(a)'
    <2>1. PICK u \in Threads : \E d \in Depths(u) :
            calls[u][d].regex = a /\ calls[u][d].at \in {"clear", "publish"}
      BY <1>3 DEF Rebuilding
    <2>2. PICK d \in Depths(u) :
            calls[u][d].regex = a /\ calls[u][d].at \in {"clear", "publish"}
      BY <2>1
    <2>3. CallBuilds(u, d)
      BY <2>2, CallsEffect
    <2>4. QED
      BY <1>3, <2>2, <2>3 DEF CallBuilds, Rebuilding
  <1>4. ASSUME NEW t \in Threads, Bump(t), Top(t).regex = a
        PROVE  ~Rebuilding(a) /\ Rebuilding(a)' /\ ~ready[a] /\ ~ready'[a]
    <2>0. PICK n : n = Len(calls[t])
      OBVIOUS
    <2>1. At(t, "bump") /\ Goto(t, "clear") /\ UNCHANGED regexes
      BY <1>4 DEF Bump
    <2>2. /\ n \in Depths(t) /\ n \in Depths(t)' /\ calls[t][n].at = "bump" /\ calls[t][n].regex = a
          /\ calls'[t][n].at = "clear" /\ calls'[t][n].regex = a
      BY <1>4, <2>0, <2>1, GotoShape, Names DEF Moves
    <2>3. ~ready[a] /\ ~ready'[a]
      BY <2>1, <2>2 DEF Phases, Phase, Building, regexes
    <2>4. ~Rebuilding(a)
      <3>1. SUFFICES ASSUME Rebuilding(a) PROVE FALSE
        OBVIOUS
      <3>2. PICK u \in Threads : \E d \in Depths(u) :
              calls[u][d].regex = a /\ calls[u][d].at \in {"clear", "publish"}
        BY <3>1 DEF Rebuilding
      <3>3. PICK d \in Depths(u) :
              calls[u][d].regex = a /\ calls[u][d].at \in {"clear", "publish"}
        BY <3>2
      <3>4. "bump" \in Building /\ calls[u][d].at \in Building
        BY <3>3 DEF Building
      <3>5. u = t /\ d = n
        BY <1>4, <2>0, <2>1, <3>3, <3>4, BuilderFacts
      <3>6. QED
        BY <2>2, <3>3, <3>5
    <2>5. Rebuilding(a)'
      BY <2>2 DEF Rebuilding
    <2>6. QED
      BY <2>3, <2>4, <2>5
  <1>5. QED
    BY <1>1, <1>2, <1>3, <1>4

LEMMA BumpedFacts ==
  ASSUME Typing, Ownership, Generations, Phases, Next, NEW s \in DOMAIN slots, Bumped(s),
         NEW a, a = slots[s].owner
  PROVE  /\ a \in Addresses /\ a # NoAddress /\ slots[s].generation < program[a]
         /\ Rebuilding(a)' /\ ~ready[a] /\ ~ready'[a]
         /\ slots'[s].generation = slots[s].generation + 1
         /\ UNCHANGED <<compiled, program, ready>>
  <1>1. PICK t \in Threads : Bump(t) /\ s = Top(t).slot
    BY DEF Bumped
  <1>2. At(t, "bump") /\ UNCHANGED <<compiled, program, ready>>
    BY <1>1 DEF Bump, regexes
  <1>3. a = Top(t).regex /\ a \in Addresses /\ a # NoAddress
    BY <1>1, <1>2, SlotInUse, AtFacts, NamesAssumption
  <1>4. ~Rebuilding(a) /\ Rebuilding(a)' /\ ~ready[a] /\ ~ready'[a]
    BY <1>1, <1>3, BuildsEffect
  <1>5. slots[s].generation < program[a]
    BY <1>3, <1>4 DEF Generations
  <1>6. QED
    BY <1>2, <1>3, <1>4, <1>5 DEF Bumped

\* A set checked has its slot's generation; one filled has DFAs.
LEMMA CheckedFacts ==
  ASSUME Typing, Ownership, Leases, NEW t \in Threads, CheckGeneration(t), NEW i, i = Top(t).set,
         i \in DOMAIN sets
  PROVE  \E s \in DOMAIN slots :
           /\ s = Top(t).slot /\ sets'[i].generation = slots[s].generation
           /\ sets'[i] = sets[i] \/ sets'[i].dfas = Null
           /\ UNCHANGED slots /\ UNCHANGED <<compiled, program, ready>>
  <1>1. /\ At(t, "check") /\ UNCHANGED slots /\ UNCHANGED <<compiled, program, ready>>
        /\ sets' = IF sets[i].generation = slots[Top(t).slot].generation THEN sets
                     ELSE [sets EXCEPT ![i] = [generation |-> slots[Top(t).slot].generation,
                                               dfas |-> Null]]
    BY DEF CheckGeneration, regexes
  <1>2. PICK s \in DOMAIN slots : s = Top(t).slot
    BY <1>1, SlotInUse
  <1>3. sets'[i].generation = slots[s].generation /\ (sets'[i] = sets[i] \/ sets'[i].dfas = Null)
    BY <1>1, <1>2 DEF Typing, SetTypes
  <1>4. QED
    BY <1>1, <1>2, <1>3

LEMMA FilledFacts ==
  ASSUME Typing, NEW t \in Threads, Fill(t), NEW i, i = Top(t).set, i \in DOMAIN sets
  PROVE  /\ sets'[i].generation = sets[i].generation
         /\ sets'[i].dfas = IF sets[i].dfas = Null THEN program[Top(t).regex] ELSE sets[i].dfas
         /\ UNCHANGED slots /\ UNCHANGED <<compiled, program, ready>>
  <1>1. /\ UNCHANGED slots /\ UNCHANGED <<compiled, program, ready>>
        /\ sets' = [sets EXCEPT ![i].dfas = IF @ = Null THEN program[Top(t).regex] ELSE @]
    BY DEF Fill, regexes
  <1>2. sets[i] \in SetType
    BY DEF Typing, SetTypes
  <1>3. sets' = [sets EXCEPT ![i] = [sets[i] EXCEPT !.dfas = IF @ = Null THEN program[Top(t).regex] ELSE @]]
    BY <1>1
  <1>4. QED
    BY <1>1, <1>2, <1>3 DEF Typing, SetTypes, SetType

GenerationOf(s, o) ==
  /\ slots[s].generation <= compiled
  /\ o # NoAddress => slots[s].generation <= program[o]
  /\ o # NoAddress /\ ~ready[o] /\ ~Rebuilding(o) => slots[s].generation < program[o]

LEMMA GenerationsStep ==
  ASSUME Typing, Phases, Ownership, Leases, Owned, Generations, Next
  PROVE  Generations'
  <1>0. /\ compiled \in Nat /\ program \in [Addresses -> 0 .. compiled] /\ SlotTypes /\ SetTypes
        /\ compiled' \in Nat /\ compiled <= compiled' /\ SlotTypes'
    BY RegexEffect, TypingStep DEF Typing, RegexTypes
  <1>1. ASSUME NEW s \in DOMAIN slots, NEW o, o = slots'[s].owner
        PROVE  GenerationOf(s, o)'
    <2>1. /\ o \in {slots[s].owner, NoAddress}
          /\ slots'[s].generation = slots[s].generation \/ Bumped(s)
      BY <1>1, SlotsEffect
    <2>2. slots[s].generation \in Nat /\ slots[s].generation <= compiled
      BY <1>0, SlotFacts DEF Generations, SlotType
    <2>3. CASE Bumped(s)
      <3>1. PICK a : a = slots[s].owner
        OBVIOUS
      <3>2. /\ a \in Addresses /\ slots[s].generation < program[a]
            /\ Rebuilding(a)' /\ slots'[s].generation = slots[s].generation + 1
            /\ UNCHANGED <<compiled, program, ready>>
        BY <2>3, <3>1, BumpedFacts
      <3>3. program[a] \in 0 .. compiled
        BY <1>0, <3>2
      <3>4. slots'[s].generation <= compiled' /\ slots'[s].generation <= program'[a]
        <4>1. PICK g \in Nat : g = slots[s].generation
          BY <2>2
        <4>2. program[a] \in Nat /\ program[a] <= compiled /\ compiled \in Nat
          BY <1>0, <3>3
        <4>3. g + 1 <= program[a] /\ g + 1 <= compiled
          BY <3>2, <4>1, <4>2
        <4>4. slots'[s].generation = g + 1 /\ compiled' = compiled /\ program'[a] = program[a]
          BY <3>2, <4>1
        <4>5. QED
          BY <4>2, <4>3, <4>4
      <3>5. o # NoAddress => o = a
        BY <2>1, <3>1
      <3>6. QED
        BY <3>2, <3>4, <3>5 DEF GenerationOf
    <2>4. CASE slots'[s].generation = slots[s].generation
      <3>1. slots'[s].generation <= compiled'
        BY <1>0, <2>2, <2>4
      <3>2. ASSUME o # NoAddress
            PROVE  /\ slots'[s].generation <= program'[o]
                   /\ ~ready'[o] /\ ~Rebuilding(o)' => slots'[s].generation < program'[o]
        <4>1. o = slots[s].owner /\ o \in Addresses /\ program[o] # Null
          <5>1. o = slots[s].owner
            BY <2>1, <3>2
          <5>2. QED
            BY <1>0, <3>2, <5>1, SlotFacts DEF SlotType, Ownership
        <4>2. /\ slots[s].generation <= program[o]
              /\ ~ready[o] /\ ~Rebuilding(o) => slots[s].generation < program[o]
          BY <3>2, <4>1 DEF Generations
        <4>3. Rebuilding(o) => Rebuilding(o)' \/ ready'[o]
          BY <4>1, BuildsEffect
        <4>4. CASE RegexKept(o)
          BY <2>4, <4>2, <4>3, <4>4 DEF RegexKept
        <4>5. CASE RegexAssigned(o)
          <5>1. program'[o] = compiled + 1
            BY <4>5 DEF RegexAssigned
          <5>2. PICK g \in Nat : g = slots[s].generation /\ g <= compiled
            BY <2>2
          <5>3. g < compiled + 1 /\ g <= compiled + 1
            BY <1>0, <5>2
          <5>4. QED
            BY <1>0, <2>4, <5>1, <5>2, <5>3
        <4>6. CASE RegexPublished(o)
          BY <2>4, <4>2, <4>3, <4>6 DEF RegexPublished
        <4>7. ~RegexMade(o) /\ ~RegexFreed(o)
          BY <4>1 DEF RegexMade, RegexFreed
        <4>8. QED
          BY <4>1, <4>4, <4>5, <4>6, <4>7, RegexEffect
      <3>3. QED
        BY <3>1, <3>2 DEF GenerationOf
    <2>5. QED
      BY <2>1, <2>3, <2>4
  <1>2. ASSUME NEW s \in DOMAIN slots', s \notin DOMAIN slots, NEW o, o = slots'[s].owner
        PROVE  GenerationOf(s, o)'
    <2>1. PICK a \in Addresses : SlotMadeFor(s, a)
      BY <1>2, SlotsEffect
    <2>2. PICK t \in Threads : \E d \in Depths(t) : calls[t][d].regex = a /\ UNCHANGED <<program, ready>>
      BY <2>1 DEF SlotMadeFor
    <2>3. program[a] # Null /\ UNCHANGED program
      BY <2>2 DEF Phases, Phase
    <2>4. program'[a] \in Nat \ {0}
      BY <1>0, <2>3, Names
    <2>5. slots'[s].generation = 0 /\ o = a
      BY <1>2, <2>1 DEF SlotMadeFor
    <2>6. QED
      BY <1>0, <2>4, <2>5 DEF GenerationOf
  <1>3. ASSUME NEW i \in DOMAIN sets' PROVE sets'[i].generation <= compiled' /\ sets'[i].dfas <= compiled'
    <2>1. i \in SetIds
      BY SetsEffect DEF SetTypes, SetIds
    <2>2. CASE i \in DOMAIN sets
      <3>1. /\ sets[i].generation <= compiled /\ sets[i].dfas <= compiled
            /\ sets[i].generation \in Nat /\ sets[i].dfas \in Nat
        BY <1>0, <2>2 DEF Generations, SetTypes, SetType
      <3>2. CASE sets'[i] = sets[i]
        BY <1>0, <3>1, <3>2
      <3>3. CASE SetChecked(i)
        <4>1. PICK t \in Threads : CheckGeneration(t) /\ i = Top(t).set
          BY <3>3 DEF SetChecked
        <4>2. PICK s \in DOMAIN slots :
                /\ sets'[i].generation = slots[s].generation
                /\ sets'[i] = sets[i] \/ sets'[i].dfas = Null
          BY <2>2, <4>1, CheckedFacts
        <4>3. slots[s].generation \in Nat /\ slots[s].generation <= compiled
          BY <1>0, SlotFacts DEF Generations, SlotType
        <4>4. QED
          BY <1>0, <3>1, <4>2, <4>3, Names
      <3>4. CASE SetFilled(i)
        <4>1. PICK t \in Threads : Fill(t) /\ i = Top(t).set
          BY <3>4 DEF SetFilled
        <4>2. /\ sets'[i].generation = sets[i].generation
              /\ sets'[i].dfas = IF sets[i].dfas = Null THEN program[Top(t).regex] ELSE sets[i].dfas
          BY <2>2, <4>1, FilledFacts
        <4>3. Top(t).regex \in Addresses
          BY <4>1, AtFacts DEF Fill
        <4>4. program[Top(t).regex] \in 0 .. compiled
          BY <1>0, <4>3
        <4>5. QED
          BY <1>0, <3>1, <4>2, <4>4
      <3>5. QED
        BY <2>2, <3>2, <3>3, <3>4, SetsEffect
    <2>3. CASE i \notin DOMAIN sets
      <3>1. Fate(i)
        BY <2>1, FateStep
      <3>2. sets'[i] = FreshSet
        BY <1>3, <2>3, <3>1 DEF Fate, Same, Lost, Moved, Made
      <3>3. QED
        BY <1>0, <3>2, Names DEF FreshSet
    <2>4. QED
      BY <2>2, <2>3
  <1>4. ASSUME NEW s \in DOMAIN slots'
        PROVE  (/\ slots[s].generation <= compiled
                /\ slots[s].owner # NoAddress => slots[s].generation <= program[slots[s].owner]
                /\ slots[s].owner # NoAddress /\ ~ready[slots[s].owner] /\ ~Rebuilding(slots[s].owner)
                     => slots[s].generation < program[slots[s].owner])'
    <2>1. PICK o : o = slots'[s].owner
      OBVIOUS
    <2>2. GenerationOf(s, o)'
      BY <1>1, <1>2, <2>1
    <2>3. QED
      BY <2>1, <2>2 DEF GenerationOf, Rebuilding
  <1>5. QED
    BY <1>3, <1>4 DEF Generations

\* A set is had under one slot.
LEMMA OneHome ==
  ASSUME Owned, NEW i \in SetIds, NEW s \in DOMAIN slots, NEW r \in DOMAIN slots, Home(i, s), Home(i, r)
  PROVE  s = r
  <1>1. Under(i, r)
    BY WhereItIs DEF Home, Under
  <1>2. QED
    BY <1>1, UnderIsExclusive

LEMMA HomeKept ==
  ASSUME Typing, Ownership, Leases, NEW i \in SetIds, NEW s \in DOMAIN slots', Home(i, s)',
         DOMAIN slots \subseteq DOMAIN slots', Same(i) \/ \E r \in DOMAIN slots : Moved(i, r)
  PROVE  s \in DOMAIN slots /\ Home(i, s)
  <1>0. i # Null /\ SlotTypes
    BY Names DEF SetIds, Typing
  <1>1. CASE Same(i)
    <2>1. CASE Pools(i, s)'
      BY <1>1, <2>1 DEF Same, PoolsSame, Home
    <2>2. CASE \E t \in Threads : Caches(i, t)' /\ cache'[t].slot = s
      <3>1. PICK t \in Threads : Caches(i, t)' /\ cache'[t].slot = s
        BY <2>2
      <3>2. Caches(i, t) /\ cache[t].slot = s
        BY <1>1, <3>1 DEF Same, CachesSame
      <3>3. s # Null
        BY <1>0, <3>2 DEF Leases, CacheOf, Caches
      <3>4. s \in Nat /\ s <= Len(slots)
        BY <3>2 DEF Typing, CacheTypes, CacheType
      <3>5. s \in DOMAIN slots
        BY <1>0, <3>3, <3>4, SlotFacts, Names
      <3>6. QED
        BY <1>1, <3>2, <3>5 DEF Home
    <2>3. CASE \E t \in Threads : \E d \in Depths(t)' : Holds(i, t, d)' /\ calls'[t][d].slot = s
      <3>1. PICK t \in Threads : \E d \in Depths(t)' : Holds(i, t, d)' /\ calls'[t][d].slot = s
        BY <2>3
      <3>2. PICK d \in Depths(t)' : Holds(i, t, d)' /\ calls'[t][d].slot = s
        BY <3>1
      <3>3. d \in Depths(t) /\ Holds(i, t, d) /\ calls[t][d].slot = s
        BY <1>1, <3>2 DEF Same, HoldsSame
      <3>4. calls[t][d].at \in Holding
        BY <1>0, <3>3 DEF Leases, LeaseOf, Holds
      <3>5. SlotOf(t, d)
        BY <3>3 DEF Ownership
      <3>6. s # Null
        BY <3>3, <3>4, <3>5 DEF SlotOf
      <3>7. s \in Nat /\ s <= Len(slots)
        BY <3>3, TopFacts DEF Typing, CallTypes, CallType
      <3>8. s \in DOMAIN slots
        BY <1>0, <3>6, <3>7, SlotFacts, Names
      <3>9. QED
        BY <1>1, <3>3, <3>8 DEF Home
    <2>4. QED
      BY <1>1, <2>1, <2>2, <2>3 DEF Home
  <1>2. CASE \E r \in DOMAIN slots : Moved(i, r)
    <2>1. PICK r \in DOMAIN slots : Moved(i, r)
      BY <1>2
    <2>2. Under(i, r)'
      BY <2>1 DEF Moved
    <2>3. \A q \in DOMAIN slots' : Home(i, q)' => q = r
      <3>1. OneHomeEach'
        BY HomesAreSingle, PTL
      <3>2. QED
        BY <2>2, <3>1 DEF OneHomeEach
    <2>4. s = r
      BY <2>1, <2>3
    <2>5. QED
      BY <2>1, <2>4 DEF Moved
  <1>3. QED
    BY <1>1, <1>2

\* A set that a call holds is under that call's slot, and in no other call's hands.
LEMMA HolderHome ==
  ASSUME Leases, NEW t \in Threads, NEW d \in Depths(t), calls[t][d].at \in Holding
  PROVE  Home(calls[t][d].set, calls[t][d].slot)
  <1>1. LeaseOf(t, d)
    BY DEF Leases
  <1>2. QED
    BY <1>1 DEF LeaseOf, Home, Caches, Holds

LEMMA HoldersDiffer ==
  ASSUME Leases, Owned, NEW t \in Threads, NEW d \in Depths(t), NEW u \in Threads, NEW e \in Depths(u),
         calls[t][d].at \in Holding, calls[u][e].at \in Holding, calls[t][d].set = calls[u][e].set,
         calls[t][d].set \in SetIds
  PROVE  t = u /\ d = e
  <1>1. LeaseOf(t, d) /\ LeaseOf(u, e)
    BY DEF Leases
  <1>2. PICK i \in SetIds : i = calls[t][d].set
    OBVIOUS
  <1>3. CASE calls[t][d].cached /\ calls[u][e].cached
    <2>1. Caches(i, t) /\ Caches(i, u) /\ d = 1 /\ e = 1
      BY <1>1, <1>2, <1>3 DEF LeaseOf, Caches
    <2>2. QED
      BY <2>1, WhereItIs DEF InCache
  <1>4. CASE ~calls[t][d].cached /\ ~calls[u][e].cached
    <2>1. Holds(i, t, d) /\ Holds(i, u, e)
      BY <1>2, <1>4 DEF Holds
    <2>2. QED
      BY <2>1, WhereItIs DEF InLease
  <1>5. CASE calls[t][d].cached /\ ~calls[u][e].cached
    <2>1. Caches(i, t) /\ Holds(i, u, e)
      BY <1>1, <1>2, <1>5 DEF LeaseOf, Caches, Holds
    <2>2. QED
      BY <2>1, WhereItIs DEF InCache
  <1>6. CASE ~calls[t][d].cached /\ calls[u][e].cached
    <2>1. Caches(i, u) /\ Holds(i, t, d)
      BY <1>1, <1>2, <1>6 DEF LeaseOf, Caches, Holds
    <2>2. QED
      BY <2>1, WhereItIs DEF InCache
  <1>7. QED
    BY <1>3, <1>4, <1>5, <1>6

\* The slot of a call that takes or holds a set is its regex's, which no build is renewing.
LEMMA LeaseQuiet ==
  ASSUME Typing, Phases, Ownership, Next, NEW t \in Threads, NEW d \in Depths(t),
         calls[t][d].at \in {"take", "check", "fill", "walk"}, UNCHANGED <<compiled, program, ready>>
  PROVE  /\ calls[t][d].slot \in DOMAIN slots /\ slots[calls[t][d].slot].owner = calls[t][d].regex
         /\ calls[t][d].regex \in Addresses
         /\ ready[calls[t][d].regex] /\ ready'[calls[t][d].regex]
         /\ \A a : a = calls[t][d].regex => ~Rebuilding(a)'
  <1>1. SlotOf(t, d) /\ Phase(t, d)
    BY DEF Ownership, Phases
  <1>2. /\ calls[t][d].slot # Null /\ slots[calls[t][d].slot].owner = calls[t][d].regex
        /\ ready[calls[t][d].regex] /\ ready'[calls[t][d].regex]
    BY <1>1 DEF SlotOf, Phase, Leasing, Holding
  <1>3. /\ calls[t][d].slot \in Nat /\ calls[t][d].slot <= Len(slots)
        /\ calls[t][d].regex \in Addresses
    BY TopFacts DEF Typing, CallTypes, CallType
  <1>4. calls[t][d].slot \in DOMAIN slots
    BY <1>2, <1>3, SlotFacts, Names DEF Typing
  <1>5. PICK a \in Addresses : a = calls[t][d].regex
    BY <1>3
  <1>6. ~Rebuilding(a)'
    BY <1>2, <1>5, BuildsEffect
  <1>7. QED
    BY <1>2, <1>3, <1>4, <1>5, <1>6

CurrentOf(i, s, o) ==
  /\ sets[i].generation <= slots[s].generation
  /\ o # NoAddress /\ Rebuilding(o) => sets[i].generation < slots[s].generation
  /\ o # NoAddress /\ ready[o] => \/ sets[i].generation < slots[s].generation
                                  \/ sets[i].dfas \in {Null, program[o]}

LEMMA CurrentStep ==
  ASSUME Typing, Phases, Ownership, Leases, Owned, Currency, Next,
         NEW i \in DOMAIN sets', NEW s \in DOMAIN slots', Home(i, s)', NEW o, o = slots'[s].owner
  PROVE  CurrentOf(i, s, o)'
  <1>0. /\ compiled \in Nat /\ program \in [Addresses -> 0 .. compiled] /\ SlotTypes /\ SetTypes
        /\ SlotTypes' /\ SetTypes' /\ ready \in [Addresses -> BOOLEAN]
    BY TypingStep DEF Typing, RegexTypes
  <1>1. i \in SetIds /\ i # Null /\ Fate(i) /\ ~Lost(i)
    BY <1>0, FateStep, Names DEF SetTypes, SetIds, Lost
  <1>2. CASE \E r \in DOMAIN slots : Made(i, r)
    <2>1. PICK r \in DOMAIN slots : Made(i, r)
      BY <1>2
    <2>2. PICK t \in Threads : At(t, "take") /\ r = Top(t).slot /\ Take(t)
      BY <2>1 DEF Made
    <2>3. Under(i, r)' /\ UNCHANGED slots /\ sets'[i] = FreshSet
      BY <2>1 DEF Made
    <2>4. \A q \in DOMAIN slots' : Home(i, q)' => q = r
      <3>1. OneHomeEach'
        BY HomesAreSingle, PTL
      <3>2. QED
        BY <2>3, <3>1 DEF OneHomeEach
    <2>5. s = r
      BY <2>4
    <2>6. UNCHANGED <<compiled, program, ready>>
      BY <2>2 DEF Take, regexes
    <2>7. PICK d \in Depths(t) : calls[t][d] = Top(t) /\ Top(t).at = "take"
      BY <2>2, AtFacts
    <2>8. slots[r].owner = Top(t).regex
      BY <2>6, <2>7, LeaseQuiet, <2>2
    <2>9. o = calls[t][d].regex
      BY <2>3, <2>5, <2>7, <2>8
    <2>10. ~Rebuilding(o)'
      BY <2>6, <2>7, <2>9, LeaseQuiet
    <2>11. slots'[s].generation \in Nat
      BY <1>0, SlotFacts, <2>3 DEF SlotType
    <2>12. QED
      BY <2>3, <2>10, <2>11, Names DEF CurrentOf, FreshSet
  <1>3. CASE Same(i) \/ \E r \in DOMAIN slots : Moved(i, r)
    <2>1. s \in DOMAIN slots /\ Home(i, s) /\ i \in DOMAIN sets
      <3>1. i \in DOMAIN sets
        BY <1>3 DEF Same, Moved
      <3>2. DOMAIN slots \subseteq DOMAIN slots'
        BY SlotsEffect
      <3>3. QED
        BY <1>1, <1>3, <3>1, <3>2, HomeKept
    <2>2. CurrentOf(i, s, slots[s].owner)
      BY <2>1 DEF Currency, Current, CurrentOf
    <2>3. PICK g \in Nat : g = sets[i].generation
      BY <1>0, <2>1 DEF SetTypes, SetType
    <2>4. PICK h \in Nat : h = slots[s].generation
      BY <1>0, <2>1, SlotFacts DEF SlotType
    <2>5. g <= h
      BY <2>2, <2>3, <2>4 DEF CurrentOf
    <2>6. o \in {slots[s].owner, NoAddress} /\ (slots'[s].generation = h \/ Bumped(s))
      BY <2>1, <2>4, SlotsEffect
    <2>7. sets'[i] = sets[i] \/ SetChecked(i) \/ SetFilled(i)
      BY <2>1, SetsEffect
    <2>8. CASE Bumped(s)
      <3>1. slots'[s].generation = h + 1
        BY <2>4, <2>8 DEF Bumped
      <3>2. ASSUME SetChecked(i) \/ SetFilled(i) PROVE FALSE
        <4>1. UNCHANGED slots
          BY <3>2 DEF SetChecked, SetFilled, CheckGeneration, Fill
        <4>2. QED
          BY <2>4, <3>1, <4>1
      <3>3. sets'[i].generation = g /\ g < h + 1 /\ g <= h + 1
        BY <2>3, <2>5, <2>7, <3>2
      <3>4. QED
        BY <3>1, <3>3 DEF CurrentOf
    <2>9. CASE slots'[s].generation = h /\ SetChecked(i)
      <3>1. PICK t \in Threads : CheckGeneration(t) /\ i = Top(t).set
        BY <2>9 DEF SetChecked
      <3>2. PICK r \in DOMAIN slots :
              /\ r = Top(t).slot /\ sets'[i].generation = slots[r].generation
              /\ sets'[i] = sets[i] \/ sets'[i].dfas = Null
              /\ UNCHANGED slots /\ UNCHANGED <<compiled, program, ready>>
        BY <2>1, <3>1, CheckedFacts
      <3>3. PICK d \in Depths(t) : calls[t][d] = Top(t) /\ Top(t).at = "check"
        BY <3>1, AtFacts DEF CheckGeneration
      <3>4. s = r
        BY <1>1, <2>1, <3>1, <3>2, <3>3, HolderHome, OneHome DEF Holding
      <3>5. slots[r].owner = calls[t][d].regex /\ ready[calls[t][d].regex]
        BY <3>2, <3>3, LeaseQuiet
      <3>6. o = calls[t][d].regex /\ o = slots[s].owner
        BY <3>2, <3>4, <3>5
      <3>7. ~Rebuilding(o)'
        BY <3>2, <3>3, <3>6, LeaseQuiet
      <3>8. sets'[i].generation = h
        BY <2>4, <3>2, <3>4
      <3>9. o # NoAddress => sets'[i].dfas \in {Null, program'[o]}
        <4>1. CASE sets'[i].dfas = Null
          BY <4>1
        <4>2. CASE sets'[i] = sets[i]
          <5>1. g = h
            BY <2>3, <3>8, <4>2
          <5>2. ~(sets[i].generation < slots[s].generation)
            BY <2>3, <2>4, <5>1
          <5>3. o # NoAddress => sets[i].dfas \in {Null, program[o]}
            BY <2>2, <3>5, <3>6, <5>2 DEF CurrentOf
          <5>4. QED
            BY <3>2, <4>2, <5>3
        <4>3. QED
          BY <3>2, <4>1, <4>2
      <3>10. QED
        BY <2>9, <3>7, <3>8, <3>9 DEF CurrentOf
    <2>10. CASE slots'[s].generation = h /\ SetFilled(i)
      <3>1. PICK t \in Threads : Fill(t) /\ i = Top(t).set
        BY <2>10 DEF SetFilled
      <3>2. /\ sets'[i].generation = sets[i].generation
            /\ sets'[i].dfas = IF sets[i].dfas = Null THEN program[Top(t).regex] ELSE sets[i].dfas
            /\ UNCHANGED slots /\ UNCHANGED <<compiled, program, ready>>
        BY <2>1, <3>1, FilledFacts
      <3>3. PICK d \in Depths(t) : calls[t][d] = Top(t) /\ Top(t).at = "fill"
        BY <3>1, AtFacts DEF Fill
      <3>4. s = calls[t][d].slot
        <4>1. calls[t][d].slot \in DOMAIN slots
          BY <3>2, <3>3, LeaseQuiet
        <4>2. Home(i, calls[t][d].slot)
          BY <3>1, <3>3, HolderHome DEF Holding
        <4>3. QED
          BY <1>1, <2>1, <4>1, <4>2, OneHome
      <3>5. slots[s].owner = calls[t][d].regex /\ ready[calls[t][d].regex]
        BY <3>2, <3>3, <3>4, LeaseQuiet
      <3>6. o = calls[t][d].regex /\ o = slots[s].owner
        BY <3>2, <3>5
      <3>7. ~Rebuilding(o)'
        BY <3>2, <3>3, <3>6, LeaseQuiet
      <3>8. o # NoAddress => \/ sets'[i].generation < h
                             \/ sets'[i].dfas \in {Null, program'[o]}
        BY <2>2, <2>4, <3>2, <3>3, <3>5, <3>6 DEF CurrentOf
      <3>9. QED
        BY <2>3, <2>5, <2>10, <3>2, <3>7, <3>8 DEF CurrentOf
    <2>11. CASE slots'[s].generation = h /\ sets'[i] = sets[i] /\ o # NoAddress
      <3>1. o = slots[s].owner /\ o \in Addresses /\ program[o] # Null
        <4>1. o = slots[s].owner
          BY <2>6, <2>11
        <4>2. QED
          BY <1>0, <2>1, <2>11, <4>1, SlotFacts DEF SlotType, Ownership
      <3>2. /\ Rebuilding(o) => g < h
            /\ ready[o] => g < h \/ sets[i].dfas \in {Null, program[o]}
        BY <2>2, <2>3, <2>4, <2>11, <3>1 DEF CurrentOf
      <3>3. Rebuilding(o)' => g < h
        <4>1. ASSUME NEW t \in Threads, Bump(t), Top(t).regex = o PROVE FALSE
          <5>1. At(t, "bump")
            BY <4>1 DEF Bump
          <5>2. PICK r \in DOMAIN slots : r = Top(t).slot
            BY <5>1, SlotInUse
          <5>3. slots[r].owner = o
            BY <4>1, <5>1, <5>2, SlotInUse
          <5>4. s = r
            BY <2>1, <2>11, <3>1, <5>3, SlotsDiffer
          <5>5. slots' = [slots EXCEPT ![r].generation = @ + 1]
            BY <4>1, <5>2 DEF Bump
          <5>6. slots'[r].generation = slots[r].generation + 1
            BY <1>0, <5>5, SlotFieldWrite
          <5>7. QED
            BY <2>4, <2>11, <5>4, <5>6
        <4>2. QED
          BY <3>1, <3>2, <4>1, BuildsEffect
      <3>4. ready'[o] => g < h \/ sets[i].dfas \in {Null, program'[o]}
        <4>1. ~RegexMade(o) /\ ~RegexFreed(o)
          BY <2>1, <3>1 DEF RegexMade, RegexFreed
        <4>2. RegexKept(o) \/ RegexAssigned(o) \/ RegexPublished(o)
          BY <3>1, <4>1, RegexEffect
        <4>3. QED
          BY <3>2, <4>2 DEF RegexKept, RegexAssigned, RegexPublished
      <3>5. QED
        BY <2>3, <2>5, <2>11, <3>3, <3>4 DEF CurrentOf
    <2>12. CASE slots'[s].generation = h /\ sets'[i] = sets[i] /\ o = NoAddress
      BY <2>3, <2>5, <2>12 DEF CurrentOf
    <2>13. QED
      BY <2>6, <2>7, <2>8, <2>9, <2>10, <2>11, <2>12
  <1>4. QED
    BY <1>1, <1>2, <1>3 DEF Fate

LEMMA CallInUse ==
  ASSUME Typing, NEW t \in Threads, NEW d \in Depths(t)
  PROVE  calls[t][d] \in CallsOf(t) /\ InUse(calls[t][d].regex)
  <1>1. calls[t] \in Seq(CallType)
    BY DEF Typing, CallTypes
  <1>2. d \in DOMAIN calls[t]
    BY <1>1, LenProperties DEF Depths
  <1>3. QED
    BY <1>2 DEF CallsOf, ToSet, InUse

LEMMA HolderHas ==
  ASSUME Typing, Leases, Owned, NEW t \in Threads, NEW d \in Depths(t), calls[t][d].at \in Holding,
         calls[t][d].set # Null
  PROVE  calls[t][d].set \in SetIds /\ calls[t][d].set \in DOMAIN sets
  <1>1. calls[t][d].set \in SetIds
    BY TopFacts, Names DEF Typing, CallType, SetIds
  <1>2. PICK i \in SetIds : i = calls[t][d].set
    BY <1>1
  <1>3. LeaseOf(t, d)
    BY DEF Leases
  <1>4. Caches(i, t) \/ Holds(i, t, d)
    BY <1>2, <1>3 DEF LeaseOf, Caches, Holds
  <1>5. QED
    BY <1>2, <1>4, WhereItIs

LEMMA WalksStep ==
  ASSUME Typing, Phases, Ownership, Leases, Owned, Currency, Next, NEW u \in Threads, NEW d \in Depths(u)'
  PROVE  WalkOf(u, d)'
  <1>1. CallOf(u, d)
    BY CallsEffect
  <1>2. CASE CallElse(u, d)
    BY <1>2 DEF CallElse, WalkOf
  <1>3. CASE CheckGeneration(u) /\ CallAlong(u, d, "fill")
    <2>1. /\ d \in Depths(u) /\ calls[u][d] = Top(u) /\ Top(u).at = "check" /\ Top(u).set # Null
      BY <1>3, AtFacts DEF CheckGeneration, CallAlong
    <2>2. Top(u).set \in DOMAIN sets
      BY <2>1, HolderHas DEF Holding
    <2>3. /\ sets'[Top(u).set].generation = slots[Top(u).slot].generation /\ UNCHANGED slots
      BY <1>3, <2>2, CheckedFacts
    <2>4. /\ calls'[u][d].slot = Top(u).slot /\ calls'[u][d].set = Top(u).set
          /\ calls'[u][d].at = "fill"
      BY <1>3 DEF CallAlong
    <2>5. QED
      BY <2>3, <2>4 DEF WalkOf
  <1>4. CASE Fill(u) /\ CallAlong(u, d, "walk")
    <2>1. /\ d \in Depths(u) /\ calls[u][d] = Top(u) /\ Top(u).at = "fill"
      BY <1>4, AtFacts DEF Fill, CallAlong
    <2>2. Top(u).set # Null
      BY <2>1 DEF Leases, LeaseOf
    <2>3. PICK i \in SetIds : i = Top(u).set /\ i \in DOMAIN sets
      BY <2>1, <2>2, HolderHas DEF Holding
    <2>4. /\ sets'[i].generation = sets[i].generation
          /\ sets'[i].dfas = IF sets[i].dfas = Null THEN program[Top(u).regex] ELSE sets[i].dfas
          /\ UNCHANGED slots /\ UNCHANGED <<compiled, program, ready>>
      BY <1>4, <2>3, FilledFacts
    <2>5. PICK s \in DOMAIN slots : s = Top(u).slot /\ slots[s].owner = Top(u).regex
      BY <2>1, <2>4, LeaseQuiet
    <2>6. ready[Top(u).regex] /\ Top(u).regex \in Addresses /\ Top(u).regex # NoAddress
      BY <2>1, <2>4, LeaseQuiet, NamesAssumption
    <2>7. Home(i, s)
      BY <2>1, <2>3, <2>5, HolderHome DEF Holding
    <2>8. sets[i].generation = slots[s].generation
      BY <2>1, <2>3, <2>5 DEF Currency, WalkOf
    <2>9. sets[i].dfas \in {Null, program[Top(u).regex]}
      <3>1. Current(i, s)
        BY <2>3, <2>7 DEF Currency
      <3>2. slots[s].generation \in Nat
        BY SlotFacts DEF Typing, SlotType
      <3>3. ~(sets[i].generation < slots[s].generation)
        BY <2>8, <3>2
      <3>4. QED
        BY <2>5, <2>6, <3>1, <3>3 DEF Current
    <2>10. /\ calls'[u][d].slot = s /\ calls'[u][d].set = i /\ calls'[u][d].regex = Top(u).regex
      BY <1>4, <2>3, <2>5 DEF CallAlong
    <2>11. QED
      BY <2>4, <2>8, <2>9, <2>10 DEF WalkOf
  <1>5. CASE CallKept(u, d) /\ calls[u][d].at \in {"fill", "walk"}
    <2>1. d \in Depths(u) /\ calls'[u][d] = calls[u][d] /\ calls[u][d].at \in Holding
      BY <1>5 DEF CallKept, Holding
    <2>2. WalkOf(u, d)
      BY <2>1 DEF Currency
    <2>3. calls[u][d].set # Null
      BY <1>5, <2>1 DEF Leases, LeaseOf
    <2>4. PICK i \in SetIds : i = calls[u][d].set /\ i \in DOMAIN sets
      BY <2>1, <2>3, HolderHas
    <2>5. i \in DOMAIN sets'
      <3>1. LeaseOf(u, d)'
        BY LeasesStep DEF Leases
      <3>2. Caches(i, u)' \/ Holds(i, u, d)'
        BY <2>1, <2>4, <3>1 DEF LeaseOf, Caches, Holds
      <3>3. ~Lost(i)
        BY <3>2 DEF Lost, Nowhere
      <3>4. QED
        BY <2>4, <3>3, FateStep DEF Fate, Same, Moved, Made
    <2>6. sets'[i] = sets[i]
      <3>1. ASSUME SetChecked(i) \/ SetFilled(i) PROVE FALSE
        <4>1. PICK t \in Threads : (CheckGeneration(t) \/ Fill(t)) /\ i = Top(t).set
          BY <3>1 DEF SetChecked, SetFilled
        <4>2. PICK from \in {"check", "fill"} :
                At(t, from) /\ (from = "fill" => Goto(t, "walk"))
          BY <4>1 DEF CheckGeneration, Fill
        <4>3. PICK n : n = Len(calls[t])
          OBVIOUS
        <4>4. n \in Depths(t) /\ calls[t][n] = Top(t) /\ Top(t).at = from
          BY <4>2, <4>3, AtFacts
        <4>5. u = t /\ d = n
          BY <2>1, <2>4, <4>1, <4>4, HoldersDiffer DEF Holding
        <4>6. from = "fill"
          BY <1>5, <4>4, <4>5
        <4>7. calls'[t][n].at = "walk"
          BY <4>2, <4>3, <4>6, GotoShape, Names DEF Moves
        <4>8. QED
          BY <2>1, <4>4, <4>5, <4>6, <4>7
      <3>2. QED
        BY <2>4, <2>5, <3>1, SetsEffect
    <2>7. PICK a \in Addresses : a = calls[u][d].regex
      BY <2>1, TopFacts DEF Typing, CallType
    <2>8. program[a] # Null /\ ready[a]
      BY <2>1, <2>7 DEF Phases, Phase, Leasing
    <2>9. PICK s \in DOMAIN slots : s = calls[u][d].slot /\ slots[s].owner = a
      <3>1. /\ calls[u][d].slot # Null /\ slots[calls[u][d].slot].owner = a
        BY <2>1, <2>7 DEF Ownership, SlotOf
      <3>2. calls[u][d].slot \in Nat /\ calls[u][d].slot <= Len(slots)
        BY <2>1, TopFacts DEF Typing, CallTypes, CallType
      <3>3. QED
        BY <3>1, <3>2, SlotFacts, Names DEF Typing
    <2>10. slots'[s].generation = slots[s].generation
      BY <2>8, <2>9, SlotsEffect, BumpedFacts DEF Currency
    <2>11. program'[a] = program[a]
      <3>1. ~RegexMade(a)
        BY <2>8 DEF RegexMade
      <3>2. ~RegexAssigned(a)
        BY <2>1, <2>7, CallInUse DEF RegexAssigned
      <3>3. ~RegexFreed(a)
        BY <2>1, <2>7 DEF RegexFreed
      <3>4. QED
        BY <3>1, <3>2, <3>3, RegexEffect DEF RegexKept, RegexPublished
    <2>12. QED
      BY <2>1, <2>2, <2>4, <2>6, <2>7, <2>9, <2>10, <2>11 DEF WalkOf
  <1>6. CASE CallKept(u, d) /\ calls[u][d].at \notin {"fill", "walk"}
    BY <1>6 DEF CallKept, WalkOf
  <1>7. QED
    BY <1>1, <1>2, <1>3, <1>4, <1>5, <1>6 DEF CallOf

LEMMA CurrencyStep ==
  ASSUME Typing, Phases, Ownership, Leases, Owned, Currency, Next
  PROVE  Currency'
  <1>1. Generations'
    BY GenerationsStep DEF Currency
  <1>2. ASSUME NEW i \in DOMAIN sets', NEW s \in DOMAIN slots', Home(i, s)' PROVE Current(i, s)'
    <2>1. PICK o : o = slots'[s].owner
      OBVIOUS
    <2>2. CurrentOf(i, s, o)'
      BY <1>2, <2>1, CurrentStep
    <2>3. QED
      BY <2>1, <2>2 DEF CurrentOf, Current, Rebuilding
  <1>3. \A t \in Threads : \A d \in Depths(t)' : WalkOf(t, d)'
    BY WalksStep
  <1>4. QED
    BY <1>1, <1>2, <1>3 DEF Currency

-----------------------------------------------------------------------------
(* How many sets a slot has.  One is made only when the pool is empty, and  *)
(* then each of the slot's sets is in a cache or in a nested lease: a       *)
(* thread has one cache, whose lease is its outermost one.                  *)

PlaceOf(i, t, d) ==
  \/ d = 1 /\ cache[t].set = i
  \/ d # 1 /\ d \in Depths(t) /\ calls[t][d].set = i

LEMMA PlacesFinite ==
  /\ IsFiniteSet(Places)
  /\ Cardinality(Places) = Cardinality(Threads) * MaxDepth
  /\ Cardinality(Places) \in Nat
  <1>1. MaxDepth \in Nat /\ 1 <= MaxDepth
    BY BoundsAssumption
  <1>2. IsFiniteSet(1 .. MaxDepth) /\ Cardinality(1 .. MaxDepth) = MaxDepth
    BY <1>1, FS_Interval
  <1>3. QED
    BY <1>2, ThreadsAssumption, FS_Product, FS_CardinalityType DEF Places

LEMMA HasPlace ==
  ASSUME Typing, Leases, NEW s \in DOMAIN slots, slots[s].free = {},
         NEW i \in SetIds, Home(i, s)
  PROVE  \E t \in Threads : \E d \in 1 .. MaxDepth : PlaceOf(i, t, d)
  <1>1. MaxDepth \in Nat /\ 1 \in 1 .. MaxDepth
    BY BoundsAssumption
  <1>2. ~Pools(i, s)
    BY DEF Pools
  <1>3. CASE \E t \in Threads : Caches(i, t) /\ cache[t].slot = s
    BY <1>1, <1>3 DEF Caches, PlaceOf
  <1>4. CASE \E t \in Threads : \E d \in Depths(t) : Holds(i, t, d) /\ calls[t][d].slot = s
    <2>0. PICK t \in Threads : \E d \in Depths(t) : Holds(i, t, d)
      BY <1>4
    <2>1. PICK d \in Depths(t) : Holds(i, t, d)
      BY <2>0
    <2>2. LeaseOf(t, d)
      BY DEF Leases
    <2>3. i # Null
      BY DEF SetIds, Null
    <2>4. d # 1
      BY <2>1, <2>2, <2>3 DEF Holds, LeaseOf
    <2>5. Len(calls[t]) \in Nat /\ Len(calls[t]) <= MaxDepth
      BY TopFacts DEF Typing, CallTypes
    <2>6. d \in 1 .. MaxDepth
      BY <1>1, <2>5 DEF Depths
    <2>7. QED
      BY <2>1, <2>4, <2>6 DEF Holds, PlaceOf
  <1>5. QED
    BY <1>2, <1>3, <1>4 DEF Home

LEMMA FewWhenEmpty ==
  ASSUME Typing, Leases, NEW s \in DOMAIN slots, slots[s].free = {}
  PROVE  Cardinality(SetsOf(s)) <= Cardinality(Places)
  <1>1. SetsOf(s) \subseteq SetIds
    BY DEF SetsOf, Typing, SetTypes, SetIds
  <1> DEFINE f == [i \in SetsOf(s) |-> CHOOSE p \in Places : PlaceOf(i, p[1], p[2])]
  <1>2. ASSUME NEW i \in SetsOf(s) PROVE f[i] \in Places /\ PlaceOf(i, f[i][1], f[i][2])
    <2>1. PICK t \in Threads, d \in 1 .. MaxDepth : PlaceOf(i, t, d)
      BY <1>1, HasPlace DEF SetsOf
    <2>2. <<t, d>> \in Places /\ PlaceOf(i, <<t, d>>[1], <<t, d>>[2])
      BY <2>1 DEF Places
    <2>3. QED
      BY <2>2
  <1> HIDE DEF f
  <1>3. ASSUME NEW i \in SetsOf(s), NEW j \in SetsOf(s), f[i] = f[j] PROVE i = j
    BY <1>2, <1>3 DEF PlaceOf
  <1>4. f \in [SetsOf(s) -> Places]
    <2>1. DOMAIN f = SetsOf(s) /\ f = [i \in SetsOf(s) |-> f[i]]
      BY DEF f
    <2>2. QED
      BY <1>2, <2>1
  <1>5. f \in Injection(SetsOf(s), Places)
    BY <1>3, <1>4 DEF Injection, IsInjective
  <1>6. QED
    BY <1>5, FS_Injection, PlacesFinite

FewIfEmpty ==
  \A s \in DOMAIN slots : Typing /\ Leases /\ slots[s].free = {}
    => Cardinality(SetsOf(s)) <= Cardinality(Places)

LEMMA FewWhenEmptyAll == FewIfEmpty
  BY FewWhenEmpty DEF FewIfEmpty

LEMMA FewStep ==
  ASSUME IInv, Few, Next, IInv'
  PROVE  Few'
  <1>0. /\ Typing /\ Phases /\ Ownership /\ Leases /\ Owned
        /\ Typing' /\ Leases' /\ Owned'
    BY DEF IInv
  <1>1. DOMAIN slots \subseteq DOMAIN slots'
    BY <1>0, SlotsEffect
  <1>2. \A i \in SetIds : Fate(i)
    BY <1>0, FateStep
  <1>3. Places' = Places
    BY DEF Places
  <1>4. DOMAIN sets' \subseteq SetIds /\ DOMAIN sets \subseteq SetIds /\ IsFiniteSet(DOMAIN sets)
    BY <1>0 DEF Typing, SetTypes, SetIds
  <1>5. ASSUME NEW s \in DOMAIN slots'
        PROVE  (Cardinality(SetsOf(s)) <= Cardinality(Places))'
    <2>1. CASE \E j \in SetIds : Made(j, s)
      <3>1. slots'[s].free = {}
        BY <2>1 DEF Made
      <3>2. FewIfEmpty'
        BY FewWhenEmptyAll, PTL
      <3>3. QED
        BY <1>0, <3>1, <3>2 DEF FewIfEmpty
    <2>2. CASE ~\E j \in SetIds : Made(j, s)
      <3>1. ASSUME NEW i \in SetsOf(s)' PROVE s \in DOMAIN slots /\ i \in SetsOf(s)
        <4>1. i \in SetIds /\ i \in DOMAIN sets' /\ Home(i, s)'
          BY <1>4, <3>1 DEF SetsOf
        <4>2. CASE Same(i) \/ \E r \in DOMAIN slots : Moved(i, r)
          <5>1. s \in DOMAIN slots /\ Home(i, s)
            BY <1>0, <1>1, <4>1, <4>2, HomeKept
          <5>2. i \in DOMAIN sets
            BY <4>1, <4>2 DEF Same, Moved
          <5>3. QED
            BY <5>1, <5>2 DEF SetsOf
        <4>3. CASE Lost(i)
          BY <4>1, <4>3 DEF Lost
        <4>4. CASE \E r \in DOMAIN slots : Made(i, r)
          <5>1. PICK r \in DOMAIN slots : Made(i, r)
            BY <4>4
          <5>2. \A q \in DOMAIN slots' : Home(i, q)' => q = r
            <6>1. Under(i, r)'
              BY <5>1 DEF Made
            <6>2. OneHomeEach'
              BY HomesAreSingle, PTL
            <6>3. QED
              BY <6>1, <6>2 DEF OneHomeEach
          <5>3. QED
            BY <2>2, <4>1, <5>1, <5>2
        <4>5. QED
          BY <1>2, <4>1, <4>2, <4>3, <4>4 DEF Fate
      <3>2. CASE SetsOf(s)' = {}
        <4>1. Cardinality(SetsOf(s)') = 0
          BY <3>2, FS_EmptySet
        <4>2. QED
          BY <1>3, <4>1, PlacesFinite
      <3>3. CASE SetsOf(s)' # {}
        <4>1. s \in DOMAIN slots /\ SetsOf(s)' \subseteq SetsOf(s)
          BY <3>1, <3>3
        <4>2. IsFiniteSet(SetsOf(s))
          BY <1>4, FS_Subset DEF SetsOf
        <4>3. Cardinality(SetsOf(s)') <= Cardinality(SetsOf(s)) /\ IsFiniteSet(SetsOf(s)')
          BY <4>1, <4>2, FS_Subset
        <4>4. Cardinality(SetsOf(s)) \in Nat /\ Cardinality(SetsOf(s)') \in Nat
          BY <4>2, <4>3, FS_CardinalityType
        <4>5. Cardinality(SetsOf(s)) <= Cardinality(Places)
          BY <4>1 DEF Few
        <4>6. QED
          BY <1>3, <4>3, <4>4, <4>5, PlacesFinite
      <3>4. QED
        BY <3>2, <3>3
    <2>3. QED
      BY <2>1, <2>2
  <1>6. QED
    BY <1>5 DEF Few

-----------------------------------------------------------------------------
(* The invariant holds of the initial states, and every step keeps it.     *)

LEMMA IInvInit ==
  ASSUME Init
  PROVE  IInv /\ Few
  <1>1. \A t \in Threads : calls[t] = <<>> /\ Len(calls[t]) = 0 /\ Depths(t) = {}
    BY DEF Init, Depths
  <1>2. DOMAIN slots = {} /\ DOMAIN sets = {} /\ Len(slots) = 0
    BY DEF Init
  <1>3. IsFiniteSet(DOMAIN sets)
    BY <1>2, FS_EmptySet
  <1>4. Typing
    <2>1. RegexTypes
      BY BoundsAssumption DEF Init, RegexTypes, Null
    <2>2. SlotTypes
      BY <1>2, BoundsAssumption, EmptySeq DEF Init, SlotTypes
    <2>3. MapTypes
      BY <1>2 DEF Init, MapTypes, Absent
    <2>4. SetTypes
      <3>1. sets \in [DOMAIN sets -> SetType]
        BY DEF Init
      <3>2. QED
        BY <1>2, <1>3, <3>1 DEF SetTypes
    <2>5. CacheTypes
      BY <1>2, Names DEF Init, CacheTypes
    <2>6. HitTypes
      BY <1>2 DEF Init, HitTypes, Null
    <2>7. CallTypes
      BY <1>1, BoundsAssumption, EmptySeq DEF Init, CallTypes
    <2>8. QED
      BY <2>1, <2>2, <2>3, <2>4, <2>5, <2>6, <2>7 DEF Typing
  <1>5. Phases
    BY <1>1 DEF Init, Phases
  <1>6. Ownership
    BY <1>1, <1>2 DEF Ownership, Init
  <1>7. Leases
    BY <1>1, Names DEF Init, Leases, CacheOf
  <1>8. Owned
    BY <1>1, <1>2, Names DEF Init, Owned, Exclusive, Had, Caches, SetIds
  <1>9. Currency
    BY <1>1, <1>2 DEF Currency, Generations
  <1>10. Few
    BY <1>2 DEF Few
  <1>11. QED
    BY <1>4, <1>5, <1>6, <1>7, <1>8, <1>9, <1>10 DEF IInv

LEMMA IInvStep ==
  ASSUME IInv, [Next]_vars
  PROVE  IInv'
  <1>1. CASE Next
    BY <1>1, TypingStep, PhasesStep, OwnershipStep, LeasesStep, FateStep, OwnedKept, CurrencyStep
       DEF IInv
  <1>2. CASE UNCHANGED vars
    <2>1. Typing'
      BY <1>2 DEF IInv, Typing, RegexTypes, SlotTypes, MapTypes, SetTypes, CacheTypes, HitTypes,
                  CallTypes, Depths, vars, regexes
    <2>2. Phases'
      BY <1>2 DEF IInv, Phases, Phase, Alone, Depths, vars, regexes
    <2>3. Ownership'
      BY <1>2 DEF IInv, Ownership, SlotOf, WorkedOn, Depths, vars, regexes
    <2>4. Leases'
      BY <1>2 DEF IInv, Leases, LeaseOf, CacheOf, Depths, vars
    <2>5. Owned'
      BY <1>2 DEF IInv, Owned, Exclusive, Had, Pools, Caches, Holds, Depths, SetIds, vars
    <2>6. Currency'
      <3>1. UNCHANGED <<compiled, program, ready, slots, sets, cache, calls>> /\ Currency
        BY <1>2 DEF IInv, vars, regexes
      <3>2. Generations'
        BY <3>1 DEF Currency, Generations, Rebuilding, Depths
      <3>3. \A i \in DOMAIN sets', s \in DOMAIN slots' : Home(i, s)' => Current(i, s)'
        BY <3>1 DEF Currency, Home, Pools, Caches, Holds, Current, Rebuilding, Depths
      <3>4. \A t \in Threads : \A d \in Depths(t)' : WalkOf(t, d)'
        BY <3>1 DEF Currency, WalkOf, Depths
      <3>5. QED
        BY <3>2, <3>3, <3>4 DEF Currency
    <2>7. QED
      BY <2>1, <2>2, <2>3, <2>4, <2>5, <2>6 DEF IInv
  <1>3. QED
    BY <1>1, <1>2

LEMMA FewKept ==
  ASSUME IInv, Few, [Next]_vars
  PROVE  Few'
  <1>1. CASE Next
    BY <1>1, IInvStep, FewStep
  <1>2. CASE UNCHANGED vars
    <2>1. UNCHANGED <<slots, sets, cache, calls>>
      BY <1>2 DEF vars
    <2>2. ASSUME NEW s PROVE SetsOf(s)' = SetsOf(s)
      <3>1. \A i : Home(i, s)' <=> Home(i, s)
        BY <2>1 DEF Home, Pools, Caches, Holds, Depths
      <3>2. QED
        BY <2>1, <3>1 DEF SetsOf
    <2>3. Places' = Places /\ DOMAIN slots' = DOMAIN slots
      BY <2>1 DEF Places
    <2>4. \A s \in DOMAIN slots : Cardinality(SetsOf(s)) <= Cardinality(Places)
      BY DEF Few
    <2>5. \A s \in DOMAIN slots' : Cardinality(SetsOf(s)') <= Cardinality(Places')
      BY <2>2, <2>3, <2>4
    <2>6. QED
      BY <2>5 DEF Few
  <1>3. QED
    BY <1>1, <1>2

\* The inductive invariant: it says of every step of every call what the code's comments
\* take for granted (who holds which mutex, which slot and which set).
THEOREM Safety == Spec => []IInv
  BY IInvInit, IInvStep, PTL DEF Spec

\* A slot's sets, wherever they are, are never more than the places that could hold one.
THEOREM FewSets == Spec => []Few
  BY IInvInit, FewKept, Safety, PTL DEF Spec

-----------------------------------------------------------------------------
(* What the invariant says of the promises that the runs check.            *)

LEMMA SetIsThere ==
  ASSUME IInv, NEW i \in SetIds
  PROVE  /\ \A s \in DOMAIN slots : Pools(i, s) => i \in DOMAIN sets
         /\ \A t \in Threads : Caches(i, t) => i \in DOMAIN sets
         /\ \A t \in Threads : \A d \in Depths(t) : Holds(i, t, d) => i \in DOMAIN sets
  BY WhereItIs DEF IInv

LEMMA IInvTypes ==
  ASSUME IInv
  PROVE  TypeOK
  <1>1. /\ RegexTypes /\ SlotTypes /\ MapTypes /\ SetTypes /\ CacheTypes /\ HitTypes /\ CallTypes
        /\ Leases /\ Generations
    BY DEF IInv, Typing, Currency
  <1>2. /\ compiled \in Nat /\ compiled <= MaxPrograms /\ MaxPrograms \in Nat
        /\ Len(slots) \in Nat /\ DOMAIN slots = 1 .. Len(slots)
    BY <1>1, BoundsAssumption, SlotFacts DEF RegexTypes, SlotTypes
  <1>3. \A i \in DOMAIN sets : i \in SetIds
    BY <1>1 DEF SetTypes, SetIds
  <1>4. map \in [Addresses -> {Absent, Null} \cup DOMAIN slots]
    <2>1. \A a \in Addresses : map[a] \in {Absent, Null} \cup DOMAIN slots
      BY <1>1, <1>2 DEF MapTypes, Absent, Null
    <2>2. QED
      BY <1>1, <2>1 DEF MapTypes
  <1>5. slots \in Seq([owner : Addresses \cup {NoAddress}, generation : 0 .. MaxPrograms,
                       free : SUBSET DOMAIN sets])
    <2> DEFINE S == [owner : Addresses \cup {NoAddress}, generation : 0 .. MaxPrograms,
                     free : SUBSET DOMAIN sets]
    <2>1. ASSUME NEW s \in DOMAIN slots PROVE slots[s] \in S
      <3>1. slots[s] \in SlotType
        BY <1>1, SlotFacts
      <3>2. slots[s].generation \in 0 .. MaxPrograms
        BY <1>1, <1>2, <3>1 DEF Generations, SlotType
      <3>3. slots[s].free \subseteq DOMAIN sets
        BY <3>1, SetIsThere DEF SlotType, Pools, SetIds
      <3>4. QED
        BY <3>1, <3>2, <3>3 DEF SlotType
    <2>2. slots \in [1 .. Len(slots) -> S]
      BY <1>1, <1>2, <2>1 DEF SlotTypes
    <2> HIDE DEF S
    <2>3. slots \in Seq(S)
      BY <1>2, <2>2, SeqDef
    <2>4. QED
      BY <2>3 DEF S
  <1>6. sets \in [DOMAIN sets -> [generation : 0 .. MaxPrograms, dfas : 0 .. compiled]]
    <2>1. ASSUME NEW i \in DOMAIN sets
          PROVE  sets[i] \in [generation : 0 .. MaxPrograms, dfas : 0 .. compiled]
      <3>1. sets[i] \in SetType
        BY <1>1 DEF SetTypes
      <3>2. sets[i].generation <= compiled /\ sets[i].dfas <= compiled
        BY <1>1 DEF Generations
      <3>3. sets[i].generation \in 0 .. MaxPrograms /\ sets[i].dfas \in 0 .. compiled
        BY <1>2, <3>1, <3>2 DEF SetType
      <3>4. QED
        BY <3>1, <3>3 DEF SetType
    <2>2. QED
      BY <1>1, <2>1 DEF SetTypes
  <1>7. cache \in [Threads -> [slot : 0 .. Len(slots), set : SetNames, busy : BOOLEAN]]
    <2>1. ASSUME NEW t \in Threads
          PROVE  cache[t] \in [slot : 0 .. Len(slots), set : SetNames, busy : BOOLEAN]
      <3>1. cache[t] \in CacheType /\ cache[t].slot <= Len(slots)
        BY <1>1 DEF CacheTypes
      <3>2. cache[t].set \in SetNames
        BY <3>1, SetIsThere DEF CacheType, Caches, SetIds, SetNames, Null
      <3>3. cache[t].slot \in 0 .. Len(slots)
        BY <1>2, <3>1 DEF CacheType
      <3>4. QED
        BY <3>1, <3>2, <3>3 DEF CacheType
    <2>2. QED
      BY <1>1, <2>1 DEF CacheTypes
  <1>8. calls \in [Threads -> Seq(Call)]
    <2>1. ASSUME NEW t \in Threads PROVE calls[t] \in Seq(Call)
      <3>1. ASSUME NEW d \in Depths(t) PROVE calls[t][d] \in Call
        <4>1. calls[t][d] \in CallType /\ calls[t][d].slot <= Len(slots)
          BY <1>1, TopFacts DEF CallTypes
        <4>2. LeaseOf(t, d)
          BY <1>1 DEF Leases
        <4>3. calls[t][d].set \in SetNames
          <5>1. CASE calls[t][d].cached
            BY <1>7, <4>2, <5>1 DEF LeaseOf
          <5>2. CASE ~calls[t][d].cached
            BY <4>1, <5>2, SetIsThere DEF CallType, Holds, SetIds, SetNames, Null
          <5>3. QED
            BY <5>1, <5>2
        <4>4. calls[t][d].slot \in 0 .. Len(slots)
          BY <1>2, <4>1 DEF CallType
        <4>5. QED
          BY <4>1, <4>3, <4>4 DEF CallType, Call
      <3>2. calls[t] \in Seq(CallType)
        BY <1>1 DEF CallTypes
      <3>3. Len(calls[t]) \in Nat /\ calls[t] \in [1 .. Len(calls[t]) -> Call]
        BY <3>1, <3>2 DEF Depths
      <3>4. QED
        BY <3>3, SeqDef
    <2>2. QED
      BY <1>1, <2>1 DEF CallTypes
  <1>9. hit \in [Threads -> 0 .. Len(slots)]
    BY <1>1, <1>2 DEF HitTypes
  <1>10. QED
    BY <1>1, <1>4, <1>5, <1>6, <1>7, <1>8, <1>9 DEF TypeOK, RegexTypes, SetTypes, CallTypes, SlotTypes

\* No pool, cache or lease ever names a set that was freed, and the stacks, the slots and
\* their generations keep their bounds: what give, reset_shared_dfas, erase_shared_dfas and
\* drop_thread_set free is out of everybody's reach.
THEOREM TypeCorrect == Spec => []TypeOK
  BY Safety, IInvTypes, PTL

LEMMA IInvWalks ==
  ASSUME IInv
  PROVE  WalkIsCurrent
  <1>1. ASSUME NEW t \in Threads, NEW c \in CallsOf(t), c.at = "walk"
        PROVE  sets[c.set].dfas = program[c.regex]
    <2>1. calls[t] \in Seq(CallType)
      BY DEF IInv, Typing, CallTypes
    <2>2. PICK d \in Depths(t) : c = calls[t][d]
      BY <2>1 DEF CallsOf, ToSet, Depths
    <2>3. WalkOf(t, d)
      BY DEF IInv, Currency
    <2>4. QED
      BY <1>1, <2>2, <2>3 DEF WalkOf
  <1>2. QED
    BY <1>1 DEF WalkIsCurrent

\* A scan under a lease reads DFAs of the program its regex runs now: those of a program
\* assigned over, or of a regex destroyed at the same address, are never walked, whatever
\* the other threads do and whatever nests inside the walk.
THEOREM WalksAreCurrent == Spec => []WalkIsCurrent
  BY Safety, IInvWalks, PTL

LEMMA IInvOwner ==
  ASSUME IInv
  PROVE  OneOwner
  <1>1. ASSUME NEW i \in DOMAIN sets PROVE Cardinality(Owners(i)) = 1
    <2>1. i \in SetIds /\ Had(i) /\ Owned
      BY DEF IInv, Owned, Typing, SetTypes, SetIds
    <2>2. \A t \in Threads : Len(calls[t]) \in Nat /\ Len(calls[t]) <= MaxDepth /\ MaxDepth \in Nat
      BY TopFacts, BoundsAssumption DEF IInv, Typing, CallTypes
    <2> DEFINE Leased == {q \in Threads \X (1 .. MaxDepth) :
                            q[2] <= Len(calls[q[1]]) /\ ~calls[q[1]][q[2]].cached
                                                     /\ calls[q[1]][q[2]].set = i}
               Pooled == {s \in DOMAIN slots : i \in slots[s].free}
               Cached == {t \in Threads : cache[t].set = i}
    <2>3. /\ \A s : s \in Pooled <=> s \in DOMAIN slots /\ Pools(i, s)
          /\ \A t : t \in Cached <=> t \in Threads /\ Caches(i, t)
      BY DEF Pools, Caches
    <2>4. \A q : q \in Leased <=>
            \E t \in Threads : \E d \in Depths(t) : q = <<t, d>> /\ Holds(i, t, d)
      <3>1. ASSUME NEW q \in Leased
            PROVE  \E t \in Threads : \E d \in Depths(t) : q = <<t, d>> /\ Holds(i, t, d)
        <4>1. q[1] \in Threads /\ q[2] \in 1 .. MaxDepth /\ q = <<q[1], q[2]>>
          OBVIOUS
        <4>2. q[2] \in Depths(q[1])
          BY <2>2, <4>1 DEF Depths
        <4>3. Holds(i, q[1], q[2])
          BY DEF Holds
        <4>4. QED
          BY <4>1, <4>2, <4>3
      <3>2. ASSUME NEW t \in Threads, NEW d \in Depths(t), Holds(i, t, d) PROVE <<t, d>> \in Leased
        <4>1. d \in 1 .. MaxDepth /\ d <= Len(calls[t])
          BY <2>2 DEF Depths
        <4>2. QED
          BY <3>2, <4>1 DEF Holds
      <3>3. QED
        BY <3>1, <3>2
    <2>5. Owners(i) = {<<"pool", s>> : s \in Pooled} \cup {<<"cache", t>> : t \in Cached}
                        \cup {<<"lease", p[1], p[2]>> : p \in Leased}
      BY DEF Owners
    <2> HIDE DEF Leased, Pooled, Cached
    <2>6. \E x : Owners(i) = {x}
      <3>1. CASE \E s \in DOMAIN slots : Pools(i, s)
        <4>1. PICK s \in DOMAIN slots : Pools(i, s)
          BY <3>1
        <4>2. InPool(i, s)
          BY <2>1, <4>1, WhereItIs
        <4>3. Pooled = {s} /\ Cached = {} /\ Leased = {}
          BY <2>3, <2>4, <4>2 DEF InPool
        <4>4. Owners(i) = {<<"pool", s>>}
          BY <2>5, <4>3
        <4>5. QED
          BY <4>4
      <3>2. CASE \E t \in Threads : Caches(i, t)
        <4>1. PICK t \in Threads : Caches(i, t)
          BY <3>2
        <4>2. InCache(i, t)
          BY <2>1, <4>1, WhereItIs
        <4>3. Pooled = {} /\ Cached = {t} /\ Leased = {}
          BY <2>3, <2>4, <4>2 DEF InCache
        <4>4. Owners(i) = {<<"cache", t>>}
          BY <2>5, <4>3
        <4>5. QED
          BY <4>4
      <3>3. CASE \E t \in Threads : \E d \in Depths(t) : Holds(i, t, d)
        <4>1. PICK t \in Threads : \E d \in Depths(t) : Holds(i, t, d)
          BY <3>3
        <4>2. PICK d \in Depths(t) : Holds(i, t, d)
          BY <4>1
        <4>3. InLease(i, t, d)
          BY <2>1, <4>2, WhereItIs
        <4>4. Pooled = {} /\ Cached = {} /\ Leased = {<<t, d>>}
          BY <2>3, <2>4, <4>3 DEF InLease
        <4>5. Owners(i) = {<<"lease", t, d>>}
          BY <2>5, <4>4
        <4>6. QED
          BY <4>5
      <3>4. QED
        BY <2>1, <3>1, <3>2, <3>3 DEF Had
    <2>7. QED
      BY <2>6, FS_Singleton
  <1>2. ASSUME NEW t \in Threads
        PROVE  Cardinality({d \in 1 .. Len(calls[t]) : calls[t][d].cached})
                 = IF cache[t].busy THEN 1 ELSE 0
    <2>1. \A d \in Depths(t) : calls[t][d].cached <=> calls[t][d].at \in Holding /\ d = 1
      BY DEF IInv, Leases, LeaseOf
    <2>2. cache[t].busy <=> 1 \in Depths(t) /\ calls[t][1].at \in Holding
      BY DEF IInv, Leases, CacheOf
    <2> DEFINE Served == {d \in 1 .. Len(calls[t]) : calls[t][d].cached}
    <2>3. CASE cache[t].busy
      <3>1. Served = {1}
        BY <2>1, <2>2, <2>3 DEF Depths
      <3>2. QED
        BY <2>3, <3>1, FS_Singleton
    <2>4. CASE ~cache[t].busy
      <3>1. Served = {}
        BY <2>1, <2>2, <2>4 DEF Depths
      <3>2. QED
        BY <2>4, <3>1, FS_EmptySet
    <2>5. QED
      BY <2>3, <2>4
  <1>3. QED
    BY <1>1, <1>2 DEF OneOwner

\* A scan walks its set without a lock because nobody else has it: every set in being is in
\* exactly one pool, one thread's cache or one nested lease, none is lost, and a thread's
\* kept set serves one scan at a time.
THEOREM SetsHaveOneOwner == Spec => []OneOwner
  BY Safety, IInvOwner, PTL

LEMMA IInvMapped ==
  ASSUME IInv
  PROVE  OwnerIsMapped
  <1>1. ASSUME NEW s \in DOMAIN slots, slots[s].owner # NoAddress
        PROVE  \/ map[slots[s].owner] = s
               \/ \E t \in Threads : At(t, "retire") /\ Top(t).slot = s
    <2>1. map[slots[s].owner] = s \/ WorkedOn("retire", s)
      BY <1>1 DEF IInv, Ownership
    <2>2. CASE WorkedOn("retire", s)
      <3>1. PICK t \in Threads : \E d \in Depths(t) : calls[t][d].at = "retire" /\ calls[t][d].slot = s
        BY <2>2 DEF WorkedOn
      <3>2. PICK d \in Depths(t) : calls[t][d].at = "retire" /\ calls[t][d].slot = s
        BY <3>1
      <3>3. calls[t] # <<>> /\ Top(t) = calls[t][d]
        BY <3>2, OnTop DEF IInv, Typing
      <3>4. QED
        BY <3>2, <3>3 DEF At
    <2>3. QED
      BY <2>1, <2>2
  <1>2. QED
    BY <1>1 DEF OwnerIsMapped

\* A slot that still answers for an address is the one the map sends that address to, but
\* for the moment its regex's destructor is retiring it: a regex built where another was
\* destroyed never meets its slot, by the map or by a thread's kept hit.
THEOREM OwnersAreMapped == Spec => []OwnerIsMapped
  BY Safety, IInvMapped, PTL

LEMMA IInvRetired ==
  ASSUME IInv
  PROVE  RetiredStaysEmpty
  <1>1. ASSUME NEW s \in DOMAIN slots, Drained(s) PROVE slots[s].free = {}
    <2>1. slots[s].free = {} \/ WorkedOn("drain", s)
      BY <1>1 DEF Drained, IInv, Ownership
    <2>2. CASE WorkedOn("drain", s)
      <3>1. PICK t \in Threads : \E d \in Depths(t) : calls[t][d].at = "drain" /\ calls[t][d].slot = s
        BY <2>2 DEF WorkedOn
      <3>2. PICK d \in Depths(t) : calls[t][d].at = "drain" /\ calls[t][d].slot = s
        BY <3>1
      <3>3. At(t, "drain") /\ Top(t).slot = s
        BY <3>2, OnTop DEF IInv, Typing, At
      <3>4. QED
        BY <1>1, <3>3 DEF Drained
    <2>3. QED
      BY <2>1, <2>2
  <1>2. ASSUME NEW s \in DOMAIN slots, Drained(s), NEW t \in Threads, cache[t].slot = s
        PROVE  ~cache[t].busy
    <2>1. SUFFICES ASSUME cache[t].busy PROVE FALSE
      OBVIOUS
    <2>2. 1 \in Depths(t) /\ calls[t][1].at \in Holding
      BY <2>1 DEF IInv, Leases, CacheOf
    <2>3. calls[t][1].cached /\ calls[t][1].slot = s
      BY <1>2, <2>2 DEF IInv, Leases, LeaseOf
    <2>4. slots[s].owner = calls[t][1].regex
      BY <2>2, <2>3 DEF IInv, Ownership, SlotOf
    <2>5. calls[t][1].regex \in Addresses
      BY <2>2, TopFacts DEF IInv, Typing, CallType
    <2>6. QED
      BY <1>2, <2>4, <2>5, NamesAssumption DEF Drained
  <1>3. QED
    BY <1>1, <1>2 DEF RetiredStaysEmpty

\* Nothing is pooled on a slot once the erase has drained it, and no scan runs on what the
\* threads' caches still keep of it, although threads were giving sets back all along.
THEOREM RetiredSlotsStayEmpty == Spec => []RetiredStaysEmpty
  BY Safety, IInvRetired, PTL

LEMMA IInvBounded ==
  ASSUME IInv, Few
  PROVE  SetsBounded
  <1>1. ASSUME NEW s \in DOMAIN slots
        PROVE  Cardinality(slots[s].free) <= Cardinality(Threads) * MaxDepth
    <2>1. slots[s].free \subseteq SetIds
      BY SlotFacts DEF IInv, Typing, SlotType, SetIds
    <2>2. slots[s].free \subseteq SetsOf(s)
      BY <2>1, SetIsThere DEF Pools, SetsOf, Home
    <2>3. IsFiniteSet(SetsOf(s))
      BY FS_Subset DEF SetsOf, IInv, Typing, SetTypes
    <2>4. Cardinality(slots[s].free) <= Cardinality(SetsOf(s)) /\ IsFiniteSet(slots[s].free)
      BY <2>2, <2>3, FS_Subset
    <2>5. Cardinality(SetsOf(s)) <= Cardinality(Places)
      BY DEF Few
    <2>6. Cardinality(slots[s].free) \in Nat /\ Cardinality(SetsOf(s)) \in Nat
      BY <2>3, <2>4, FS_CardinalityType
    <2>7. QED
      BY <2>4, <2>5, <2>6, PlacesFinite
  <1>2. QED
    BY <1>1 DEF SetsBounded

\* A pool does not grow with the searches: a slot never has more sets free than its scans
\* can be at once, because one is made only when none is free.
THEOREM PoolsAreBounded == Spec => []SetsBounded
  BY Safety, FewSets, IInvBounded, PTL

-----------------------------------------------------------------------------
(* The thread that destroys a regex.                                       *)

\* The other threads' calls are their own.
LEMMA OthersKept ==
  ASSUME Typing, Next, NEW t \in Threads, At(t, "drop"), ~Drop(t)
  PROVE  calls'[t] = calls[t]
  <1>0. /\ calls \in [Threads -> Seq(CallType)]
        /\ \A step : At(t, step) => step = "drop"
        /\ calls[t] # <<>> /\ Top(t).at = "drop"
    BY DEF Typing, CallTypes, At
  <1>1. \A u \in Threads : \A step : At(u, step) /\ step # "drop" => u # t
    BY <1>0
  <1>2. \A u \in Threads : \A c : u # t /\ calls' = WithTop(u, c) => calls'[t] = calls[t]
    BY <1>0 DEF WithTop
  <1>3. \A u \in Threads : u # t /\ Pop(u) => calls'[t] = calls[t]
    BY <1>0 DEF Pop
  <1>4. \A u \in Threads : \A a, step : u # t /\ Push(u, a, step) => calls'[t] = calls[t]
    BY <1>0 DEF Push
  <1>5. \A u \in Threads : \A step : u # t /\ Goto(u, step) => calls'[t] = calls[t]
    BY <1>2 DEF Goto
  <1>6. ~CanCall(t)
    BY <1>0 DEF CanCall
  <1> DEFINE P == calls'[t] = calls[t]
  <1> HIDE DEF P
  <1>7. ASSUME NEW u \in Threads,
               LockBuild(u) \/ Bump(u) \/ ClearPool(u) \/ GiveBack(u)
                 \/ CheckGeneration(u) \/ Fill(u) \/ Retire(u) \/ Drain(u)
        PROVE  P
    BY <1>1, <1>5, <1>7 DEF P, LockBuild, Bump, ClearPool, GiveBack, CheckGeneration, Fill, Retire, Drain
  <1>8. ASSUME NEW u \in Threads, Resolve(u) PROVE P
    BY <1>1, <1>2, <1>3, <1>8 DEF P, Resolve
  <1>9. ASSUME NEW u \in Threads, Publish(u) PROVE P
    BY <1>1, <1>2, <1>9 DEF P, Publish
  <1>10. ASSUME NEW u \in Threads, Lease(u) PROVE P
    BY <1>1, <1>2, <1>5, <1>10 DEF P, Lease
  <1>11. ASSUME NEW u \in Threads, SlotFor(u) PROVE P
    BY <1>1, <1>2, <1>3, <1>11 DEF P, SlotFor
  <1>12. ASSUME NEW u \in Threads, Take(u) PROVE P
    BY <1>1, <1>2, <1>3, <1>12 DEF P, Take, MakeSet, Hold
  <1>13. ASSUME NEW u \in Threads, EndLease(u) PROVE P
    BY <1>1, <1>3, <1>13 DEF P, EndLease
  <1>14. ASSUME NEW u \in Threads, Unmap(u) PROVE P
    BY <1>1, <1>2, <1>3, <1>14 DEF P, Unmap
  <1>15. ASSUME NEW u \in Threads, Drop(u) PROVE P
    <2>1. u # t
      BY <1>15
    <2>2. QED
      BY <1>3, <1>15, <2>1 DEF P, Drop
  <1>16. ASSUME NEW u \in Threads, ThreadExit(u) PROVE P
    BY <1>16 DEF P, ThreadExit
  <1>17. ASSUME NEW u \in Threads, NEW a \in Addresses, Search(u, a) \/ Destroy(u, a) PROVE P
    BY <1>4, <1>6, <1>17 DEF P, Search, Destroy
  <1>18. ASSUME NEW a \in Addresses, Construct(a) \/ Assign(a) PROVE P
    BY <1>18 DEF P, Construct, Assign
  <1>19. P
    BY <1>7, <1>8, <1>9, <1>10, <1>11, <1>12, <1>13, <1>14, <1>15, <1>16, <1>17, <1>18, NextCases
  <1>20. QED
    BY <1>19 DEF P

Dropped(t) ==
  At(t, "drop") /\ ~(calls'[t] # <<>> /\ Last(calls'[t]).at = "drop")
    => cache'[t].slot # Top(t).slot

LEMMA DroppedStep ==
  ASSUME IInv, [Next]_vars, NEW t \in Threads
  PROVE  Dropped(t)
  <1>1. SUFFICES ASSUME At(t, "drop"), ~(calls'[t] # <<>> /\ Last(calls'[t]).at = "drop")
                 PROVE  cache'[t].slot # Top(t).slot
    BY DEF Dropped
  <1>2. calls'[t] # calls[t]
    BY <1>1 DEF At, Top
  <1>3. Next
    BY <1>2 DEF vars
  <1>4. Drop(t)
    BY <1>1, <1>2, <1>3, OthersKept DEF IInv
  <1>5. cache \in [Threads -> CacheType] /\ Typing /\ Ownership
    BY DEF IInv, Typing, CacheTypes
  <1>6. Top(t).slot \in DOMAIN slots /\ slots[Top(t).slot].owner = NoAddress
    BY <1>1, <1>5, SlotInUse
  <1>7. Top(t).slot # Null
    BY <1>5, <1>6, SlotFacts DEF Null, Typing
  <1>8. CASE ~cache[t].busy /\ cache[t].slot = Top(t).slot
    <2>1. cache' = [cache EXCEPT ![t] = EmptyCache]
      BY <1>4, <1>8 DEF Drop
    <2>2. QED
      BY <1>5, <1>7, <2>1, Names
  <1>9. CASE ~cache[t].busy /\ cache[t].slot # Top(t).slot
    BY <1>4, <1>9 DEF Drop
  <1>10. CASE cache[t].busy
    <2>1. cache' = cache
      BY <1>4, <1>10 DEF Drop
    <2>2. 1 \in Depths(t) /\ calls[t][1].at \in Holding
      BY <1>10 DEF IInv, Leases, CacheOf
    <2>3. calls[t][1].slot = cache[t].slot
      BY <2>2 DEF IInv, Leases, LeaseOf
    <2>4. slots[cache[t].slot].owner = calls[t][1].regex /\ calls[t][1].regex \in Addresses
      BY <2>2, <2>3, <1>5, TopFacts DEF Ownership, SlotOf, Typing, CallType
    <2>5. QED
      BY <1>6, <2>1, <2>4, NamesAssumption
  <1>11. QED
    BY <1>8, <1>9, <1>10

\* When a destructor ends, its thread's cache does not have the slot it retired, although
\* the thread may be in a scan of another regex, whose set the cache then has.
THEOREM DestroyersKeepNothing == Spec => DestroyerKeepsNothing
  <1>1. IInv /\ [Next]_vars => [\A t \in Threads : Dropped(t)]_vars
    BY DroppedStep
  <1>2. QED
    BY <1>1, Safety, PTL DEF Spec, DestroyerKeepsNothing, Dropped

=============================================================================
