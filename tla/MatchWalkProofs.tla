---------------------------- MODULE MatchWalkProofs ----------------------------
(***************************************************************************)
(* Proofs about the match iterator: that a lookaround answers for itself   *)
(* whatever was asked before, that a search steps a lookbehind over a byte *)
(* at most once, that what is buffered continues what was handed out, and  *)
(* that every match is handed out once, in order, before the end.          *)
(***************************************************************************)
EXTENDS MatchWalk, EngineLemmas

-----------------------------------------------------------------------------
(* The closure of several counters is that of each, taken together.        *)

Wider(c, t, p, pcs) == UNION {{pc} \cup SubSuccessors(c, t, pc, p) : pc \in pcs}

Reaches(c, t, pcs, p) ==
  CHOOSE reach :
    reach = [k \in 0 .. Len(c) |-> IF k = 0 THEN pcs ELSE Wider(c, t, p, reach[k - 1])]

LEMMA ReachesExist ==
  ASSUME NEW c, NEW t, NEW pcs, NEW p, Len(c) \in Nat
  PROVE  Reaches(c, t, pcs, p) =
           [k \in 0 .. Len(c) |-> IF k = 0 THEN pcs ELSE Wider(c, t, p, Reaches(c, t, pcs, p)[k - 1])]
  <1> DEFINE upto(h, n) == [k \in 0 .. n |-> IF k = 0 THEN pcs ELSE Wider(c, t, p, h[k - 1])]
             S == {n \in Nat : \E h : h = upto(h, n)}
  <1>1. 0 \in S
    <2>1. PICK h : h = [k \in 0 .. 0 |-> pcs]
      OBVIOUS
    <2>2. h = upto(h, 0)
      BY <2>1
    <2>3. QED
      BY <2>2
  <1>2. ASSUME NEW n \in S PROVE n + 1 \in S
    <2>1. PICK h : h = upto(h, n)
      OBVIOUS
    <2>2. n \in Nat
      OBVIOUS
    <2>3. PICK g : g = [k \in 0 .. n + 1 |-> IF k = n + 1 THEN Wider(c, t, p, h[n]) ELSE h[k]]
      OBVIOUS
    <2>4. \A k \in 0 .. n : g[k] = h[k]
      BY <2>2, <2>3
    <2>5. ASSUME NEW k \in 0 .. n + 1
          PROVE  g[k] = IF k = 0 THEN pcs ELSE Wider(c, t, p, g[k - 1])
      <3>1. CASE k = n + 1
        <4>1. k # 0 /\ k - 1 = n /\ n \in 0 .. n /\ g[k] = Wider(c, t, p, h[n])
          BY <2>2, <2>3, <3>1
        <4>2. g[k - 1] = h[n]
          BY <2>4, <4>1
        <4>3. QED
          BY <3>1, <4>1, <4>2
      <3>2. CASE k \in 0 .. n
        <4>1. h[k] = IF k = 0 THEN pcs ELSE Wider(c, t, p, h[k - 1])
          BY <2>1, <3>2
        <4>2. k # 0 => k - 1 \in 0 .. n
          BY <2>2, <3>2
        <4>3. k # 0 => g[k - 1] = h[k - 1]
          BY <2>4, <4>2
        <4>4. QED
          BY <2>4, <3>2, <4>1, <4>3
      <3>3. QED
        BY <2>2, <3>1, <3>2
    <2>6. g = upto(g, n + 1)
      BY <2>3, <2>5
    <2>7. n + 1 \in Nat
      BY <2>2
    <2> HIDE DEF upto
    <2>8. QED
      BY <2>6, <2>7
  <1>3. S = Nat
    <2>1. S \in SUBSET Nat
      OBVIOUS
    <2> HIDE DEF S
    <2>2. QED
      BY <1>1, <1>2, <2>1, SetInduction
  <1>4. \E h : h = upto(h, Len(c))
    BY <1>3
  <1>5. QED
    BY <1>4 DEF Reaches

LEMMA ClosureByCounter ==
  ASSUME NEW c, NEW t, NEW pcs, NEW p, NEW x, Len(c) \in Nat
  PROVE  x \in SubClosure(c, t, pcs, p) <=> \E a \in pcs : x \in SubClosure(c, t, {a}, p)
  <1> DEFINE all == Reaches(c, t, pcs, p)
             of(a) == Reaches(c, t, {a}, p)
             good == {k \in Nat : k <= Len(c) =>
                        \A y : y \in all[k] <=> \E a \in pcs : y \in of(a)[k]}
  <1>1. \A k \in 0 .. Len(c) : all[k] = IF k = 0 THEN pcs ELSE Wider(c, t, p, all[k - 1])
    BY ReachesExist
  <1>2. ASSUME NEW a \in pcs
        PROVE  \A k \in 0 .. Len(c) : of(a)[k] = IF k = 0 THEN {a} ELSE Wider(c, t, p, of(a)[k - 1])
    BY ReachesExist
  <1> HIDE DEF all, of
  <1>3. 0 \in good
    <2>1. 0 \in 0 .. Len(c) /\ all[0] = pcs
      BY <1>1
    <2>2. \A a \in pcs : of(a)[0] = {a}
      BY <1>2, <2>1
    <2>3. QED
      BY <2>1, <2>2
  <1>4. ASSUME NEW k \in good PROVE k + 1 \in good
    <2>1. k \in Nat /\ k + 1 \in Nat
      OBVIOUS
    <2>2. SUFFICES ASSUME k + 1 <= Len(c)
                   PROVE  \A y : y \in all[k + 1] <=> \E a \in pcs : y \in of(a)[k + 1]
      BY <2>1
    <2>3. k <= Len(c) /\ k + 1 \in 0 .. Len(c) /\ k + 1 # 0 /\ k + 1 - 1 = k
      BY <2>1, <2>2
    <2>4. \A y : y \in all[k] <=> \E a \in pcs : y \in of(a)[k]
      BY <2>3
    <2>5. all[k + 1] = Wider(c, t, p, all[k])
      BY <1>1, <2>3
    <2>6. ASSUME NEW a \in pcs PROVE of(a)[k + 1] = Wider(c, t, p, of(a)[k])
      <3>1. \A j \in 0 .. Len(c) : of(a)[j] = IF j = 0 THEN {a} ELSE Wider(c, t, p, of(a)[j - 1])
        BY <1>2
      <3>2. QED
        BY <2>3, <3>1
    <2>7. QED
      BY <2>4, <2>5, <2>6 DEF Wider
  <1>5. good = Nat
    <2>1. good \in SUBSET Nat
      OBVIOUS
    <2> HIDE DEF good
    <2>2. QED
      BY <1>3, <1>4, <2>1, SetInduction
  <1>6. Len(c) \in good /\ Len(c) <= Len(c)
    BY <1>5
  <1>7. x \in all[Len(c)] <=> \E a \in pcs : x \in of(a)[Len(c)]
    BY <1>6
  <1>8. SubClosure(c, t, pcs, p) = all[Len(c)] /\ \A a : SubClosure(c, t, {a}, p) = of(a)[Len(c)]
    BY DEF SubClosure, Reaches, Wider, all, of
  <1>9. QED
    BY <1>7, <1>8

-----------------------------------------------------------------------------
(* A walk taken on.                                                        *)

Trips(c, t, starts, from, pos0) ==
  CHOOSE trip :
    trip = [p \in from.at .. pos0 |-> IF p = from.at THEN from ELSE Onward(c, t, starts, trip[p - 1])]

LEMMA TripsExist ==
  ASSUME NEW c, NEW t, NEW starts, NEW from, from.at \in Int, NEW to \in Int, from.at <= to
  PROVE  Trips(c, t, starts, from, to) =
           [p \in from.at .. to |->
              IF p = from.at THEN from ELSE Onward(c, t, starts, Trips(c, t, starts, from, to)[p - 1])]
  <1> DEFINE On(w) == Onward(c, t, starts, w)
             upto(h, n) == [p \in from.at .. from.at + n |-> IF p = from.at THEN from ELSE On(h[p - 1])]
             S == {n \in Nat : \E h : h = upto(h, n)}
  <1>0. PICK a \in Int : a = from.at
    OBVIOUS
  <1> HIDE DEF On
  <1>1. 0 \in S
    <2>1. PICK h : h = [k \in a .. a + 0 |-> from]
      OBVIOUS
    <2>2. h = upto(h, 0)
      BY <1>0, <2>1
    <2>3. QED
      BY <2>2
  <1>2. ASSUME NEW n \in S PROVE n + 1 \in S
    <2>1. PICK h : h = upto(h, n)
      OBVIOUS
    <2>2. n \in Nat
      OBVIOUS
    <2>3. PICK g : g = [k \in a .. a + (n + 1) |-> IF k = a + (n + 1) THEN On(h[a + n]) ELSE h[k]]
      OBVIOUS
    <2>4. \A k \in a .. a + n : g[k] = h[k]
      BY <2>2, <2>3
    <2>5. ASSUME NEW k \in a .. a + (n + 1)
          PROVE  g[k] = IF k = a THEN from ELSE On(g[k - 1])
      <3>1. CASE k = a + (n + 1)
        <4>1. k # a /\ k - 1 = a + n /\ a + n \in a .. a + n /\ g[k] = On(h[a + n])
          BY <2>2, <2>3, <3>1
        <4>2. g[k - 1] = h[a + n]
          BY <2>4, <4>1
        <4>3. QED
          BY <4>1, <4>2
      <3>2. CASE k \in a .. a + n
        <4>1. h[k] = IF k = a THEN from ELSE On(h[k - 1])
          BY <1>0, <2>1, <3>2
        <4>2. k # a => k - 1 \in a .. a + n
          BY <2>2, <3>2
        <4>3. k # a => g[k - 1] = h[k - 1]
          BY <2>4, <4>2
        <4>4. QED
          BY <2>4, <3>2, <4>1, <4>3
      <3>3. QED
        BY <2>2, <3>1, <3>2
    <2>6. g = upto(g, n + 1)
      BY <1>0, <2>3, <2>5, ZenonT(40)
    <2>7. n + 1 \in Nat
      BY <2>2
    <2> HIDE DEF upto
    <2>8. QED
      BY <2>6, <2>7
  <1>3. S = Nat
    <2>1. S \in SUBSET Nat
      OBVIOUS
    <2> HIDE DEF S
    <2>2. QED
      BY <1>1, <1>2, <2>1, SetInduction
  <1>4. PICK n \in Nat : from.at + n = to
    <2>1. to - a \in Nat /\ a + (to - a) = to
      BY <1>0
    <2>2. QED
      BY <1>0, <2>1
  <1>5. \E h : h = upto(h, n)
    BY <1>3
  <1>6. \E h : h = [p \in from.at .. to |-> IF p = from.at THEN from ELSE On(h[p - 1])]
    BY <1>4, <1>5
  <1>7. QED
    BY <1>6 DEF Trips, On

LEMMA TripsAt ==
  ASSUME NEW c, NEW t, NEW starts, NEW from, from.at \in Int, NEW to \in Int, from.at <= to,
         NEW p \in from.at .. to
  PROVE  Trips(c, t, starts, from, to)[p] =
           IF p = from.at THEN from ELSE Onward(c, t, starts, Trips(c, t, starts, from, to)[p - 1])
  <1>1. PICK f : f = Trips(c, t, starts, from, to)
    OBVIOUS
  <1>2. Trips(c, t, starts, from, to) =
          [q \in from.at .. to |->
             IF q = from.at THEN from ELSE Onward(c, t, starts, Trips(c, t, starts, from, to)[q - 1])]
    BY TripsExist
  <1>3. f = [q \in from.at .. to |-> IF q = from.at THEN from ELSE Onward(c, t, starts, f[q - 1])]
    BY <1>1, <1>2
  <1>4. f[p] = IF p = from.at THEN from ELSE Onward(c, t, starts, f[p - 1])
    BY <1>3
  <1>5. QED
    BY <1>1, <1>4

\* A walk taken on to where it stands is itself, and to one byte further takes one step more.
LEMMA TripSteps ==
  ASSUME NEW c, NEW t, NEW starts, NEW from, from.at \in Int, NEW to \in Int, from.at <= to
  PROVE  /\ Trip(c, t, starts, from, from.at) = from
         /\ Trip(c, t, starts, from, to + 1) = Onward(c, t, starts, Trip(c, t, starts, from, to))
  <1> DEFINE near == Trips(c, t, starts, from, to)
             far == Trips(c, t, starts, from, to + 1)
             none == Trips(c, t, starts, from, from.at)
             On(w) == Onward(c, t, starts, w)
             same == {n \in Nat : from.at + n <= to => near[from.at + n] = far[from.at + n]}
  <1>0. PICK a \in Int : a = from.at
    OBVIOUS
  <1>1. ASSUME NEW p \in a .. to
        PROVE  near[p] = IF p = a THEN from ELSE On(near[p - 1])
    <2>1. p \in from.at .. to
      BY <1>0
    <2>2. near[p] = IF p = from.at THEN from ELSE On(near[p - 1])
      BY <2>1, TripsAt
    <2>3. QED
      BY <1>0, <2>2
  <1>2. ASSUME NEW p \in a .. to + 1
        PROVE  far[p] = IF p = a THEN from ELSE On(far[p - 1])
    <2>1. from.at <= to + 1 /\ to + 1 \in Int /\ p \in from.at .. to + 1
      BY <1>0
    <2>2. far[p] = IF p = from.at THEN from ELSE On(far[p - 1])
      BY <2>1, TripsAt
    <2>3. QED
      BY <1>0, <2>2
  <1>3. none[from.at] = from
    <2>1. from.at \in from.at .. from.at /\ from.at <= from.at
      OBVIOUS
    <2>2. none[from.at] = IF from.at = from.at THEN from ELSE On(none[from.at - 1])
      BY <2>1, TripsAt
    <2>3. QED
      BY <2>2
  <1>4. /\ Trip(c, t, starts, from, to) = near[to]
        /\ Trip(c, t, starts, from, to + 1) = far[to + 1]
        /\ Trip(c, t, starts, from, from.at) = none[from.at]
    BY DEF Trip, Trips
  <1> HIDE DEF near, far, none, On
  <1>5. 0 \in same
    <2>1. a \in a .. to /\ a \in a .. to + 1 /\ a + 0 = a
      BY <1>0
    <2>2. QED
      BY <1>0, <1>1, <1>2, <2>1
  <1>6. ASSUME NEW n \in same PROVE n + 1 \in same
    <2>1. SUFFICES ASSUME a + (n + 1) <= to
                   PROVE  near[a + (n + 1)] = far[a + (n + 1)]
      BY <1>0
    <2>2. PICK q \in Int : q = a + (n + 1)
      OBVIOUS
    <2>3. q \in a .. to /\ q \in a .. to + 1 /\ q # a /\ q - 1 = a + n /\ a + n <= to
      BY <1>0, <2>1, <2>2
    <2>4. near[q - 1] = far[q - 1]
      BY <1>0, <2>3
    <2>5. QED
      BY <1>1, <1>2, <2>2, <2>3, <2>4
  <1>7. same = Nat
    <2>1. same \in SUBSET Nat
      OBVIOUS
    <2> HIDE DEF same
    <2>2. QED
      BY <1>5, <1>6, <2>1, SetInduction
  <1>8. near[to] = far[to]
    <2>1. to - a \in Nat /\ a + (to - a) = to
      BY <1>0
    <2>2. QED
      BY <1>0, <1>7, <2>1
  <1>9. to + 1 \in a .. to + 1 /\ to + 1 # a /\ to + 1 - 1 = to
    BY <1>0
  <1>10. far[to + 1] = On(far[to])
    BY <1>2, <1>9
  <1>11. QED
    BY <1>3, <1>4, <1>8, <1>10 DEF On

LEMMA TripStill ==
  ASSUME NEW c, NEW t, NEW starts, NEW from, NEW p \in Int, from.at = p
  PROVE  Trip(c, t, starts, from, p) = from
  <1>1. from.at \in Int /\ from.at <= p
    OBVIOUS
  <1>2. Trip(c, t, starts, from, from.at) = from
    BY ONLY <1>1, p \in Int, TripSteps
  <1>3. QED
    BY <1>2

LEMMA TripStands ==
  ASSUME NEW c, NEW t, NEW starts, NEW from, from.at \in Int, NEW to \in Int, from.at <= to
  PROVE  Trip(c, t, starts, from, to).at = to
  <1> DEFINE T(p) == Trip(c, t, starts, from, p)
             good == {n \in Nat : T(from.at + n).at = from.at + n}
  <1>0. PICK a \in Int : a = from.at
    OBVIOUS
  <1>1. T(a) = from
    BY <1>0, TripSteps
  <1>2. ASSUME NEW p \in Int, a <= p
        PROVE  T(p + 1).at = T(p).at + 1
    <2>1. T(p + 1) = Onward(c, t, starts, T(p))
      BY <1>0, <1>2, TripSteps
    <2> HIDE DEF T
    <2>2. QED
      BY <2>1 DEF Onward, Parked
  <1> HIDE DEF T
  <1>3. 0 \in good
    BY <1>0, <1>1
  <1>4. ASSUME NEW n \in good PROVE n + 1 \in good
    <2>1. PICK q \in Int : q = a + n
      OBVIOUS
    <2>2. a <= q /\ a + (n + 1) = q + 1 /\ T(q).at = q
      BY <1>0, <2>1
    <2>3. T(q + 1).at = q + 1
      BY <1>2, <2>2
    <2>4. QED
      BY <1>0, <2>2, <2>3
  <1>5. good = Nat
    <2>1. good \in SUBSET Nat
      OBVIOUS
    <2> HIDE DEF good
    <2>2. QED
      BY <1>3, <1>4, <2>1, SetInduction
  <1>6. to - a \in Nat /\ a + (to - a) = to
    BY <1>0
  <1>7. T(to).at = to
    BY <1>0, <1>5, <1>6
  <1>8. QED
    BY <1>7 DEF T

\* A walk parked on the way comes to what it would have come to in one go.
LEMMA TripOn ==
  ASSUME NEW c, NEW t, NEW starts, NEW from, from.at \in Int, NEW to \in Int, from.at <= to,
         NEW on \in Int, to <= on
  PROVE  Trip(c, t, starts, Trip(c, t, starts, from, to), on) = Trip(c, t, starts, from, on)
  <1> DEFINE T(p) == Trip(c, t, starts, from, p)
             U(p) == Trip(c, t, starts, T(to), p)
             good == {n \in Nat : U(to + n) = T(to + n)}
  <1>1. T(to).at = to
    BY TripStands
  <1>2. U(to) = T(to)
    <2>1. PICK w : w = T(to)
      OBVIOUS
    <2>2. Trip(c, t, starts, w, w.at) = w
      BY <1>1, <2>1, TripSteps
    <2>3. QED
      BY <1>1, <2>1, <2>2
  <1>3. ASSUME NEW p \in Int, to <= p, U(p) = T(p)
        PROVE  U(p + 1) = T(p + 1)
    <2>1. from.at <= p
      BY <1>3
    <2>2. T(p + 1) = Onward(c, t, starts, T(p))
      BY <1>3, <2>1, TripSteps
    <2>3. PICK w : w = T(to)
      OBVIOUS
    <2>4. Trip(c, t, starts, w, p + 1) = Onward(c, t, starts, Trip(c, t, starts, w, p))
      BY <1>1, <1>3, <2>3, TripSteps
    <2>5. QED
      BY <1>3, <2>2, <2>3, <2>4
  <1> HIDE DEF T, U
  <1>4. 0 \in good
    BY <1>2
  <1>5. ASSUME NEW n \in good PROVE n + 1 \in good
    <2>1. PICK q \in Int : q = to + n
      OBVIOUS
    <2>2. to <= q /\ to + (n + 1) = q + 1 /\ U(q) = T(q)
      BY <2>1
    <2>3. U(q + 1) = T(q + 1)
      BY <1>3, <2>2
    <2>4. QED
      BY <2>2, <2>3
  <1>6. good = Nat
    <2>1. good \in SUBSET Nat
      OBVIOUS
    <2> HIDE DEF good
    <2>2. QED
      BY <1>4, <1>5, <2>1, SetInduction
  <1>7. on - to \in Nat /\ to + (on - to) = on
    OBVIOUS
  <1>8. U(on) = T(on)
    BY <1>6, <1>7
  <1>9. QED
    BY <1>8 DEF T, U

\* Where several counters are parked, each is; the match is reached if it is from one.
LEMMA ParkedByCounter ==
  ASSUME NEW c, NEW t, NEW pcs, NEW p, Len(c) \in Nat
  PROVE  /\ Parked(c, t, pcs, p).at = p
         /\ \A x : x \in Parked(c, t, pcs, p).threads <=> \E a \in pcs : x \in Parked(c, t, {a}, p).threads
         /\ Parked(c, t, pcs, p).holds <=> \E a \in pcs : Parked(c, t, {a}, p).holds
  <1> DEFINE of(A) == SubClosure(c, t, A, p)
             there(A) == Parked(c, t, A, p)
  <1>1. \A x : x \in of(pcs) <=> \E a \in pcs : x \in of({a})
    BY ClosureByCounter
  <1>2. \A A : /\ there(A).at = p
               /\ there(A).threads = {x \in of(A) : c[x].op \in Consuming}
               /\ there(A).holds = Holds(c, of(A))
    BY DEF Parked
  <1> HIDE DEF of, there
  <1>3. \A A, x : x \in there(A).threads <=> x \in of(A) /\ c[x].op \in Consuming
    BY <1>2
  <1>4. ASSUME NEW x
        PROVE  x \in there(pcs).threads <=> \E a \in pcs : x \in there({a}).threads
    BY <1>1, <1>3, Zenon
  <1>5. \A A : Holds(c, of(A)) <=> \E x \in of(A) : c[x].op = "match"
    BY DEF Holds
  <1>6. Holds(c, of(pcs)) <=> \E a \in pcs : Holds(c, of({a}))
    BY <1>1, <1>5, Zenon
  <1>7. there(pcs).holds <=> \E a \in pcs : there({a}).holds
    BY <1>2, <1>6, Zenon
  <1>8. QED
    BY <1>2, <1>4, <1>7 DEF there

LEMMA OnwardByThread ==
  ASSUME NEW c, NEW t, NEW starts, NEW w, NEW p, w.at = p, Len(c) \in Nat
  PROVE  LET there == Onward(c, t, starts, w)
             one(a) == Parked(c, t, {a}, p + 1)
         IN /\ \A x : x \in there.threads <=>
                   \/ \E a \in starts : x \in one(a).threads
                   \/ \E pc \in w.threads : \E a \in Advanced(c, t, pc, p) : x \in one(a).threads
            /\ there.holds <=>
                   \/ \E a \in starts : one(a).holds
                   \/ \E pc \in w.threads : \E a \in Advanced(c, t, pc, p) : one(a).holds
  <1> DEFINE there == Onward(c, t, starts, w)
             one(a) == Parked(c, t, {a}, p + 1)
             advanced(pc) == Advanced(c, t, pc, p)
             pcs == starts \cup UNION {advanced(pc) : pc \in w.threads}
  <1>1. there = Parked(c, t, pcs, p + 1)
    BY DEF Onward
  <1>2. /\ \A x : x \in there.threads <=> \E a \in pcs : x \in one(a).threads
        /\ there.holds <=> \E a \in pcs : one(a).holds
    <2>1. PICK qs : qs = pcs
      OBVIOUS
    <2>2. /\ \A x : x \in Parked(c, t, qs, p + 1).threads <=> \E a \in qs : x \in one(a).threads
          /\ Parked(c, t, qs, p + 1).holds <=> \E a \in qs : one(a).holds
      BY ParkedByCounter
    <2>3. there = Parked(c, t, qs, p + 1)
      BY <1>1, <2>1
    <2> HIDE DEF there, one, pcs
    <2>4. QED
      BY <2>1, <2>2, <2>3, Zenon
  <1> HIDE DEF there, one, advanced
  <1>3. \A a : a \in pcs <=> \/ a \in starts
                              \/ \E pc \in w.threads : a \in advanced(pc)
    OBVIOUS
  <1> HIDE DEF pcs
  <1>4. ASSUME NEW x
        PROVE  x \in there.threads <=>
                 \/ \E a \in starts : x \in one(a).threads
                 \/ \E pc \in w.threads : \E a \in advanced(pc) : x \in one(a).threads
    BY <1>2, <1>3, Zenon
  <1>5. there.holds <=>
          \/ \E a \in starts : one(a).holds
          \/ \E pc \in w.threads : \E a \in advanced(pc) : one(a).holds
    BY <1>2, <1>3, Zenon
  <1>6. QED
    BY <1>4, <1>5 DEF there, one, advanced

\* A walk that starts a thread at every position has those of each start, followed alone.
Alike(c, t, sub, o, p) ==
  LET together == Trip(c, t, {sub.offset}, Begun(c, t, sub, o), p)
  IN /\ \A x : x \in together.threads <=> \E s \in o .. p : x \in Lone(c, t, sub, s, p).threads
     /\ together.holds <=> \E s \in o .. p : Lone(c, t, sub, s, p).holds

LEMMA StartsAlike ==
  ASSUME NEW c, NEW t, NEW sub, Len(c) \in Nat, NEW o \in Int, NEW to \in Int, o <= to
  PROVE  Alike(c, t, sub, o, to)
  <1> DEFINE T(p) == Trip(c, t, {sub.offset}, Begun(c, t, sub, o), p)
             L(s, p) == Lone(c, t, sub, s, p)
             one(a, p) == Parked(c, t, {a}, p)
             advanced(pc, p) == Advanced(c, t, pc, p)
             good == {n \in Nat : Alike(c, t, sub, o, o + n)}
  <1>1. \A s : Begun(c, t, sub, s).at = s /\ Begun(c, t, sub, s) = one(sub.offset, s)
    BY DEF Begun, Parked
  <1>2. T(o) = one(sub.offset, o)
    <2>1. PICK b : b = Begun(c, t, sub, o) /\ b.at = o
      BY <1>1
    <2>2. Trip(c, t, {sub.offset}, b, o) = b
      BY <2>1, TripStill
    <2>3. QED
      BY <1>1, <2>1, <2>2
  <1>3. ASSUME NEW s \in Int PROVE L(s, s) = one(sub.offset, s)
    <2>1. PICK b : b = Begun(c, t, sub, s) /\ b.at = s
      BY <1>1
    <2>2. Trip(c, t, {}, b, s) = b
      BY <2>1, TripStill
    <2>3. QED
      BY <1>1, <2>1, <2>2 DEF Lone
  <1>4. ASSUME NEW s \in Int, NEW p \in Int, s <= p
        PROVE  /\ \A x : x \in L(s, p + 1).threads <=>
                     \E pc \in L(s, p).threads : \E a \in advanced(pc, p) : x \in one(a, p + 1).threads
               /\ L(s, p + 1).holds <=>
                     \E pc \in L(s, p).threads : \E a \in advanced(pc, p) : one(a, p + 1).holds
    <2>1. PICK b : b = Begun(c, t, sub, s) /\ b.at = s
      BY <1>1
    <2>2. PICK w : w = Trip(c, t, {}, b, p)
      OBVIOUS
    <2>3. w.at = p /\ Trip(c, t, {}, b, p + 1) = Onward(c, t, {}, w)
      BY <1>4, <2>1, <2>2, TripSteps, TripStands
    <2>4. w = L(s, p) /\ L(s, p + 1) = Onward(c, t, {}, w)
      BY <2>1, <2>2, <2>3 DEF Lone
    <2> HIDE DEF L
    <2>5. /\ \A x : x \in Onward(c, t, {}, w).threads <=>
                \/ \E a \in {} : x \in one(a, p + 1).threads
                \/ \E pc \in w.threads : \E a \in advanced(pc, p) : x \in one(a, p + 1).threads
          /\ Onward(c, t, {}, w).holds <=>
                \/ \E a \in {} : one(a, p + 1).holds
                \/ \E pc \in w.threads : \E a \in advanced(pc, p) : one(a, p + 1).holds
      BY <2>3, OnwardByThread
    <2> HIDE DEF one, advanced
    <2>6. QED
      BY <2>4, <2>5, Zenon
  <1>5. ASSUME NEW p \in Int, o <= p
        PROVE  /\ \A x : x \in T(p + 1).threads <=>
                     \/ x \in one(sub.offset, p + 1).threads
                     \/ \E pc \in T(p).threads : \E a \in advanced(pc, p) : x \in one(a, p + 1).threads
               /\ T(p + 1).holds <=>
                     \/ one(sub.offset, p + 1).holds
                     \/ \E pc \in T(p).threads : \E a \in advanced(pc, p) : one(a, p + 1).holds
    <2>1. PICK b : b = Begun(c, t, sub, o) /\ b.at = o
      BY <1>1
    <2>2. PICK w : w = Trip(c, t, {sub.offset}, b, p)
      OBVIOUS
    <2>3. w.at = p /\ Trip(c, t, {sub.offset}, b, p + 1) = Onward(c, t, {sub.offset}, w)
      BY <1>5, <2>1, <2>2, TripSteps, TripStands
    <2>4. w = T(p) /\ T(p + 1) = Onward(c, t, {sub.offset}, w)
      BY <2>1, <2>2, <2>3
    <2> HIDE DEF T
    <2>5. /\ \A x : x \in Onward(c, t, {sub.offset}, w).threads <=>
                \/ \E a \in {sub.offset} : x \in one(a, p + 1).threads
                \/ \E pc \in w.threads : \E a \in advanced(pc, p) : x \in one(a, p + 1).threads
          /\ Onward(c, t, {sub.offset}, w).holds <=>
                \/ \E a \in {sub.offset} : one(a, p + 1).holds
                \/ \E pc \in w.threads : \E a \in advanced(pc, p) : one(a, p + 1).holds
      BY <2>3, OnwardByThread
    <2> HIDE DEF one, advanced
    <2>6. QED
      BY <2>4, <2>5, Zenon
  <1>6. \A p : Alike(c, t, sub, o, p) <=>
               /\ \A x : x \in T(p).threads <=> \E s \in o .. p : x \in L(s, p).threads
               /\ T(p).holds <=> \E s \in o .. p : L(s, p).holds
    BY DEF Alike
  <1> HIDE DEF T, L, one, advanced
  <1>7. 0 \in good
    <2>1. o + 0 = o /\ \A s : s \in o .. o <=> s = o
      OBVIOUS
    <2>2. T(o) = L(o, o) /\ o \in o .. o
      BY <1>2, <1>3
    <2>3. Alike(c, t, sub, o, o)
      <3>1. \A x : x \in T(o).threads <=> \E s \in o .. o : x \in L(s, o).threads
        BY <2>1, <2>2, Zenon
      <3>2. T(o).holds <=> \E s \in o .. o : L(s, o).holds
        BY <2>1, <2>2, Zenon
      <3>3. QED
        BY <1>6, <3>1, <3>2, Zenon
    <2>4. QED
      BY <2>1, <2>3
  <1>8. ASSUME NEW n \in good PROVE n + 1 \in good
    <2>1. PICK p \in Int : p = o + n
      OBVIOUS
    <2>2. o <= p /\ o + (n + 1) = p + 1 /\ p + 1 \in Int /\ Alike(c, t, sub, o, p)
      BY <2>1
    <2>3. \A s : s \in o .. p + 1 <=> s \in o .. p \/ s = p + 1
      BY <2>2
    <2>4. \A s \in o .. p : s \in Int /\ s <= p
      OBVIOUS
    <2>5. L(p + 1, p + 1) = one(sub.offset, p + 1)
      BY <1>3, <2>2
    <2>6. ASSUME NEW x
          PROVE  x \in T(p + 1).threads <=> \E s \in o .. p + 1 : x \in L(s, p + 1).threads
      <3>1. x \in T(p + 1).threads <=>
              \/ x \in one(sub.offset, p + 1).threads
              \/ \E pc \in T(p).threads : \E a \in advanced(pc, p) : x \in one(a, p + 1).threads
        BY <1>5, <2>2
      <3>2. \A s \in o .. p : x \in L(s, p + 1).threads <=>
              \E pc \in L(s, p).threads : \E a \in advanced(pc, p) : x \in one(a, p + 1).threads
        BY <1>4, <2>4
      <3>3. \A y : y \in T(p).threads <=> \E s \in o .. p : y \in L(s, p).threads
        BY <1>6, <2>2
      <3>4. QED
        BY <2>3, <2>5, <3>1, <3>2, <3>3, Zenon
    <2>7. T(p + 1).holds <=> \E s \in o .. p + 1 : L(s, p + 1).holds
      <3>1. T(p + 1).holds <=>
              \/ one(sub.offset, p + 1).holds
              \/ \E pc \in T(p).threads : \E a \in advanced(pc, p) : one(a, p + 1).holds
        BY <1>5, <2>2
      <3>2. \A s \in o .. p : L(s, p + 1).holds <=>
              \E pc \in L(s, p).threads : \E a \in advanced(pc, p) : one(a, p + 1).holds
        BY <1>4, <2>4
      <3>3. \A y : y \in T(p).threads <=> \E s \in o .. p : y \in L(s, p).threads
        BY <1>6, <2>2
      <3>4. QED
        BY <2>3, <2>5, <3>1, <3>2, <3>3, Zenon
    <2>8. Alike(c, t, sub, o, p + 1)
      BY <1>6, <2>6, <2>7
    <2>9. QED
      BY <2>2, <2>8
  <1>9. good = Nat
    <2>1. good \in SUBSET Nat
      OBVIOUS
    <2> HIDE DEF good
    <2>2. QED
      BY <1>7, <1>8, <2>1, SetInduction
  <1>10. to - o \in Nat /\ o + (to - o) = to
    OBVIOUS
  <1>11. QED
    BY <1>9, <1>10

\* A walk that began no later than its window answers as one that begins with it.
LEMMA WindowEnough ==
  ASSUME NEW c, NEW t, NEW sub, Len(c) \in Nat, sub.l_max \in Nat, NEW p \in Nat,
         NEW o \in 0 .. Origin(sub, p),
         \A s \in 0 .. p - sub.l_max - 1 : ~Lone(c, t, sub, s, p).holds
  PROVE  Trip(c, t, {sub.offset}, Begun(c, t, sub, o), p).holds <=>
         Trip(c, t, {sub.offset}, Begun(c, t, sub, Origin(sub, p)), p).holds
  <1> DEFINE early == Trip(c, t, {sub.offset}, Begun(c, t, sub, o), p)
             late == Trip(c, t, {sub.offset}, Begun(c, t, sub, Origin(sub, p)), p)
             L(s) == Lone(c, t, sub, s, p)
  <1>1. PICK w \in Nat : w = Origin(sub, p) /\ w <= p /\ \A s \in 0 .. w - 1 : s \in 0 .. p - sub.l_max - 1
    <2>1. PICK l \in Nat : l = sub.l_max
      OBVIOUS
    <2>2. QED
      BY <2>1 DEF Origin
  <1>2. early.holds <=> \E s \in o .. p : L(s).holds
    <2>1. o \in Int /\ o <= p
      BY <1>1
    <2>2. Alike(c, t, sub, o, p)
      BY <2>1, StartsAlike
    <2>3. QED
      BY <2>2 DEF Alike
  <1>3. late.holds <=> \E s \in w .. p : L(s).holds
    <2>1. Alike(c, t, sub, w, p)
      BY <1>1, StartsAlike
    <2>2. QED
      BY <1>1, <2>1 DEF Alike
  <1>4. \A s \in 0 .. w - 1 : ~L(s).holds
    BY <1>1
  <1> HIDE DEF early, late, L
  <1>5. \A s \in o .. p : s \in 0 .. w - 1 \/ s \in w .. p
    BY <1>1
  <1>6. \A s \in w .. p : s \in o .. p
    BY <1>1
  <1>7. early.holds <=> late.holds
    BY <1>2, <1>3, <1>4, <1>5, <1>6, Zenon
  <1>8. QED
    BY <1>7 DEF early, late

-----------------------------------------------------------------------------
(* The scratch, and what is told from it.                                  *)

\* A parked walk began no later than its window does.
FitWalk(c, t, sub, w) ==
  \/ w = NotWalked
  \/ \E p \in 0 .. Len(t) : \E o \in 0 .. Origin(sub, p) :
       w = Trip(c, t, {sub.offset}, Begun(c, t, sub, o), p)

\* What the queries leave: walks on their way, and whole tables.
ScratchFits ==
  /\ DOMAIN behind = Lookbehinds(code) /\ DOMAIN ahead = Unbounded(code)
  /\ \A pc \in Lookbehinds(code) : FitWalk(code, text, code[pc].sub, behind[pc])
  /\ \A pc \in Unbounded(code) : ahead[pc] \in {NotFilled, fill_ahead_table(code, text, code[pc].sub)}

LEMMA OriginFacts ==
  ASSUME NEW sub, sub.l_max \in Nat, NEW p \in Nat
  PROVE  /\ Origin(sub, p) \in 0 .. p
         /\ \A q \in 0 .. p : Origin(sub, q) <= Origin(sub, p)
  <1>1. PICK l \in Nat : l = sub.l_max
    OBVIOUS
  <1>2. QED
    BY <1>1 DEF Origin

LEMMA BegunAt ==
  ASSUME NEW c, NEW t, NEW sub, NEW o
  PROVE  Begun(c, t, sub, o).at = o
  BY DEF Begun, Parked

LEMMA ParkedAnswers ==
  ASSUME NEW c, NEW t, NEW pcs, NEW p
  PROVE  Parked(c, t, pcs, p).holds \in BOOLEAN
  <1>1. PICK reached : reached = SubClosure(c, t, pcs, p)
    OBVIOUS
  <1>2. Parked(c, t, pcs, p).holds = Holds(c, reached)
    BY <1>1 DEF Parked
  <1>3. Holds(c, reached) \in BOOLEAN
    BY DEF Holds
  <1>4. QED
    BY <1>2, <1>3

LEMMA TripAnswers ==
  ASSUME NEW c, NEW t, NEW sub, NEW o \in Int, NEW p \in Int, o <= p
  PROVE  Trip(c, t, {sub.offset}, Begun(c, t, sub, o), p).holds \in BOOLEAN
  <1>1. PICK b : b = Begun(c, t, sub, o) /\ b.at = o
    BY BegunAt
  <1>2. CASE o = p
    <2>1. Trip(c, t, {sub.offset}, b, p) = b
      BY <1>1, <1>2, TripStill
    <2>2. b.holds \in BOOLEAN
      BY <1>1, ParkedAnswers DEF Begun
    <2>3. QED
      BY <1>1, <2>1, <2>2
  <1>3. CASE o < p
    <2>1. PICK q \in Int : p = q + 1 /\ o <= q
      BY <1>3
    <2>2. Trip(c, t, {sub.offset}, b, q + 1) = Onward(c, t, {sub.offset}, Trip(c, t, {sub.offset}, b, q))
      BY <1>1, <2>1, TripSteps
    <2>3. \A w : Onward(c, t, {sub.offset}, w).holds \in BOOLEAN
      BY ParkedAnswers DEF Onward
    <2>4. QED
      BY <1>1, <2>1, <2>2, <2>3
  <1>4. QED
    BY <1>2, <1>3

\* Kept or begun anew, a walk is taken on from no later than its window.
TakenOn(c, t, sub, w, p) ==
  /\ \E o \in 0 .. Origin(sub, p) :
       Walked(c, t, sub, w, p) = Trip(c, t, {sub.offset}, Begun(c, t, sub, o), p)
  /\ Walked(c, t, sub, NotWalked, p) = Trip(c, t, {sub.offset}, Begun(c, t, sub, Origin(sub, p)), p)

LEMMA WalkedFits ==
  ASSUME NEW c, NEW t, NEW sub, sub.l_max \in Nat, NEW w, FitWalk(c, t, sub, w), Len(t) \in Nat,
         NEW p \in 0 .. Len(t)
  PROVE  TakenOn(c, t, sub, w, p)
  <1> DEFINE T(o, q) == Trip(c, t, {sub.offset}, Begun(c, t, sub, o), q)
  <1>1. Origin(sub, p) \in 0 .. p /\ \A q \in 0 .. p : Origin(sub, q) <= Origin(sub, p)
    BY OriginFacts
  <1>2. ~KeepsWalk(NotWalked, sub, p)
    BY DEF KeepsWalk, NotWalked
  <1>3. CASE ~KeepsWalk(w, sub, p)
    BY <1>1, <1>2, <1>3 DEF Walked, TakenOn
  <1>4. CASE KeepsWalk(w, sub, p)
    <2>1. w # NotWalked /\ Origin(sub, p) <= w.at /\ w.at <= p
      BY <1>2, <1>4 DEF KeepsWalk
    <2>0. PICK q \in 0 .. Len(t) : \E o \in 0 .. Origin(sub, q) : w = T(o, q)
      BY <2>1 DEF FitWalk
    <2>2. PICK o \in 0 .. Origin(sub, q) : w = T(o, q)
      BY <2>0
    <2>3. Origin(sub, q) \in 0 .. q
      BY OriginFacts
    <2>4. PICK b : b = Begun(c, t, sub, o) /\ b.at = o
      BY BegunAt
    <2>5. o \in Int /\ b.at \in Int /\ b.at <= q
      BY <2>3, <2>4
    <2>6. w.at = q
      BY <2>2, <2>4, <2>5, TripStands
    <2>7. q <= p /\ q \in 0 .. p
      BY <2>1, <2>6
    <2>8. Trip(c, t, {sub.offset}, w, p) = T(o, p)
      BY <2>2, <2>4, <2>5, <2>7, TripOn
    <2>9. o \in 0 .. Origin(sub, p)
      BY <1>1, <2>3, <2>7
    <2>10. QED
      BY <1>2, <1>4, <2>8, <2>9 DEF Walked, TakenOn
  <1>5. QED
    BY <1>3, <1>4

\* What the assumptions say of the walk made.
LEMMA WalkFacts ==
  ASSUME walk \in Walks
  PROVE  /\ text \in Seq(Bytes) /\ Len(text) \in Nat /\ walk.start \in 0 .. Len(text)
         /\ Len(code) \in Nat /\ DOMAIN code = 1 .. Len(code)
  <1>1. /\ text \in Seq(Bytes) /\ walk.start \in 0 .. Len(text)
        /\ Len(code) \in Nat /\ DOMAIN code = 1 .. Len(code)
    BY WalksAssumption DEF text, code
  <1>2. QED
    BY <1>1, LenProperties

LEMMA LookFacts ==
  ASSUME walk \in Walks, NEW pc \in Asserts(code), NEW p \in 0 .. Len(text)
  PROVE  /\ p \in walk.holds[pc] <=> FirstTold(code, text, pc, p)
         /\ pc \in Lookbehinds(code) =>
              /\ code[pc].sub.l_max \in Nat
              /\ \A s \in 0 .. p - code[pc].sub.l_max - 1 : ~Lone(code, text, code[pc].sub, s, p).holds
  BY LooksAssumption DEF text, code

\* Two scratches that agree on a lookaround's walk and table tell the same of it.
LEMMA ToldAlike ==
  ASSUME NEW c, NEW t, NEW pc \in Asserts(c), NEW p, NEW W, NEW V, NEW A, NEW B,
         pc \in Lookbehinds(c) /\ ~single_atom_body(c, c[pc].sub) => W[pc].holds = V[pc].holds,
         pc \in Unbounded(c) /\ ~single_atom_body(c, c[pc].sub) => A[pc] = B[pc]
  PROVE  Told(c, t, pc, p, W, A) <=> Told(c, t, pc, p, V, B)
  <1>1. CASE single_atom_body(c, c[pc].sub)
    BY <1>1 DEF Told
  <1>2. CASE ~single_atom_body(c, c[pc].sub) /\ c[pc].sub.behind
    BY <1>2 DEF Told, Lookbehinds
  <1>3. CASE ~single_atom_body(c, c[pc].sub) /\ ~c[pc].sub.behind /\ c[pc].sub.l_max < 0
    BY <1>3 DEF Told, Unbounded
  <1>4. CASE ~single_atom_body(c, c[pc].sub) /\ ~c[pc].sub.behind /\ ~(c[pc].sub.l_max < 0)
    BY <1>4 DEF Told
  <1>5. QED
    BY <1>1, <1>2, <1>3, <1>4

\* A query leaves a scratch that fits, and is answered as if it were the first.
LEMMA AskFits ==
  ASSUME walk \in Walks, ScratchFits, NEW pc \in Asserts(code), NEW p \in 0 .. Len(text),
         Ask(code, text, pc, p), walk' = walk
  PROVE  /\ ScratchFits'
         /\ Told(code, text, pc, p, behind', ahead') <=> p \in walk.holds[pc]
  <1> DEFINE sub == code[pc].sub
             atom == single_atom_body(code, sub)
             table == fill_ahead_table(code, text, sub)
             first == Walked(code, text, sub, NotWalked, p)
             now == Walked(code, text, sub, behind[pc], p)
  <1>1. /\ Len(text) \in Nat /\ Len(code) \in Nat /\ code' = code /\ text' = text
    BY WalkFacts DEF code, text
  <1>2. /\ behind' = IF pc \in Lookbehinds(code) /\ ~atom THEN [behind EXCEPT ![pc] = now] ELSE behind
        /\ ahead' = IF pc \in Unbounded(code) /\ ~atom /\ ahead[pc] = NotFilled
                      THEN [ahead EXCEPT ![pc] = table] ELSE ahead
    BY DEF Ask
  <1>3. /\ DOMAIN behind = Lookbehinds(code) /\ DOMAIN ahead = Unbounded(code)
        /\ \A k \in Lookbehinds(code) : FitWalk(code, text, code[k].sub, behind[k])
        /\ \A k \in Unbounded(code) : ahead[k] \in {NotFilled, fill_ahead_table(code, text, code[k].sub)}
    BY DEF ScratchFits
  <1>4. ASSUME pc \in Lookbehinds(code)
        PROVE  /\ FitWalk(code, text, sub, now)
               /\ now.holds = first.holds
    <2>1. /\ sub.l_max \in Nat
          /\ \A s \in 0 .. p - sub.l_max - 1 : ~Lone(code, text, sub, s, p).holds
      BY <1>4, LookFacts
    <2>0. PICK w : w = behind[pc] /\ FitWalk(code, text, sub, w)
      BY <1>3, <1>4
    <2>9. TakenOn(code, text, sub, w, p)
      BY <1>1, <2>0, <2>1, WalkedFits
    <2>2. PICK o \in 0 .. Origin(sub, p) : now = Trip(code, text, {sub.offset}, Begun(code, text, sub, o), p)
      BY <2>0, <2>9 DEF TakenOn
    <2>3. first = Trip(code, text, {sub.offset}, Begun(code, text, sub, Origin(sub, p)), p)
      BY <2>9 DEF TakenOn
    <2>10. p \in Nat
      BY <1>1
    <2>11. PICK l : l = sub /\ l.l_max \in Nat
      BY <2>1
    <2>12. Origin(l, p) \in 0 .. p
      BY ONLY <2>10, <2>11, OriginFacts
    <2>4. Origin(sub, p) \in 0 .. p /\ p \in Nat
      BY <2>10, <2>11, <2>12
    <2>5. now.holds <=> first.holds
      BY <1>1, <2>1, <2>2, <2>3, <2>4, WindowEnough
    <2>6. now.holds \in BOOLEAN /\ first.holds \in BOOLEAN
      BY <2>2, <2>3, <2>4, TripAnswers
    <2>7. FitWalk(code, text, sub, now)
      BY <2>2 DEF FitWalk
    <2> HIDE DEF now, first
    <2>8. QED
      BY <2>5, <2>6, <2>7
  <1> HIDE DEF now, table, atom
  <1>5. /\ DOMAIN behind' = Lookbehinds(code)
        /\ \A k \in Lookbehinds(code) : FitWalk(code, text, code[k].sub, behind'[k])
    BY <1>2, <1>3, <1>4
  <1>6. /\ DOMAIN ahead' = Unbounded(code)
        /\ \A k \in Unbounded(code) : ahead'[k] \in {NotFilled, fill_ahead_table(code, text, code[k].sub)}
    BY <1>2, <1>3 DEF table
  <1>7. ScratchFits'
    BY <1>1, <1>5, <1>6 DEF ScratchFits
  <1>8. Told(code, text, pc, p, behind', ahead') <=> FirstTold(code, text, pc, p)
    <2> DEFINE V == [k \in Lookbehinds(code) |-> Walked(code, text, code[k].sub, NotWalked, p)]
               B == [k \in Unbounded(code) |-> fill_ahead_table(code, text, code[k].sub)]
    <2>1. FirstTold(code, text, pc, p) = Told(code, text, pc, p, V, B)
      BY DEF FirstTold
    <2>2. pc \in Lookbehinds(code) /\ ~atom => behind'[pc].holds = V[pc].holds
      BY <1>2, <1>3, <1>4
    <2>3. pc \in Unbounded(code) /\ ~atom => ahead'[pc] = B[pc]
      BY <1>2, <1>3 DEF table
    <2> HIDE DEF V, B
    <2>4. Told(code, text, pc, p, behind', ahead') <=> Told(code, text, pc, p, V, B)
      BY <2>2, <2>3, ToldAlike DEF atom
    <2>5. QED
      BY <2>1, <2>4
  <1>9. QED
    BY <1>7, <1>8, LookFacts

-----------------------------------------------------------------------------
(* The trailing walk's runs: members, ends, and the boundaries between.    *)

LEMMA MaxIsMost ==
  ASSUME NEW n \in Nat, NEW S \in SUBSET (0 .. n), S # {}
  PROVE  Max(S) \in S /\ \A y \in S : y <= Max(S)
  <1>1. PICK R \in SUBSET Nat : R = {n - x : x \in S}
    <2>1. {n - x : x \in S} \subseteq Nat
      OBVIOUS
    <2>2. QED
      BY <2>1
  <1>2. R # {}
    BY <1>1
  <1>3. Min(R) \in R /\ \A y \in R : Min(R) <= y
    BY <1>2, MinIsLeast
  <1>4. PICK x \in S : Min(R) = n - x
    BY <1>1, <1>3
  <1>5. ASSUME NEW y \in S PROVE y <= x
    <2>1. n - y \in R
      BY <1>1
    <2>2. n - x <= n - y
      BY <1>3, <1>4, <2>1
    <2>3. x \in 0 .. n /\ y \in 0 .. n
      OBVIOUS
    <2>4. QED
      BY <2>2, <2>3
  <1>6. \A y \in S : x >= y
    <2>1. \A y \in S : y \in 0 .. n
      OBVIOUS
    <2>2. QED
      BY <1>5, <2>1
  <1>7. Max(S) \in S /\ \A y \in S : Max(S) >= y
    BY <1>4, <1>6 DEF Max
  <1>8. QED
    <2>1. \A y \in S : y \in 0 .. n
      OBVIOUS
    <2>2. QED
      BY <1>7, <2>1

LEMMA BoundaryFits ==
  ASSUME NEW t, Len(t) \in Nat, NEW p \in 0 .. Len(t)
  PROVE  NextBoundary(t, p) \in 0 .. Len(t) + 1
  <1>1. CASE p >= Len(t)
    BY <1>1 DEF NextBoundary
  <1>2. CASE p < Len(t)
    <2>1. PICK S : S = {q \in p + 1 .. Len(t) : ~HasByte(t, q, {Cont})}
      OBVIOUS
    <2>2. NextBoundary(t, p) = Min(S)
      BY <1>2, <2>1 DEF NextBoundary
    <2>3. Len(t) \in S
      BY <1>2, <2>1 DEF HasByte
    <2>4. S \in SUBSET Nat /\ S \subseteq p + 1 .. Len(t)
      BY <2>1
    <2>5. Min(S) \in S
      BY <2>3, <2>4, MinIsLeast
    <2>6. NextBoundary(t, p) \in p + 1 .. Len(t)
      BY <2>2, <2>4, <2>5
    <2>7. QED
      BY <2>6
  <1>3. QED
    BY <1>1, <1>2

\* A code point decoded has its bytes in the text.
LEMMA DecodedBytes ==
  ASSUME NEW t \in Seq(Bytes), NEW q \in Nat, NEW x \in Decoded(t, q), NEW k \in 1 .. Len(Encode(x))
  PROVE  t[q + k] = Encode(x)[k]
  <1>1. PICK e \in Seq(Bytes) : e = Encode(x) /\ Len(e) \in Nat
    BY Encodings DEF Decoded
  <1>2. PICK rest : rest = SubSeq(t, q + 1, Len(t))
    OBVIOUS
  <1>3. IsPrefix(e, rest) /\ q + Len(e) <= Len(t)
    BY <1>1, <1>2, DecodedFits DEF Decoded
  <1>4. Len(t) \in Nat /\ \A j \in q + 1 .. Len(t) : t[j] \in Bytes
    BY LenProperties, ElementOfSeq
  <1>5. /\ rest \in Seq(Bytes)
        /\ \A j \in 1 .. Len(t) - (q + 1) + 1 : rest[j] = t[q + 1 + j - 1]
    BY <1>2, <1>4, SubSeqProperties
  <1>6. Len(rest) = Len(t) - q
    <2>1. Len(rest) = IF q + 1 <= Len(t) THEN Len(t) - (q + 1) + 1 ELSE 0
      BY <1>2, <1>4, SubSeqProperties
    <2>2. QED
      BY <1>1, <1>3, <1>4, <2>1
  <1>7. PICK n \in Nat : n = Len(e)
    BY <1>1
  <1>8. k \in 1 .. n /\ n <= Len(rest) /\ q + n <= Len(t)
    BY <1>1, <1>3, <1>4, <1>6, <1>7
  <1>9. SubSeq(e, 1, n) = SubSeq(rest, 1, n)
    BY <1>3, <1>7 DEF IsPrefix
  <1>10. SubSeq(e, 1, n) = e
    BY <1>1, <1>7, SubSeqFull
  <1>11. SubSeq(rest, 1, n)[k] = rest[k]
    <2>1. \A j \in 1 .. n : rest[j] \in Bytes
      BY <1>5, <1>8, ElementOfSeq
    <2>2. \A j \in 1 .. n - 1 + 1 : SubSeq(rest, 1, n)[j] = rest[1 + j - 1]
      BY <2>1, SubSeqProperties
    <2>3. k \in 1 .. n - 1 + 1 /\ 1 + k - 1 = k
      BY <1>8
    <2>4. QED
      BY <2>2, <2>3
  <1>12. rest[k] = t[q + k]
    <2>1. k \in 1 .. Len(t) - (q + 1) + 1 /\ q + 1 + k - 1 = q + k
      BY <1>4, <1>8
    <2>2. QED
      BY <1>5, <2>1
  <1>13. QED
    BY <1>1, <1>9, <1>10, <1>11, <1>12

\* An end the trailing walk may try: any byte's, or a code point's.
MayEnd(c, t, x) == c[2].op = "klass" \/ ~HasByte(t, x, {Cont})

\* A class member lies in the text, may itself be an end, and no end may lie within it.
MemberFits(c, t, q) ==
  /\ Width(c, t, q) \in Nat /\ q + Width(c, t, q) <= Len(t)
  /\ Width(c, t, q) > 0 => MayEnd(c, t, q)
  /\ \A x \in q + 1 .. q + Width(c, t, q) - 1 : ~MayEnd(c, t, x)

LEMMA WidthFits ==
  ASSUME NEW c, NEW t \in Seq(Bytes), NEW q \in 0 .. Len(t)
  PROVE  MemberFits(c, t, q)
  <1>0. Len(t) \in Nat
    BY LenProperties
  <1>1. CASE c[2].op = "klass"
    <2>1. /\ Width(c, t, q) \in {0, 1}
          /\ Width(c, t, q) = 1 => q < Len(t)
      BY <1>1 DEF Width, HasByte
    <2>2. MayEnd(c, t, q)
      BY <1>1 DEF MayEnd
    <2>3. PICK w : w = Width(c, t, q)
      OBVIOUS
    <2>4. w \in Nat /\ q + w <= Len(t) /\ ~(\E x \in Int : x \in q + 1 .. q + w - 1)
      BY <1>0, <2>1, <2>3
    <2>5. QED
      BY <2>2, <2>3, <2>4 DEF MemberFits
  <1>2. CASE c[2].op # "klass"
    <2> DEFINE here == Decoded(t, q) \cap c[2].class
    <2>1. PICK S : S = {0} \cup {Len(Encode(x)) : x \in here}
      OBVIOUS
    <2>2. Width(c, t, q) = Max(S)
      BY <1>2, <2>1 DEF Width
    <2>3. \A x \in here : x \in Decoded(t, q) /\ Len(Encode(x)) \in {1, 2} /\ x \in CodePoints
      BY Encodings DEF Decoded
    <2>4. S \in SUBSET (0 .. 2) /\ S # {} /\ 2 \in Nat
      <3>1. \A v \in {Len(Encode(x)) : x \in here} : v \in {1, 2}
        BY <2>3
      <3>2. 0 \in S /\ \A v \in S : v = 0 \/ v \in {Len(Encode(x)) : x \in here}
        BY <2>1
      <3>3. \A v \in S : v \in 0 .. 2
        BY <3>1, <3>2
      <3>4. QED
        BY <3>2, <3>3
    <2>5. Max(S) \in S
      BY <2>4, MaxIsMost
    <2>6. CASE Width(c, t, q) = 0
      BY <2>6, <1>0 DEF MemberFits
    <2>7. CASE Width(c, t, q) # 0
      <3>1. PICK x \in here : Width(c, t, q) = Len(Encode(x))
        BY <2>1, <2>2, <2>5, <2>7
      <3>2. x \in Decoded(t, q) /\ x \in CodePoints /\ Len(Encode(x)) \in {1, 2}
        BY <2>3
      <3>3. PICK e : e = Encode(x)
        OBVIOUS
      <3>4. PICK n \in {1, 2} : n = Len(e)
        BY <3>2, <3>3
      <3>5. q + n <= Len(t)
        <4>1. q \in Nat /\ q + Len(Encode(x)) <= Len(t)
          BY <1>0, <3>2, DecodedFits
        <4>2. QED
          BY <3>3, <3>4, <4>1
      <3>6. ASSUME NEW k \in 1 .. n PROVE t[q + k] = e[k]
        <4>1. k \in 1 .. Len(Encode(x)) /\ q \in Nat
          BY <1>0, <3>3, <3>4
        <4>2. QED
          BY <3>2, <3>3, <4>1, DecodedBytes
      <3>7. MayEnd(c, t, q)
        <4>1. e[1] # Cont
          BY <3>2, <3>3 DEF Encode, CodePoints, Ascii, Letters, Accented, Cont, Lead, Newline
        <4>2. 1 \in 1 .. n
          BY <3>4
        <4>3. t[q + 1] = e[1]
          BY <3>6, <4>2
        <4>4. QED
          BY <4>1, <4>3 DEF MayEnd, HasByte, ByteAt
      <3>8. ASSUME NEW y \in q + 1 .. q + n - 1 PROVE ~MayEnd(c, t, y)
        <4>0. PICK m \in Nat : m = Len(t) /\ q + n <= m
          BY <1>0, <3>5
        <4>1. n = 2 /\ y = q + 1 /\ y < Len(t) /\ y + 1 = q + 2
          <5>1. n = 1 \/ n = 2
            OBVIOUS
          <5>2. q \in Int /\ y \in Int /\ q + 1 <= y /\ y <= q + n - 1
            BY <1>0
          <5>3. n = 2 /\ y = q + 1
            BY <5>1, <5>2
          <5>4. y < m /\ y + 1 = q + 2
            BY <4>0, <5>2, <5>3
          <5>5. QED
            BY <4>0, <5>3, <5>4
        <4>2. e[2] = Cont
          BY <3>3, <3>4, <4>1 DEF Encode
        <4>3. t[q + 2] = Cont
          BY <3>6, <4>1, <4>2
        <4>4. HasByte(t, y, {Cont})
          BY <4>1, <4>3 DEF HasByte, ByteAt
        <4>5. QED
          BY <1>2, <4>4 DEF MayEnd
      <3>9. n = Width(c, t, q)
        BY <3>1, <3>3, <3>4
      <3>10. QED
        BY <3>5, <3>7, <3>8, <3>9 DEF MemberFits
    <2>8. QED
      BY <2>6, <2>7
  <1>3. QED
    BY <1>1, <1>2

LEMMA RunExists ==
  ASSUME NEW c, NEW t, NEW s, Len(t) \in Nat
  PROVE  RunFrom(c, t, s) =
           [k \in 0 .. Len(t) |->
              IF k = 0 THEN s ELSE RunFrom(c, t, s)[k - 1] + Width(c, t, RunFrom(c, t, s)[k - 1])]
  <1> DEFINE On(e) == e + Width(c, t, e)
             upto(h, n) == [k \in 0 .. n |-> IF k = 0 THEN s ELSE On(h[k - 1])]
             S == {n \in Nat : \E h : h = upto(h, n)}
  <1>0. RunFrom(c, t, s) = CHOOSE end : end = upto(end, Len(t))
    BY DEF RunFrom
  <1> HIDE DEF On
  <1>1. 0 \in S
    <2>1. PICK h : h = [k \in 0 .. 0 |-> s]
      OBVIOUS
    <2>2. h = upto(h, 0)
      BY <2>1
    <2>3. QED
      BY <2>2
  <1>2. ASSUME NEW n \in S PROVE n + 1 \in S
    <2>1. PICK h : h = upto(h, n)
      OBVIOUS
    <2>2. n \in Nat
      OBVIOUS
    <2>3. PICK g : g = [k \in 0 .. n + 1 |-> IF k = n + 1 THEN On(h[n]) ELSE h[k]]
      OBVIOUS
    <2>4. \A k \in 0 .. n : g[k] = h[k]
      BY <2>2, <2>3
    <2>5. ASSUME NEW k \in 0 .. n + 1
          PROVE  g[k] = IF k = 0 THEN s ELSE On(g[k - 1])
      <3>1. CASE k = n + 1
        <4>1. k # 0 /\ k - 1 = n /\ n \in 0 .. n /\ g[k] = On(h[n])
          BY <2>2, <2>3, <3>1
        <4>2. g[k - 1] = h[n]
          BY <2>4, <4>1
        <4>3. QED
          BY <4>1, <4>2
      <3>2. CASE k \in 0 .. n
        <4>1. h[k] = IF k = 0 THEN s ELSE On(h[k - 1])
          BY <2>1, <3>2
        <4>2. k # 0 => k - 1 \in 0 .. n
          BY <2>2, <3>2
        <4>3. k # 0 => g[k - 1] = h[k - 1]
          BY <2>4, <4>2
        <4>4. QED
          BY <2>4, <3>2, <4>1, <4>3
      <3>3. QED
        BY <2>2, <3>1, <3>2
    <2>6. g = upto(g, n + 1)
      BY <2>3, <2>5
    <2>7. n + 1 \in Nat
      BY <2>2
    <2> HIDE DEF upto
    <2>8. QED
      BY <2>6, <2>7
  <1>3. S = Nat
    <2>1. S \in SUBSET Nat
      OBVIOUS
    <2> HIDE DEF S
    <2>2. QED
      BY <1>1, <1>2, <2>1, SetInduction
  <1>4. \E h : h = upto(h, Len(t))
    BY <1>3
  <1>5. RunFrom(c, t, s) = upto(RunFrom(c, t, s), Len(t))
    BY <1>0, <1>4
  <1>6. QED
    BY <1>5 DEF On

LEMMA RunSteps ==
  ASSUME NEW c, NEW t, NEW s, Len(t) \in Nat
  PROVE  /\ RunFrom(c, t, s)[0] = s
         /\ \A k \in 0 .. Len(t) - 1 :
              RunFrom(c, t, s)[k + 1] = RunFrom(c, t, s)[k] + Width(c, t, RunFrom(c, t, s)[k])
  <1> DEFINE On(e) == e + Width(c, t, e)
  <1>1. PICK f : f = RunFrom(c, t, s)
    OBVIOUS
  <1>2. f = [k \in 0 .. Len(t) |-> IF k = 0 THEN s ELSE On(f[k - 1])]
    BY <1>1, RunExists
  <1> HIDE DEF On
  <1>3. f[0] = s
    BY <1>2
  <1>4. ASSUME NEW k \in 0 .. Len(t) - 1 PROVE f[k + 1] = On(f[k])
    <2>1. PICK j \in 0 .. Len(t) : j = k + 1 /\ j # 0 /\ j - 1 = k
      OBVIOUS
    <2>2. f[j] = On(f[j - 1])
      BY <1>2, <2>1
    <2>3. QED
      BY <2>1, <2>2
  <1>5. QED
    BY <1>1, <1>3, <1>4 DEF On

\* The first k members of a run: it goes on while there are any, and passes no end by.
RunSoFar(c, t, s, k) ==
  LET run0 == RunFrom(c, t, s)
  IN /\ run0[k] \in s .. Len(t)
     /\ run0[k] >= s + k \/ Width(c, t, run0[k]) = 0
     /\ \A j \in 0 .. k : run0[j] \in s .. run0[k]
     /\ \A j \in 0 .. k : run0[j] < run0[k] => Width(c, t, run0[j]) > 0
     /\ \A x \in s .. run0[k] : MayEnd(c, t, x) => \E j \in 0 .. k : x = run0[j]

LEMMA RunFits ==
  ASSUME NEW c, NEW t \in Seq(Bytes), NEW s \in 0 .. Len(t), NEW n \in 0 .. Len(t)
  PROVE  RunSoFar(c, t, s, n)
  <1> DEFINE E == RunFrom(c, t, s)
             good == {k \in Nat : k <= Len(t) => RunSoFar(c, t, s, k)}
  <1>1. Len(t) \in Nat
    BY LenProperties
  <1>2. E[0] = s /\ \A k \in 0 .. Len(t) - 1 : E[k + 1] = E[k] + Width(c, t, E[k])
    BY <1>1, RunSteps
  <1>3. \A k : RunSoFar(c, t, s, k) <=>
               /\ E[k] \in s .. Len(t)
               /\ E[k] >= s + k \/ Width(c, t, E[k]) = 0
               /\ \A j \in 0 .. k : E[j] \in s .. E[k]
               /\ \A j \in 0 .. k : E[j] < E[k] => Width(c, t, E[j]) > 0
               /\ \A x \in s .. E[k] : MayEnd(c, t, x) => \E j \in 0 .. k : x = E[j]
    BY DEF RunSoFar
  <1> HIDE DEF E
  <1>4. 0 \in good
    <2>1. E[0] \in s .. Len(t) /\ E[0] >= s + 0 /\ 0 \in 0 .. 0
      BY <1>1, <1>2
    <2>2. \A j \in 0 .. 0 : j = 0 /\ E[j] \in s .. E[0]
      BY <1>1, <1>2
    <2>3. \A x \in s .. E[0] : x = E[0]
      BY <1>1, <1>2
    <2>6. ~(E[0] < E[0])
      BY <1>2
    <2>4. RunSoFar(c, t, s, 0)
      BY <1>3, <2>1, <2>2, <2>3, <2>6
    <2>5. QED
      BY <2>4
  <1>5. ASSUME NEW k \in good PROVE k + 1 \in good
    <2>1. SUFFICES ASSUME k + 1 <= Len(t) PROVE RunSoFar(c, t, s, k + 1)
      OBVIOUS
    <2>2. PICK m \in Nat : m = k + 1
      OBVIOUS
    <2>3. k \in 0 .. Len(t) - 1 /\ RunSoFar(c, t, s, k) /\ k \in Nat
      BY <1>1, <2>1
    <2>4. PICK e : e = E[k]
      OBVIOUS
    <2>5. /\ e \in s .. Len(t)
          /\ e >= s + k \/ Width(c, t, e) = 0
          /\ \A j \in 0 .. k : E[j] \in s .. e
          /\ \A j \in 0 .. k : E[j] < e => Width(c, t, E[j]) > 0
          /\ \A x \in s .. e : MayEnd(c, t, x) => \E j \in 0 .. k : x = E[j]
      BY <1>3, <2>3, <2>4
    <2>6. PICK w : w = Width(c, t, e)
      OBVIOUS
    <2>7. /\ w \in Nat /\ e + w <= Len(t)
          /\ \A x \in e + 1 .. e + w - 1 : ~MayEnd(c, t, x)
      <3>1. e \in 0 .. Len(t)
        BY <1>1, <2>5
      <3>2. MemberFits(c, t, e)
        BY <3>1, WidthFits
      <3>3. QED
        BY <2>6, <3>2 DEF MemberFits
    <2>8. PICK f : f = E[m] /\ f = e + w
      BY <1>2, <2>2, <2>3, <2>4, <2>6
    <2>9. f \in s .. Len(t) /\ e <= f /\ s \in Nat /\ e \in Nat /\ f \in Nat
      BY <1>1, <2>5, <2>7, <2>8
    <2>10. f >= s + m \/ Width(c, t, f) = 0
      <3>1. CASE w = 0
        <4>1. f = e
          BY <2>8, <2>9, <3>1
        <4>2. QED
          BY <2>6, <3>1, <4>1
      <3>2. CASE w # 0
        BY <2>2, <2>3, <2>5, <2>6, <2>7, <2>8, <2>9, <3>2
      <3>3. QED
        BY <3>1, <3>2
    <2>11. \A j \in 0 .. m : j \in 0 .. k \/ j = m
      BY <2>2, <2>3
    <2>12. ASSUME NEW j \in 0 .. m PROVE E[j] \in s .. f
      <3>1. CASE j \in 0 .. k
        <4>1. E[j] \in s .. e
          BY <2>5, <3>1
        <4>2. QED
          BY <2>9, <4>1
      <3>2. CASE j = m
        <4>1. f \in s .. f
          BY <2>9
        <4>2. QED
          BY <2>8, <3>2, <4>1
      <3>3. QED
        BY <2>11, <3>1, <3>2
    <2>13. ASSUME NEW x \in s .. f, MayEnd(c, t, x) PROVE \E j \in 0 .. m : x = E[j]
      <3>1. x \in s .. e \/ x \in e + 1 .. e + w - 1 \/ x = f
        BY <2>7, <2>8, <2>9
      <3>2. CASE x \in s .. e
        <4>1. PICK j \in 0 .. k : x = E[j]
          BY <2>5, <2>13, <3>2
        <4>2. j \in 0 .. m
          BY <2>2, <2>3
        <4>3. QED
          BY <4>1, <4>2
      <3>3. CASE x = f
        <4>1. m \in 0 .. m
          OBVIOUS
        <4>2. QED
          BY <2>8, <3>3, <4>1
      <3>4. QED
        BY <2>7, <2>13, <3>1, <3>2, <3>3
    <2>16. ASSUME NEW j \in 0 .. m, E[j] < f PROVE Width(c, t, E[j]) > 0
      <3>1. CASE j \in 0 .. k
        <4>1. E[j] \in s .. e /\ (E[j] < e => Width(c, t, E[j]) > 0)
          BY <2>5, <3>1
        <4>2. CASE E[j] < e
          BY <4>1, <4>2
        <4>3. CASE E[j] = e
          <5>1. w > 0
            BY <2>7, <2>8, <2>9, <2>16, <4>3
          <5>2. QED
            BY <2>6, <4>3, <5>1
        <4>4. QED
          BY <2>9, <4>1, <4>2, <4>3
      <3>2. CASE j = m
        <4>1. E[j] = f
          BY <2>8, <3>2
        <4>2. ~(f < f)
          BY <2>9
        <4>3. QED
          BY ONLY <2>16, <4>1, <4>2
      <3>3. QED
        BY <2>11, <3>1, <3>2
    <2>14. RunSoFar(c, t, s, m)
      BY <1>3, <2>8, <2>9, <2>10, <2>12, <2>13, <2>16
    <2>15. QED
      BY <2>2, <2>14
  <1>6. good = Nat
    <2>1. good \in SUBSET Nat
      OBVIOUS
    <2> HIDE DEF good
    <2>2. QED
      BY <1>4, <1>5, <2>1, SetInduction
  <1>7. n \in Nat /\ n <= Len(t)
    BY <1>1
  <1>8. QED
    BY <1>6, <1>7

\* Where a run stops: at its ends, within the text, the last where the class ends.
StopsFit(c, t, s) ==
  LET last == ScanEnd(c, t, s)
      stops == Stops(c, t, s)
  IN /\ last \in s .. Len(t) /\ last \in stops /\ s \in stops
     /\ \A x \in stops : x \in s .. last
     /\ Width(c, t, last) = 0
     /\ \A x \in s .. last : MayEnd(c, t, x) => x \in stops
     /\ \A x \in stops : x < last => Width(c, t, x) > 0
     /\ \A x \in stops : x + Width(c, t, x) \in stops

LEMMA StopFacts ==
  ASSUME NEW c, NEW t \in Seq(Bytes), NEW s \in 0 .. Len(t)
  PROVE  StopsFit(c, t, s)
  <1>1. PICK n \in Nat : n = Len(t)
    BY LenProperties
  <1>2. PICK E : E = RunFrom(c, t, s)
    OBVIOUS
  <1>3. E[0] = s /\ \A k \in 0 .. n - 1 : E[k + 1] = E[k] + Width(c, t, E[k])
    BY <1>1, <1>2, RunSteps
  <1>4. /\ E[n] \in s .. n
        /\ E[n] >= s + n \/ Width(c, t, E[n]) = 0
        /\ \A j \in 0 .. n : E[j] \in s .. E[n]
        /\ \A j \in 0 .. n : E[j] < E[n] => Width(c, t, E[j]) > 0
        /\ \A x \in s .. E[n] : MayEnd(c, t, x) => \E j \in 0 .. n : x = E[j]
    <2>1. n \in 0 .. Len(t)
      BY <1>1
    <2>2. RunSoFar(c, t, s, n)
      BY <2>1, RunFits
    <2>3. QED
      BY <1>1, <1>2, <2>2 DEF RunSoFar
  <1>5. PICK last : last = E[n]
    OBVIOUS
  <1>6. ScanEnd(c, t, s) = last
    BY <1>1, <1>2, <1>5 DEF ScanEnd
  <1>7. PICK stops : stops = Stops(c, t, s)
    OBVIOUS
  <1>8. \A x : x \in stops <=> \E k \in 0 .. n : x = E[k]
    BY <1>1, <1>2, <1>7 DEF Stops
  <1>9. last \in s .. n /\ last \in 0 .. Len(t) /\ last \in stops /\ s \in stops
    <2>1. n \in 0 .. n /\ 0 \in 0 .. n /\ s \in Nat
      BY <1>1
    <2>2. QED
      BY <1>1, <1>3, <1>4, <1>5, <1>8, <2>1
  <1>10. Width(c, t, last) = 0
    <2>1. CASE Width(c, t, E[n]) = 0
      BY <1>5, <2>1
    <2>2. CASE E[n] >= s + n
      <3>1. last = n /\ n \in 0 .. Len(t)
        BY <1>1, <1>4, <1>5, <2>2
      <3>2. MemberFits(c, t, n)
        BY <3>1, WidthFits
      <3>3. PICK w \in Nat : w = Width(c, t, n) /\ n + w <= n
        BY <1>1, <3>2 DEF MemberFits
      <3>4. w = 0
        BY <3>3
      <3>5. QED
        BY <3>1, <3>3, <3>4
    <2>3. QED
      BY <1>4, <2>1, <2>2
  <1>11. \A x \in stops : x \in s .. last
    BY <1>4, <1>5, <1>8
  <1>12. \A x \in s .. last : MayEnd(c, t, x) => x \in stops
    BY <1>4, <1>5, <1>8
  <1>13. \A x \in stops : x < last => Width(c, t, x) > 0
    BY <1>4, <1>5, <1>8
  <1>14. ASSUME NEW x \in stops PROVE x + Width(c, t, x) \in stops
    <2>1. PICK k \in 0 .. n : x = E[k]
      BY <1>8
    <2>2. CASE k = n
      <3>1. x = last /\ x + 0 = x
        BY <1>5, <1>9, <2>1, <2>2
      <3>2. QED
        BY <1>10, <3>1
    <2>3. CASE k \in 0 .. n - 1
      <3>1. k + 1 \in 0 .. n
        BY <2>3
      <3>2. QED
        BY <1>3, <1>8, <2>1, <2>3, <3>1
    <2>4. QED
      BY <1>1, <2>2, <2>3
  <1>15. QED
    BY <1>1, <1>6, <1>7, <1>9, <1>10, <1>11, <1>12, <1>13, <1>14 DEF StopsFit

\* A run from where another stops stops nowhere else.
LEMMA StopsOn ==
  ASSUME NEW c, NEW t \in Seq(Bytes), NEW s \in 0 .. Len(t), NEW x \in Stops(c, t, s)
  PROVE  \A y \in Stops(c, t, x) : y \in Stops(c, t, s)
  <1>1. PICK n \in Nat : n = Len(t)
    BY LenProperties
  <1>2. PICK E : E = RunFrom(c, t, x)
    OBVIOUS
  <1>3. E[0] = x /\ \A k \in 0 .. n - 1 : E[k + 1] = E[k] + Width(c, t, E[k])
    BY <1>1, <1>2, RunSteps
  <1>4. PICK stops : stops = Stops(c, t, s)
    OBVIOUS
  <1>5. \A y \in stops : y + Width(c, t, y) \in stops
    BY <1>4, StopFacts DEF StopsFit
  <1> DEFINE good == {k \in Nat : k <= n => E[k] \in stops}
  <1>6. 0 \in good
    BY <1>3, <1>4
  <1>7. ASSUME NEW k \in good PROVE k + 1 \in good
    <2>1. SUFFICES ASSUME k + 1 <= n PROVE E[k + 1] \in stops
      OBVIOUS
    <2>2. k \in 0 .. n - 1 /\ E[k] \in stops
      BY <1>1, <2>1
    <2>3. QED
      BY <1>3, <1>5, <2>2
  <1>8. good = Nat
    <2>1. good \in SUBSET Nat
      OBVIOUS
    <2> HIDE DEF good
    <2>2. QED
      BY <1>6, <1>7, <2>1, SetInduction
  <1>9. \A k \in 0 .. n : E[k] \in stops
    <2>1. \A k \in 0 .. n : k \in Nat /\ k <= n
      OBVIOUS
    <2>2. QED
      BY <1>8, <2>1
  <1>10. QED
    BY <1>1, <1>2, <1>4, <1>9 DEF Stops

\* The end before one: the next that may be, down to the run's start.
LEMMA PrevFacts ==
  ASSUME NEW c, NEW t, NEW s \in Nat, NEW e \in Nat, s < e, MayEnd(c, t, s)
  PROVE  /\ PrevEnd(c, t, e) \in s .. e - 1 /\ MayEnd(c, t, PrevEnd(c, t, e))
         /\ \A x \in PrevEnd(c, t, e) + 1 .. e - 1 : ~MayEnd(c, t, x)
  <1>1. CASE c[2].op = "klass"
    <2>1. PrevEnd(c, t, e) = e - 1
      BY <1>1 DEF PrevEnd
    <2>2. QED
      BY <1>1, <2>1 DEF MayEnd
  <1>2. CASE c[2].op # "klass"
    <2>1. PICK S : S = {p \in 0 .. e - 1 : ~HasByte(t, p, {Cont})}
      OBVIOUS
    <2>2. PrevEnd(c, t, e) = Max(S)
      BY <1>2, <2>1 DEF PrevEnd
    <2>3. s \in S /\ e - 1 \in Nat /\ S \in SUBSET (0 .. e - 1)
      BY <1>2, <2>1 DEF MayEnd
    <2>4. PICK m : m = Max(S) /\ m \in S /\ \A y \in S : y <= m
      BY <2>3, MaxIsMost
    <2>5. m \in s .. e - 1 /\ MayEnd(c, t, m)
      BY <2>1, <2>3, <2>4 DEF MayEnd
    <2>6. ASSUME NEW x \in m + 1 .. e - 1, MayEnd(c, t, x) PROVE FALSE
      <3>1. x \in S
        BY <1>2, <2>1, <2>5, <2>6 DEF MayEnd
      <3>2. QED
        BY <2>4, <2>5, <3>1
    <2>7. QED
      BY <2>2, <2>4, <2>5, <2>6
  <1>3. QED
    BY <1>1, <1>2

-----------------------------------------------------------------------------
(* The part of a sequence after its first n, up to its k-th.               *)

Part(s, n, k) == SubSeq(s, n + 1, k)

PartFits(S, s, n, k) ==
  /\ Part(s, n, k) \in Seq(S) /\ Len(Part(s, n, k)) = k - n
  /\ Part(s, n, k) = <<>> <=> k = n
  /\ k > n => /\ Head(Part(s, n, k)) = s[n + 1] /\ Tail(Part(s, n, k)) = Part(s, n + 1, k)
              /\ Last(Part(s, n, k)) = s[k]
  /\ k < Len(s) => Append(Part(s, n, k), s[k + 1]) = Part(s, n, k + 1)
  /\ Part(s, 0, n) \o Part(s, n, k) = Part(s, 0, k)

LEMMA PartFacts ==
  ASSUME NEW S, NEW s \in Seq(S), NEW n \in 0 .. Len(s), NEW k \in n .. Len(s)
  PROVE  PartFits(S, s, n, k)
  <1>1. PICK size \in Nat : size = Len(s)
    BY LenProperties
  <1>2. PICK m \in Int : m = n + 1
    BY <1>1
  <1>3. /\ n \in Nat /\ k \in Nat /\ n <= k /\ k <= size /\ n <= size /\ m = n + 1
        /\ \A i \in m .. k : s[i] \in S
    <2>1. \A i \in m .. k : i \in 1 .. Len(s)
      BY <1>1, <1>2
    <2>2. QED
      BY <1>1, <1>2, <2>1, ElementOfSeq
  <1>4. PICK part : part = SubSeq(s, m, k)
    OBVIOUS
  <1>5. Part(s, n, k) = part
    BY <1>2, <1>4 DEF Part
  <1>6. /\ part \in Seq(S) /\ Len(part) = k - n
        /\ \A i \in 1 .. k - n : part[i] = s[n + i]
    <2>1. /\ part \in Seq(S)
          /\ Len(part) = IF m <= k THEN k - m + 1 ELSE 0
          /\ \A i \in 1 .. k - m + 1 : part[i] = s[m + i - 1]
      BY <1>3, <1>4, SubSeqProperties
    <2>2. k - m + 1 = k - n /\ \A i \in 1 .. k - n : m + i - 1 = n + i
      BY <1>3
    <2>3. Len(part) = k - n
      BY <1>3, <2>1
    <2>4. QED
      BY <2>1, <2>2, <2>3
  <1>7. part = <<>> <=> k = n
    <2>1. CASE k = n
      BY <1>3, <1>4, <2>1, SubSeqEmpty
    <2>2. CASE k # n
      <3>1. Len(part) # 0
        BY <1>3, <1>6, <2>2
      <3>2. QED
        BY <2>2, <3>1, EmptySeq
    <2>3. QED
      BY <2>1, <2>2
  <1>8. ASSUME k > n
        PROVE  Head(part) = s[n + 1] /\ Tail(part) = Part(s, n + 1, k) /\ Last(part) = s[k]
    <2>1. m \in 1 .. Len(s) /\ k \in m .. Len(s)
      BY <1>1, <1>3, <1>8
    <2>2. Head(part) = s[m] /\ Tail(part) = SubSeq(s, m + 1, k)
      BY <1>4, <2>1, HeadTailOfSubSeq
    <2>3. Last(part) = s[k]
      <3>1. k - n \in 1 .. k - n /\ n + (k - n) = k
        BY <1>3, <1>8
      <3>2. Last(part) = part[k - n]
        BY <1>6 DEF Last
      <3>3. QED
        BY <1>6, <3>1, <3>2
    <2>4. QED
      BY <1>3, <2>2, <2>3 DEF Part
  <1>9. ASSUME k < Len(s)
        PROVE  Append(part, s[k + 1]) = Part(s, n, k + 1)
    <2>1. PICK q \in Int : q = k + 1 /\ q - 1 = k
      BY <1>3
    <2>2. m \in 1 .. Len(s) /\ q \in m .. Len(s) /\ q \in 1 .. Len(s)
      BY <1>1, <1>3, <1>9, <2>1
    <2>3. SubSeq(s, m, q) = SubSeq(s, m, q - 1) \o <<s[q]>>
      BY <2>2, SubSeqRecursiveSecond
    <2>4. s[q] \in S
      BY <2>2, ElementOfSeq
    <2>5. Append(part, s[q]) = part \o <<s[q]>>
      BY <1>6, <2>4, AppendIsConcat
    <2>6. QED
      BY <1>3, <1>4, <2>1, <2>3, <2>5 DEF Part
  <1>10. Part(s, 0, n) \o part = Part(s, 0, k)
    <2>1. 1 \in 1 .. Len(s) + 1 /\ n \in 1 - 1 .. Len(s) /\ k \in n .. Len(s)
      BY <1>1, <1>3
    <2>2. SubSeq(s, 1, n) \o SubSeq(s, n + 1, k) = SubSeq(s, 1, k)
      BY <2>1, ConcatAdjacentSubSeq
    <2>3. QED
      BY <1>2, <1>4, <2>2 DEF Part
  <1>11. QED
    BY <1>5, <1>6, <1>7, <1>8, <1>9, <1>10 DEF PartFits

LEMMA WholePart ==
  ASSUME NEW S, NEW s \in Seq(S)
  PROVE  Part(s, 0, Len(s)) = s /\ Part(s, 0, 0) = <<>>
  <1>1. SubSeq(s, 1, Len(s)) = s /\ SubSeq(s, 1, 0) = <<>>
    BY SubSeqFull, SubSeqEmpty
  <1>2. QED
    BY <1>1 DEF Part

-----------------------------------------------------------------------------
(* A filler's chain.                                                       *)

Linked(p, next, n, before) ==
  LET span == next[IF before = <<>> THEN p ELSE Last(before).end]
  IN IF Len(before) < n - 1 \/ span = None THEN before ELSE Append(before, span)

LEMMA ChainExists ==
  ASSUME NEW p, NEW next
  PROVE  Chain(p, next) =
           [n \in 0 .. batch_cap |-> IF n = 0 THEN <<>> ELSE Linked(p, next, n, Chain(p, next)[n - 1])]
  <1> DEFINE upto(h, m) == [n \in 0 .. m |-> IF n = 0 THEN <<>> ELSE Linked(p, next, n, h[n - 1])]
             S == {m \in Nat : \E h : h = upto(h, m)}
  <1>0. Chain(p, next) = CHOOSE spans : spans = upto(spans, batch_cap)
    BY DEF Chain, Linked
  <1>1. 0 \in S
    <2>1. PICK h : h = [k \in 0 .. 0 |-> <<>>]
      OBVIOUS
    <2>2. h = upto(h, 0)
      BY <2>1
    <2>3. QED
      BY <2>2
  <1>2. ASSUME NEW n \in S PROVE n + 1 \in S
    <2>1. PICK h : h = upto(h, n)
      OBVIOUS
    <2>2. n \in Nat
      OBVIOUS
    <2>3. PICK g : g = [k \in 0 .. n + 1 |-> IF k = n + 1 THEN Linked(p, next, n + 1, h[n]) ELSE h[k]]
      OBVIOUS
    <2>4. \A k \in 0 .. n : g[k] = h[k]
      BY <2>2, <2>3
    <2>5. ASSUME NEW k \in 0 .. n + 1
          PROVE  g[k] = IF k = 0 THEN <<>> ELSE Linked(p, next, k, g[k - 1])
      <3>1. CASE k = n + 1
        <4>1. k # 0 /\ k - 1 = n /\ n \in 0 .. n /\ g[k] = Linked(p, next, k, h[n])
          BY <2>2, <2>3, <3>1
        <4>2. g[k - 1] = h[n]
          BY <2>4, <4>1
        <4>3. QED
          BY <3>1, <4>1, <4>2
      <3>2. CASE k \in 0 .. n
        <4>1. h[k] = IF k = 0 THEN <<>> ELSE Linked(p, next, k, h[k - 1])
          BY <2>1, <3>2
        <4>2. k # 0 => k - 1 \in 0 .. n
          BY <2>2, <3>2
        <4>3. k # 0 => g[k - 1] = h[k - 1]
          BY <2>4, <4>2
        <4>4. QED
          BY <2>4, <3>2, <4>1, <4>3
      <3>3. QED
        BY <2>2, <3>1, <3>2
    <2>6. g = upto(g, n + 1)
      BY <2>3, <2>5
    <2>7. n + 1 \in Nat
      BY <2>2
    <2> HIDE DEF upto
    <2>8. QED
      BY <2>6, <2>7
  <1>3. S = Nat
    <2>1. S \in SUBSET Nat
      OBVIOUS
    <2> HIDE DEF S
    <2>2. QED
      BY <1>1, <1>2, <2>1, SetInduction
  <1>4. \E h : h = upto(h, batch_cap)
    BY <1>3, CapAssumption
  <1>5. Chain(p, next) = upto(Chain(p, next), batch_cap)
    BY <1>0, <1>4
  <1>6. QED
    BY <1>5

LEMMA ChainSteps ==
  ASSUME NEW p, NEW next
  PROVE  /\ Chain(p, next)[0] = <<>>
         /\ \A n \in 0 .. batch_cap - 1 : Chain(p, next)[n + 1] = Linked(p, next, n + 1, Chain(p, next)[n])
  <1>1. PICK f : f = Chain(p, next)
    OBVIOUS
  <1>2. f = [n \in 0 .. batch_cap |-> IF n = 0 THEN <<>> ELSE Linked(p, next, n, f[n - 1])]
    BY <1>1, ChainExists
  <1>3. f[0] = <<>>
    BY <1>2, CapAssumption
  <1>4. ASSUME NEW n \in 0 .. batch_cap - 1 PROVE f[n + 1] = Linked(p, next, n + 1, f[n])
    <2>1. PICK j \in 0 .. batch_cap : j = n + 1 /\ j # 0 /\ j - 1 = n
      BY CapAssumption
    <2>2. f[j] = Linked(p, next, j, f[j - 1])
      BY <1>2, <2>1
    <2>3. QED
      BY <2>1, <2>2
  <1>5. QED
    BY <1>1, <1>3, <1>4

-----------------------------------------------------------------------------
(* What a search or a batch may hand out.                                  *)

Given(w) == {s \in SpansIn(w.text) : NeverEmpty(w) => s.start < s.end}

LEMMA GivenFacts ==
  ASSUME NEW w \in Walks, NEW s \in Given(w)
  PROVE  s.start \in 0 .. Len(w.text) /\ s.end \in 0 .. Len(w.text) /\ s.start <= s.end
  BY DEF Given, SpansIn

LEMMA GivenIsFound ==
  ASSUME NEW w, NEW s, Findable(w, s)
  PROVE  s = None \/ s \in Given(w)
  BY DEF Findable, Given

\* A chain from a place is of spans to hand out, at most as many as were asked for.
LEMMA ChainGives ==
  ASSUME NEW w \in Walks, NEW p \in 0 .. Len(w.text), NEW next,
         \A q \in 0 .. Len(w.text) : next[q] = None \/ next[q] \in Given(w),
         NEW n \in 0 .. batch_cap
  PROVE  Chain(p, next)[n] \in Seq(Given(w)) /\ Len(Chain(p, next)[n]) <= n
  <1>1. PICK f : f = Chain(p, next)
    OBVIOUS
  <1>2. f[0] = <<>> /\ \A k \in 0 .. batch_cap - 1 : f[k + 1] = Linked(p, next, k + 1, f[k])
    BY <1>1, ChainSteps
  <1> DEFINE good == {k \in Nat : k <= batch_cap => f[k] \in Seq(Given(w)) /\ Len(f[k]) <= k}
  <1>3. 0 \in good
    <2>1. <<>> \in Seq(Given(w)) /\ Len(<<>>) = 0
      BY EmptySeq
    <2>2. f[0] \in Seq(Given(w)) /\ Len(f[0]) = 0
      BY <1>2, <2>1
    <2>3. QED
      BY <2>2
  <1>4. ASSUME NEW k \in good PROVE k + 1 \in good
    <2>1. SUFFICES ASSUME k + 1 <= batch_cap PROVE f[k + 1] \in Seq(Given(w)) /\ Len(f[k + 1]) <= k + 1
      OBVIOUS
    <2>2. k \in Nat /\ k \in 0 .. batch_cap - 1 /\ f[k] \in Seq(Given(w)) /\ Len(f[k]) <= k
      BY <2>1, CapAssumption
    <2>3. PICK before : before = f[k] /\ before \in Seq(Given(w)) /\ Len(before) <= k /\ Len(before) \in Nat
      BY <2>2, LenProperties
    <2>4. PICK q : q = IF before = <<>> THEN p ELSE Last(before).end
      OBVIOUS
    <2>5. q \in 0 .. Len(w.text)
      <3>1. CASE before = <<>>
        BY <2>4, <3>1
      <3>2. CASE before # <<>>
        <4>1. Len(before) \in 1 .. Len(before)
          BY <2>3, <3>2, EmptySeq
        <4>2. Last(before) \in Given(w)
          BY <2>3, <4>1, ElementOfSeq DEF Last
        <4>3. QED
          BY <2>4, <3>2, <4>2, GivenFacts
      <3>3. QED
        BY <3>1, <3>2
    <2>6. PICK span : span = next[q] /\ (span = None \/ span \in Given(w))
      BY <2>5
    <2>7. PICK m \in Nat : m = k + 1
      BY <2>2
    <2>8. f[m] = IF Len(before) < m - 1 \/ span = None THEN before ELSE Append(before, span)
      BY <1>2, <2>2, <2>3, <2>4, <2>6, <2>7 DEF Linked
    <2>9. CASE f[m] = before
      BY <2>2, <2>3, <2>7, <2>9
    <2>10. CASE span \in Given(w) /\ f[m] = Append(before, span)
      <3>1. f[m] \in Seq(Given(w)) /\ Len(f[m]) = Len(before) + 1
        BY <2>3, <2>10, AppendProperties
      <3>2. QED
        BY <2>2, <2>3, <2>7, <3>1
    <2>11. QED
      BY <2>6, <2>8, <2>9, <2>10
  <1>5. good = Nat
    <2>1. good \in SUBSET Nat
      OBVIOUS
    <2> HIDE DEF good
    <2>2. QED
      BY <1>3, <1>4, <2>1, SetInduction
  <1>6. n \in good /\ n <= batch_cap
    BY <1>5, CapAssumption
  <1>7. QED
    BY <1>1, <1>6

\* A walk that matches nothing empty has none among its matches to look past.
LEMMA MatchFacts ==
  ASSUME NEW w \in Walks
  PROVE  /\ w.matches \in Seq(SpansIn(w.text)) /\ Len(w.matches) \in Nat
         /\ \A n \in 0 .. Len(w.matches) :
              /\ PosAfter(w, n) \in 0 .. Len(w.text)
              /\ FindAt(w, PosAfter(w, n), ForbidAfter(w, n)) =
                   IF n < Len(w.matches) THEN w.matches[n + 1] ELSE None
         /\ \A n \in 1 .. Len(w.matches) : w.matches[n] \in SpansIn(w.text)
  <1>1. PICK M : M = w.matches
    OBVIOUS
  <1>2. M \in Seq(SpansIn(w.text))
    BY <1>1, MatchesAssumption
  <1>3. Len(M) \in Nat /\ \A n \in 1 .. Len(M) : M[n] \in SpansIn(w.text)
    BY <1>2, LenProperties, ElementOfSeq
  <1>4. ASSUME NEW n \in 0 .. Len(M) PROVE PosAfter(w, n) \in 0 .. Len(w.text)
    <2>1. CASE n = 0
      BY <2>1, WalksAssumption DEF PosAfter
    <2>2. CASE n # 0
      <3>1. n \in 1 .. Len(M) /\ n > 0
        BY <1>3, <2>2
      <3>2. M[n].end \in 0 .. Len(w.text)
        BY <1>3, <3>1 DEF SpansIn
      <3>3. QED
        BY <1>1, <2>2, <3>2 DEF PosAfter
    <2>3. QED
      BY <2>1, <2>2
  <1>5. \A n \in 0 .. Len(M) : FindAt(w, PosAfter(w, n), ForbidAfter(w, n)) =
                                 IF n < Len(M) THEN M[n + 1] ELSE None
    BY <1>1, MatchesAssumption
  <1>6. QED
    BY <1>1, <1>2, <1>3, <1>4, <1>5

LEMMA SpanIsSome ==
  ASSUME NEW t, NEW s \in SpansIn(t)
  PROVE  s # None
  <1>1. DOMAIN s = {"start", "end"}
    BY DEF SpansIn
  <1>2. DOMAIN None = {}
    BY DEF None
  <1>3. QED
    BY <1>1, <1>2

LEMMA MatchGiven ==
  ASSUME NEW w \in Walks, NEW n \in 0 .. Len(w.matches) - 1
  PROVE  w.matches[n + 1] \in Given(w) /\ w.matches[n + 1] # None
  <1>1. PICK m : m = w.matches[n + 1] /\ m \in SpansIn(w.text)
    BY MatchFacts
  <1>2. PICK p : p = PosAfter(w, n) /\ p \in 0 .. Len(w.text)
    BY MatchFacts
  <1>3. PICK f : f = ForbidAfter(w, n)
    OBVIOUS
  <1>4. f \in {0, NextBoundary(w.text, p)}
    <2>1. CASE n = 0
      BY <1>3, <2>1 DEF ForbidAfter
    <2>2. CASE n # 0
      BY <1>2, <1>3, <2>2 DEF ForbidAfter, PosAfter
    <2>3. QED
      BY <2>1, <2>2
  <1>5. Findable(w, FindAt(w, p, f))
    BY <1>2, <1>4, WalksAssumption
  <1>6. FindAt(w, p, f) = m
    BY <1>1, <1>2, <1>3, MatchFacts
  <1>7. m # None
    BY <1>1, SpanIsSome
  <1>8. m \in Given(w)
    BY <1>5, <1>6, <1>7, GivenIsFound
  <1>9. QED
    BY <1>1, <1>7, <1>8

LEMMA NoneEmpty ==
  ASSUME NEW w \in Walks, NeverEmpty(w), NEW n \in 0 .. Len(w.matches)
  PROVE  ForbidAfter(w, n) = 0
  <1>1. CASE n = 0
    BY <1>1 DEF ForbidAfter
  <1>2. CASE n # 0
    <2>0. PICK size \in Nat : size = Len(w.matches)
      BY MatchFacts
    <2>1. PICK k \in 0 .. Len(w.matches) - 1 : n = k + 1
      <3>1. n - 1 \in 0 .. Len(w.matches) - 1 /\ n = (n - 1) + 1
        BY ONLY <1>2, <2>0, n \in 0 .. Len(w.matches)
      <3>2. QED
        BY <3>1
    <2>2. PICK m : m = w.matches[n] /\ m \in Given(w)
      BY <2>1, MatchGiven
    <2>3. m.start \in Int /\ m.start < m.end
      BY <2>2 DEF Given, SpansIn
    <2>4. m.start # m.end
      BY <2>3
    <2>5. QED
      BY <2>2, <2>4 DEF ForbidAfter
  <1>3. QED
    BY <1>1, <1>2

\* Where the matches' next is, a chain is the matches, in order, as far as there are any.
Ordered(w, n, next, part, k) ==
  \E m \in n .. Len(w.matches) :
    /\ part = Part(w.matches, n, m) /\ m - n <= k
    /\ m - n < k => next[PosAfter(w, m)] = None

LEMMA ChainIsMatches ==
  ASSUME NEW w \in Walks, NEW n \in 0 .. Len(w.matches), NEW next,
         \A m \in n .. Len(w.matches) :
           \/ next[PosAfter(w, m)] = None
           \/ m < Len(w.matches) /\ next[PosAfter(w, m)] = w.matches[m + 1],
         NEW k \in 0 .. batch_cap
  PROVE  Ordered(w, n, next, Chain(PosAfter(w, n), next)[k], k)
  <1>1. PICK p : p = PosAfter(w, n)
    OBVIOUS
  <1>2. PICK f : f = Chain(p, next)
    OBVIOUS
  <1>3. f[0] = <<>> /\ \A j \in 0 .. batch_cap - 1 : f[j + 1] = Linked(p, next, j + 1, f[j])
    BY <1>2, ChainSteps
  <1>4. PICK M : M = w.matches /\ M \in Seq(SpansIn(w.text)) /\ Len(M) \in Nat
    BY MatchFacts
  <1>5. PICK size \in Nat : size = Len(M)
    BY <1>4
  <1>6. \A m \in n .. size :
          /\ Part(M, n, m) \in Seq(SpansIn(w.text)) /\ Len(Part(M, n, m)) = m - n
          /\ Part(M, n, m) = <<>> <=> m = n
          /\ m > n => Last(Part(M, n, m)) = M[m]
          /\ m < size => Append(Part(M, n, m), M[m + 1]) = Part(M, n, m + 1)
    <2>1. n \in 0 .. Len(M) /\ M \in Seq(SpansIn(w.text))
      BY <1>4
    <2>2. SUFFICES ASSUME NEW m \in n .. Len(M)
                   PROVE  /\ Part(M, n, m) \in Seq(SpansIn(w.text)) /\ Len(Part(M, n, m)) = m - n
                          /\ Part(M, n, m) = <<>> <=> m = n
                          /\ m > n => Last(Part(M, n, m)) = M[m]
                          /\ m < Len(M) => Append(Part(M, n, m), M[m + 1]) = Part(M, n, m + 1)
      BY <1>5
    <2>3. PartFits(SpansIn(w.text), M, n, m)
      BY <2>1, PartFacts
    <2>4. QED
      BY <2>3 DEF PartFits
  <1> DEFINE good == {j \in Nat : j <= batch_cap => Ordered(w, n, next, f[j], j)}
  <1>7. 0 \in good
    <2>1. n \in n .. size /\ n - n = 0 /\ Part(M, n, n) = <<>>
      BY <1>4, <1>5, <1>6
    <2>2. Ordered(w, n, next, f[0], 0)
      BY <1>3, <1>4, <1>5, <2>1 DEF Ordered
    <2>3. QED
      BY <2>2
  <1>8. ASSUME NEW j \in good PROVE j + 1 \in good
    <2>1. SUFFICES ASSUME j + 1 <= batch_cap PROVE Ordered(w, n, next, f[j + 1], j + 1)
      OBVIOUS
    <2>2. j \in Nat /\ j \in 0 .. batch_cap - 1 /\ Ordered(w, n, next, f[j], j)
      BY <2>1, CapAssumption
    <2>3. PICK m \in n .. size :
            f[j] = Part(M, n, m) /\ m - n <= j /\ (m - n < j => next[PosAfter(w, m)] = None)
      BY <1>4, <1>5, <2>2 DEF Ordered
    <2>4. PICK before : before = f[j]
      OBVIOUS
    <2>5. Len(before) = m - n /\ (before = <<>> <=> m = n)
      BY <1>6, <2>3, <2>4
    <2>6. (IF before = <<>> THEN p ELSE Last(before).end) = PosAfter(w, m)
      <3>1. CASE m = n
        BY <1>1, <2>5, <3>1
      <3>2. CASE m # n
        <4>1. m > n /\ m # 0
          BY <1>4, <3>2
        <4>2. Last(before) = M[m]
          BY <1>6, <2>3, <2>4, <4>1
        <4>3. QED
          BY <1>4, <2>5, <3>2, <4>1, <4>2 DEF PosAfter
      <3>3. QED
        BY <3>1, <3>2
    <2>7. PICK span : span = next[PosAfter(w, m)]
      OBVIOUS
    <2>8. PICK i \in Nat : i = j + 1
      BY <2>2
    <2>9. f[i] = IF Len(before) < i - 1 \/ span = None THEN before ELSE Append(before, span)
      BY <1>3, <2>2, <2>4, <2>6, <2>7, <2>8 DEF Linked
    <2>10. n \in Nat /\ m \in Nat
      BY <1>4
    <2>11. CASE span = None
      <3>1. f[i] = Part(M, n, m) /\ m - n <= i /\ next[PosAfter(w, m)] = None
        BY <2>3, <2>4, <2>7, <2>8, <2>9, <2>10, <2>11
      <3>2. QED
        BY <1>4, <1>5, <2>8, <3>1 DEF Ordered
    <2>12. CASE span # None
      <3>1. m - n = j /\ m < size /\ span = M[m + 1]
        BY <1>4, <1>5, <2>3, <2>7, <2>10, <2>12
      <3>2. f[i] = Append(before, span)
        BY <2>2, <2>5, <2>8, <2>9, <2>12, <3>1
      <3>3. PICK q \in n .. size : q = m + 1
        BY <2>10, <3>1
      <3>7. Append(Part(M, n, m), M[m + 1]) = Part(M, n, m + 1)
        BY ONLY <1>6, m \in n .. size, <3>1
      <3>8. f[i] = Part(M, n, q)
        BY ONLY <2>3, <2>4, <3>1, <3>2, <3>3, <3>7
      <3>4. f[i] = Part(M, n, q) /\ q - n = i
        BY <2>8, <2>10, <3>1, <3>3, <3>8
      <3>5. ~(q - n < i) /\ q - n <= i
        BY <2>8, <3>4
      <3>6. QED
        BY <1>4, <1>5, <2>8, <3>4, <3>5 DEF Ordered
    <2>13. QED
      BY <2>11, <2>12
  <1>9. good = Nat
    <2>1. good \in SUBSET Nat
      OBVIOUS
    <2> HIDE DEF good
    <2>2. QED
      BY <1>7, <1>8, <2>1, SetInduction
  <1>10. k \in good /\ k <= batch_cap
    BY <1>9, CapAssumption
  <1>11. QED
    BY <1>1, <1>2, <1>10

-----------------------------------------------------------------------------
(* What a fill is: a stretch of a filler's chain, with a reason to stop.   *)

FillKind(fill) ==
  /\ fill.partial \in BOOLEAN /\ fill.eligible \in BOOLEAN /\ fill.abandoned \in BOOLEAN
  /\ fill.spans # <<>> => fill.eligible
  /\ \/ batch_spent /\ fill.spans = <<>> /\ fill.partial = batch_partial
     \/ fill.spans = <<>> /\ fill.partial = TRUE
     \/ \E k \in 0 .. batch_cap :
          /\ fill.spans = Ahead(pos)[k]
          /\ \/ fill.partial = TRUE
             \/ k = batch_cap
             \/ k < batch_cap /\ Len(Ahead(pos)[k + 1]) = Len(fill.spans)
     \/ /\ route = "inner_literal"
        /\ \E k \in 0 .. batch_cap :
             /\ fill.spans = Swept(pos)[k]
             /\ \/ fill.partial = TRUE
                \/ walk.sweep[IF fill.spans = <<>> THEN pos ELSE Last(fill.spans).end].outcome = "spent"

FlagsFit ==
  /\ counting \in BOOLEAN /\ done \in BOOLEAN /\ batch_eligible \in BOOLEAN /\ batch_asks \in BOOLEAN
  /\ batch_spent \in BOOLEAN /\ batch_partial \in BOOLEAN /\ il_abandoned \in BOOLEAN

LEMMA DisarmFields ==
  Disarm.spans = <<>> /\ Disarm.partial = TRUE /\ Disarm.eligible = FALSE /\ Disarm.abandoned = il_abandoned
  BY DEF Disarm, Filled

LEMMA DisarmKind ==
  ASSUME FlagsFit, NEW fill, fill = Disarm
  PROVE  FillKind(fill)
  BY DisarmFields DEF FillKind, FlagsFit

LEMMA ScannedKind ==
  ASSUME FlagsFit, NEW fill, fill = Scanned
  PROVE  FillKind(fill)
  <1>1. /\ fill.spans = Ahead(pos)[batch_cap] /\ fill.partial = FALSE /\ fill.eligible = TRUE
        /\ fill.abandoned = il_abandoned
    BY DEF Filled, Scanned
  <1>2. batch_cap \in 0 .. batch_cap
    BY CapAssumption
  <1>3. QED
    BY <1>1, <1>2 DEF FillKind, FlagsFit

LEMMA StoppedKind ==
  ASSUME FlagsFit, NEW fill, fill \in Stopped(Runway)
  PROVE  FillKind(fill)
  <1> DEFINE reached == Runway
             end(n) == IF n = 0 THEN pos ELSE Last(Ahead(pos)[n]).end
             found == {n \in 0 .. batch_cap :
                         Len(Ahead(pos)[n]) = n /\ \A k \in 0 .. n - 1 : end(k) \in reached}
             exhausted == {n \in found : n < batch_cap /\ end(n) \in reached /\ Len(Ahead(pos)[n + 1]) = n}
  <1>1. fill \in {Filled(Ahead(pos)[n], TRUE) : n \in found} \cup {Filled(Ahead(pos)[n], FALSE) : n \in exhausted}
    BY DEF Stopped
  <1>2. \A n \in found : n \in 0 .. batch_cap /\ Len(Ahead(pos)[n]) = n
    OBVIOUS
  <1>3. \A n \in exhausted : n \in 0 .. batch_cap /\ n < batch_cap /\ Len(Ahead(pos)[n + 1]) = Len(Ahead(pos)[n])
    BY <1>2
  <1> HIDE DEF found, exhausted
  <1>4. CASE \E n \in found : fill = Filled(Ahead(pos)[n], TRUE)
    <2>1. PICK n \in 0 .. batch_cap : fill = Filled(Ahead(pos)[n], TRUE)
      BY <1>2, <1>4
    <2>2. /\ fill.spans = Ahead(pos)[n] /\ fill.partial = TRUE /\ fill.eligible = TRUE
          /\ fill.abandoned = il_abandoned
      BY <2>1 DEF Filled
    <2>3. QED
      BY <2>2 DEF FillKind, FlagsFit
  <1>5. CASE \E n \in exhausted : fill = Filled(Ahead(pos)[n], FALSE)
    <2>1. PICK n \in exhausted : fill = Filled(Ahead(pos)[n], FALSE)
      BY <1>5
    <2>2. /\ fill.spans = Ahead(pos)[n] /\ fill.partial = FALSE /\ fill.eligible = TRUE
          /\ fill.abandoned = il_abandoned
      BY <2>1 DEF Filled
    <2>3. QED
      BY <1>3, <2>2 DEF FillKind, FlagsFit
  <1>6. QED
    BY <1>1, <1>4, <1>5

LEMMA SweepKind ==
  ASSUME FlagsFit, route = "inner_literal", NEW fill, fill \in fill_inner_literal_spans
  PROVE  FillKind(fill)
  <1> DEFINE end(spans) == IF spans = <<>> THEN pos ELSE Last(spans).end
  <1>1. CASE il_abandoned
    <2>1. fill = Disarm
      BY <1>1 DEF fill_inner_literal_spans
    <2>2. QED
      BY <2>1, DisarmKind
  <1>2. CASE ~il_abandoned
    <2>1. PICK k, spans :
            /\ k \in 0 .. batch_cap /\ spans = Swept(pos)[k]
            /\ \/ fill = Filled(spans, TRUE)
               \/ fill \in SweepFills(spans, walk.sweep[end(spans)])
      BY <1>2 DEF fill_inner_literal_spans
    <2>2. PICK sweep : sweep = walk.sweep[end(spans)]
      OBVIOUS
    <2>3. CASE fill = Filled(spans, TRUE)
      <3>1. /\ fill.spans = spans /\ fill.partial = TRUE /\ fill.eligible = TRUE
            /\ fill.abandoned = il_abandoned
        BY <2>3 DEF Filled
      <3>2. QED
        BY <2>1, <3>1 DEF FillKind, FlagsFit
    <2>4. CASE fill = Filled(spans, FALSE) /\ sweep.outcome = "spent"
      <3>1. /\ fill.spans = spans /\ fill.partial = FALSE /\ fill.eligible = TRUE
            /\ fill.abandoned = il_abandoned
        BY <2>4 DEF Filled
      <3>2. walk.sweep[IF fill.spans = <<>> THEN pos ELSE Last(fill.spans).end].outcome = "spent"
        BY <2>2, <2>4, <3>1
      <3>3. QED
        BY <2>1, <3>1, <3>2 DEF FillKind, FlagsFit
    <2>5. CASE fill = [Filled(spans, TRUE) EXCEPT !.abandoned = TRUE]
      <3>1. /\ fill.spans = spans /\ fill.partial = TRUE /\ fill.eligible = TRUE /\ fill.abandoned = TRUE
        BY <2>5 DEF Filled
      <3>2. QED
        BY <2>1, <3>1 DEF FillKind, FlagsFit
    <2>6. QED
      <3>1. fill \in SweepFills(spans, sweep) =>
              \/ fill = Filled(spans, FALSE) /\ sweep.outcome = "spent"
              \/ fill = [Filled(spans, TRUE) EXCEPT !.abandoned = TRUE]
              \/ fill = Filled(spans, TRUE)
        BY DEF SweepFills
      <3>2. QED
        BY <2>1, <2>2, <2>3, <2>4, <2>5, <3>1
  <1>3. QED
    BY <1>1, <1>2

LEMMA FillKinds ==
  ASSUME FlagsFit, route \in Batched, NEW fill \in refill_batch
  PROVE  FillKind(fill)
  <1>1. CASE batch_spent
    <2>1. fill = Filled(<<>>, batch_partial)
      BY <1>1 DEF refill_batch
    <2>2. /\ fill.spans = <<>> /\ fill.partial = batch_partial /\ fill.eligible = TRUE
          /\ fill.abandoned = il_abandoned
      BY <2>1 DEF Filled
    <2>3. QED
      BY <1>1, <2>2 DEF FillKind, FlagsFit
  <1>2. CASE ~batch_spent
    <2>1. fill \in Fills
      BY <1>2 DEF refill_batch
    <2>2. fill = Scanned \/ fill = Disarm \/ fill \in Stopped(Runway)
            \/ (route = "inner_literal" /\ fill \in fill_inner_literal_spans)
      <3>1. CASE route = "scan"
        BY <2>1, <3>1 DEF Fills
      <3>2. CASE route = "alternation"
        BY <2>1, <3>2 DEF Fills
      <3>3. CASE route = "wide"
        BY <2>1, <3>3 DEF Fills
      <3>4. CASE route = "lazy_dfa"
        BY <2>1, <3>4 DEF Fills
      <3>5. CASE route = "inner_literal"
        BY <2>1, <3>5 DEF Fills
      <3>6. QED
        BY <3>1, <3>2, <3>3, <3>4, <3>5 DEF Batched
    <2>3. QED
      BY <2>2, DisarmKind, ScannedKind, StoppedKind, SweepKind
  <1>3. QED
    BY <1>1, <1>2

\* A fill is of spans to hand out, no more than the buffer holds.
FillFits(fill) ==
  /\ fill.spans \in Seq(Given(walk)) /\ Len(fill.spans) <= batch_cap
  /\ fill.partial \in BOOLEAN /\ fill.eligible \in BOOLEAN /\ fill.abandoned \in BOOLEAN

LEMMA AheadGives ==
  ASSUME walk \in Walks, pos \in 0 .. Len(text), NEW k \in 0 .. batch_cap
  PROVE  Ahead(pos)[k] \in Seq(Given(walk)) /\ Len(Ahead(pos)[k]) <= k
  <1>1. PICK next : next = [from \in 0 .. Len(text) |-> FindAt(walk, from, 0)]
    OBVIOUS
  <1>2. ASSUME NEW q \in 0 .. Len(walk.text) PROVE next[q] = None \/ next[q] \in Given(walk)
    <2>1. next[q] = FindAt(walk, q, 0)
      BY <1>1 DEF text
    <2>2. Findable(walk, FindAt(walk, q, 0))
      BY WalksAssumption
    <2>3. QED
      BY <2>1, <2>2, GivenIsFound
  <1>3. pos \in 0 .. Len(walk.text) /\ Ahead(pos) = Chain(pos, next)
    BY <1>1 DEF text, Ahead
  <1>4. QED
    BY <1>2, <1>3, ChainGives

LEMMA SweptGives ==
  ASSUME walk \in Walks, walk.sweep # <<>>, NEW q \in 0 .. Len(text)
  PROVE  SweptTo(q) = None \/ SweptTo(q) \in Given(walk)
  <1>1. PICK swept : swept = walk.sweep[q]
    OBVIOUS
  <1>2. SweptTo(q) = IF swept.outcome = "matched" THEN Span(swept.slots[0], swept.slots[1]) ELSE None
    BY <1>1 DEF SweptTo
  <1>3. swept.outcome = "matched" => Findable(walk, Span(swept.slots[0], swept.slots[1]))
    BY <1>1, SweepsAssumption DEF text
  <1>4. QED
    BY <1>2, <1>3, GivenIsFound

LEMMA SweptChainGives ==
  ASSUME walk \in Walks, walk.sweep # <<>>, pos \in 0 .. Len(text), NEW k \in 0 .. batch_cap
  PROVE  Swept(pos)[k] \in Seq(Given(walk)) /\ Len(Swept(pos)[k]) <= k
  <1>1. PICK next : next = [from \in 0 .. Len(text) |-> SweptTo(from)]
    OBVIOUS
  <1>2. \A q \in 0 .. Len(walk.text) : next[q] = None \/ next[q] \in Given(walk)
    BY <1>1, SweptGives DEF text
  <1>3. pos \in 0 .. Len(walk.text) /\ Swept(pos) = Chain(pos, next)
    BY <1>1 DEF text, Swept
  <1>4. QED
    BY <1>2, <1>3, ChainGives

LEMMA FillGives ==
  ASSUME walk \in Walks, FlagsFit, route \in Batched, route = "inner_literal" => walk.sweep # <<>>,
         pos \in 0 .. Len(text), NEW fill \in refill_batch
  PROVE  FillFits(fill)
  <1>1. FillKind(fill)
    BY FillKinds
  <1>2. CASE fill.spans = <<>>
    <2>1. <<>> \in Seq(Given(walk)) /\ Len(<<>>) = 0 /\ 0 <= batch_cap
      BY EmptySeq, CapAssumption
    <2>2. QED
      BY <1>1, <1>2, <2>1 DEF FillFits, FillKind
  <1>3. ASSUME NEW k \in 0 .. batch_cap, fill.spans = Ahead(pos)[k] PROVE FillFits(fill)
    <2>1. Ahead(pos)[k] \in Seq(Given(walk)) /\ Len(Ahead(pos)[k]) <= k
      BY AheadGives
    <2>2. PICK l \in Nat : l = Len(fill.spans) /\ l <= k
      BY <1>3, <2>1, LenProperties
    <2>3. l <= batch_cap
      BY <2>2, CapAssumption
    <2>4. QED
      BY <1>1, <1>3, <2>1, <2>2, <2>3 DEF FillFits, FillKind
  <1>4. ASSUME route = "inner_literal", NEW k \in 0 .. batch_cap, fill.spans = Swept(pos)[k]
        PROVE  FillFits(fill)
    <2>1. Swept(pos)[k] \in Seq(Given(walk)) /\ Len(Swept(pos)[k]) <= k
      BY <1>4, SweptChainGives
    <2>2. PICK l \in Nat : l = Len(fill.spans) /\ l <= k
      BY <1>4, <2>1, LenProperties
    <2>3. l <= batch_cap
      BY <2>2, CapAssumption
    <2>4. QED
      BY <1>1, <1>4, <2>1, <2>2, <2>3 DEF FillFits, FillKind
  <1>5. QED
    BY <1>1, <1>2, <1>3, <1>4 DEF FillKind

-----------------------------------------------------------------------------
(* Where a walk may be: the inductive invariant of its types.              *)

RouteFits ==
  /\ route \in Batched \cup {"run", "trailing"}
  /\ route = "trailing" => trailing_lookaround(code)
  /\ route \in Batched => NeverEmpty(walk)
  /\ route = "inner_literal" => walk.sweep # <<>>

\* The ban on an empty match is on the one that the walk stands behind.
PlaceFits ==
  /\ pos \in 0 .. Len(text)
  /\ forbid_empty_until \in {0, NextBoundary(text, pos)}
  /\ NeverEmpty(walk) => forbid_empty_until = 0

BatchFits ==
  /\ batch \in Seq(Given(walk)) /\ Len(batch) < batch_cap
  /\ batch # <<>> \/ batch_eligible => route \in Batched

StageFits ==
  /\ stage \in {"walking", "searching", "trying"}
  /\ stage = "trying" => route = "trailing"
  /\ stage = "searching" => route # "trailing"
  /\ frontier \in 0 .. Len(text)

RunStands ==
  run = None \/ (run \in SpansIn(text) /\ run.start < run.end /\ MayEnd(code, text, run.start))

WalkTyped ==
  /\ walk \in Walks
  /\ RouteFits /\ PlaceFits /\ BatchFits /\ FlagsFit /\ StageFits /\ RunStands /\ ScratchFits

LEMMA TypedGivesTypeOK ==
  ASSUME WalkTyped
  PROVE  TypeOK
  <1>1. Len(text) \in Nat /\ pos \in 0 .. Len(text)
    BY WalkFacts DEF WalkTyped, PlaceFits
  <1>2. forbid_empty_until \in 0 .. Len(text) + 1
    <2>1. NextBoundary(text, pos) \in 0 .. Len(text) + 1
      BY <1>1, BoundaryFits
    <2>2. QED
      BY <1>1, <2>1 DEF WalkTyped, PlaceFits
  <1>3. QED
    BY <1>1, <1>2 DEF TypeOK, WalkTyped, RouteFits, BatchFits, FlagsFit, StageFits, ScratchFits

LEMMA ChoiceFits ==
  ASSUME NEW w, NEW counted, NEW r \in decide_batching(w, counted)
  PROVE  /\ r \in Batched \cup {"run", "trailing"}
         /\ r = "trailing" => trailing_lookaround(w.program.code)
         /\ r \in Batched => NeverEmpty(w)
         /\ r = "inner_literal" => w.sweep # <<>>
  <1>1. CASE trailing_lookaround(w.program.code)
    <2>1. r = "trailing"
      BY <1>1 DEF decide_batching
    <2>2. QED
      BY <1>1, <2>1 DEF Batched
  <1>2. CASE ~trailing_lookaround(w.program.code)
    <2> DEFINE shut == ~EmptyMatchPossible(w.program.code)
    <2>1. /\ r \in {"run", "scan", "alternation", "wide", "inner_literal", "lazy_dfa"}
          /\ r \in {"scan", "alternation", "wide", "lazy_dfa"} => shut
          /\ r = "inner_literal" => w.sweep # <<>>
      BY <1>2 DEF decide_batching
    <2>2. QED
      BY <2>1 DEF Batched, NeverEmpty
  <1>3. QED
    BY <1>1, <1>2

LEMMA InitTyped ==
  ASSUME Init
  PROVE  WalkTyped
  <1>1. walk \in Walks /\ RouteFits
    BY ChoiceFits DEF Init, RouteFits, code
  <1>2. PlaceFits
    BY <1>1, WalkFacts DEF Init, PlaceFits
  <1>3. BatchFits
    <2>1. <<>> \in Seq(Given(walk)) /\ Len(<<>>) = 0
      BY EmptySeq
    <2>2. Len(batch) < batch_cap
      BY <2>1, CapAssumption DEF Init
    <2>3. QED
      BY <2>1, <2>2 DEF Init, BatchFits, Armed
  <1>4. FlagsFit
    <2>1. Armed(route, walk) \in BOOLEAN /\ (route = "alternation") \in BOOLEAN
      BY DEF Armed
    <2>2. QED
      BY <2>1 DEF Init, FlagsFit
  <1>5. StageFits /\ RunStands
    BY <1>1, WalkFacts DEF Init, StageFits, RunStands
  <1>6. ScratchFits
    <2>1. /\ behind = [pc \in Lookbehinds(code) |-> NotWalked]
          /\ ahead = [pc \in Unbounded(code) |-> NotFilled]
      BY DEF Init, ScratchInit
    <2>2. QED
      BY <2>1 DEF ScratchFits, FitWalk
  <1>7. QED
    BY <1>1, <1>2, <1>3, <1>4, <1>5, <1>6 DEF WalkTyped

LEMMA SameSubject ==
  ASSUME walk' = walk
  PROVE  text' = text /\ code' = code
  BY DEF text, code

LEMMA HandOutPlace ==
  ASSUME walk \in Walks, walk' = walk, NEW s \in Given(walk), HandOut(s)
  PROVE  PlaceFits'
  <1>1. /\ pos' = s.end
        /\ forbid_empty_until' = IF s.start = s.end THEN NextBoundary(text, s.end) ELSE 0
    BY DEF HandOut
  <1>2. s.start \in 0 .. Len(text) /\ s.end \in 0 .. Len(text) /\ (NeverEmpty(walk) => s.start < s.end)
    BY DEF Given, SpansIn, text
  <1>3. NeverEmpty(walk) => s.start # s.end
    BY <1>2, WalkFacts
  <1>4. text' = text
    BY SameSubject
  <1>5. QED
    BY <1>1, <1>2, <1>3, <1>4 DEF PlaceFits

\* What a step that makes no query and keeps the walk keeps.
LEMMA ScratchKept ==
  ASSUME walk' = walk, ScratchFits, UNCHANGED <<behind, ahead>>
  PROVE  ScratchFits'
  BY SameSubject DEF ScratchFits

LEMMA RunKept ==
  ASSUME walk' = walk, RunStands, UNCHANGED run
  PROVE  RunStands'
  BY SameSubject DEF RunStands

LEMMA RouteKept ==
  ASSUME walk' = walk, RouteFits, UNCHANGED route
  PROVE  RouteFits'
  BY SameSubject DEF RouteFits

LEMMA PlaceKept ==
  ASSUME walk' = walk, PlaceFits, UNCHANGED <<pos, forbid_empty_until>>
  PROVE  PlaceFits'
  BY SameSubject DEF PlaceFits

LEMMA BatchKept ==
  ASSUME walk' = walk, BatchFits, UNCHANGED <<route, batch, batch_eligible>>
  PROVE  BatchFits'
  BY DEF BatchFits

LEMMA StageKept ==
  ASSUME walk' = walk, StageFits, UNCHANGED <<route, stage, frontier>>
  PROVE  StageFits'
  BY SameSubject DEF StageFits

LEMMA FlagsKept ==
  ASSUME FlagsFit, UNCHANGED <<counting, batch_eligible, batch_asks, batch_spent, batch_partial>>,
         done' \in BOOLEAN, il_abandoned' \in BOOLEAN
  PROVE  FlagsFit'
  BY DEF FlagsFit

LEMMA BeginSearchFits ==
  ASSUME walk \in Walks, walk' = walk, UNCHANGED route, pos \in 0 .. Len(text), BeginSearch
  PROVE  StageFits'
  BY SameSubject DEF BeginSearch, StageFits

LEMMA HandBufferedTyped ==
  ASSUME WalkTyped, HandBuffered
  PROVE  WalkTyped'
  <1>1. /\ walk' = walk /\ walk \in Walks /\ batch # <<>> /\ HandOut(Head(batch)) /\ batch' = Tail(batch)
        /\ UNCHANGED <<done, batch_eligible, batch_asks, batch_spent, batch_partial, il_abandoned>>
        /\ UNCHANGED <<route, counting, stage, frontier, run, behind, ahead>>
    BY DEF HandBuffered, NoSearch, Chosen, WalkTyped, scratch
  <1>2. batch \in Seq(Given(walk)) /\ Len(batch) < batch_cap /\ route \in Batched
    BY <1>1 DEF WalkTyped, BatchFits
  <1>3. Head(batch) \in Given(walk) /\ Tail(batch) \in Seq(Given(walk)) /\ Len(Tail(batch)) = Len(batch) - 1
    BY <1>1, <1>2, HeadTailProperties
  <1>4. PlaceFits'
    BY <1>1, <1>3, HandOutPlace
  <1>5. BatchFits'
    <2>1. PICK n \in Nat : n = Len(batch) /\ n < batch_cap
      BY <1>2, LenProperties
    <2>2. n - 1 < batch_cap
      BY <2>1, CapAssumption
    <2>3. QED
      BY <1>1, <1>2, <1>3, <2>1, <2>2 DEF BatchFits
  <1>6. QED
    BY <1>1, <1>4, <1>5, ScratchKept, RunKept, RouteKept, StageKept DEF WalkTyped, FlagsFit

LEMMA CountBufferedTyped ==
  ASSUME WalkTyped, CountBuffered
  PROVE  WalkTyped'
  <1>1. /\ walk' = walk /\ walk \in Walks /\ batch # <<>> /\ pos' = Last(batch).end /\ batch' = <<>>
        /\ UNCHANGED <<forbid_empty_until, done, batch_eligible, batch_asks, batch_spent, batch_partial,
                       il_abandoned>>
        /\ UNCHANGED <<route, counting, stage, frontier, run, behind, ahead>>
    BY DEF CountBuffered, NoSearch, Chosen, WalkTyped, scratch
  <1>2. batch \in Seq(Given(walk)) /\ route \in Batched
    BY <1>1 DEF WalkTyped, BatchFits
  <1>3. Last(batch) \in Given(walk)
    <2>1. Len(batch) \in 1 .. Len(batch)
      BY <1>1, <1>2, EmptySeq
    <2>2. QED
      BY <1>2, <2>1, ElementOfSeq DEF Last
  <1>4. PlaceFits'
    <2>1. NeverEmpty(walk)
      BY <1>2 DEF WalkTyped, RouteFits
    <2>2. forbid_empty_until = 0
      BY <2>1 DEF WalkTyped, PlaceFits
    <2>3. Last(batch).end \in 0 .. Len(text)
      BY <1>1, <1>3, GivenFacts DEF text
    <2>4. QED
      BY <1>1, <2>2, <2>3, SameSubject DEF PlaceFits
  <1>5. BatchFits'
    <2>1. <<>> \in Seq(Given(walk)) /\ Len(<<>>) = 0 /\ 0 < batch_cap
      BY EmptySeq, CapAssumption
    <2>2. QED
      BY <1>1, <1>2, <2>1 DEF BatchFits
  <1>6. QED
    BY <1>1, <1>4, <1>5, ScratchKept, RunKept, RouteKept, StageKept DEF WalkTyped, FlagsFit

LEMMA RefillTyped ==
  ASSUME WalkTyped, Refill
  PROVE  WalkTyped'
  <1>1. /\ walk' = walk /\ walk \in Walks /\ batch_eligible /\ UNCHANGED <<route, counting>>
    BY DEF Refill, Chosen, WalkTyped
  <1>2. /\ route \in Batched /\ (route = "inner_literal" => walk.sweep # <<>>) /\ FlagsFit
        /\ pos \in 0 .. Len(text)
    BY <1>1 DEF WalkTyped, BatchFits, RouteFits, PlaceFits
  <1>3. PICK fill \in refill_batch :
          /\ batch_eligible' = fill.eligible /\ batch_partial' = fill.partial
          /\ batch_spent' = (batch_spent \/ Spent(fill)) /\ il_abandoned' = fill.abandoned
          /\ batch_asks' = FALSE
          /\ IF fill.spans # <<>>
               THEN HandOut(Head(fill.spans)) /\ batch' = Tail(fill.spans) /\ done' = done /\ NoSearch
             ELSE /\ batch' = <<>>
                  /\ Stay
                  /\ IF fill.partial THEN BeginSearch ELSE done' = TRUE /\ NoSearch
    BY DEF Refill
  <1>4. FillFits(fill)
    BY <1>1, <1>2, FillGives
  <1>5. FlagsFit'
    <2>1. done' \in BOOLEAN
      <3>1. done' = done \/ done' = TRUE
        BY <1>3 DEF BeginSearch
      <3>2. QED
        BY <1>2, <3>1 DEF FlagsFit
    <2>2. batch_spent' \in BOOLEAN
      BY <1>3
    <2>3. QED
      BY <1>1, <1>2, <1>3, <1>4, <2>1, <2>2 DEF FlagsFit, FillFits
  <1>6. StageFits' /\ RunStands' /\ ScratchFits'
    <2>1. CASE NoSearch
      BY <1>1, <2>1, StageKept, RunKept, ScratchKept DEF NoSearch, scratch, WalkTyped
    <2>2. CASE BeginSearch
      <3>1. UNCHANGED <<run, behind, ahead>>
        BY <2>2 DEF BeginSearch
      <3>2. QED
        BY <1>1, <1>2, <2>2, <3>1, BeginSearchFits, RunKept, ScratchKept DEF WalkTyped
    <2>3. QED
      BY <1>3, <2>1, <2>2
  <1>7. PlaceFits' /\ BatchFits'
    <2>1. CASE fill.spans # <<>>
      <3>1. PICK spans : spans = fill.spans
        OBVIOUS
      <3>2. spans \in Seq(Given(walk)) /\ Len(spans) <= batch_cap /\ spans # <<>>
        BY <1>4, <2>1, <3>1 DEF FillFits
      <3>3. /\ Head(spans) \in Given(walk) /\ Tail(spans) \in Seq(Given(walk))
            /\ Len(Tail(spans)) = Len(spans) - 1
        BY <3>2, HeadTailProperties
      <3>4. PICK n \in Nat : n = Len(spans) /\ n <= batch_cap
        BY <3>2, LenProperties
      <3>5. n - 1 < batch_cap
        BY <3>4, CapAssumption
      <3>6. HandOut(Head(spans)) /\ batch' = Tail(spans)
        BY <1>3, <2>1, <3>1
      <3>7. PlaceFits'
        BY <1>1, <3>3, <3>6, HandOutPlace
      <3>8. QED
        BY <1>1, <1>2, <3>3, <3>4, <3>5, <3>6, <3>7 DEF BatchFits
    <2>2. CASE fill.spans = <<>>
      <3>1. batch' = <<>> /\ Stay
        BY <1>3, <2>2
      <3>2. PlaceFits'
        BY <1>1, <3>1, PlaceKept DEF Stay, WalkTyped
      <3>3. <<>> \in Seq(Given(walk)) /\ Len(<<>>) = 0 /\ 0 < batch_cap
        BY EmptySeq, CapAssumption
      <3>4. QED
        BY <1>1, <1>2, <3>1, <3>2, <3>3 DEF BatchFits
    <2>3. QED
      BY <2>1, <2>2
  <1>8. QED
    BY <1>1, <1>5, <1>6, <1>7, RouteKept DEF WalkTyped

LEMMA SearchTyped ==
  ASSUME WalkTyped, Search
  PROVE  WalkTyped'
  <1>1. /\ walk' = walk /\ walk \in Walks /\ pos \in 0 .. Len(text) /\ BeginSearch
        /\ UNCHANGED <<route, counting, pos, forbid_empty_until, batch, batch_eligible>>
        /\ UNCHANGED <<batch_asks, batch_spent, batch_partial, il_abandoned, done, run, behind, ahead>>
    BY DEF Search, BeginSearch, Stay, Chosen, WalkTyped, PlaceFits
  <1>2. QED
    BY <1>1, BeginSearchFits, PlaceKept, BatchKept, RouteKept, RunKept, ScratchKept DEF WalkTyped, FlagsFit

LEMMA AskLookaroundTyped ==
  ASSUME WalkTyped, AskLookaround
  PROVE  WalkTyped'
  <1>1. /\ walk' = walk /\ walk \in Walks /\ UNCHANGED <<route, counting, stage, run, pos, forbid_empty_until>>
        /\ UNCHANGED <<batch, batch_eligible, batch_asks, batch_spent, batch_partial, done, il_abandoned>>
    BY DEF AskLookaround, Stay, UnchangedBatch, Chosen, WalkTyped
  <1>2. PICK p \in frontier .. Len(text) : \E pc \in Asserts(code) : Query(pc, p) /\ frontier' = p
    BY DEF AskLookaround
  <1>3. PICK pc \in Asserts(code) : Ask(code, text, pc, p) /\ frontier' = p
    BY <1>2 DEF Query
  <1>4. p \in 0 .. Len(text)
    BY <1>1, WalkFacts DEF WalkTyped, StageFits
  <1>5. ScratchFits'
    BY <1>1, <1>3, <1>4, AskFits DEF WalkTyped
  <1>6. StageFits'
    BY <1>1, <1>3, <1>4, SameSubject DEF StageFits, WalkTyped
  <1>7. QED
    BY <1>1, <1>5, <1>6, RouteKept, PlaceKept, BatchKept, RunKept DEF WalkTyped, FlagsFit

LEMMA ConcludeTyped ==
  ASSUME WalkTyped, stage = "searching", NEW found, found = None \/ found \in Given(walk), Conclude(found),
         il_abandoned' \in BOOLEAN
  PROVE  WalkTyped'
  <1>1. /\ walk' = walk /\ walk \in Walks /\ stage' = "walking"
        /\ UNCHANGED <<route, counting, batch, batch_eligible, batch_asks, batch_spent, batch_partial>>
        /\ UNCHANGED <<frontier, run, behind, ahead>>
    BY DEF Conclude, UnchangedBatch, Chosen, WalkTyped, scratch
  <1>2. PlaceFits' /\ done' \in BOOLEAN
    <2>1. CASE found = None
      <3>1. done' = TRUE /\ Stay
        BY <2>1 DEF Conclude
      <3>2. QED
        BY <1>1, <3>1, PlaceKept DEF WalkTyped, Stay
    <2>2. CASE found # None
      <3>1. HandOut(found) /\ done' = done /\ found \in Given(walk)
        BY <2>2 DEF Conclude
      <3>2. QED
        BY <1>1, <3>1, HandOutPlace DEF WalkTyped, FlagsFit
    <2>3. QED
      BY <2>1, <2>2
  <1>3. StageFits'
    BY <1>1, SameSubject DEF WalkTyped, StageFits
  <1>4. QED
    BY <1>1, <1>2, <1>3, RouteKept, BatchKept, RunKept, ScratchKept, FlagsKept DEF WalkTyped

LEMMA AnsweredTyped ==
  ASSUME WalkTyped, Answered
  PROVE  WalkTyped'
  <1>1. /\ walk \in Walks /\ stage = "searching" /\ Conclude(FindAt(walk, pos, forbid_empty_until))
        /\ il_abandoned' \in {il_abandoned, route = "inner_literal"}
    BY DEF Answered, WalkTyped
  <1>2. Findable(walk, FindAt(walk, pos, forbid_empty_until))
    <2>1. pos \in 0 .. Len(walk.text) /\ forbid_empty_until \in {0, NextBoundary(walk.text, pos)}
      BY DEF WalkTyped, PlaceFits, text
    <2>2. QED
      BY <1>1, <2>1, WalksAssumption
  <1>3. il_abandoned' \in BOOLEAN
    BY <1>1 DEF WalkTyped, FlagsFit
  <1>4. QED
    BY <1>1, <1>2, <1>3, ConcludeTyped, GivenIsFound

LEMMA AnsweredBySweepTyped ==
  ASSUME WalkTyped, AnsweredBySweep
  PROVE  WalkTyped'
  <1>1. /\ walk \in Walks /\ stage = "searching" /\ Conclude(SweptTo(pos)) /\ UNCHANGED il_abandoned
        /\ walk.sweep # <<>> /\ pos \in 0 .. Len(text)
    BY DEF AnsweredBySweep, Sweeping, WalkTyped, RouteFits, PlaceFits
  <1>2. QED
    BY <1>1, SweptGives, ConcludeTyped DEF WalkTyped, FlagsFit

\* Where the class is next, and how far it goes on.
RunFound(f, s, e) ==
  /\ s \in f .. Len(text) /\ e \in s .. Len(text) /\ s < e /\ MayEnd(code, text, s)
  /\ Width(code, text, s) > 0 /\ e = ScanEnd(code, text, s)
  /\ \A q \in f .. s - 1 : Width(code, text, q) = 0

LEMMA RunFoundFits ==
  ASSUME walk \in Walks, NEW f \in 0 .. Len(text), RunStarts(code, text, f) # {}
  PROVE  LET s == Min(RunStarts(code, text, f)) IN RunFound(f, s, ScanEnd(code, text, s))
  <1>1. PICK S : S = RunStarts(code, text, f) /\ S # {}
    OBVIOUS
  <1>2. text \in Seq(Bytes) /\ Len(text) \in Nat
    BY WalkFacts
  <1>3. \A q : q \in S <=> q \in f .. Len(text) /\ Width(code, text, q) > 0
    BY <1>1 DEF RunStarts
  <1>4. S \in SUBSET Nat
    BY <1>2, <1>3
  <1>5. PICK s : s = Min(S) /\ s \in S /\ \A q \in S : s <= q
    BY <1>1, <1>4, MinIsLeast
  <1>6. PICK e : e = ScanEnd(code, text, s)
    OBVIOUS
  <1>7. s \in f .. Len(text) /\ s \in 0 .. Len(text) /\ Width(code, text, s) > 0
    BY <1>2, <1>3, <1>5
  <1>8. MayEnd(code, text, s)
    BY <1>2, <1>7, WidthFits DEF MemberFits
  <1>9. e \in s .. Len(text) /\ Width(code, text, e) = 0
    BY <1>2, <1>6, <1>7, StopFacts DEF StopsFit
  <1>10. s < e
    <2>1. s # e
      BY <1>7, <1>9
    <2>2. QED
      BY <1>2, <1>7, <1>9, <2>1
  <1>11. ASSUME NEW q \in f .. s - 1 PROVE Width(code, text, q) = 0
    <2>1. q \in 0 .. Len(text) /\ q \in f .. Len(text) /\ ~(s <= q)
      BY <1>2, <1>7
    <2>2. Width(code, text, q) \in Nat
      BY <1>2, <2>1, WidthFits DEF MemberFits
    <2>3. q \notin S
      BY <1>5, <2>1
    <2>4. ~(Width(code, text, q) > 0)
      BY <1>3, <2>1, <2>3
    <2>5. QED
      BY <2>2, <2>4
  <1>12. RunFound(f, s, e)
    BY <1>6, <1>7, <1>8, <1>9, <1>10, <1>11 DEF RunFound
  <1>13. QED
    BY <1>1, <1>5, <1>6, <1>12

LEMMA ScanRunTyped ==
  ASSUME WalkTyped, ScanRun
  PROVE  WalkTyped'
  <1>1. /\ walk' = walk /\ walk \in Walks /\ stage = "trying" /\ frontier \in 0 .. Len(text)
        /\ UNCHANGED <<route, counting, pos, forbid_empty_until, batch, batch_eligible, batch_asks>>
        /\ UNCHANGED <<batch_spent, batch_partial, il_abandoned, frontier, behind, ahead>>
    BY DEF ScanRun, Stay, UnchangedBatch, Chosen, WalkTyped, StageFits, scratch
  <1>2. RunStands' /\ StageFits' /\ done' \in BOOLEAN
    <2>1. CASE RunStarts(code, text, frontier) = {}
      <3>1. done' = TRUE /\ stage' = "walking" /\ UNCHANGED run
        BY <2>1 DEF ScanRun
      <3>2. QED
        BY <1>1, <3>1, RunKept, SameSubject DEF WalkTyped, StageFits
    <2>2. CASE RunStarts(code, text, frontier) # {}
      <3>1. PICK s : s = Min(RunStarts(code, text, frontier))
        OBVIOUS
      <3>2. PICK e : e = ScanEnd(code, text, s)
        OBVIOUS
      <3>3. RunFound(frontier, s, e)
        BY <1>1, <2>2, <3>1, <3>2, RunFoundFits
      <3>4. run' = Span(s, e) /\ UNCHANGED <<done, stage>>
        BY <2>2, <3>1, <3>2 DEF ScanRun
      <3>5. s \in 0 .. Len(text) /\ e \in 0 .. Len(text) /\ s < e /\ s <= e /\ MayEnd(code, text, s)
        BY <1>1, <3>3, WalkFacts DEF RunFound
      <3>6. run' \in SpansIn(text) /\ run'.start = s /\ run'.end = e
        BY <3>4, <3>5 DEF Span, SpansIn
      <3>7. RunStands'
        BY <1>1, <3>5, <3>6, SameSubject DEF RunStands
      <3>8. QED
        BY <1>1, <3>4, <3>7, StageKept DEF WalkTyped, FlagsFit
    <2>3. QED
      BY <2>1, <2>2
  <1>3. QED
    BY <1>1, <1>2, RouteKept, PlaceKept, BatchKept, ScratchKept, FlagsKept DEF WalkTyped, FlagsFit

LEMMA TrailingAsserts ==
  ASSUME walk \in Walks, trailing_lookaround(code)
  PROVE  TrailingAssert(code) \in Asserts(code) /\ TrailingAssert(code) \notin Lookbehinds(code)
  <1>1. PICK split : split = TrailingSplit(code) /\ split \in {3, 6}
    BY DEF TrailingSplit
  <1>2. /\ Len(code) >= split + 5 /\ code[split + 1].op = "assert_lookaround"
        /\ ~code[split + 1].sub.behind
    BY <1>1 DEF trailing_lookaround
  <1>3. TrailingAssert(code) = split + 1
    BY <1>1 DEF TrailingAssert
  <1>4. split + 1 \in DOMAIN code
    BY <1>1, <1>2, WalkFacts
  <1>5. QED
    BY <1>2, <1>3, <1>4 DEF Asserts, Lookbehinds

\* A trailing walk's query is of the lookahead, at an end of the run.
LEMMA TryAsks ==
  ASSUME WalkTyped, TryEnd
  PROVE  /\ walk' = walk /\ walk \in Walks /\ route = "trailing"
         /\ run \in SpansIn(text) /\ run.start < run.end /\ MayEnd(code, text, run.start)
         /\ TrailingAssert(code) \in Asserts(code) /\ TrailingAssert(code) \notin Lookbehinds(code)
         /\ run.end \in 0 .. Len(text)
         /\ Query(TrailingAssert(code), run.end)
  <1>1. walk' = walk /\ walk \in Walks /\ route = "trailing" /\ run # None
    BY DEF TryEnd, Chosen, WalkTyped, StageFits
  <1>2. run \in SpansIn(text) /\ run.start < run.end /\ MayEnd(code, text, run.start)
    BY <1>1 DEF WalkTyped, RunStands
  <1>3. trailing_lookaround(code)
    BY <1>1 DEF WalkTyped, RouteFits
  <1>4. run.end \in 0 .. Len(text)
    BY <1>2 DEF SpansIn
  <1>5. QED
    BY <1>1, <1>2, <1>3, <1>4, TrailingAsserts DEF TryEnd

LEMMA TryEndTyped ==
  ASSUME WalkTyped, TryEnd
  PROVE  WalkTyped'
  <1>1. /\ walk' = walk /\ walk \in Walks /\ stage = "trying" /\ route = "trailing"
        /\ UNCHANGED <<route, counting, batch, batch_eligible, batch_asks>>
        /\ UNCHANGED <<batch_spent, batch_partial, il_abandoned, done>>
    BY TryAsks DEF TryEnd, UnchangedBatch, Chosen
  <1>2. /\ run \in SpansIn(text) /\ run.start < run.end /\ MayEnd(code, text, run.start)
        /\ TrailingAssert(code) \in Asserts(code) /\ run.end \in 0 .. Len(text)
        /\ Ask(code, text, TrailingAssert(code), run.end)
    BY TryAsks DEF Query
  <1>3. ScratchFits'
    BY <1>1, <1>2, AskFits DEF WalkTyped
  <1>4. PICK s \in 0 .. Len(text), e \in 0 .. Len(text) : s = run.start /\ e = run.end /\ s < e
    BY <1>2 DEF SpansIn
  <1>5. PICK prev : prev = PrevEnd(code, text, e)
    OBVIOUS
  <1>6. prev \in s .. e - 1
    BY <1>2, <1>4, <1>5, PrevFacts
  <1>7. Len(text) \in Nat /\ text \in Seq(Bytes)
    BY <1>1, WalkFacts
  <1>8. CASE asked'.holds
    <2>1. HandOut(run) /\ stage' = "walking" /\ run' = None /\ UNCHANGED frontier
      BY <1>8 DEF TryEnd
    <2>2. run \in Given(walk)
      BY <1>2 DEF Given, text
    <2>3. PlaceFits'
      BY <1>1, <2>1, <2>2, HandOutPlace
    <2>4. StageFits' /\ RunStands'
      BY <1>1, <2>1, SameSubject DEF WalkTyped, StageFits, RunStands
    <2>5. QED
      BY <1>1, <1>3, <2>3, <2>4, RouteKept, BatchKept DEF WalkTyped, FlagsFit
  <1>9. CASE ~asked'.holds /\ prev > s
    <2>1. Stay /\ UNCHANGED <<stage, frontier>> /\ run' = [run EXCEPT !.end = prev]
      BY <1>4, <1>5, <1>9 DEF TryEnd
    <2>2. run' \in SpansIn(text) /\ run'.start = s /\ run'.end = prev
      <3>1. prev \in 0 .. Len(text) /\ s <= prev
        BY <1>4, <1>6, <1>7
      <3>2. QED
        BY <1>2, <1>4, <2>1, <3>1 DEF SpansIn
    <2>3. RunStands'
      BY <1>1, <1>2, <1>4, <1>9, <2>2, SameSubject DEF RunStands
    <2>4. StageFits' /\ PlaceFits'
      BY <1>1, <2>1, StageKept, PlaceKept DEF WalkTyped, Stay
    <2>5. QED
      BY <1>1, <1>3, <2>3, <2>4, RouteKept, BatchKept DEF WalkTyped, FlagsFit
  <1>10. CASE ~asked'.holds /\ ~(prev > s)
    <2>1. Stay /\ UNCHANGED stage /\ run' = None /\ frontier' = ScanEnd(code, text, s)
      BY <1>4, <1>5, <1>10 DEF TryEnd
    <2>2. ScanEnd(code, text, s) \in 0 .. Len(text)
      <3>1. ScanEnd(code, text, s) \in s .. Len(text)
        BY <1>4, <1>7, StopFacts DEF StopsFit
      <3>2. QED
        BY <1>4, <1>7, <3>1
    <2>3. RunStands' /\ StageFits'
      BY <1>1, <2>1, <2>2, SameSubject DEF WalkTyped, RunStands, StageFits
    <2>4. PlaceFits'
      BY <1>1, <2>1, PlaceKept DEF WalkTyped, Stay
    <2>5. QED
      BY <1>1, <1>3, <2>3, <2>4, RouteKept, BatchKept DEF WalkTyped, FlagsFit
  <1>11. QED
    BY <1>8, <1>9, <1>10

LEMMA StandTyped ==
  ASSUME WalkTyped, UNCHANGED vars
  PROVE  WalkTyped'
  <1>1. /\ walk' = walk /\ UNCHANGED <<route, counting, pos, forbid_empty_until, done, batch>>
        /\ UNCHANGED <<batch_eligible, batch_asks, batch_spent, batch_partial, il_abandoned>>
        /\ UNCHANGED <<stage, frontier, run, behind, ahead>>
    BY DEF vars, iterator, scratch
  <1>2. QED
    BY <1>1, RouteKept, PlaceKept, BatchKept, StageKept, RunKept, ScratchKept DEF WalkTyped, FlagsFit

LEMMA NextTyped ==
  ASSUME WalkTyped, [Next]_vars
  PROVE  WalkTyped'
  BY HandBufferedTyped, CountBufferedTyped, RefillTyped, SearchTyped, AskLookaroundTyped, AnsweredTyped,
     AnsweredBySweepTyped, ScanRunTyped, TryEndTyped, StandTyped DEF Next, Step, Over

\* Where the walk, its search and the scratch of its lookarounds stand, and on which route, always
\* fits the subject: the invariant the others rest on.
THEOREM TypedAlways == Spec => []WalkTyped
  BY InitTyped, NextTyped, PTL DEF Spec

\* The walk, its batch and a search's place stay in the subject; a batch is never full.
THEOREM TypesHold == Spec => []TypeOK
  BY TypedAlways, TypedGivesTypeOK, PTL

-----------------------------------------------------------------------------
(* Lookarounds answer for themselves.                                      *)

LEMMA QueryAnswers ==
  ASSUME walk \in Walks, walk' = walk, ScratchFits, NEW pc \in Asserts(code), NEW p \in 0 .. Len(text),
         Query(pc, p)
  PROVE  AnswersHold'
  <1>1. Ask(code, text, pc, p)
    BY DEF Query
  <1>2. Told(code, text, pc, p, behind', ahead') <=> p \in walk.holds[pc]
    BY <1>1, AskFits
  <1>3. PICK told : told = Told(code, text, pc, p, behind', ahead')
    OBVIOUS
  <1>4. asked' = [pc |-> pc, pos |-> p, holds |-> told]
    BY <1>3 DEF Query
  <1>5. asked'.pc = pc /\ asked'.pos = p /\ asked'.holds = told
    BY <1>4
  <1>6. QED
    BY <1>2, <1>3, <1>5 DEF AnswersHold

LEMMA AnswersKept ==
  ASSUME walk' = walk, AnswersHold, asked' = asked \/ asked' = NotAsked
  PROVE  AnswersHold'
  BY DEF AnswersHold

LEMMA NextAnswers ==
  ASSUME WalkTyped, AnswersHold, [Next]_vars
  PROVE  AnswersHold'
  <1>1. CASE HandBuffered \/ CountBuffered \/ Answered \/ AnsweredBySweep \/ ScanRun \/ UNCHANGED vars
    <2>1. walk' = walk /\ asked' = asked
      BY <1>1 DEF HandBuffered, CountBuffered, Answered, AnsweredBySweep, Conclude, ScanRun, NoSearch, Chosen,
                  scratch, vars
    <2>2. QED
      BY <2>1, AnswersKept
  <1>2. CASE Refill \/ Search
    <2>1. walk' = walk /\ (asked' = asked \/ asked' = NotAsked)
      BY <1>2 DEF Refill, Search, BeginSearch, NoSearch, Chosen, scratch
    <2>2. QED
      BY <2>1, AnswersKept
  <1>3. CASE AskLookaround
    <2>1. PICK p \in frontier .. Len(text) : \E pc \in Asserts(code) : Query(pc, p)
      BY <1>3 DEF AskLookaround
    <2>2. PICK pc \in Asserts(code) : Query(pc, p)
      BY <2>1
    <2>3. walk' = walk /\ walk \in Walks /\ p \in 0 .. Len(text)
      BY <1>3, WalkFacts DEF AskLookaround, Chosen, WalkTyped, StageFits
    <2>4. QED
      BY <2>2, <2>3, QueryAnswers DEF WalkTyped
  <1>4. CASE TryEnd
    BY <1>4, TryAsks, QueryAnswers DEF WalkTyped
  <1>5. QED
    BY <1>1, <1>2, <1>3, <1>4 DEF Next, Step, Over

\* Whatever the queries before left in the scratch, a lookaround's answer is the pattern's own.
THEOREM AnswersRight == Spec => []AnswersHold
  <1>1. Init => AnswersHold
    BY DEF Init, AnswersHold
  <1>2. WalkTyped /\ AnswersHold /\ [Next]_vars => AnswersHold'
    BY NextAnswers
  <1>3. QED
    BY <1>1, <1>2, TypedAlways, PTL DEF Spec

-----------------------------------------------------------------------------
(* Steps are paid for by bytes read: by lookbehind, those before the place *)
(* where its walk stands, if the search has come so far.                   *)

Reach(pc) == IF behind[pc].at \in 0 .. frontier THEN behind[pc].at ELSE 0
BytesRead == {u \in Lookbehinds(code) \X (1 .. Len(text)) : u[2] <= Reach(u[1])}

StepsFit ==
  /\ steps \in Nat /\ steps <= Cardinality(BytesRead)
  /\ route = "trailing" => steps = 0

LEMMA ReadBound ==
  ASSUME NEW w \in Walks, NEW S \in SUBSET (Lookbehinds(w.program.code) \X (1 .. Len(w.text)))
  PROVE  /\ IsFiniteSet(S) /\ Cardinality(S) \in Nat
         /\ Cardinality(S) <= Len(w.text) * Cardinality(Lookbehinds(w.program.code))
  <1>1. PICK n \in Nat : n = Len(w.text)
    BY WalksAssumption, LenProperties
  <1>2. PICK c : c = w.program.code
    OBVIOUS
  <1>3. PICK L : L = Lookbehinds(c) /\ IsFiniteSet(L)
    <2>1. PICK m \in Nat : DOMAIN c = 1 .. m
      BY <1>2, WalksAssumption
    <2>2. IsFiniteSet(1 .. m)
      BY FS_Interval
    <2>3. Lookbehinds(c) \in SUBSET (1 .. m)
      BY <2>1 DEF Lookbehinds, Asserts
    <2>4. QED
      BY <2>2, <2>3, FS_Subset
  <1>4. IsFiniteSet(1 .. n) /\ Cardinality(1 .. n) = n
    BY FS_Interval
  <1>5. IsFiniteSet(L \X (1 .. n)) /\ Cardinality(L \X (1 .. n)) = Cardinality(L) * n
    BY <1>3, <1>4, FS_Product
  <1>6. S \in SUBSET (L \X (1 .. n))
    BY <1>1, <1>2, <1>3
  <1>7. IsFiniteSet(S) /\ Cardinality(S) <= Cardinality(L \X (1 .. n))
    BY <1>5, <1>6, FS_Subset
  <1>8. Cardinality(S) \in Nat /\ Cardinality(L) \in Nat
    BY <1>3, <1>7, FS_CardinalityType
  <1>9. Cardinality(L) * n = n * Cardinality(L)
    BY <1>8
  <1>10. QED
    BY <1>1, <1>2, <1>3, <1>5, <1>7, <1>8, <1>9

LEMMA ReadFinite ==
  ASSUME walk \in Walks
  PROVE  /\ IsFiniteSet(BytesRead) /\ Cardinality(BytesRead) \in Nat
         /\ Cardinality(BytesRead) <= Len(text) * Cardinality(Lookbehinds(code))
  <1>1. BytesRead \in SUBSET (Lookbehinds(walk.program.code) \X (1 .. Len(walk.text)))
    BY DEF BytesRead, text, code
  <1>2. QED
    BY <1>1, ReadBound DEF text, code

LEMMA WalkStands ==
  ASSUME walk \in Walks, ScratchFits, NEW pc \in Lookbehinds(code)
  PROVE  behind[pc].at = npos \/ behind[pc].at \in 0 .. Len(text)
  <1>1. PICK w : w = behind[pc] /\ FitWalk(code, text, code[pc].sub, w)
    BY DEF ScratchFits
  <1>2. Len(text) \in Nat /\ code[pc].sub.l_max \in Nat
    <2>1. pc \in Asserts(code) /\ 0 \in 0 .. Len(text)
      BY WalkFacts DEF Lookbehinds
    <2>2. QED
      BY <2>1, WalkFacts, LookFacts
  <1>3. CASE w = NotWalked
    BY <1>1, <1>3 DEF NotWalked
  <1>4. CASE w # NotWalked
    <2>1. PICK p \in 0 .. Len(text) : \E o \in 0 .. Origin(code[pc].sub, p) :
             w = Trip(code, text, {code[pc].sub.offset}, Begun(code, text, code[pc].sub, o), p)
      BY <1>1, <1>4 DEF FitWalk
    <2>2. PICK o \in 0 .. Origin(code[pc].sub, p) :
             w = Trip(code, text, {code[pc].sub.offset}, Begun(code, text, code[pc].sub, o), p)
      BY <2>1
    <2>3. Origin(code[pc].sub, p) \in 0 .. p
      BY <1>2, OriginFacts
    <2>4. PICK b : b = Begun(code, text, code[pc].sub, o) /\ b.at = o
      BY BegunAt
    <2>5. b.at \in Int /\ b.at <= p
      BY <2>3, <2>4
    <2>6. w.at = p
      BY <2>2, <2>4, <2>5, TripStands
    <2>7. QED
      BY <1>1, <2>6
  <1>5. QED
    BY <1>3, <1>4

\* A walk taken on stands where it was asked for, and steps over what was not read before.
LEMMA WalkedSteps ==
  ASSUME walk \in Walks, ScratchFits, NEW pc \in Lookbehinds(code), frontier \in Nat,
         NEW p \in 0 .. Len(text), frontier <= p
  PROVE  /\ Walked(code, text, code[pc].sub, behind[pc], p).at = p
         /\ Reach(pc) \in 0 .. p
         /\ WalkSteps(code[pc].sub, behind[pc], p) \in 0 .. p - Reach(pc)
  <1>1. PICK sub : sub = code[pc].sub
    OBVIOUS
  <1>2. PICK w : w = behind[pc]
    OBVIOUS
  <1>3. Len(text) \in Nat /\ sub.l_max \in Nat /\ p \in Nat
    <2>1. pc \in Asserts(code)
      BY DEF Lookbehinds
    <2>2. QED
      BY <1>1, <2>1, WalkFacts, LookFacts
  <1>4. PICK a \in Int : a = w.at /\ (a = npos \/ a \in 0 .. Len(text))
    BY <1>2, WalkStands DEF npos
  <1>5. PICK origin : origin = Origin(sub, p) /\ origin \in 0 .. p
    BY <1>3, OriginFacts
  <1>6. Walked(code, text, sub, w, p).at = p
    <2>1. TakenOn(code, text, sub, w, p)
      BY <1>1, <1>2, <1>3, WalkedFits DEF ScratchFits
    <2>2. PICK o \in 0 .. origin :
             Walked(code, text, sub, w, p) = Trip(code, text, {sub.offset}, Begun(code, text, sub, o), p)
      BY <1>5, <2>1 DEF TakenOn
    <2>3. PICK b : b = Begun(code, text, sub, o) /\ b.at = o
      BY BegunAt
    <2>4. b.at \in Int /\ b.at <= p
      BY <1>5, <2>3
    <2>5. QED
      BY <2>2, <2>3, <2>4, TripStands
  <1>7. PICK r : r = Reach(pc)
    OBVIOUS
  <1>8. r = (IF a \in 0 .. frontier THEN a ELSE 0) /\ r \in 0 .. p
    <2>1. r = (IF a \in 0 .. frontier THEN a ELSE 0)
      BY <1>2, <1>4, <1>7 DEF Reach
    <2>2. QED
      BY <1>3, <2>1
  <1>9. WalkSteps(sub, w, p) \in 0 .. p - r
    <2>1. WalkSteps(sub, w, p) = p - IF a # npos /\ origin <= a /\ a <= p THEN a ELSE origin
      BY <1>4, <1>5 DEF WalkSteps, KeepsWalk
    <2>2. QED
      BY <1>3, <1>4, <1>5, <1>8, <2>1 DEF npos
  <1>10. QED
    BY <1>1, <1>2, <1>6, <1>7, <1>8, <1>9

\* The bytes read grow by those stepped over.
LEMMA QueryPays ==
  ASSUME WalkTyped, StepsFit, AskLookaround
  PROVE  StepsFit'
  <1>1. PICK p \in frontier .. Len(text) : \E pc \in Asserts(code) : Query(pc, p) /\ frontier' = p
    BY DEF AskLookaround
  <1>2. PICK pc \in Asserts(code) : Query(pc, p) /\ frontier' = p
    BY <1>1
  <1>3. /\ walk' = walk /\ walk \in Walks /\ ScratchFits /\ route' = route /\ route # "trailing"
        /\ frontier \in Nat /\ frontier <= p /\ p \in 0 .. Len(text) /\ Len(text) \in Nat
    BY WalkFacts DEF AskLookaround, Chosen, WalkTyped, StageFits
  <1>4. PICK atom \in BOOLEAN : atom = single_atom_body(code, code[pc].sub)
    BY DEF single_atom_body
  <1>5. PICK L : L = Lookbehinds(code) /\ L = Lookbehinds(code')
    BY <1>3, SameSubject
  <1>6. PICK R : R = BytesRead
    OBVIOUS
  <1>7. PICK Q : Q = BytesRead'
    OBVIOUS
  <1>8. \A u : u \in R <=> u \in L \X (1 .. Len(text)) /\ u[2] <= Reach(u[1])
    BY <1>5, <1>6 DEF BytesRead
  <1>9. \A u : u \in Q <=> u \in L \X (1 .. Len(text)) /\ u[2] <= Reach(u[1])'
    <2>1. text' = text
      BY <1>3, SameSubject
    <2>2. QED
      BY <1>5, <1>7, <2>1 DEF BytesRead
  <1>10. \A k \in L : Reach(k) \in 0 .. p
    BY <1>3, <1>5, WalkedSteps
  <1>11. IsFiniteSet(R) /\ Cardinality(R) \in Nat /\ steps \in Nat /\ steps <= Cardinality(R)
    BY <1>3, <1>6, ReadFinite DEF StepsFit
  <1>12. IsFiniteSet(Q) /\ Cardinality(Q) \in Nat
    <2>1. Q \in SUBSET (Lookbehinds(walk.program.code) \X (1 .. Len(walk.text)))
      BY <1>5, <1>9 DEF text, code
    <2>2. QED
      BY <1>3, <2>1, ReadBound
  <1>13. Ask(code, text, pc, p)
    BY <1>2 DEF Query
  <1>14. CASE ~(pc \in L /\ ~atom)
    <2>1. behind' = behind
      BY <1>4, <1>5, <1>13, <1>14 DEF Ask
    <2>2. steps' = steps + 0
      BY <1>2, <1>4, <1>5, <1>14 DEF Query
    <2>3. \A k \in L : Reach(k)' \in Int /\ Reach(k) <= Reach(k)'
      <3>1. ASSUME NEW k \in L PROVE Reach(k)' \in Int /\ Reach(k) <= Reach(k)'
        <4>1. PICK a : a = behind[k].at
          OBVIOUS
        <4>2. Reach(k) = (IF a \in 0 .. frontier THEN a ELSE 0)
          BY <4>1 DEF Reach
        <4>3. Reach(k)' = (IF a \in 0 .. p THEN a ELSE 0)
          BY <1>2, <2>1, <4>1 DEF Reach
        <4>4. QED
          BY <1>3, <4>2, <4>3
      <3>2. QED
        BY <3>1
    <2>4. R \in SUBSET Q
      <3>1. ASSUME NEW u \in R PROVE u \in Q
        <4>1. PICK k \in L, q \in 1 .. Len(text) : u = <<k, q>> /\ q <= Reach(k)
          BY <1>8
        <4>2. q <= Reach(k)'
          BY <1>3, <1>10, <2>3, <4>1
        <4>3. QED
          BY <1>9, <4>1, <4>2
      <3>2. QED
        BY <3>1
    <2>5. Cardinality(R) <= Cardinality(Q)
      BY <1>12, <2>4, FS_Subset
    <2>6. QED
      BY <1>3, <1>7, <1>11, <1>12, <2>2, <2>5 DEF StepsFit
  <1>15. CASE pc \in L /\ ~atom
    <2>1. PICK w : w = Walked(code, text, code[pc].sub, behind[pc], p)
      OBVIOUS
    <2>2. behind' = [behind EXCEPT ![pc] = w] /\ DOMAIN behind = L
      BY <1>3, <1>4, <1>5, <1>13, <1>15, <2>1 DEF Ask, ScratchFits
    <2>3. PICK cost : cost = WalkSteps(code[pc].sub, behind[pc], p)
      OBVIOUS
    <2>4. steps' = steps + cost
      BY <1>2, <1>4, <1>5, <1>15, <2>3 DEF Query
    <2>5. PICK r : r = Reach(pc)
      OBVIOUS
    <2>6. w.at = p /\ r \in 0 .. p /\ cost \in 0 .. p - r
      BY <1>3, <1>5, <1>15, <2>1, <2>3, <2>5, WalkedSteps
    <2>7. Reach(pc)' = p
      <3>1. behind'[pc].at = p
        BY <1>15, <2>2, <2>6
      <3>2. p \in 0 .. p
        BY <1>3
      <3>3. QED
        BY <1>2, <3>1, <3>2 DEF Reach
    <2>8. \A k \in L : Reach(k)' \in Int /\ Reach(k) <= Reach(k)'
      <3>1. ASSUME NEW k \in L, k # pc PROVE Reach(k)' \in Int /\ Reach(k) <= Reach(k)'
        <4>1. PICK a : a = behind[k].at /\ behind'[k].at = a
          BY <2>2, <3>1
        <4>2. Reach(k) = (IF a \in 0 .. frontier THEN a ELSE 0)
          BY <4>1 DEF Reach
        <4>3. Reach(k)' = (IF a \in 0 .. p THEN a ELSE 0)
          BY <1>2, <4>1 DEF Reach
        <4>4. QED
          BY <1>3, <4>2, <4>3
      <3>2. Reach(pc)' \in Int /\ Reach(pc) <= Reach(pc)'
        BY <1>3, <2>5, <2>6, <2>7
      <3>3. QED
        BY <3>1, <3>2
    <2>9. PICK W : W = {pc} \X (r + 1 .. p)
      OBVIOUS
    <2>10. IsFiniteSet(W) /\ Cardinality(W) = p - r
      <3>1. IsFiniteSet({pc}) /\ Cardinality({pc}) = 1
        BY FS_Singleton
      <3>2. IsFiniteSet(r + 1 .. p) /\ Cardinality(r + 1 .. p) = p - r
        <4>1. PICK a \in Int : a = r + 1
          BY <2>6
        <4>5. p \in Int
          BY <1>3
        <4>2. IsFiniteSet(a .. p) /\ Cardinality(a .. p) = IF a > p THEN 0 ELSE p - a + 1
          BY ONLY a \in Int, <4>5, FS_Interval
        <4>3. (IF a > p THEN 0 ELSE p - a + 1) = p - r
          BY <1>3, <2>6, <4>1
        <4>4. QED
          BY <4>1, <4>2, <4>3
      <3>3. IsFiniteSet(W) /\ Cardinality(W) = 1 * (p - r)
        <4>1. PICK S, T : S = {pc} /\ T = r + 1 .. p
          OBVIOUS
        <4>2. IsFiniteSet(S) /\ IsFiniteSet(T) /\ Cardinality(S) = 1 /\ Cardinality(T) = p - r
          BY <3>1, <3>2, <4>1
        <4>3. IsFiniteSet(S \X T) /\ Cardinality(S \X T) = Cardinality(S) * Cardinality(T)
          BY ONLY <4>2, FS_Product
        <4>4. QED
          BY <2>9, <4>1, <4>2, <4>3
      <3>4. QED
        BY <1>3, <2>6, <3>3
    <2>11. R \cap W = {}
      <3>1. ASSUME NEW u \in R, u \in W PROVE FALSE
        <4>1. PICK q \in r + 1 .. p : u = <<pc, q>>
          BY <2>9, <3>1
        <4>2. u[1] = pc /\ u[2] = q
          BY <4>1
        <4>3. q <= r
          BY <1>8, <2>5, <3>1, <4>2
        <4>4. QED
          BY <1>3, <2>6, <4>1, <4>3
      <3>2. QED
        BY <3>1
    <2>12. R \cup W \in SUBSET Q
      <3>1. ASSUME NEW u \in R PROVE u \in Q
        <4>1. PICK k \in L, q \in 1 .. Len(text) : u = <<k, q>> /\ q <= Reach(k)
          BY <1>8
        <4>2. q <= Reach(k)'
          BY <1>3, <1>10, <2>8, <4>1
        <4>3. QED
          BY <1>9, <4>1, <4>2
      <3>2. ASSUME NEW u \in W PROVE u \in Q
        <4>1. PICK q \in r + 1 .. p : u = <<pc, q>>
          BY <2>9
        <4>2. q \in 1 .. Len(text) /\ q <= p
          BY <1>3, <2>6, <4>1
        <4>3. QED
          BY <1>9, <1>15, <2>7, <4>1, <4>2
      <3>3. QED
        BY <3>1, <3>2
    <2>13. Cardinality(R \cup W) = Cardinality(R) + (p - r) - 0
      <3>1. Cardinality(R \cup W) = Cardinality(R) + Cardinality(W) - Cardinality(R \cap W)
        BY <1>11, <2>10, FS_Union
      <3>2. Cardinality(R \cap W) = 0
        BY <2>11, FS_EmptySet
      <3>3. QED
        BY <2>10, <3>1, <3>2
    <2>14. Cardinality(R \cup W) <= Cardinality(Q)
      BY <1>12, <2>12, FS_Subset
    <2>15. PICK had \in Nat : had = Cardinality(R)
      BY <1>11
    <2>16. PICK has \in Nat : has = Cardinality(Q)
      BY <1>12
    <2>17. steps + cost \in Nat /\ steps + cost <= has
      BY <1>3, <1>11, <2>6, <2>13, <2>14, <2>15, <2>16
    <2>18. QED
      BY <1>3, <1>7, <2>4, <2>16, <2>17 DEF StepsFit
  <1>16. QED
    BY <1>14, <1>15

LEMMA StartPays ==
  ASSUME walk \in Walks, walk' = walk, steps' = 0
  PROVE  StepsFit'
  <1>1. BytesRead' \in SUBSET (Lookbehinds(walk.program.code) \X (1 .. Len(walk.text)))
    BY DEF BytesRead, text, code
  <1>2. PICK read \in Nat : read = Cardinality(BytesRead')
    BY <1>1, ReadBound
  <1>3. QED
    BY <1>2 DEF StepsFit

LEMMA IdlePays ==
  ASSUME walk' = walk, StepsFit, UNCHANGED <<route, behind, frontier, steps>>
  PROVE  StepsFit'
  <1>1. BytesRead' = BytesRead
    BY SameSubject DEF BytesRead, Reach
  <1>2. QED
    BY <1>1 DEF StepsFit

LEMMA NextPays ==
  ASSUME WalkTyped, StepsFit, [Next]_vars
  PROVE  StepsFit'
  <1>1. walk \in Walks
    BY DEF WalkTyped
  <1>2. CASE HandBuffered \/ CountBuffered \/ Answered \/ AnsweredBySweep \/ ScanRun \/ UNCHANGED vars
    <2>1. walk' = walk /\ UNCHANGED <<route, behind, frontier, steps>>
      BY <1>2 DEF HandBuffered, CountBuffered, Answered, AnsweredBySweep, Conclude, ScanRun, NoSearch, Chosen,
                  scratch, vars
    <2>2. QED
      BY <2>1, IdlePays
  <1>3. CASE Refill \/ Search
    <2>1. walk' = walk /\ route' = route
      BY <1>3 DEF Refill, Search, Chosen
    <2>2. steps' = 0 \/ UNCHANGED <<behind, frontier, steps>>
      BY <1>3 DEF Refill, Search, BeginSearch, NoSearch, scratch
    <2>3. QED
      BY <1>1, <2>1, <2>2, StartPays, IdlePays
  <1>4. CASE AskLookaround
    BY <1>4, QueryPays
  <1>5. CASE TryEnd
    <2>1. /\ walk' = walk /\ route = "trailing" /\ TrailingAssert(code) \notin Lookbehinds(code)
          /\ Query(TrailingAssert(code), run.end)
      BY <1>5, TryAsks
    <2>2. steps' = steps + 0
      BY <2>1 DEF Query
    <2>3. steps' = 0
      BY <2>1, <2>2 DEF StepsFit
    <2>4. QED
      BY <1>1, <2>1, <2>3, StartPays
  <1>6. QED
    BY <1>2, <1>3, <1>4, <1>5 DEF Next, Step, Over

LEMMA StepsBounded ==
  ASSUME WalkTyped, StepsFit
  PROVE  ReadsEachByteOnce
  <1>1. PICK read \in Nat : read = Cardinality(BytesRead) /\ read <= Len(text) * Cardinality(Lookbehinds(code))
    BY ReadFinite DEF WalkTyped
  <1>2. PICK bound : bound = Len(text) * Cardinality(Lookbehinds(code)) /\ bound \in Int
    <2>1. Len(text) \in Nat
      BY WalkFacts DEF WalkTyped
    <2>3. IsFiniteSet(Lookbehinds(code))
      <3>1. PICK m \in Nat : DOMAIN code = 1 .. m
        BY WalkFacts DEF WalkTyped
      <3>2. IsFiniteSet(1 .. m)
        BY FS_Interval
      <3>3. Lookbehinds(code) \subseteq 1 .. m
        BY <3>1 DEF Lookbehinds, Asserts
      <3>4. QED
        BY ONLY <3>2, <3>3, FS_Subset
    <2>4. Cardinality(Lookbehinds(code)) \in Nat
      BY <2>3, FS_CardinalityType
    <2>5. QED
      BY <2>1, <2>4
  <1>3. steps <= bound
    BY <1>1, <1>2 DEF StepsFit
  <1>4. QED
    BY <1>2, <1>3 DEF ReadsEachByteOnce

\* However large its bound, a search steps a lookbehind over each byte of the subject once at most.
THEOREM BytesReadOnce == Spec => []ReadsEachByteOnce
  <1>1. Init => StepsFit
    <2>1. SUFFICES ASSUME Init PROVE StepsFit
      OBVIOUS
    <2>2. PICK read \in Nat : read = Cardinality(BytesRead)
      BY <2>1, ReadFinite DEF Init
    <2>3. QED
      BY <2>1, <2>2 DEF Init, StepsFit
  <1>2. WalkTyped /\ StepsFit /\ [Next]_vars => StepsFit'
    BY NextPays
  <1>3. WalkTyped /\ StepsFit => ReadsEachByteOnce
    BY StepsBounded
  <1>4. QED
    BY <1>1, <1>2, <1>3, TypedAlways, PTL DEF Spec

-----------------------------------------------------------------------------
(* The matches in order: what was handed out, what is buffered, what is    *)
(* left.                                                                   *)

\* The first n matches are handed out, and the walk stands behind them.
Handed(w, n, had, at, ban) ==
  /\ n \in 0 .. Len(w.matches)
  /\ had = Part(w.matches, 0, n)
  /\ at = PosAfter(w, n) /\ ban = ForbidAfter(w, n)

\* The next are buffered, once no batch will follow all.
Buffered(w, n, spans, spent, partial) ==
  \E k \in n .. Len(w.matches) :
    /\ spans = Part(w.matches, n, k)
    /\ spent => k = Len(w.matches) /\ partial = FALSE

\* The walk is over, or in a search, with nothing buffered.
Closed(n) ==
  /\ done => n = Len(walk.matches) /\ batch = <<>>
  /\ stage # "walking" => batch = <<>> /\ done = FALSE
  /\ batch # <<>> => batch_eligible

\* No class run that starts from one place up to another has an end.
NoEnds(w, from, to) == \A s \in from .. to - 1 : Ends(w, s) = {}

\* The trailing walk has passed no match by, and no end farther back in the run.
Tried ==
  /\ stage # "trying" => run = None
  /\ stage = "trying" =>
       IF run = None THEN NoEnds(walk, pos, frontier) /\ frontier >= pos
       ELSE /\ NoEnds(walk, pos, run.start)
            /\ Width(code, text, run.start) > 0 /\ run.start >= pos
            /\ run.end \in Stops(code, text, run.start)
            /\ \A e \in Ends(walk, run.start) : e <= run.end

InOrder ==
  /\ \E n \in 0 .. Len(walk.matches) :
       /\ Handed(walk, n, yielded, pos, forbid_empty_until)
       /\ Buffered(walk, n, batch, batch_spent, batch_partial)
       /\ Closed(n)
  /\ Tried

LEMMA MatchPart ==
  ASSUME NEW w \in Walks, NEW n \in 0 .. Len(w.matches), NEW k \in n .. Len(w.matches)
  PROVE  PartFits(SpansIn(w.text), w.matches, n, k)
  BY MatchFacts, PartFacts

LEMMA MatchCount ==
  ASSUME NEW w \in Walks
  PROVE  \E size \in Nat : size = Len(w.matches)
  BY MatchFacts

\* One match more.
LEMMA HandsNext ==
  ASSUME NEW w \in Walks, NEW n \in 0 .. Len(w.matches) - 1, NEW had, had = Part(w.matches, 0, n),
         NEW m, m = w.matches[n + 1]
  PROVE  /\ n + 1 \in 0 .. Len(w.matches)
         /\ Handed(w, n + 1, Append(had, m), m.end,
                   IF m.start = m.end THEN NextBoundary(w.text, m.end) ELSE 0)
  <1>1. PICK size \in Nat : size = Len(w.matches)
    BY MatchCount
  <1>2. n \in Nat /\ n < size /\ 0 \in 0 .. Len(w.matches) /\ n \in 0 .. Len(w.matches)
    BY <1>1
  <1>3. PartFits(SpansIn(w.text), w.matches, 0, n)
    BY <1>2, MatchPart
  <1>4. Append(had, m) = Part(w.matches, 0, n + 1)
    BY <1>1, <1>2, <1>3 DEF PartFits
  <1>5. PICK q \in Nat : q = n + 1 /\ q > 0 /\ q # 0
    BY <1>2
  <1>6. m.end = PosAfter(w, q)
    BY <1>5 DEF PosAfter
  <1>7. (IF m.start = m.end THEN NextBoundary(w.text, m.end) ELSE 0) = ForbidAfter(w, q)
    BY <1>5 DEF ForbidAfter
  <1>8. q \in 0 .. Len(w.matches)
    BY <1>1, <1>2, <1>5
  <1>9. QED
    BY <1>4, <1>5, <1>6, <1>7, <1>8 DEF Handed

LEMMA HandOutNext ==
  ASSUME walk \in Walks, walk' = walk, NEW n \in 0 .. Len(walk.matches) - 1,
         Handed(walk, n, yielded, pos, forbid_empty_until), NEW m, m = walk.matches[n + 1], HandOut(m)
  PROVE  /\ n + 1 \in 0 .. Len(walk.matches)
         /\ Handed(walk', n + 1, yielded', pos', forbid_empty_until')
  <1>1. yielded = Part(walk.matches, 0, n)
    BY DEF Handed
  <1>2. /\ yielded' = Append(yielded, m) /\ pos' = m.end
        /\ forbid_empty_until' = IF m.start = m.end THEN NextBoundary(walk.text, m.end) ELSE 0
    BY DEF HandOut, text
  <1>3. QED
    BY <1>1, <1>2, HandsNext

\* The first of what is buffered is the next match, and the rest follows it.
LEMMA BufferedNext ==
  ASSUME NEW w \in Walks, NEW n \in 0 .. Len(w.matches), NEW k \in n .. Len(w.matches), NEW spans,
         spans = Part(w.matches, n, k), spans # <<>>
  PROVE  /\ n \in 0 .. Len(w.matches) - 1 /\ k \in n + 1 .. Len(w.matches)
         /\ Head(spans) = w.matches[n + 1] /\ Tail(spans) = Part(w.matches, n + 1, k)
         /\ Last(spans) = w.matches[k]
  <1>1. PICK size \in Nat : size = Len(w.matches)
    BY MatchCount
  <1>2. PartFits(SpansIn(w.text), w.matches, n, k)
    BY MatchPart
  <1>3. k # n
    BY <1>2 DEF PartFits
  <1>4. k > n
    BY <1>1, <1>3
  <1>5. QED
    BY <1>1, <1>2, <1>4 DEF PartFits

\* A fill is what comes next, all of it if the filler says so.
FillOrdered(n, fill) ==
  \E m \in n .. Len(walk.matches) :
    /\ fill.spans = Part(walk.matches, n, m)
    /\ fill.partial = FALSE /\ m - n < batch_cap => m = Len(walk.matches)

LEMMA EmptyOrdered ==
  ASSUME walk \in Walks, NEW n \in 0 .. Len(walk.matches), NEW fill, fill.spans = <<>>,
         fill.partial = FALSE => n = Len(walk.matches)
  PROVE  FillOrdered(n, fill)
  <1>1. PICK size \in Nat : size = Len(walk.matches)
    BY MatchCount
  <1>2. n \in n .. Len(walk.matches)
    BY <1>1
  <1>3. Part(walk.matches, n, n) = <<>>
    BY <1>2, MatchPart DEF PartFits
  <1>4. QED
    BY <1>2, <1>3 DEF FillOrdered

\* Where nothing empty is matched, the answer at a match's end is the next match.
LEMMA NextFound ==
  ASSUME NEW w \in Walks, NeverEmpty(w), NEW n \in 0 .. Len(w.matches)
  PROVE  /\ FindAt(w, PosAfter(w, n), 0) = IF n < Len(w.matches) THEN w.matches[n + 1] ELSE None
         /\ FindAt(w, PosAfter(w, n), 0) = None <=> n = Len(w.matches)
  <1>1. ForbidAfter(w, n) = 0
    BY NoneEmpty
  <1>2. FindAt(w, PosAfter(w, n), ForbidAfter(w, n)) = IF n < Len(w.matches) THEN w.matches[n + 1] ELSE None
    BY MatchFacts
  <1>3. PICK size \in Nat : size = Len(w.matches)
    BY MatchCount
  <1>4. n < Len(w.matches) => w.matches[n + 1] # None
    <2>1. n < size => n \in 0 .. Len(w.matches) - 1
      BY <1>3
    <2>2. QED
      BY <1>3, <2>1, MatchGiven
  <1>5. QED
    BY <1>1, <1>2, <1>3, <1>4

\* The sweep's answer is the search's.
LEMMA SweptRight ==
  ASSUME walk \in Walks, walk.sweep # <<>>, SweepAnswers, route = "inner_literal", NEW q \in 0 .. Len(text)
  PROVE  LET sweep == walk.sweep[q]
         IN /\ SweptTo(q) = None \/ SweptTo(q) = FindAt(walk, q, 0)
            /\ sweep.outcome = "matched" => SweptTo(q) = FindAt(walk, q, 0)
            /\ sweep.outcome = "spent" => FindAt(walk, q, 0) = None /\ SweptTo(q) = None
  <1>1. PICK sweep : sweep = walk.sweep[q]
    OBVIOUS
  <1>2. /\ sweep.outcome = "matched" => sweep.slots = walk.slots[q]
        /\ sweep.outcome = "spent" => walk.slots[q] = None
    BY <1>1 DEF SweepAnswers
  <1>3. /\ FindAt(walk, q, 0) =
             IF walk.slots[q] = None THEN None ELSE Span(walk.slots[q][0], walk.slots[q][1])
        /\ sweep.outcome = "matched" => sweep.slots # None
    BY <1>1, SweepsAssumption DEF text
  <1>4. SweptTo(q) = IF sweep.outcome = "matched" THEN Span(sweep.slots[0], sweep.slots[1]) ELSE None
    BY <1>1 DEF SweptTo
  <1>5. sweep.outcome = "matched" => SweptTo(q) = FindAt(walk, q, 0)
    BY <1>2, <1>3, <1>4
  <1>6. QED
    BY <1>1, <1>2, <1>3, <1>4, <1>5

LEMMA AheadOrdered ==
  ASSUME walk \in Walks, NeverEmpty(walk), NEW n \in 0 .. Len(walk.matches), pos = PosAfter(walk, n),
         NEW k \in 0 .. batch_cap
  PROVE  \E m \in n .. Len(walk.matches) :
           /\ Ahead(pos)[k] = Part(walk.matches, n, m) /\ m - n <= k
           /\ m - n < k => m = Len(walk.matches)
  <1>1. PICK next : next = [from \in 0 .. Len(text) |-> FindAt(walk, from, 0)]
    OBVIOUS
  <1>2. PICK size \in Nat : size = Len(walk.matches)
    BY MatchCount
  <1>3. ASSUME NEW m \in n .. size PROVE next[PosAfter(walk, m)] = FindAt(walk, PosAfter(walk, m), 0)
    <2>1. m \in 0 .. Len(walk.matches)
      BY <1>2
    <2>2. PosAfter(walk, m) \in 0 .. Len(text)
      BY <2>1, MatchFacts DEF text
    <2>3. QED
      BY <1>1, <2>2
  <1>4. ASSUME NEW m \in n .. size
        PROVE  /\ \/ next[PosAfter(walk, m)] = None
                  \/ m < size /\ next[PosAfter(walk, m)] = walk.matches[m + 1]
               /\ next[PosAfter(walk, m)] = None => m = size
    <2>1. m \in 0 .. Len(walk.matches)
      BY <1>2
    <2>2. QED
      BY <1>2, <1>3, <2>1, NextFound
  <1>5. Ordered(walk, n, next, Chain(PosAfter(walk, n), next)[k], k)
    BY <1>2, <1>4, ChainIsMatches
  <1>6. Ahead(pos) = Chain(PosAfter(walk, n), next)
    BY <1>1 DEF Ahead
  <1>7. QED
    BY <1>2, <1>4, <1>5, <1>6 DEF Ordered

LEMMA SweptOrdered ==
  ASSUME walk \in Walks, NeverEmpty(walk), walk.sweep # <<>>, SweepAnswers, route = "inner_literal",
         NEW n \in 0 .. Len(walk.matches), pos = PosAfter(walk, n), NEW k \in 0 .. batch_cap
  PROVE  \E m \in n .. Len(walk.matches) : Swept(pos)[k] = Part(walk.matches, n, m)
  <1>1. PICK next : next = [from \in 0 .. Len(text) |-> SweptTo(from)]
    OBVIOUS
  <1>2. PICK size \in Nat : size = Len(walk.matches)
    BY MatchCount
  <1>3. ASSUME NEW m \in n .. size
        PROVE  \/ next[PosAfter(walk, m)] = None
               \/ m < size /\ next[PosAfter(walk, m)] = walk.matches[m + 1]
    <2>1. m \in 0 .. Len(walk.matches)
      BY <1>2
    <2>2. PICK q \in 0 .. Len(text) : q = PosAfter(walk, m)
      BY <2>1, MatchFacts DEF text
    <2>3. next[q] = SweptTo(q) /\ (SweptTo(q) = None \/ SweptTo(q) = FindAt(walk, q, 0))
      BY <1>1, SweptRight
    <2>4. FindAt(walk, q, 0) = IF m < size THEN walk.matches[m + 1] ELSE None
      BY <1>2, <2>1, <2>2, NextFound
    <2>5. QED
      BY <2>2, <2>3, <2>4
  <1>4. Ordered(walk, n, next, Chain(PosAfter(walk, n), next)[k], k)
    BY <1>2, <1>3, ChainIsMatches
  <1>5. Swept(pos) = Chain(PosAfter(walk, n), next)
    BY <1>1 DEF Swept
  <1>6. QED
    BY <1>4, <1>5 DEF Ordered

LEMMA FillsOrdered ==
  ASSUME WalkTyped, SweepAnswers, route \in Batched, NEW n \in 0 .. Len(walk.matches), pos = PosAfter(walk, n),
         batch_spent => n = Len(walk.matches) /\ batch_partial = FALSE, NEW fill \in refill_batch
  PROVE  FillOrdered(n, fill)
  <1>1. /\ walk \in Walks /\ NeverEmpty(walk) /\ FlagsFit /\ pos \in 0 .. Len(text)
        /\ route = "inner_literal" => walk.sweep # <<>>
    BY DEF WalkTyped, RouteFits, PlaceFits
  <1>2. PICK size \in Nat : size = Len(walk.matches)
    BY <1>1, MatchCount
  <1>3. n \in Nat /\ n <= size
    BY <1>2
  <1>4. PICK M : M = walk.matches
    OBVIOUS
  <1>5. FillKind(fill)
    BY <1>1, FillKinds
  <1>6. CASE batch_spent /\ fill.spans = <<>> /\ fill.partial = batch_partial
    BY <1>1, <1>6, EmptyOrdered
  <1>7. CASE fill.spans = <<>> /\ fill.partial = TRUE
    BY <1>1, <1>7, EmptyOrdered
  <1>8. ASSUME NEW k \in 0 .. batch_cap, fill.spans = Ahead(pos)[k],
               \/ fill.partial = TRUE
               \/ k = batch_cap
               \/ k < batch_cap /\ Len(Ahead(pos)[k + 1]) = Len(fill.spans)
        PROVE  FillOrdered(n, fill)
    <2>1. PICK m \in n .. size :
            /\ Ahead(pos)[k] = Part(M, n, m) /\ m - n <= k
            /\ m - n < k => m = size
      BY <1>1, <1>2, <1>4, AheadOrdered
    <2>2. CASE fill.partial = TRUE \/ k = batch_cap
      BY <1>2, <1>4, <1>8, <2>1, <2>2 DEF FillOrdered
    <2>3. CASE k < batch_cap /\ Len(Ahead(pos)[k + 1]) = Len(fill.spans)
      <3>1. PICK j \in 0 .. batch_cap : j = k + 1 /\ k \in Nat
        BY <2>3, CapAssumption
      <3>2. PICK o \in n .. size :
              /\ Ahead(pos)[j] = Part(M, n, o) /\ o - n <= j
              /\ o - n < j => o = size
        BY <1>1, <1>2, <1>4, AheadOrdered
      <3>3. Len(Part(M, n, m)) = m - n /\ Len(Part(M, n, o)) = o - n
        BY <1>1, <1>2, <1>4, MatchPart DEF PartFits
      <3>4. m - n = o - n
        BY <1>8, <2>1, <2>3, <3>1, <3>2, <3>3
      <3>5. m = size
        BY <1>3, <2>1, <3>1, <3>2, <3>4
      <3>6. QED
        BY <1>2, <1>4, <1>8, <2>1, <3>5 DEF FillOrdered
    <2>4. QED
      BY <1>8, <2>2, <2>3
  <1>9. ASSUME route = "inner_literal", NEW k \in 0 .. batch_cap, fill.spans = Swept(pos)[k],
               \/ fill.partial = TRUE
               \/ walk.sweep[IF fill.spans = <<>> THEN pos ELSE Last(fill.spans).end].outcome = "spent"
        PROVE  FillOrdered(n, fill)
    <2>1. PICK m \in n .. size : fill.spans = Part(M, n, m)
      BY <1>1, <1>2, <1>4, <1>9, SweptOrdered
    <2>2. CASE fill.partial = TRUE
      BY <1>2, <1>4, <2>1, <2>2 DEF FillOrdered
    <2>3. CASE walk.sweep[IF fill.spans = <<>> THEN pos ELSE Last(fill.spans).end].outcome = "spent"
      <3>1. m \in 0 .. Len(walk.matches) /\ m \in n .. Len(walk.matches)
        BY <1>2, <1>3
      <3>2. PICK q \in 0 .. Len(text) : q = PosAfter(walk, m)
        BY <1>1, <3>1, MatchFacts DEF text
      <3>3. (IF fill.spans = <<>> THEN pos ELSE Last(fill.spans).end) = q
        <4>1. CASE fill.spans = <<>>
          <5>1. PartFits(SpansIn(walk.text), M, n, m)
            BY <1>1, <1>4, <3>1, MatchPart
          <5>2. m = n
            BY <2>1, <4>1, <5>1 DEF PartFits
          <5>3. QED
            BY <3>2, <4>1, <5>2
        <4>2. CASE fill.spans # <<>>
          <5>1. Last(fill.spans) = M[m] /\ m \in n + 1 .. Len(walk.matches)
            BY <1>1, <1>4, <2>1, <3>1, <4>2, BufferedNext
          <5>2. m # 0
            BY <1>3, <5>1
          <5>3. QED
            BY <1>4, <3>2, <4>2, <5>1, <5>2 DEF PosAfter
        <4>3. QED
          BY <4>1, <4>2
      <3>4. FindAt(walk, q, 0) = None
        BY <1>1, <1>9, <2>3, <3>3, SweptRight
      <3>5. m = Len(walk.matches)
        BY <1>1, <3>1, <3>2, <3>4, NextFound
      <3>6. QED
        BY <1>2, <1>4, <2>1, <3>1, <3>5 DEF FillOrdered
    <2>4. QED
      BY <1>9, <2>2, <2>3
  <1>10. QED
    BY <1>5, <1>6, <1>7, <1>8, <1>9 DEF FillKind

-----------------------------------------------------------------------------
(* What the trailing walk passes by is no match.                           *)

LEMMA EndFacts ==
  ASSUME walk \in Walks, NEW s
  PROVE  \A e : e \in Ends(walk, s) <=>
                  e \in Stops(code, text, s) /\ s < e /\ e \in walk.holds[TrailingAssert(code)]
  BY DEF Ends, text, code

\* Only a class run has ends.
LEMMA EndsOfRuns ==
  ASSUME walk \in Walks, NEW s \in 0 .. Len(text), Ends(walk, s) # {}
  PROVE  Width(code, text, s) > 0 /\ s < ScanEnd(code, text, s)
  <1>1. text \in Seq(Bytes) /\ Len(text) \in Nat
    BY WalkFacts
  <1>2. PICK e : e \in Stops(code, text, s) /\ s < e
    BY EndFacts
  <1>3. PICK last : last = ScanEnd(code, text, s)
    OBVIOUS
  <1>4. PICK stops : stops = Stops(code, text, s)
    OBVIOUS
  <1>5. /\ last \in s .. Len(text) /\ s \in stops
        /\ \A x \in stops : x \in s .. last
        /\ \A x \in stops : x < last => Width(code, text, x) > 0
    BY <1>1, <1>3, <1>4, StopFacts DEF StopsFit
  <1>6. e \in s .. last
    BY <1>2, <1>4, <1>5
  <1>7. s < last
    BY <1>1, <1>2, <1>5, <1>6
  <1>8. QED
    BY <1>3, <1>5, <1>7

\* A run without an end has none from within it either.
LEMMA NoEndsWithin ==
  ASSUME walk \in Walks, NEW s \in 0 .. Len(text), Ends(walk, s) = {},
         NEW x \in s .. ScanEnd(code, text, s) - 1
  PROVE  Ends(walk, x) = {}
  <1>1. SUFFICES ASSUME Ends(walk, x) # {} PROVE FALSE
    OBVIOUS
  <1>2. text \in Seq(Bytes) /\ Len(text) \in Nat
    BY WalkFacts
  <1>3. PICK last : last = ScanEnd(code, text, s)
    OBVIOUS
  <1>4. last \in s .. Len(text) /\ \A q \in s .. last : MayEnd(code, text, q) => q \in Stops(code, text, s)
    BY <1>2, <1>3, StopFacts DEF StopsFit
  <1>5. x \in 0 .. Len(text) /\ x \in s .. last /\ s <= x
    BY <1>2, <1>3, <1>4
  <1>6. Width(code, text, x) > 0
    BY <1>1, <1>5, EndsOfRuns
  <1>7. MayEnd(code, text, x)
    BY <1>2, <1>5, <1>6, WidthFits DEF MemberFits
  <1>8. x \in Stops(code, text, s)
    BY <1>4, <1>5, <1>7
  <1>9. PICK e : e \in Stops(code, text, x) /\ x < e /\ e \in walk.holds[TrailingAssert(code)]
    BY <1>1, EndFacts
  <1>10. e \in Stops(code, text, s)
    BY <1>2, <1>8, <1>9, StopsOn
  <1>11. e \in s .. last
    BY <1>2, <1>3, <1>10, StopFacts DEF StopsFit
  <1>12. s < e
    BY <1>5, <1>9, <1>11
  <1>13. e \in Ends(walk, s)
    BY <1>9, <1>10, <1>12, EndFacts
  <1>14. QED
    BY <1>13

LEMMA TrailingFinds ==
  ASSUME walk \in Walks, trailing_lookaround(code), NEW p \in 0 .. Len(text), NEW s \in p .. Len(text),
         NoEnds(walk, p, s), NEW e \in Ends(walk, s), \A x \in Ends(walk, s) : x <= e
  PROVE  FindAt(walk, p, 0) = Span(s, e)
  <1>1. text \in Seq(Bytes) /\ Len(text) \in Nat
    BY WalkFacts
  <1>2. PICK starts : starts = {q \in p .. Len(text) : Ends(walk, q) # {}}
    OBVIOUS
  <1>3. FindAt(walk, p, 0) = IF starts = {} THEN None ELSE Span(Min(starts), Max(Ends(walk, Min(starts))))
    BY <1>2, TrailingAssumption DEF text, code
  <1>4. s \in starts
    BY <1>2
  <1>5. Min(starts) = s
    <2>1. starts \in SUBSET Nat
      BY <1>1, <1>2
    <2>2. PICK m : m = Min(starts) /\ m \in starts /\ \A q \in starts : m <= q
      BY <1>4, <2>1, MinIsLeast
    <2>3. m \in p .. Len(text) /\ m <= s /\ Ends(walk, m) # {}
      BY <1>2, <1>4, <2>2
    <2>4. ~(m \in p .. s - 1)
      BY <2>3 DEF NoEnds
    <2>5. m = s
      BY <1>1, <2>3, <2>4
    <2>6. QED
      BY <2>2, <2>5
  <1>6. Max(Ends(walk, s)) = e
    <2>1. PICK n \in Nat : n = Len(text)
      BY <1>1
    <2>2. Ends(walk, s) \in SUBSET (0 .. n)
      <3>1. s \in 0 .. Len(text)
        BY <1>1
      <3>4. PICK last : last = ScanEnd(code, text, s)
        OBVIOUS
      <3>5. last \in s .. Len(text) /\ \A x \in Stops(code, text, s) : x \in s .. last
        BY <1>1, <3>1, <3>4, StopFacts DEF StopsFit
      <3>2. \A x \in Stops(code, text, s) : x \in 0 .. n
        BY <1>1, <2>1, <3>1, <3>5
      <3>3. QED
        BY <3>2, EndFacts
    <2>3. PICK m : m = Max(Ends(walk, s)) /\ m \in Ends(walk, s) /\ \A x \in Ends(walk, s) : x <= m
      BY <2>2, MaxIsMost
    <2>4. m <= e /\ e <= m /\ m \in Int /\ e \in Int
      BY <2>1, <2>2, <2>3
    <2>5. QED
      BY <2>3, <2>4
  <1>7. QED
    BY <1>3, <1>4, <1>5, <1>6

LEMMA TrailingEnds ==
  ASSUME walk \in Walks, trailing_lookaround(code), NEW p \in 0 .. Len(text), NoEnds(walk, p, Len(text) + 1)
  PROVE  FindAt(walk, p, 0) = None
  <1>1. Len(text) \in Nat
    BY WalkFacts
  <1>2. PICK starts : starts = {q \in p .. Len(text) : Ends(walk, q) # {}}
    OBVIOUS
  <1>3. FindAt(walk, p, 0) = IF starts = {} THEN None ELSE Span(Min(starts), Max(Ends(walk, Min(starts))))
    BY <1>2, TrailingAssumption DEF text, code
  <1>4. \A q \in p .. Len(text) : q \in p .. Len(text) + 1 - 1
    BY <1>1
  <1>5. starts = {}
    BY <1>2, <1>4 DEF NoEnds
  <1>6. QED
    BY <1>3, <1>5

-----------------------------------------------------------------------------
(* Every step hands out what comes next.                                   *)

LEMMA TriedKept ==
  ASSUME walk' = walk, Tried, UNCHANGED <<stage, run, pos, frontier>>
  PROVE  Tried'
  BY SameSubject DEF Tried

\* A search begins with nothing tried.
LEMMA BeginTried ==
  ASSUME walk' = walk, Tried, stage = "walking", pos \in Nat, UNCHANGED pos, BeginSearch
  PROVE  Tried'
  <1>1. run = None /\ run' = None /\ frontier' = pos
    BY DEF Tried, BeginSearch
  <1>2. pos .. pos - 1 = {}
    OBVIOUS
  <1>3. NoEnds(walk, pos, pos)
    BY <1>2 DEF NoEnds
  <1>4. frontier' >= pos
    BY <1>1
  <1>5. QED
    BY <1>1, <1>3, <1>4 DEF Tried

LEMMA NotTrying ==
  ASSUME stage' # "trying", run' = None
  PROVE  Tried'
  BY DEF Tried

LEMMA HandBufferedOrdered ==
  ASSUME WalkTyped, InOrder, HandBuffered
  PROVE  InOrder'
  <1>1. /\ walk' = walk /\ walk \in Walks /\ batch # <<>> /\ HandOut(Head(batch)) /\ batch' = Tail(batch)
        /\ stage = "walking" /\ done = FALSE
        /\ batch_eligible' /\ UNCHANGED <<done, batch_spent, batch_partial, stage, run>>
    BY DEF HandBuffered, Idle, NoSearch, Chosen, WalkTyped, FlagsFit
  <1>2. PICK n \in 0 .. Len(walk.matches) :
          /\ Handed(walk, n, yielded, pos, forbid_empty_until)
          /\ Buffered(walk, n, batch, batch_spent, batch_partial)
    BY DEF InOrder
  <1>3. PICK k \in n .. Len(walk.matches) :
          batch = Part(walk.matches, n, k) /\ (batch_spent => k = Len(walk.matches) /\ batch_partial = FALSE)
    BY <1>2 DEF Buffered
  <1>4. /\ n \in 0 .. Len(walk.matches) - 1 /\ k \in n + 1 .. Len(walk.matches)
        /\ Head(batch) = walk.matches[n + 1] /\ Tail(batch) = Part(walk.matches, n + 1, k)
    BY <1>1, <1>3, BufferedNext
  <1>5. n + 1 \in 0 .. Len(walk.matches) /\ Handed(walk', n + 1, yielded', pos', forbid_empty_until')
    BY <1>1, <1>2, <1>4, HandOutNext
  <1>6. Buffered(walk', n + 1, batch', batch_spent', batch_partial')
    BY <1>1, <1>3, <1>4 DEF Buffered
  <1>7. Closed(n + 1)'
    BY <1>1 DEF Closed
  <1>8. Tried'
    BY <1>1, NotTrying DEF InOrder, Tried
  <1>9. QED
    BY <1>1, <1>5, <1>6, <1>7, <1>8 DEF InOrder

LEMMA CountBufferedOrdered ==
  ASSUME WalkTyped, InOrder, CountBuffered
  PROVE  InOrder'
  <1>1. /\ walk' = walk /\ walk \in Walks /\ batch # <<>> /\ batch' = <<>>
        /\ yielded' = yielded \o batch /\ pos' = Last(batch).end
        /\ stage = "walking" /\ done = FALSE
        /\ UNCHANGED <<forbid_empty_until, done, batch_spent, batch_partial, stage, run>>
    BY DEF CountBuffered, Idle, NoSearch, Chosen, WalkTyped, FlagsFit
  <1>2. PICK n \in 0 .. Len(walk.matches) :
          /\ Handed(walk, n, yielded, pos, forbid_empty_until)
          /\ Buffered(walk, n, batch, batch_spent, batch_partial)
    BY DEF InOrder
  <1>3. PICK k \in n .. Len(walk.matches) :
          batch = Part(walk.matches, n, k) /\ (batch_spent => k = Len(walk.matches) /\ batch_partial = FALSE)
    BY <1>2 DEF Buffered
  <1>4. PICK size \in Nat : size = Len(walk.matches)
    BY <1>1, MatchCount
  <1>5. k \in n + 1 .. Len(walk.matches) /\ Last(batch) = walk.matches[k]
    BY <1>1, <1>3, BufferedNext
  <1>6. k \in 0 .. Len(walk.matches) /\ k # 0 /\ k > 0 /\ k \in k .. Len(walk.matches)
    BY <1>4, <1>5
  <1>7. yielded' = Part(walk.matches, 0, k)
    <2>1. PartFits(SpansIn(walk.text), walk.matches, n, k)
      BY <1>1, MatchPart
    <2>2. QED
      BY <1>1, <1>2, <1>3, <2>1 DEF PartFits, Handed
  <1>8. pos' = PosAfter(walk, k)
    BY <1>1, <1>5, <1>6 DEF PosAfter
  <1>9. forbid_empty_until' = ForbidAfter(walk, k)
    <2>1. NeverEmpty(walk)
      BY <1>1 DEF WalkTyped, BatchFits, RouteFits
    <2>2. forbid_empty_until = 0 /\ ForbidAfter(walk, k) = 0
      BY <1>1, <1>6, <2>1, NoneEmpty DEF WalkTyped, PlaceFits
    <2>3. QED
      BY <1>1, <2>2
  <1>10. Handed(walk', k, yielded', pos', forbid_empty_until')
    BY <1>1, <1>6, <1>7, <1>8, <1>9 DEF Handed
  <1>11. Buffered(walk', k, batch', batch_spent', batch_partial')
    <2>1. Part(walk.matches, k, k) = <<>>
      BY <1>1, <1>6, MatchPart DEF PartFits
    <2>2. QED
      BY <1>1, <1>3, <1>6, <2>1 DEF Buffered
  <1>12. Closed(k)' /\ Tried'
    BY <1>1, NotTrying DEF Closed, InOrder, Tried
  <1>13. QED
    BY <1>1, <1>6, <1>10, <1>11, <1>12 DEF InOrder

\* The place of the walk, nothing buffered.
LEMMA NothingBuffered ==
  ASSUME NEW w \in Walks, NEW n \in 0 .. Len(w.matches), NEW spent, NEW partial,
         spent => n = Len(w.matches) /\ partial = FALSE
  PROVE  Buffered(w, n, <<>>, spent, partial)
  <1>1. PICK size \in Nat : size = Len(w.matches)
    BY MatchCount
  <1>2. n \in n .. Len(w.matches)
    BY <1>1
  <1>3. Part(w.matches, n, n) = <<>>
    BY <1>2, MatchPart DEF PartFits
  <1>4. QED
    BY <1>2, <1>3 DEF Buffered

LEMMA BufferedNothing ==
  ASSUME NEW w \in Walks, NEW n \in 0 .. Len(w.matches), NEW spent, NEW partial,
         Buffered(w, n, <<>>, spent, partial)
  PROVE  spent => n = Len(w.matches) /\ partial = FALSE
  <1>1. PICK k \in n .. Len(w.matches) : <<>> = Part(w.matches, n, k) /\ (spent => k = Len(w.matches) /\ partial = FALSE)
    BY DEF Buffered
  <1>2. PartFits(SpansIn(w.text), w.matches, n, k)
    BY MatchPart
  <1>3. k = n
    BY <1>1, <1>2 DEF PartFits
  <1>4. QED
    BY <1>1, <1>3

LEMMA RefillOrdered ==
  ASSUME WalkTyped, SweepAnswers, InOrder, Refill
  PROVE  InOrder'
  <1>1. /\ walk' = walk /\ walk \in Walks /\ route \in Batched /\ batch = <<>>
        /\ stage = "walking" /\ done = FALSE /\ pos \in 0 .. Len(text) /\ route' = route /\ route # "trailing"
    BY DEF Refill, Idle, Chosen, WalkTyped, BatchFits, PlaceFits, FlagsFit, Batched
  <1>2. PICK n \in 0 .. Len(walk.matches) :
          /\ Handed(walk, n, yielded, pos, forbid_empty_until)
          /\ Buffered(walk, n, batch, batch_spent, batch_partial)
    BY DEF InOrder
  <1>3. batch_spent => n = Len(walk.matches) /\ batch_partial = FALSE
    BY <1>1, <1>2, BufferedNothing
  <1>4. PICK fill \in refill_batch :
          /\ batch_eligible' = fill.eligible /\ batch_partial' = fill.partial
          /\ batch_spent' = (batch_spent \/ Spent(fill))
          /\ IF fill.spans # <<>>
               THEN HandOut(Head(fill.spans)) /\ batch' = Tail(fill.spans) /\ done' = done /\ NoSearch
             ELSE /\ batch' = <<>>
                  /\ Stay
                  /\ IF fill.partial THEN BeginSearch ELSE done' = TRUE /\ NoSearch
    BY DEF Refill
  <1>5. pos = PosAfter(walk, n)
    BY <1>2 DEF Handed
  <1>6. PICK m \in n .. Len(walk.matches) :
          /\ fill.spans = Part(walk.matches, n, m)
          /\ fill.partial = FALSE /\ m - n < batch_cap => m = Len(walk.matches)
    BY <1>1, <1>3, <1>5, FillsOrdered DEF FillOrdered
  <1>7. PICK size \in Nat : size = Len(walk.matches) /\ n \in Nat /\ m \in Nat /\ n <= m /\ m <= size
    BY <1>1, MatchCount
  <1>8. fill.partial \in BOOLEAN /\ (fill.spans # <<>> => fill.eligible)
    BY <1>1, FillKinds DEF FillKind, WalkTyped
  <1>9. Len(fill.spans) = m - n /\ (fill.spans = <<>> <=> m = n)
    <2>1. PartFits(SpansIn(walk.text), walk.matches, n, m)
      BY <1>1, MatchPart
    <2>2. QED
      BY <1>6, <2>1 DEF PartFits
  <1>10. batch_spent' => m = Len(walk.matches) /\ batch_partial' = FALSE
    <2>1. CASE Spent(fill)
      <3>1. ~fill.partial /\ m - n < batch_cap
        BY <1>9, <2>1 DEF Spent
      <3>2. fill.partial = FALSE
        BY <1>8, <3>1
      <3>3. QED
        BY <1>4, <1>6, <3>1, <3>2
    <2>2. CASE batch_spent
      <3>1. fill.partial = FALSE
        BY <1>3, <2>2 DEF refill_batch, Filled
      <3>2. m = size
        BY <1>3, <1>7, <2>2
      <3>3. QED
        BY <1>4, <1>7, <3>1, <3>2
    <2>3. QED
      BY <1>4, <2>1, <2>2
  <1>11. CASE fill.spans # <<>>
    <2>1. PICK spans : spans = fill.spans
      OBVIOUS
    <2>2. HandOut(Head(spans)) /\ batch' = Tail(spans) /\ batch_eligible' /\ UNCHANGED <<done, stage, run>>
      BY <1>4, <1>8, <1>11, <2>1 DEF NoSearch
    <2>3. /\ n \in 0 .. Len(walk.matches) - 1 /\ m \in n + 1 .. Len(walk.matches)
          /\ Head(spans) = walk.matches[n + 1] /\ Tail(spans) = Part(walk.matches, n + 1, m)
      BY <1>1, <1>6, <1>11, <2>1, BufferedNext
    <2>4. n + 1 \in 0 .. Len(walk.matches) /\ Handed(walk', n + 1, yielded', pos', forbid_empty_until')
      BY <1>1, <1>2, <2>2, <2>3, HandOutNext
    <2>5. Buffered(walk', n + 1, batch', batch_spent', batch_partial')
      BY <1>1, <1>10, <2>2, <2>3 DEF Buffered
    <2>6. Closed(n + 1)' /\ Tried'
      BY <1>1, <2>2, NotTrying DEF Closed, InOrder, Tried
    <2>7. QED
      BY <1>1, <2>4, <2>5, <2>6 DEF InOrder
  <1>12. CASE fill.spans = <<>>
    <2>1. m = n
      BY <1>9, <1>12
    <2>2. batch' = <<>> /\ UNCHANGED <<yielded, pos, forbid_empty_until>>
      BY <1>4, <1>12 DEF Stay
    <2>3. Handed(walk', n, yielded', pos', forbid_empty_until')
      BY <1>1, <1>2, <2>2
    <2>4. Buffered(walk', n, batch', batch_spent', batch_partial')
      BY <1>1, <1>10, <2>1, <2>2, NothingBuffered
    <2>5. CASE fill.partial = TRUE
      <3>1. BeginSearch
        BY <1>4, <1>12, <2>5
      <3>2. Tried'
        BY <1>1, <2>2, <3>1, BeginTried, WalkFacts DEF InOrder
      <3>3. done' = FALSE
        BY <1>1, <3>1 DEF BeginSearch
      <3>4. Closed(n)'
        BY <2>2, <3>3 DEF Closed
      <3>5. QED
        BY <1>1, <2>3, <2>4, <3>2, <3>4 DEF InOrder
    <2>6. CASE fill.partial = FALSE
      <3>1. done' = TRUE /\ UNCHANGED <<stage, run>>
        BY <1>4, <1>12, <2>6 DEF NoSearch
      <3>2. m - n < batch_cap
        BY <1>7, <2>1, CapAssumption
      <3>3. n = Len(walk.matches)
        BY <1>6, <2>1, <2>6, <3>2
      <3>4. Closed(n)' /\ Tried'
        BY <1>1, <2>2, <3>1, <3>3, NotTrying DEF Closed, InOrder, Tried
      <3>5. QED
        BY <1>1, <2>3, <2>4, <3>4 DEF InOrder
    <2>7. QED
      BY <1>8, <2>5, <2>6
  <1>13. QED
    BY <1>11, <1>12

LEMMA SearchOrdered ==
  ASSUME WalkTyped, InOrder, Search
  PROVE  InOrder'
  <1>1. /\ walk' = walk /\ walk \in Walks /\ pos \in Nat /\ stage = "walking" /\ done = FALSE /\ BeginSearch
        /\ UNCHANGED <<yielded, pos, forbid_empty_until, done, batch, batch_spent, batch_partial>>
    BY WalkFacts DEF Search, Idle, BeginSearch, Stay, Chosen, WalkTyped, PlaceFits, FlagsFit
  <1>2. PICK n \in 0 .. Len(walk.matches) :
          /\ Handed(walk, n, yielded, pos, forbid_empty_until)
          /\ Buffered(walk, n, batch, batch_spent, batch_partial)
          /\ Closed(n)
    BY DEF InOrder
  <1>3. batch = <<>>
    BY <1>2 DEF Search, Closed
  <1>4. Closed(n)'
    BY <1>1, <1>3 DEF Closed
  <1>5. Tried'
    BY <1>1, BeginTried DEF InOrder
  <1>6. QED
    BY <1>1, <1>2, <1>4, <1>5 DEF InOrder

LEMMA AskLookaroundOrdered ==
  ASSUME WalkTyped, InOrder, AskLookaround
  PROVE  InOrder'
  <1>1. /\ walk' = walk /\ stage = "searching"
        /\ UNCHANGED <<yielded, pos, forbid_empty_until, done, stage, run, batch, batch_spent, batch_partial>>
        /\ UNCHANGED batch_eligible
    BY DEF AskLookaround, Stay, UnchangedBatch, Chosen
  <1>2. PICK n \in 0 .. Len(walk.matches) :
          /\ Handed(walk, n, yielded, pos, forbid_empty_until)
          /\ Buffered(walk, n, batch, batch_spent, batch_partial)
          /\ Closed(n)
    BY DEF InOrder
  <1>3. Closed(n)'
    BY <1>1, <1>2 DEF Closed
  <1>4. Tried'
    BY <1>1, NotTrying DEF InOrder, Tried
  <1>5. QED
    BY <1>1, <1>2, <1>3, <1>4 DEF InOrder

\* A search's end: the next match or, with none left, the end.
LEMMA FoundOrdered ==
  ASSUME walk \in Walks, walk' = walk, InOrder, stage # "walking", stage' = "walking", run' = None,
         UNCHANGED <<batch, batch_spent, batch_partial>>,
         NEW found, found = FindAt(walk, pos, forbid_empty_until),
         IF found = None THEN done' = TRUE /\ Stay ELSE HandOut(found) /\ done' = done
  PROVE  InOrder'
  <1>1. PICK n \in 0 .. Len(walk.matches) :
          /\ Handed(walk, n, yielded, pos, forbid_empty_until)
          /\ Buffered(walk, n, batch, batch_spent, batch_partial)
          /\ Closed(n)
    BY DEF InOrder
  <1>2. batch = <<>> /\ done = FALSE
    BY <1>1 DEF Closed
  <1>3. batch_spent => n = Len(walk.matches) /\ batch_partial = FALSE
    <2>1. Buffered(walk, n, <<>>, batch_spent, batch_partial)
      BY <1>1, <1>2
    <2>2. QED
      BY <2>1, BufferedNothing
  <1>4. PICK size \in Nat : size = Len(walk.matches)
    BY MatchCount
  <1>5. found = IF n < size THEN walk.matches[n + 1] ELSE None
    BY <1>1, <1>4, MatchFacts DEF Handed
  <1>6. Tried'
    BY NotTrying
  <1>7. CASE n < size
    <2>1. n \in 0 .. Len(walk.matches) - 1
      BY <1>4, <1>7
    <2>2. found = walk.matches[n + 1] /\ found # None
      BY <1>5, <1>7, <2>1, MatchGiven
    <2>3. HandOut(found) /\ done' = FALSE
      BY <1>2, <2>2
    <2>4. n + 1 \in 0 .. Len(walk.matches) /\ Handed(walk', n + 1, yielded', pos', forbid_empty_until')
      BY <1>1, <2>1, <2>2, <2>3, HandOutNext
    <2>5. ~batch_spent
      BY <1>3, <1>4, <1>7
    <2>6. Buffered(walk', n + 1, batch', batch_spent', batch_partial')
      BY <1>2, <2>4, <2>5, NothingBuffered
    <2>7. Closed(n + 1)'
      BY <1>2, <2>3 DEF Closed
    <2>8. QED
      BY <1>6, <2>4, <2>6, <2>7 DEF InOrder
  <1>8. CASE ~(n < size)
    <2>1. n = Len(walk.matches) /\ found = None
      BY <1>4, <1>5, <1>8
    <2>2. done' = TRUE /\ UNCHANGED <<yielded, pos, forbid_empty_until>>
      BY <2>1 DEF Stay
    <2>3. Handed(walk', n, yielded', pos', forbid_empty_until') /\ Buffered(walk', n, batch', batch_spent', batch_partial')
      BY <1>1, <2>2
    <2>4. Closed(n)'
      BY <1>2, <2>1 DEF Closed
    <2>5. QED
      BY <1>6, <2>3, <2>4 DEF InOrder
  <1>9. QED
    BY <1>7, <1>8

LEMMA AnsweredOrdered ==
  ASSUME WalkTyped, InOrder, Answered
  PROVE  InOrder'
  <1>1. PICK found : found = FindAt(walk, pos, forbid_empty_until)
    OBVIOUS
  <1>2. stage = "searching" /\ Conclude(found)
    BY <1>1 DEF Answered
  <1>3. /\ walk' = walk /\ walk \in Walks /\ stage' = "walking"
        /\ UNCHANGED <<batch, batch_spent, batch_partial, run>>
        /\ IF found = None THEN done' = TRUE /\ Stay ELSE HandOut(found) /\ done' = done
    BY <1>2 DEF Conclude, UnchangedBatch, Chosen, WalkTyped
  <1>4. run' = None
    BY <1>2, <1>3 DEF InOrder, Tried
  <1>5. QED
    BY <1>1, <1>2, <1>3, <1>4, FoundOrdered

LEMMA AnsweredBySweepOrdered ==
  ASSUME WalkTyped, SweepAnswers, InOrder, AnsweredBySweep
  PROVE  InOrder'
  <1>1. PICK found : found = SweptTo(pos)
    OBVIOUS
  <1>2. stage = "searching" /\ Conclude(found) /\ route = "inner_literal"
          /\ walk.sweep[pos].outcome \in {"matched", "spent"}
    BY <1>1 DEF AnsweredBySweep, Sweeping
  <1>3. /\ walk' = walk /\ walk \in Walks /\ stage' = "walking"
        /\ UNCHANGED <<batch, batch_spent, batch_partial, run>>
        /\ IF found = None THEN done' = TRUE /\ Stay ELSE HandOut(found) /\ done' = done
    BY <1>2 DEF Conclude, UnchangedBatch, Chosen, WalkTyped
  <1>4. run' = None
    BY <1>2, <1>3 DEF InOrder, Tried
  <1>5. walk.sweep # <<>> /\ NeverEmpty(walk) /\ pos \in 0 .. Len(text) /\ forbid_empty_until = 0
    BY <1>2 DEF WalkTyped, RouteFits, PlaceFits, NeverEmpty
  <1>6. found = FindAt(walk, pos, forbid_empty_until)
    BY <1>1, <1>2, <1>3, <1>5, SweptRight
  <1>7. QED
    BY <1>2, <1>3, <1>4, <1>6, FoundOrdered

\* The trailing walk's searches are from where it stands, with no empty match to forbid.
LEMMA TryingFacts ==
  ASSUME WalkTyped, stage = "trying"
  PROVE  /\ walk \in Walks /\ trailing_lookaround(code) /\ pos \in 0 .. Len(text) /\ forbid_empty_until = 0
         /\ frontier \in 0 .. Len(text)
  BY DEF WalkTyped, StageFits, RouteFits, PlaceFits, NeverEmpty, code

LEMMA ScanRunOrdered ==
  ASSUME WalkTyped, InOrder, ScanRun
  PROVE  InOrder'
  <1>1. /\ walk' = walk /\ stage = "trying" /\ run = None
        /\ UNCHANGED <<yielded, pos, forbid_empty_until, batch, batch_spent, batch_partial, frontier>>
        /\ UNCHANGED batch_eligible
    BY DEF ScanRun, Stay, UnchangedBatch, Chosen
  <1>2. /\ walk \in Walks /\ trailing_lookaround(code) /\ pos \in 0 .. Len(text) /\ forbid_empty_until = 0
        /\ frontier \in 0 .. Len(text)
    BY <1>1, TryingFacts
  <1>3. Len(text) \in Nat /\ text \in Seq(Bytes)
    BY <1>2, WalkFacts
  <1>4. NoEnds(walk, pos, frontier) /\ frontier >= pos
    BY <1>1 DEF InOrder, Tried
  <1>5. ASSUME NEW x \in 0 .. Len(text), Width(code, text, x) = 0 PROVE Ends(walk, x) = {}
    <2>1. ~(Width(code, text, x) > 0)
      BY <1>5
    <2>2. QED
      BY <1>2, <2>1, EndsOfRuns
  <1>6. CASE RunStarts(code, text, frontier) = {}
    <2>1. done' = TRUE /\ stage' = "walking" /\ run' = run
      BY <1>6 DEF ScanRun
    <2>2. NoEnds(walk, pos, Len(text) + 1)
      <3>1. ASSUME NEW x \in pos .. Len(text) PROVE Ends(walk, x) = {}
        <4>1. CASE x \in pos .. frontier - 1
          BY <1>4, <4>1 DEF NoEnds
        <4>2. CASE x \in frontier .. Len(text)
          <5>1. x \in 0 .. Len(text)
            BY <1>2, <1>3, <3>1
          <5>2. ~(Width(code, text, x) > 0)
            BY <1>6, <4>2 DEF RunStarts
          <5>3. QED
            BY <1>2, <5>1, <5>2, EndsOfRuns
        <4>3. QED
          BY <1>2, <1>3, <4>1, <4>2
      <3>2. \A x \in pos .. Len(text) + 1 - 1 : x \in pos .. Len(text)
        BY <1>3
      <3>3. QED
        BY <3>1, <3>2 DEF NoEnds
    <2>3. FindAt(walk, pos, forbid_empty_until) = None
      BY <1>2, <2>2, TrailingEnds
    <2>4. PICK found : found = FindAt(walk, pos, forbid_empty_until) /\ found = None
      BY <2>3
    <2>5. /\ stage # "walking" /\ run' = None /\ UNCHANGED <<batch, batch_spent, batch_partial>>
          /\ IF found = None THEN done' = TRUE /\ Stay ELSE HandOut(found) /\ done' = done
      BY <1>1, <2>1, <2>4 DEF Stay
    <2>6. QED
      BY <1>1, <1>2, <2>1, <2>4, <2>5, FoundOrdered
  <1>7. CASE RunStarts(code, text, frontier) # {}
    <2>1. PICK s : s = Min(RunStarts(code, text, frontier))
      OBVIOUS
    <2>2. PICK e : e = ScanEnd(code, text, s)
      OBVIOUS
    <2>3. run' = Span(s, e) /\ UNCHANGED <<done, stage>>
      BY <1>7, <2>1, <2>2 DEF ScanRun
    <2>4. RunFound(frontier, s, e)
      BY <1>2, <1>7, <2>1, <2>2, RunFoundFits
    <2>5. /\ s \in frontier .. Len(text) /\ Width(code, text, s) > 0 /\ s \in 0 .. Len(text)
          /\ \A q \in frontier .. s - 1 : Width(code, text, q) = 0
      BY <1>2, <1>3, <2>4 DEF RunFound
    <2>6. run' # None /\ run'.start = s /\ run'.end = e
      <3>1. DOMAIN Span(s, e) = {"start", "end"} /\ DOMAIN None = {}
        BY DEF Span, None
      <3>2. run' # None
        BY <2>3, <3>1
      <3>3. QED
        BY <2>3, <3>2 DEF Span
    <2>7. NoEnds(walk, pos, s)
      <3>1. ASSUME NEW x \in pos .. s - 1 PROVE Ends(walk, x) = {}
        <4>1. CASE x \in pos .. frontier - 1
          BY <1>4, <4>1 DEF NoEnds
        <4>2. CASE x \in frontier .. s - 1
          <5>1. x \in 0 .. Len(text)
            BY <1>2, <1>3, <2>5, <4>2
          <5>2. QED
            BY <1>5, <2>5, <4>2, <5>1
        <4>3. QED
          BY <1>2, <1>3, <2>5, <4>1, <4>2
      <3>2. QED
        BY <3>1 DEF NoEnds
    <2>8. e \in Stops(code, text, s) /\ \A x \in Ends(walk, s) : x <= e
      <3>1. e \in Stops(code, text, s) /\ \A x \in Stops(code, text, s) : x \in s .. e
        BY <1>3, <2>2, <2>5, StopFacts DEF StopsFit
      <3>2. QED
        BY <1>2, <3>1, EndFacts
    <2>9. s >= pos
      BY <1>2, <1>3, <1>4, <2>5
    <2>10. Tried'
      BY <1>1, <1>2, <2>3, <2>5, <2>6, <2>7, <2>8, <2>9, SameSubject DEF Tried
    <2>11. QED
      BY <1>1, <2>3, <2>10 DEF InOrder, Closed
  <1>8. QED
    BY <1>6, <1>7

LEMMA TryEndOrdered ==
  ASSUME WalkTyped, InOrder, TryEnd
  PROVE  InOrder'
  <1>1. /\ walk' = walk /\ stage = "trying" /\ run # None
        /\ UNCHANGED <<batch, batch_eligible, batch_spent, batch_partial, done>>
    BY DEF TryEnd, UnchangedBatch, Chosen
  <1>2. /\ walk \in Walks /\ trailing_lookaround(code) /\ pos \in 0 .. Len(text) /\ forbid_empty_until = 0
    BY <1>1, TryingFacts
  <1>3. Len(text) \in Nat /\ text \in Seq(Bytes)
    BY <1>2, WalkFacts
  <1>4. /\ run \in SpansIn(text) /\ run.start < run.end /\ MayEnd(code, text, run.start)
        /\ TrailingAssert(code) \in Asserts(code) /\ run.end \in 0 .. Len(text)
        /\ Query(TrailingAssert(code), run.end)
    BY TryAsks
  <1>5. PICK s \in 0 .. Len(text), e \in 0 .. Len(text) : s = run.start /\ e = run.end /\ s < e
    BY <1>4 DEF SpansIn
  <1>6. run = Span(s, e)
    BY <1>4, <1>5 DEF SpansIn, Span
  <1>7. /\ NoEnds(walk, pos, s) /\ Width(code, text, s) > 0 /\ s >= pos
        /\ e \in Stops(code, text, s) /\ \A x \in Ends(walk, s) : x <= e
    BY <1>1, <1>5 DEF InOrder, Tried
  <1>8. asked'.holds <=> e \in walk.holds[TrailingAssert(code)]
    <2>1. AnswersHold'
      BY <1>1, <1>2, <1>4, QueryAnswers DEF WalkTyped
    <2>2. PICK told : asked' = [pc |-> TrailingAssert(code), pos |-> e, holds |-> told]
      BY <1>4, <1>5 DEF Query
    <2>3. asked'.pc = TrailingAssert(code) /\ asked'.pos = e
      BY <2>2
    <2>4. asked' # NotAsked
      <3>1. DOMAIN asked' = {"pc", "pos", "holds"} /\ DOMAIN NotAsked = {"pc"}
        BY <2>2 DEF NotAsked
      <3>2. QED
        BY <3>1
    <2>5. QED
      BY <1>1, <2>1, <2>3, <2>4 DEF AnswersHold
  <1>9. \A x : x \in Ends(walk, s) <=>
                 x \in Stops(code, text, s) /\ s < x /\ x \in walk.holds[TrailingAssert(code)]
    BY <1>2, EndFacts
  <1>10. CASE asked'.holds
    <2>1. HandOut(run) /\ stage' = "walking" /\ run' = None
      BY <1>10 DEF TryEnd
    <2>2. e \in Ends(walk, s)
      BY <1>5, <1>7, <1>8, <1>9, <1>10
    <2>3. s \in pos .. Len(text)
      BY <1>2, <1>3, <1>5, <1>7
    <2>4. FindAt(walk, pos, 0) = Span(s, e)
      BY <1>2, <1>7, <2>2, <2>3, TrailingFinds
    <2>5. PICK found : found = FindAt(walk, pos, forbid_empty_until) /\ found = run
      BY <1>2, <1>6, <2>4
    <2>6. /\ stage # "walking" /\ UNCHANGED <<batch, batch_spent, batch_partial>>
          /\ IF found = None THEN done' = TRUE /\ Stay ELSE HandOut(found) /\ done' = done
      BY <1>1, <2>1, <2>5
    <2>7. QED
      BY <1>1, <1>2, <2>1, <2>5, <2>6, FoundOrdered
  <1>11. PICK last : last = ScanEnd(code, text, s)
    OBVIOUS
  <1>12. /\ last \in s .. Len(text) /\ e \in s .. last
         /\ \A x \in s .. last : MayEnd(code, text, x) => x \in Stops(code, text, s)
         /\ \A x \in Stops(code, text, s) : x \in s .. last
         /\ \A x \in Stops(code, text, s) : x < last => Width(code, text, x) > 0
    BY <1>3, <1>5, <1>7, <1>11, StopFacts DEF StopsFit
  <1>13. PICK prev : prev = PrevEnd(code, text, e)
    OBVIOUS
  <1>14. /\ prev \in s .. e - 1 /\ MayEnd(code, text, prev)
         /\ \A x \in prev + 1 .. e - 1 : ~MayEnd(code, text, x)
    BY <1>4, <1>5, <1>13, PrevFacts
  <1>15. ASSUME ~asked'.holds, NEW x \in Ends(walk, s) PROVE x \in s + 1 .. prev
    <2>1. x \in Stops(code, text, s) /\ s < x /\ x <= e /\ x # e
      BY <1>7, <1>8, <1>9, <1>15
    <2>2. x \in s .. last
      BY <1>12, <2>1
    <2>3. x \in s + 1 .. e - 1 /\ x < last /\ x \in 0 .. Len(text)
      BY <1>3, <1>5, <1>12, <2>1, <2>2
    <2>4. Width(code, text, x) > 0
      BY <1>12, <2>1, <2>3
    <2>5. MayEnd(code, text, x)
      BY <1>3, <2>3, <2>4, WidthFits DEF MemberFits
    <2>6. x \notin prev + 1 .. e - 1
      BY <1>14, <2>5
    <2>7. QED
      BY <1>5, <1>14, <2>3, <2>6
  <1>16. CASE ~asked'.holds
    <2>1. /\ UNCHANGED <<yielded, pos, forbid_empty_until, stage>>
          /\ IF prev > s THEN run' = [run EXCEPT !.end = prev] /\ UNCHANGED frontier
             ELSE run' = None /\ frontier' = last
      BY <1>5, <1>11, <1>13, <1>16 DEF TryEnd, Stay
    <2>2. Tried'
      <3>1. CASE prev > s
        <4>1. run' = [run EXCEPT !.end = prev]
          BY <2>1, <3>1
        <4>2. run' = Span(s, prev)
          BY <1>6, <4>1 DEF Span
        <4>3. run' # None /\ run'.start = s /\ run'.end = prev
          <5>1. DOMAIN run' = {"start", "end"} /\ DOMAIN None = {}
            BY <4>2 DEF Span, None
          <5>2. run' # None
            BY <5>1
          <5>3. QED
            BY <4>2, <5>2 DEF Span
        <4>4. prev \in Stops(code, text, s)
          BY <1>5, <1>12, <1>14
        <4>5. \A x \in Ends(walk, s) : x <= prev
          BY <1>5, <1>14, <1>15, <1>16
        <4>6. QED
          BY <1>1, <1>7, <2>1, <4>3, <4>4, <4>5, SameSubject DEF Tried
      <3>2. CASE ~(prev > s)
        <4>1. run' = None /\ frontier' = last
          BY <2>1, <3>2
        <4>2. Ends(walk, s) = {}
          <5>1. s + 1 .. prev = {}
            BY <1>5, <1>14, <3>2
          <5>2. QED
            BY <1>15, <1>16, <5>1
        <4>3. NoEnds(walk, pos, last)
          <5>1. ASSUME NEW x \in pos .. last - 1 PROVE Ends(walk, x) = {}
            <6>1. CASE x \in pos .. s - 1
              BY <1>7, <6>1 DEF NoEnds
            <6>2. CASE x \in s .. last - 1
              BY <1>2, <1>11, <4>2, <6>2, NoEndsWithin
            <6>3. QED
              BY <1>2, <1>3, <1>5, <1>12, <6>1, <6>2
          <5>2. QED
            BY <5>1 DEF NoEnds
        <4>4. last >= pos
          BY <1>2, <1>3, <1>5, <1>7, <1>12
        <4>5. QED
          BY <1>1, <2>1, <4>1, <4>3, <4>4 DEF Tried
      <3>3. QED
        BY <3>1, <3>2
    <2>3. QED
      BY <1>1, <2>1, <2>2 DEF InOrder, Closed
  <1>17. QED
    BY <1>10, <1>16

LEMMA StandOrdered ==
  ASSUME InOrder, UNCHANGED vars
  PROVE  InOrder'
  <1>1. /\ walk' = walk
        /\ UNCHANGED <<yielded, pos, forbid_empty_until, done, stage, run, frontier>>
        /\ UNCHANGED <<batch, batch_eligible, batch_spent, batch_partial>>
    BY DEF vars, iterator
  <1>2. Tried'
    BY <1>1, TriedKept DEF InOrder
  <1>3. QED
    BY <1>1, <1>2 DEF InOrder, Closed

LEMMA NextOrdered ==
  ASSUME WalkTyped, SweepAnswers, InOrder, [Next]_vars
  PROVE  InOrder'
  BY HandBufferedOrdered, CountBufferedOrdered, RefillOrdered, SearchOrdered, AskLookaroundOrdered,
     AnsweredOrdered, AnsweredBySweepOrdered, ScanRunOrdered, TryEndOrdered, StandOrdered
     DEF Next, Step, Over

LEMMA InitOrdered ==
  ASSUME Init
  PROVE  InOrder
  <1>1. /\ walk \in Walks /\ yielded = <<>> /\ pos = walk.start /\ forbid_empty_until = 0 /\ done = FALSE
        /\ batch = <<>> /\ batch_spent = FALSE /\ stage = "walking" /\ run = None
    BY DEF Init
  <1>2. 0 \in 0 .. Len(walk.matches)
    BY <1>1, MatchFacts
  <1>3. Handed(walk, 0, yielded, pos, forbid_empty_until)
    <2>1. Part(walk.matches, 0, 0) = <<>>
      BY <1>1, MatchFacts, WholePart
    <2>2. QED
      BY <1>1, <1>2, <2>1 DEF Handed, PosAfter, ForbidAfter
  <1>4. Buffered(walk, 0, batch, batch_spent, batch_partial)
    BY <1>1, <1>2, NothingBuffered
  <1>5. Closed(0) /\ Tried
    BY <1>1 DEF Closed, Tried
  <1>6. QED
    BY <1>2, <1>3, <1>4, <1>5 DEF InOrder

\* Always the first matches are handed out, the next are buffered, and a search in progress has
\* passed none by, provided the sweeps' answers are the search's.
THEOREM OrderedAlways == Spec /\ []SweepAnswers => []InOrder
  BY InitOrdered, NextOrdered, TypedAlways, PTL DEF Spec

LEMMA OrderedContinues ==
  ASSUME WalkTyped, InOrder
  PROVE  BatchContinues
  <1>1. walk \in Walks
    BY DEF WalkTyped
  <1>2. PICK n \in 0 .. Len(walk.matches) :
          /\ yielded = Part(walk.matches, 0, n)
          /\ Buffered(walk, n, batch, batch_spent, batch_partial)
    BY DEF InOrder, Handed
  <1>3. PICK k \in n .. Len(walk.matches) :
          batch = Part(walk.matches, n, k) /\ (batch_spent => k = Len(walk.matches))
    BY <1>2 DEF Buffered
  <1>4. yielded \o batch = Part(walk.matches, 0, k)
    <2>1. PartFits(SpansIn(walk.text), walk.matches, n, k)
      BY <1>1, MatchPart
    <2>2. QED
      BY <1>2, <1>3, <2>1 DEF PartFits
  <1>5. walk.matches \in Seq(SpansIn(walk.text))
    BY <1>1, MatchFacts
  <1>6. PICK M : M = walk.matches
    OBVIOUS
  <1>7. M = Part(M, 0, Len(M))
    BY <1>5, <1>6, WholePart
  <1>8. IsPrefix(Part(M, 0, k), M)
    <2>1. PICK size \in Nat : size = Len(M)
      BY <1>1, <1>6, MatchCount
    <2>2. Part(M, 0, k) \in Seq(SpansIn(walk.text)) /\ Len(Part(M, 0, k)) = k - 0
      <3>1. 0 \in 0 .. Len(walk.matches) /\ k \in 0 .. Len(walk.matches)
        BY <1>6, <2>1
      <3>2. PartFits(SpansIn(walk.text), walk.matches, 0, k)
        BY <1>1, <3>1, MatchPart
      <3>3. QED
        BY <1>6, <3>2 DEF PartFits
    <2>3. k \in Nat /\ k <= size
      BY <1>6, <2>1
    <2>4. PICK part : part = Part(M, 0, k) /\ Len(part) = k
      BY <2>2, <2>3
    <2>5. SubSeq(M, 1, Len(part)) = part
      BY <2>4 DEF Part
    <2>6. Len(part) <= Len(M)
      BY <2>1, <2>3, <2>4
    <2>7. QED
      BY <1>5, <1>6, <2>2, <2>4, <2>5, <2>6 DEF IsPrefix
  <1>9. QED
    BY <1>3, <1>4, <1>6, <1>7, <1>8 DEF BatchContinues

\* What is buffered continues what was handed out, and all of it once the walk takes it that no
\* batch will follow, whatever the fillers proved and wherever they stopped.
THEOREM BatchesContinue == Spec /\ []SweepAnswers => []BatchContinues
  BY OrderedAlways, OrderedContinues, TypedAlways, PTL

\* What a step does to what the caller has: one match more, the buffered ones, none, or the end.
StepGives ==
  /\ walk' = walk
  /\ \/ UNCHANGED <<yielded, done>>
     \/ (\E m : yielded' = Append(yielded, m)) /\ done' = done
     \/ yielded' = yielded \o batch /\ batch # <<>> /\ done' = done
     \/ yielded' = yielded /\ done' = TRUE /\ (done = FALSE \/ stage # "walking")

LEMMA EveryStepGives ==
  ASSUME WalkTyped, [Next]_vars
  PROVE  StepGives
  <1>1. done \in BOOLEAN
    BY TypedGivesTypeOK DEF TypeOK
  <1>2. CASE HandBuffered
    BY <1>2 DEF HandBuffered, HandOut, NoSearch, Chosen, StepGives
  <1>3. CASE CountBuffered
    BY <1>3 DEF CountBuffered, Chosen, StepGives
  <1>4. CASE Refill
    <2>1. walk' = walk /\ done = FALSE
      BY <1>1, <1>4 DEF Refill, Idle, Chosen
    <2>2. PICK fill :
            IF fill.spans # <<>> THEN HandOut(Head(fill.spans)) /\ done' = done
            ELSE Stay /\ IF fill.partial THEN BeginSearch ELSE done' = TRUE
      BY <1>4 DEF Refill
    <2>3. QED
      BY <2>1, <2>2 DEF HandOut, Stay, BeginSearch, StepGives
  <1>5. CASE Search
    BY <1>5 DEF Search, BeginSearch, Stay, Chosen, StepGives
  <1>6. CASE AskLookaround
    BY <1>6 DEF AskLookaround, Stay, Chosen, StepGives
  <1>7. ASSUME NEW found, stage = "searching", Conclude(found)
        PROVE  StepGives
    BY <1>7 DEF Conclude, HandOut, Stay, Chosen, StepGives
  <1>8. CASE Answered
    BY <1>7, <1>8 DEF Answered
  <1>9. CASE AnsweredBySweep
    BY <1>7, <1>9 DEF AnsweredBySweep
  <1>10. CASE ScanRun
    BY <1>10 DEF ScanRun, Stay, Chosen, StepGives
  <1>11. CASE TryEnd
    BY <1>11 DEF TryEnd, HandOut, Stay, Chosen, StepGives
  <1>12. CASE UNCHANGED vars
    BY <1>12 DEF vars, iterator, StepGives
  <1>13. QED
    BY <1>2, <1>3, <1>4, <1>5, <1>6, <1>8, <1>9, <1>10, <1>11, <1>12 DEF Next, Step, Over

\* Each step is one of the promise's, or changes nothing of what it is about.
LEMMA StepPromised ==
  ASSUME WalkTyped, InOrder, InOrder', [Next]_vars
  PROVE  [FI!Yield \/ FI!Finish]_(FI!vars)
  <1>1. walk \in Walks /\ StepGives
    BY EveryStepGives DEF WalkTyped
  <1>2. walk' = walk
    BY <1>1 DEF StepGives
  <1>3. PICK M : M = walk.matches
    OBVIOUS
  <1>4. PICK n \in 0 .. Len(M) :
          /\ yielded = Part(M, 0, n)
          /\ Buffered(walk, n, batch, batch_spent, batch_partial)
          /\ stage # "walking" => done = FALSE
    BY <1>3 DEF InOrder, Handed, Closed
  <1>5. PICK m \in 0 .. Len(M) : yielded' = Part(M, 0, m) /\ (done' => m = Len(M))
    BY <1>2, <1>3 DEF InOrder, Handed, Closed
  <1>6. PICK size \in Nat : size = Len(M)
    BY <1>1, <1>3, MatchCount
  <1>7. n \in Nat /\ m \in Nat /\ m <= size
    BY <1>6
  <1>8. yielded \in Seq(SpansIn(walk.text)) /\ Len(yielded) = n
    <2>1. 0 \in 0 .. Len(walk.matches) /\ n \in 0 .. Len(walk.matches)
      BY <1>3, <1>6
    <2>2. PartFits(SpansIn(walk.text), walk.matches, 0, n)
      BY <1>1, <2>1, MatchPart
    <2>3. QED
      BY <1>3, <1>4, <1>7, <2>2 DEF PartFits
  <1>9. Len(yielded') = m
    <2>1. 0 \in 0 .. Len(walk.matches) /\ m \in 0 .. Len(walk.matches)
      BY <1>3, <1>6
    <2>2. PartFits(SpansIn(walk.text), walk.matches, 0, m)
      BY <1>1, <2>1, MatchPart
    <2>3. QED
      BY <1>3, <1>5, <1>7, <2>2 DEF PartFits
  <1>10. ASSUME n < m, done' = done
         PROVE  FI!Yield
    <2>1. yielded' = SubSeq(M, 1, m)
      BY <1>5 DEF Part
    <2>2. m \in Len(yielded) + 1 .. Len(M)
      BY <1>6, <1>7, <1>8, <1>10
    <2>3. QED
      BY <1>2, <1>3, <1>10, <2>1, <2>2 DEF FI!Yield
  <1>11. CASE UNCHANGED <<yielded, done>>
    BY <1>2, <1>11 DEF FI!vars
  <1>12. CASE (\E x : yielded' = Append(yielded, x)) /\ done' = done
    <2>1. PICK x : yielded' = Append(yielded, x)
      BY <1>12
    <2>2. Len(Append(yielded, x)) = n + 1
      BY <1>8
    <2>3. QED
      BY <1>7, <1>9, <1>10, <1>12, <2>1, <2>2
  <1>13. CASE yielded' = yielded \o batch /\ batch # <<>> /\ done' = done
    <2>1. PICK k \in n .. Len(walk.matches) : batch = Part(walk.matches, n, k)
      BY <1>4 DEF Buffered
    <2>2. PartFits(SpansIn(walk.text), walk.matches, n, k)
      BY <1>1, <1>3, <1>4, <2>1, MatchPart
    <2>3. batch \in Seq(SpansIn(walk.text))
      BY <2>1, <2>2 DEF PartFits
    <2>4. Len(batch) \in Nat /\ Len(batch) > 0
      BY <1>13, <2>3
    <2>5. Len(yielded \o batch) = n + Len(batch)
      BY <1>8, <2>3
    <2>6. QED
      BY <1>7, <1>9, <1>10, <1>13, <2>4, <2>5
  <1>14. CASE yielded' = yielded /\ done' = TRUE /\ (done = FALSE \/ stage # "walking")
    <2>1. done = FALSE
      BY <1>4, <1>14
    <2>2. yielded = Part(M, 0, Len(M))
      BY <1>5, <1>14
    <2>3. M \in Seq(SpansIn(walk.text))
      BY <1>1, <1>3, MatchFacts
    <2>4. yielded = M
      BY <2>2, <2>3, WholePart
    <2>5. QED
      BY <1>2, <1>3, <1>14, <2>1, <2>4 DEF FI!Finish
  <1>15. QED
    BY <1>1, <1>11, <1>12, <1>13, <1>14, <1>10 DEF StepGives

\* The walk keeps find_iter's promise: it hands out, or counts, the matches in order, each once
\* and none passed by, and ends only when the caller has had them all.
THEOREM HandsOut == Spec /\ []SweepAnswers => FI!Init /\ [][FI!Yield \/ FI!Finish]_(FI!vars)
  <1>1. Init => FI!Init
    BY DEF Init, FI!Init
  <1>2. WalkTyped /\ InOrder /\ InOrder' /\ [Next]_vars => [FI!Yield \/ FI!Finish]_(FI!vars)
    BY StepPromised
  <1>3. QED
    BY <1>1, <1>2, TypedAlways, OrderedAlways, PTL DEF Spec

=============================================================================
