----------------------------- MODULE PikeVMProofs -----------------------------
(***************************************************************************)
(* Theorems about PikeVM, for every set of well-formed programs, subjects  *)
(* and starts.                                                             *)
(***************************************************************************)
EXTENDS PikeVM, EngineLemmas

-----------------------------------------------------------------------------
(* The call and its program.                                               *)

LEMMA CallFacts ==
  ASSUME search \in Searches
  PROVE  /\ text \in Seq(Bytes) /\ size \in Nat /\ search.start \in 0 .. size
         /\ Len(code) \in Nat \ {0} /\ DOMAIN code = 1 .. Len(code)
         /\ {0, 1} \subseteq Slots
  <1>1. WellFormed(search.program) /\ search.text \in Seq(Bytes)
        /\ search.start \in 0 .. Len(search.text)
    BY SearchesAssumption
  <1>2. Len(search.text) \in Nat
    BY <1>1, LenProperties
  <1>3. QED
    BY <1>1, <1>2 DEF text, size, code, prog, Slots, WellFormed

LEMMA ProgramFacts ==
  ASSUME search \in Searches, NEW p \in DOMAIN code
  PROVE  /\ p \in Nat /\ Successors(code, p) \subseteq DOMAIN code
         /\ code[p].op = "save" => code[p].slot \in Slots
         /\ code[p].op \in Possessive /\ ~(code[p].slot < 0) =>
              {code[p].slot, code[p].slot + 1} \subseteq Slots
         /\ EpsilonSuccessors(code, p) \subseteq DOMAIN code
         /\ code[p].op \in Possessive => code[p].secondary \in DOMAIN code
         /\ code[p].op = "jump" => code[p].primary \in DOMAIN code
         /\ code[p].op = "split" => {code[p].primary, code[p].secondary} \subseteq DOMAIN code
         /\ code[p].op \in {"save", "assert_position", "assert_lookaround"} => p + 1 \in DOMAIN code
  <1>1. WellFormed(search.program)
    BY SearchesAssumption
  <1>2. /\ Successors(code, p) \subseteq DOMAIN code
        /\ code[p].op = "save" => code[p].slot \in Slots
        /\ code[p].op \in Possessive /\ ~(code[p].slot < 0) =>
             {code[p].slot, code[p].slot + 1} \subseteq Slots
    BY <1>1 DEF WellFormed, code, prog, Slots
  <1>3. p \in Nat
    BY CallFacts
  <1>4. EpsilonSuccessors(code, p) \subseteq DOMAIN code
    BY <1>2 DEF Successors
  <1>5. QED
    BY <1>2, <1>3, <1>4, EpsilonKinds

-----------------------------------------------------------------------------
(* Counting the holders of a block in a sequence of threads or entries.    *)

One(b, c) == IF b = c THEN 1 ELSE 0
HeldUpTo(s, n, b) == Cardinality({k \in 1 .. n : s[k].carry = b})

LEMMA HeldUpToFacts ==
  ASSUME NEW s, NEW n \in Nat, NEW b
  PROVE  /\ HeldUpTo(s, n, b) \in Nat /\ HeldUpTo(s, 0, b) = 0
         /\ HeldUpTo(s, n + 1, b) = HeldUpTo(s, n, b) + One(s[n + 1].carry, b)
  <1> DEFINE holds(m) == {k \in 1 .. m : s[k].carry = b}
  <1>1. ASSUME NEW m \in Nat PROVE IsFiniteSet(holds(m)) /\ Cardinality(holds(m)) \in Nat
    <2>1. holds(m) \in SUBSET (1 .. m) /\ IsFiniteSet(1 .. m)
      BY FS_Interval
    <2>2. IsFiniteSet(holds(m))
      BY <2>1, FS_Subset
    <2>3. QED
      BY <2>2, FS_CardinalityType
  <1>2. holds(0) = {}
    OBVIOUS
  <1>3. Cardinality(holds(n + 1)) = Cardinality(holds(n)) + One(s[n + 1].carry, b)
    <2>1. n + 1 \notin holds(n)
      OBVIOUS
    <2>2. CASE s[n + 1].carry = b
      <3>1. holds(n + 1) = holds(n) \cup {n + 1}
        BY <2>2
      <3> HIDE DEF holds
      <3>2. Cardinality(holds(n + 1)) = Cardinality(holds(n)) + 1
        BY <1>1, <2>1, <3>1, FS_AddElement
      <3>3. QED
        BY <2>2, <3>2 DEF One
    <2>3. CASE s[n + 1].carry # b
      <3>1. holds(n + 1) = holds(n)
        BY <2>3
      <3> HIDE DEF holds
      <3>2. QED
        BY <1>1, <2>3, <3>1 DEF One
    <2>4. QED
      BY <2>2, <2>3
  <1>4. Cardinality(holds(0)) = 0
    BY <1>2, FS_EmptySet
  <1>5. QED
    BY <1>1, <1>3, <1>4 DEF HeldUpTo

LEMMA HeldFacts ==
  ASSUME NEW S, NEW s \in Seq(S), NEW b
  PROVE  /\ Held(s, b) \in Nat /\ Held(s, b) = HeldUpTo(s, Len(s), b)
         /\ \A k \in 1 .. Len(s) : s[k].carry = b => Held(s, b) >= 1
         /\ (\A k \in 1 .. Len(s) : s[k].carry # b) => Held(s, b) = 0
  <1> DEFINE holds == {k \in 1 .. Len(s) : s[k].carry = b}
  <1>1. DOMAIN s = 1 .. Len(s) /\ Len(s) \in Nat
    BY LenProperties
  <1>2. Held(s, b) = HeldUpTo(s, Len(s), b)
    BY <1>1 DEF Held, HeldUpTo
  <1>3. Held(s, b) \in Nat
    BY <1>1, <1>2, HeldUpToFacts
  <1>4. IsFiniteSet(holds)
    <2>1. holds \in SUBSET (1 .. Len(s)) /\ IsFiniteSet(1 .. Len(s))
      BY <1>1, FS_Interval
    <2>2. QED
      BY <2>1, FS_Subset
  <1>5. Held(s, b) = Cardinality(holds)
    BY <1>1 DEF Held
  <1>6. holds = {} <=> Held(s, b) = 0
    BY <1>4, <1>5, FS_EmptySet
  <1>7. PICK h \in Nat : h = Held(s, b)
    BY <1>3
  <1>8. \A k \in 1 .. Len(s) : s[k].carry = b => Held(s, b) >= 1
    BY <1>6, <1>7
  <1>9. (\A k \in 1 .. Len(s) : s[k].carry # b) => Held(s, b) = 0
    BY <1>6
  <1>10. QED
    BY <1>2, <1>3, <1>8, <1>9

LEMMA HeldEmpty ==
  ASSUME NEW b
  PROVE  Held(<<>>, b) = 0
  <1>1. PICK s : s = <<>>
    OBVIOUS
  <1>2. s \in Seq(Nat) /\ Len(s) = 0 /\ \A k \in 1 .. Len(s) : s[k].carry # b
    BY <1>1, EmptySeq
  <1>3. QED
    BY <1>1, <1>2, HeldFacts

LEMMA HeldAppend ==
  ASSUME NEW S, NEW s \in Seq(S), NEW e \in S, NEW b
  PROVE  Held(Append(s, e), b) = Held(s, b) + One(e.carry, b)
  <1>1. PICK t, n : t = Append(s, e) /\ n = Len(s)
    OBVIOUS
  <1>2. /\ t \in Seq(S) /\ Len(t) = n + 1 /\ n \in Nat
        /\ \A k \in 1 .. n : t[k] = s[k]
        /\ t[n + 1] = e
    BY <1>1, AppendProperties, LenProperties
  <1>3. HeldUpTo(t, n + 1, b) = HeldUpTo(t, n, b) + One(e.carry, b)
    BY <1>2, HeldUpToFacts
  <1>4. HeldUpTo(t, n, b) = HeldUpTo(s, n, b)
    <2>1. {k \in 1 .. n : t[k].carry = b} = {k \in 1 .. n : s[k].carry = b}
      BY <1>2
    <2>2. QED
      BY <2>1 DEF HeldUpTo
  <1>5. Held(t, b) = HeldUpTo(t, n + 1, b) /\ Held(s, b) = HeldUpTo(s, n, b)
    BY <1>1, <1>2, HeldFacts
  <1>6. QED
    BY <1>1, <1>3, <1>4, <1>5

LEMMA HeldFront ==
  ASSUME NEW S, NEW s \in Seq(S), s # <<>>, NEW b
  PROVE  Held(s, b) = Held(Front(s), b) + One(Last(s).carry, b)
  <1>1. Front(s) \in Seq(S) /\ Last(s) \in S /\ s = Front(s) \o <<Last(s)>>
    BY FrontFacts
  <1>2. s = Append(Front(s), Last(s))
    BY <1>1, AppendIsConcat
  <1>3. QED
    BY <1>1, <1>2, HeldAppend

\* A thread's block exchanged for another.
LEMMA HeldExchanged ==
  ASSUME NEW S, NEW s \in Seq(S), NEW t \in Seq(S), NEW i0 \in 1 .. Len(s), NEW b,
         Len(t) = Len(s), \A k \in 1 .. Len(s) : k # i0 => t[k].carry = s[k].carry
  PROVE  Held(t, b) = Held(s, b) - One(s[i0].carry, b) + One(t[i0].carry, b)
  <1> DEFINE others == {k \in 1 .. Len(s) : k # i0 /\ s[k].carry = b}
             holds(q) == {k \in 1 .. Len(s) : q[k].carry = b}
  <1>1. Len(s) \in Nat /\ DOMAIN s = 1 .. Len(s) /\ DOMAIN t = 1 .. Len(s)
    BY LenProperties
  <1>2. IsFiniteSet(others)
    <2>1. others \in SUBSET (1 .. Len(s)) /\ IsFiniteSet(1 .. Len(s))
      BY <1>1, FS_Interval
    <2>2. QED
      BY <2>1, FS_Subset
  <1>3. PICK n \in Nat : n = Cardinality(others)
    BY <1>2, FS_CardinalityType
  <1>4. ASSUME NEW q, \A k \in 1 .. Len(s) : k # i0 => q[k].carry = s[k].carry
        PROVE  Cardinality(holds(q)) = n + One(q[i0].carry, b)
    <2>1. i0 \notin others
      OBVIOUS
    <2>2. CASE q[i0].carry = b
      <3>1. holds(q) = others \cup {i0}
        BY <1>4, <2>2
      <3> HIDE DEF holds, others
      <3>2. Cardinality(holds(q)) = n + 1
        BY <1>2, <1>3, <2>1, <3>1, FS_AddElement
      <3>3. QED
        BY <2>2, <3>2 DEF One
    <2>3. CASE q[i0].carry # b
      <3>1. holds(q) = others
        BY <1>4, <2>3
      <3> HIDE DEF holds, others
      <3>2. QED
        BY <1>3, <2>3, <3>1 DEF One
    <2>4. QED
      BY <2>2, <2>3
  <1>5. Held(s, b) = Cardinality(holds(s)) /\ Held(t, b) = Cardinality(holds(t))
    BY <1>1 DEF Held
  <1> HIDE DEF holds
  <1>6. QED
    BY <1>3, <1>4, <1>5 DEF One

-----------------------------------------------------------------------------
(* The pool: its operations, for any block counts they start from.         *)

Blocks == [Slots -> npos .. size]
BlocksOf(p) == 1 .. Len(p.refcount)

\* The free list is exact: the blocks without a reference, each once.
Exact(d, r, f) ==
  /\ d \in Seq(Blocks) /\ r \in Seq(Nat) /\ f \in Seq(Nat)
  /\ Len(d) = Len(r) /\ Len(r) >= 1
  /\ \A k \in 1 .. Len(f) : f[k] \in 1 .. Len(r) /\ r[f[k]] = 0
  /\ \A b \in 1 .. Len(r) : r[b] = 0 => \E k \in 1 .. Len(f) : f[k] = b
  /\ \A j, k \in 1 .. Len(f) : f[j] = f[k] => j = k
  /\ d[npos_block] = Unset(Slots) /\ r[npos_block] >= 1

PoolOK(p) ==
  /\ p = [data |-> p.data, refcount |-> p.refcount, free |-> p.free]
  /\ Exact(p.data, p.refcount, p.free)

\* References to a block, none to one not made yet.
Count(p, b) == IF b \in BlocksOf(p) THEN p.refcount[b] ELSE 0

LEMMA PoolMade ==
  ASSUME NEW d, NEW r, NEW f, Exact(d, r, f)
  PROVE  PoolOK([data |-> d, refcount |-> r, free |-> f])
  BY DEF PoolOK

LEMMA ExactFacts ==
  ASSUME NEW d, NEW r, NEW f, Exact(d, r, f)
  PROVE  /\ d \in Seq(Blocks) /\ r \in Seq(Nat) /\ f \in Seq(Nat)
         /\ Len(d) = Len(r) /\ Len(r) \in Nat \ {0} /\ Len(f) \in Nat
         /\ DOMAIN r = 1 .. Len(r) /\ DOMAIN d = 1 .. Len(r) /\ DOMAIN f = 1 .. Len(f)
         /\ \A b \in 1 .. Len(r) : r[b] \in Nat /\ d[b] \in Blocks
  <1>1. /\ d \in Seq(Blocks) /\ r \in Seq(Nat) /\ f \in Seq(Nat)
        /\ Len(d) = Len(r) /\ Len(r) >= 1
    BY DEF Exact
  <1>2. /\ Len(r) \in Nat /\ Len(f) \in Nat /\ DOMAIN r = 1 .. Len(r) /\ DOMAIN d = 1 .. Len(d)
        /\ DOMAIN f = 1 .. Len(f)
    BY <1>1, LenProperties
  <1>3. \A b \in 1 .. Len(r) : r[b] \in Nat /\ d[b] \in Blocks
    BY <1>1, ElementOfSeq
  <1>4. QED
    BY <1>1, <1>2, <1>3

LEMMA IncrefFacts ==
  ASSUME NEW p, PoolOK(p), NEW b \in BlocksOf(p), p.refcount[b] >= 1
  PROVE  /\ PoolOK(incref(p, b)) /\ BlocksOf(incref(p, b)) = BlocksOf(p)
         /\ incref(p, b).data = p.data
         /\ \A c : Count(incref(p, b), c) = Count(p, c) + One(b, c)
  <1>1. PICK d, r, f : d = p.data /\ r = p.refcount /\ f = p.free
    OBVIOUS
  <1>2. p = [data |-> d, refcount |-> r, free |-> f] /\ Exact(d, r, f)
    BY <1>1 DEF PoolOK
  <1>3. /\ d \in Seq(Blocks) /\ r \in Seq(Nat) /\ f \in Seq(Nat)
        /\ Len(r) \in Nat \ {0} /\ DOMAIN r = 1 .. Len(r)
        /\ \A c \in 1 .. Len(r) : r[c] \in Nat
        /\ b \in 1 .. Len(r) /\ r[b] >= 1
        /\ 1 \in 1 .. Len(r)
    BY <1>1, <1>2, ExactFacts DEF BlocksOf
  <1>4. PICK s : s = [r EXCEPT ![b] = r[b] + 1]
    OBVIOUS
  <1>5. incref(p, b) = [data |-> d, refcount |-> s, free |-> f]
    BY <1>2, <1>4 DEF incref
  <1>6. /\ s \in Seq(Nat) /\ Len(s) = Len(r)
        /\ \A c \in 1 .. Len(r) : s[c] = IF c = b THEN r[b] + 1 ELSE r[c]
    <2>1. r[b] + 1 \in Nat
      BY <1>3
    <2>2. QED
      BY <1>3, <1>4, <2>1, ExceptSeq
  <1>7. ASSUME NEW c \in 1 .. Len(r)
        PROVE  s[c] = 0 <=> r[c] = 0
    <2>1. PICK n \in Nat : n = r[b] /\ n >= 1
      BY <1>3
    <2>2. n + 1 # 0 /\ n # 0
      BY <2>1
    <2>3. QED
      BY <1>6, <2>1, <2>2
  <1>8. Exact(d, s, f)
    <2>1. s[npos_block] >= 1
      <3>1. PICK m, n \in Nat : m = r[b] /\ n = r[npos_block] /\ n >= 1
        BY <1>2, <1>3 DEF Exact, npos_block
      <3>2. s[1] = IF b = 1 THEN m + 1 ELSE n
        BY <1>3, <1>6, <3>1 DEF npos_block
      <3>3. QED
        BY <3>1, <3>2 DEF npos_block
    <2>2. QED
      BY <1>2, <1>6, <1>7, <2>1 DEF Exact
  <1>9. PoolOK(incref(p, b))
    BY <1>5, <1>8, PoolMade
  <1>10. \A c : Count(incref(p, b), c) = Count(p, c) + One(b, c)
    BY <1>1, <1>3, <1>5, <1>6 DEF BlocksOf, Count, One
  <1>11. QED
    BY <1>1, <1>5, <1>6, <1>9, <1>10 DEF BlocksOf

\* The last reference to a block returns it to the free list.
LEMMA DecrefFacts ==
  ASSUME NEW p, PoolOK(p), NEW b \in BlocksOf(p), p.refcount[b] >= 1,
         b = npos_block => p.refcount[b] >= 2
  PROVE  /\ PoolOK(decref(p, b)) /\ BlocksOf(decref(p, b)) = BlocksOf(p)
         /\ decref(p, b).data = p.data
         /\ \A c : Count(decref(p, b), c) = Count(p, c) - One(b, c)
  <1>1. PICK d, r, f : d = p.data /\ r = p.refcount /\ f = p.free
    OBVIOUS
  <1>2. p = [data |-> d, refcount |-> r, free |-> f] /\ Exact(d, r, f)
    BY <1>1 DEF PoolOK
  <1>3. /\ d \in Seq(Blocks) /\ r \in Seq(Nat) /\ f \in Seq(Nat)
        /\ Len(r) \in Nat \ {0} /\ DOMAIN r = 1 .. Len(r) /\ Len(f) \in Nat
        /\ \A c \in 1 .. Len(r) : r[c] \in Nat
        /\ b \in 1 .. Len(r) /\ r[b] >= 1
        /\ 1 \in 1 .. Len(r)
    BY <1>1, <1>2, ExactFacts DEF BlocksOf
  <1>4. PICK s : s = [r EXCEPT ![b] = r[b] - 1]
    OBVIOUS
  <1>5. PICK g : g = IF r[b] = 1 THEN Append(f, b) ELSE f
    OBVIOUS
  <1>6. decref(p, b) = [data |-> d, refcount |-> s, free |-> g]
    <2>1. decref(p, b) = [p EXCEPT !.refcount = s, !.free = g]
      BY <1>1, <1>4, <1>5 DEF decref
    <2>2. QED
      BY <1>2, <2>1
  <1>7. /\ s \in Seq(Nat) /\ Len(s) = Len(r)
        /\ \A c \in 1 .. Len(r) : s[c] = IF c = b THEN r[b] - 1 ELSE r[c]
    <2>1. r[b] - 1 \in Nat
      BY <1>3
    <2>2. QED
      BY <1>3, <1>4, <2>1, ExceptSeq
  <1>8. /\ \A k \in 1 .. Len(f) : f[k] \in 1 .. Len(r) /\ r[f[k]] = 0
        /\ \A c \in 1 .. Len(r) : r[c] = 0 => \E k \in 1 .. Len(f) : f[k] = c
        /\ \A j, k \in 1 .. Len(f) : f[j] = f[k] => j = k
    BY <1>2 DEF Exact
  <1>9. Exact(d, s, g)
    <2>0. s[npos_block] >= 1
      <3>1. PICK m, n \in Nat : m = r[b] /\ n = r[npos_block] /\ n >= 1
        BY <1>2, <1>3 DEF Exact, npos_block
      <3>2. b = 1 => m >= 2
        BY <1>1, <3>1 DEF npos_block
      <3>3. s[1] = IF b = 1 THEN m - 1 ELSE n
        BY <1>3, <1>7, <3>1 DEF npos_block
      <3>4. QED
        BY <3>1, <3>2, <3>3 DEF npos_block
    <2>1. CASE r[b] # 1
      <3>1. \A c \in 1 .. Len(r) : s[c] = 0 <=> r[c] = 0
        BY <1>3, <1>7, <2>1
      <3>2. QED
        BY <1>2, <1>5, <1>7, <2>0, <2>1, <3>1 DEF Exact
    <2>2. CASE r[b] = 1
      <3>1. /\ g \in Seq(Nat) /\ Len(g) = Len(f) + 1
            /\ \A k \in 1 .. Len(f) : g[k] = f[k]
            /\ g[Len(f) + 1] = b
        BY <1>3, <1>5, <2>2, AppendProperties
      <3>2. s[b] = 0 /\ \A c \in 1 .. Len(r) : c # b => s[c] = r[c]
        BY <1>3, <1>7, <2>2
      <3>3. \A k \in 1 .. Len(f) : f[k] # b
        BY <1>8, <2>2
      <3>4. PICK n \in Nat : n = Len(f)
        BY <1>3
      <3>5. \A k \in 1 .. n + 1 : k \in 1 .. n \/ k = n + 1
        BY <3>4
      <3>6. \A k \in 1 .. Len(g) : g[k] \in 1 .. Len(r) /\ s[g[k]] = 0
        BY <1>3, <1>8, <3>1, <3>2, <3>3, <3>4, <3>5
      <3>7. ASSUME NEW c \in 1 .. Len(r), s[c] = 0
            PROVE  \E k \in 1 .. Len(g) : g[k] = c
        <4>1. CASE c = b
          <5>1. Len(f) + 1 \in 1 .. Len(g)
            BY <1>3, <3>1
          <5>2. QED
            BY <3>1, <4>1, <5>1
        <4>2. CASE c # b
          <5>1. PICK k \in 1 .. n : f[k] = c
            BY <1>8, <3>2, <3>4, <3>7, <4>2
          <5>2. k \in 1 .. Len(g) /\ g[k] = c
            BY <3>1, <3>4, <5>1
          <5>3. QED
            BY <5>2
        <4>3. QED
          BY <4>1, <4>2
      <3>8. \A j, k \in 1 .. Len(g) : g[j] = g[k] => j = k
        BY <1>8, <3>1, <3>3, <3>4, <3>5
      <3>9. QED
        BY <1>2, <1>7, <2>0, <3>1, <3>6, <3>7, <3>8 DEF Exact
    <2>3. QED
      BY <2>1, <2>2
  <1>10. PoolOK(decref(p, b))
    BY <1>6, <1>9, PoolMade
  <1>11. ASSUME NEW c
         PROVE  Count(decref(p, b), c) = Count(p, c) - One(b, c)
    <2>1. /\ Count(decref(p, b), c) = IF c \in 1 .. Len(r) THEN s[c] ELSE 0
          /\ Count(p, c) = IF c \in 1 .. Len(r) THEN r[c] ELSE 0
      BY <1>1, <1>6, <1>7 DEF BlocksOf, Count
    <2>2. PICK n \in Nat : n = IF c \in 1 .. Len(r) THEN r[c] ELSE 0
      BY <1>3
    <2>3. CASE c = b
      BY <1>3, <1>7, <2>1, <2>2, <2>3 DEF One
    <2>4. CASE c # b
      <3>1. Count(decref(p, b), c) = n /\ Count(p, c) = n /\ One(b, c) = 0
        BY <1>7, <2>1, <2>2, <2>4 DEF One
      <3>2. QED
        BY <3>1
    <2>5. QED
      BY <2>3, <2>4
  <1>12. QED
    BY <1>1, <1>6, <1>7, <1>10, <1>11 DEF BlocksOf

\* A block with one reference, which none held before.
Fresh(p, b, q) ==
  /\ PoolOK(q) /\ BlocksOf(q) = BlocksOf(p) \cup {b}
  /\ b # npos_block /\ Count(p, b) = 0
  /\ \A c : Count(q, c) = Count(p, c) + One(b, c)
  /\ \A c \in BlocksOf(p) : q.data[c] = p.data[c]

LEMMA AllocateFacts ==
  ASSUME NEW p, PoolOK(p)
  PROVE  Fresh(p, allocate(p).block, allocate(p).pool)
  <1>1. PICK d, r, f : d = p.data /\ r = p.refcount /\ f = p.free
    OBVIOUS
  <1>2. p = [data |-> d, refcount |-> r, free |-> f] /\ Exact(d, r, f)
    BY <1>1 DEF PoolOK
  <1>3. /\ d \in Seq(Blocks) /\ r \in Seq(Nat) /\ f \in Seq(Nat) /\ Len(d) = Len(r)
        /\ Len(r) \in Nat \ {0} /\ DOMAIN r = 1 .. Len(r) /\ Len(f) \in Nat
        /\ \A c \in 1 .. Len(r) : r[c] \in Nat
        /\ 1 \in 1 .. Len(r)
    BY <1>2, ExactFacts
  <1>4. /\ \A k \in 1 .. Len(f) : f[k] \in 1 .. Len(r) /\ r[f[k]] = 0
        /\ \A c \in 1 .. Len(r) : r[c] = 0 => \E k \in 1 .. Len(f) : f[k] = c
        /\ \A j, k \in 1 .. Len(f) : f[j] = f[k] => j = k
        /\ d[1] = Unset(Slots) /\ r[1] >= 1
    BY <1>2 DEF Exact, npos_block
  <1>5. CASE f # <<>>
    <2>1. PICK n \in Nat \ {0} : n = Len(f)
      BY <1>3, <1>5, EmptySeq
    <2>2. PICK b, g, s : b = Last(f) /\ g = Front(f) /\ s = [r EXCEPT ![b] = 1]
      OBVIOUS
    <2>3. allocate(p) = [block |-> b, pool |-> [data |-> d, refcount |-> s, free |-> g]]
      <3>1. allocate(p) = [block |-> b, pool |-> [p EXCEPT !.free = g, !.refcount = s]]
        BY <1>1, <1>5, <2>2 DEF allocate
      <3>2. [p EXCEPT !.free = g] = [data |-> d, refcount |-> r, free |-> g]
        BY <1>2
      <3>3. [[data |-> d, refcount |-> r, free |-> g] EXCEPT !.refcount = s]
              = [data |-> d, refcount |-> s, free |-> g]
        OBVIOUS
      <3>4. QED
        BY <3>1, <3>2, <3>3
    <2>4. /\ g \in Seq(Nat) /\ Len(g) = n - 1 /\ b = f[n]
          /\ \A k \in 1 .. n - 1 : g[k] = f[k]
      BY <1>3, <1>5, <2>1, <2>2, FrontFacts
    <2>5. b \in 1 .. Len(r) /\ r[b] = 0 /\ b # 1
      BY <1>4, <2>1, <2>4
    <2>6. /\ s \in Seq(Nat) /\ Len(s) = Len(r)
          /\ \A c \in 1 .. Len(r) : s[c] = IF c = b THEN 1 ELSE r[c]
      BY <1>3, <2>2, <2>5, ExceptSeq
    <2>7. Exact(d, s, g)
      <3>1. ASSUME NEW k \in 1 .. Len(g) PROVE g[k] \in 1 .. Len(s) /\ s[g[k]] = 0
        <4>1. k \in 1 .. n /\ k # n /\ n \in 1 .. n /\ g[k] = f[k]
          BY <2>1, <2>4
        <4>2. f[k] # b
          BY <1>4, <2>1, <2>4, <4>1
        <4>3. QED
          BY <1>4, <2>1, <2>6, <4>1, <4>2
      <3>2. ASSUME NEW c \in 1 .. Len(s), s[c] = 0 PROVE \E k \in 1 .. Len(g) : g[k] = c
        <4>1. c # b /\ r[c] = 0 /\ c \in 1 .. Len(r)
          BY <2>6, <3>2
        <4>2. PICK k \in 1 .. n : f[k] = c
          BY <1>4, <2>1, <4>1
        <4>3. k # n
          BY <2>4, <4>1, <4>2
        <4>4. k \in 1 .. Len(g) /\ g[k] = c
          BY <2>1, <2>4, <4>2, <4>3
        <4>5. QED
          BY <4>4
      <3>3. \A j, k \in 1 .. Len(g) : g[j] = g[k] => j = k
        <4>1. \A k \in 1 .. Len(g) : k \in 1 .. Len(f) /\ g[k] = f[k]
          BY <2>1, <2>4
        <4>2. QED
          BY <1>4, <4>1
      <3>4. s[npos_block] >= 1 /\ Len(s) >= 1
        BY <1>3, <1>4, <2>5, <2>6 DEF npos_block
      <3>5. QED
        BY <1>3, <1>4, <2>4, <2>6, <3>1, <3>2, <3>3, <3>4 DEF Exact, npos_block
    <2>8. PICK q : q = [data |-> d, refcount |-> s, free |-> g]
      OBVIOUS
    <2>9. PoolOK(q) /\ BlocksOf(q) = 1 .. Len(r) /\ BlocksOf(p) = 1 .. Len(r)
          /\ q.refcount = s /\ q.data = d
      BY <1>1, <2>6, <2>7, <2>8, PoolMade DEF BlocksOf
    <2>10. Count(p, b) = 0
      BY <1>1, <2>5, <2>9 DEF Count
    <2>11. ASSUME NEW c PROVE Count(q, c) = Count(p, c) + One(b, c)
      <3>1. PICK m \in Nat : m = IF c \in 1 .. Len(r) THEN r[c] ELSE 0
        BY <1>3
      <3>2. Count(p, c) = m /\ Count(q, c) = IF c \in 1 .. Len(r) THEN s[c] ELSE 0
        BY <1>1, <2>9, <3>1 DEF Count
      <3>3. CASE c = b
        BY <2>5, <2>6, <3>1, <3>2, <3>3 DEF One
      <3>4. CASE c # b
        BY <2>6, <3>1, <3>2, <3>4 DEF One
      <3>5. QED
        BY <3>3, <3>4
    <2>12. BlocksOf(q) = BlocksOf(p) \cup {b}
      BY <2>5, <2>9
    <2>13. allocate(p).block = b /\ allocate(p).pool = q
      BY <2>3, <2>8
    <2>14. QED
      BY <1>1, <2>5, <2>9, <2>10, <2>11, <2>12, <2>13 DEF Fresh, npos_block
  <1>6. CASE f = <<>>
    <2>1. PICK n \in Nat \ {0} : n = Len(r)
      BY <1>3
    <2>2. PICK e, s : e = Append(d, Unset(DOMAIN d[1])) /\ s = Append(r, 1)
      OBVIOUS
    <2>3. allocate(p) = [block |-> n + 1, pool |-> [data |-> e, refcount |-> s, free |-> f]]
      <3>1. allocate(p) = [block |-> n + 1, pool |-> [p EXCEPT !.refcount = s, !.data = e]]
        BY <1>1, <1>6, <2>1, <2>2 DEF allocate, npos_block
      <3>2. [p EXCEPT !.refcount = s] = [data |-> d, refcount |-> s, free |-> f]
        BY <1>2
      <3>3. [[data |-> d, refcount |-> s, free |-> f] EXCEPT !.data = e]
              = [data |-> e, refcount |-> s, free |-> f]
        OBVIOUS
      <3>4. QED
        BY <3>1, <3>2, <3>3
    <2>4. Unset(DOMAIN d[1]) \in Blocks
      <3>1. DOMAIN Unset(Slots) = Slots
        BY DEF Unset
      <3>2. Unset(Slots) \in Blocks
        BY <1>3, <1>4, ElementOfSeq
      <3>3. QED
        BY <1>4, <3>1, <3>2
    <2>5. /\ s \in Seq(Nat) /\ Len(s) = n + 1 /\ s[n + 1] = 1
          /\ \A c \in 1 .. n : s[c] = r[c]
      BY <1>3, <2>1, <2>2, AppendProperties
    <2>6. /\ e \in Seq(Blocks) /\ Len(e) = n + 1
          /\ \A c \in 1 .. n : e[c] = d[c]
      BY <1>3, <2>1, <2>2, <2>4, AppendProperties
    <2>7. Len(f) = 0 /\ \A k : k \notin 1 .. Len(f)
      BY <1>6, EmptySeq
    <2>8. \A c \in 1 .. n + 1 : s[c] # 0
      <3>1. \A c \in 1 .. n + 1 : c \in 1 .. n \/ c = n + 1
        BY <2>1
      <3>2. \A c \in 1 .. n : r[c] # 0
        BY <1>4, <2>1, <2>7
      <3>3. QED
        BY <2>5, <3>1, <3>2
    <2>9. Exact(e, s, f)
      <3>1. s[1] >= 1 /\ e[1] = Unset(Slots) /\ Len(s) >= 1
        BY <1>4, <2>1, <2>5, <2>6
      <3>2. QED
        BY <1>3, <2>5, <2>6, <2>7, <2>8, <3>1 DEF Exact, npos_block
    <2>10. PICK q : q = [data |-> e, refcount |-> s, free |-> f]
      OBVIOUS
    <2>11. /\ PoolOK(q) /\ BlocksOf(q) = 1 .. n + 1 /\ BlocksOf(p) = 1 .. n
           /\ q.refcount = s /\ q.data = e
      BY <1>1, <2>1, <2>5, <2>9, <2>10, PoolMade DEF BlocksOf
    <2>12. Count(p, n + 1) = 0
      BY <2>1, <2>11 DEF Count
    <2>13. ASSUME NEW c PROVE Count(q, c) = Count(p, c) + One(n + 1, c)
      <3>1. PICK m \in Nat : m = IF c \in 1 .. n THEN r[c] ELSE 0
        BY <1>3, <2>1
      <3>2. Count(p, c) = m /\ Count(q, c) = IF c \in 1 .. n + 1 THEN s[c] ELSE 0
        BY <1>1, <2>11, <3>1 DEF Count
      <3>3. CASE c = n + 1
        BY <2>1, <2>5, <3>1, <3>2, <3>3 DEF One
      <3>4. CASE c # n + 1
        <4>1. c \in 1 .. n + 1 <=> c \in 1 .. n
          BY <2>1, <3>4
        <4>2. QED
          BY <2>5, <3>1, <3>2, <3>4, <4>1 DEF One
      <3>5. QED
        BY <3>3, <3>4
    <2>14. BlocksOf(q) = BlocksOf(p) \cup {n + 1} /\ n + 1 # npos_block
      BY <2>1, <2>11 DEF npos_block
    <2>15. allocate(p).block = n + 1 /\ allocate(p).pool = q
      BY <2>3, <2>10
    <2>16. \A c \in BlocksOf(p) : q.data[c] = p.data[c]
      BY <1>1, <2>6, <2>11
    <2>17. QED
      BY <2>11, <2>12, <2>13, <2>14, <2>15, <2>16 DEF Fresh
  <1>7. QED
    BY <1>5, <1>6

\* A block's slots replaced; the all-npos block's never are.
LEMMA WriteFacts ==
  ASSUME NEW p, PoolOK(p), NEW b \in BlocksOf(p), b # npos_block, NEW v \in Blocks
  PROVE  LET q == [p EXCEPT !.data[b] = v] IN
         /\ PoolOK(q) /\ BlocksOf(q) = BlocksOf(p) /\ \A c : Count(q, c) = Count(p, c)
         /\ \A c \in BlocksOf(p) : q.data[c] = IF c = b THEN v ELSE p.data[c]
  <1>1. PICK d, r, f : d = p.data /\ r = p.refcount /\ f = p.free
    OBVIOUS
  <1>2. p = [data |-> d, refcount |-> r, free |-> f] /\ Exact(d, r, f)
    BY <1>1 DEF PoolOK
  <1>3. PICK e : e = [d EXCEPT ![b] = v]
    OBVIOUS
  <1>4. PICK q : q = [p EXCEPT !.data[b] = v]
    OBVIOUS
  <1>5. q = [data |-> e, refcount |-> r, free |-> f]
    <2>1. q = [p EXCEPT !.data = e]
      BY <1>1, <1>3, <1>4
    <2>2. QED
      BY <1>2, <2>1
  <1>6. d \in Seq(Blocks) /\ Len(d) = Len(r) /\ b \in 1 .. Len(d) /\ 1 \in 1 .. Len(d)
    BY <1>1, <1>2, ExactFacts DEF BlocksOf
  <1>7. /\ e \in Seq(Blocks) /\ Len(e) = Len(d)
        /\ \A c \in 1 .. Len(d) : e[c] = IF c = b THEN v ELSE d[c]
    BY <1>3, <1>6, ExceptSeq
  <1>8. Exact(e, r, f)
    BY <1>2, <1>6, <1>7 DEF Exact, npos_block
  <1>9. PoolOK(q)
    BY <1>5, <1>8, PoolMade
  <1>10. /\ BlocksOf(q) = BlocksOf(p) /\ \A c : Count(q, c) = Count(p, c)
         /\ \A c \in BlocksOf(p) : q.data[c] = IF c = b THEN v ELSE p.data[c]
    BY <1>1, <1>5, <1>6, <1>7 DEF BlocksOf, Count
  <1>11. QED
    BY <1>4, <1>9, <1>10

\* What a write through b leaves: block, with the slots v, in the pool q.
Written(p, b, block, q, v) ==
  /\ PoolOK(q) /\ block # npos_block
  /\ BlocksOf(q) = BlocksOf(p) \cup {block}
  /\ \A c : Count(q, c) = Count(p, c) - One(b, c) + One(block, c)
  /\ IF block = b THEN Count(p, b) = 1 ELSE Count(p, block) = 0 /\ Count(p, b) >= 2
  /\ q.data[block] = v
  /\ \A c \in BlocksOf(p) : c # block => q.data[c] = p.data[c]

\* A reference to b is held, beside the pool's own to the all-npos block.
Referred(p, b) ==
  b \in BlocksOf(p) /\ p.refcount[b] >= 1 /\ (b = npos_block => p.refcount[b] >= 2)

LEMMA SlotWritten ==
  ASSUME NEW p, PoolOK(p), NEW b \in BlocksOf(p), NEW slot \in Slots, NEW value \in npos .. size
  PROVE  p.data[b] \in Blocks /\ [p.data[b] EXCEPT ![slot] = value] \in Blocks
  <1>1. p.data[b] \in Blocks
    BY ExactFacts DEF PoolOK, BlocksOf
  <1>2. QED
    BY <1>1 DEF Blocks

LEMMA CowFacts ==
  ASSUME NEW p, PoolOK(p), NEW b, Referred(p, b),
         NEW slot \in Slots, NEW value \in npos .. size
  PROVE  Written(p, b, cow_write(p, b, slot, value).block, cow_write(p, b, slot, value).pool,
                 [p.data[b] EXCEPT ![slot] = value])
  <1>1. PICK v, w : v = [p.data[b] EXCEPT ![slot] = value] /\ w = cow_write(p, b, slot, value)
    OBVIOUS
  <1>2. b \in BlocksOf(p) /\ v \in Blocks
    BY <1>1, SlotWritten DEF Referred
  <1>3. PICK n \in Nat : n = p.refcount[b] /\ n >= 1 /\ (b = npos_block => n >= 2)
    BY <1>2, ExactFacts DEF PoolOK, Referred, BlocksOf
  <1>4. Count(p, b) = n
    BY <1>2, <1>3 DEF Count
  <1>5. CASE n > 1
    <2>1. PICK fresh, a : fresh = allocate(p).block /\ a = allocate(p).pool
      OBVIOUS
    <2>2. PICK copied, q : copied = [a EXCEPT !.data[fresh] = v] /\ q = decref(copied, b)
      OBVIOUS
    <2>3. w = [block |-> fresh, pool |-> q]
      BY <1>1, <1>3, <1>5, <2>1, <2>2 DEF cow_write
    <2>4. Fresh(p, fresh, a)
      BY <2>1, AllocateFacts
    <2>5. /\ PoolOK(copied) /\ BlocksOf(copied) = BlocksOf(a)
          /\ \A c : Count(copied, c) = Count(a, c)
          /\ \A c \in BlocksOf(a) : copied.data[c] = IF c = fresh THEN v ELSE a.data[c]
      BY <1>2, <2>2, <2>4, WriteFacts DEF Fresh
    <2>6. fresh # b
      BY <1>3, <1>4, <2>4 DEF Fresh
    <2>7. Count(copied, b) = n /\ b \in BlocksOf(copied) /\ copied.refcount[b] = n
      BY <1>2, <1>3, <1>4, <2>4, <2>5, <2>6 DEF Fresh, One, Count
    <2>8. /\ PoolOK(q) /\ BlocksOf(q) = BlocksOf(copied) /\ q.data = copied.data
          /\ \A c : Count(q, c) = Count(copied, c) - One(b, c)
      BY <1>3, <2>2, <2>5, <2>7, DecrefFacts
    <2>9. ASSUME NEW c
          PROVE  Count(q, c) = Count(p, c) - One(b, c) + One(fresh, c)
      <3>1. PICK m \in Nat : m = Count(p, c)
        BY ExactFacts DEF Count, PoolOK, BlocksOf
      <3>2. Count(a, c) = Count(p, c) + One(fresh, c)
        BY <2>4 DEF Fresh
      <3>3. Count(copied, c) = Count(a, c)
        BY <2>5
      <3>4. Count(q, c) = Count(copied, c) - One(b, c)
        BY <2>8
      <3>5. QED
        BY <3>1, <3>2, <3>3, <3>4 DEF One
    <2>10. q.data[fresh] = v /\ \A c \in BlocksOf(p) : c # fresh => q.data[c] = p.data[c]
      BY <2>4, <2>5, <2>8 DEF Fresh
    <2>11. Written(p, b, fresh, q, v)
      BY <1>4, <1>5, <2>4, <2>5, <2>6, <2>8, <2>9, <2>10 DEF Written, Fresh
    <2>12. QED
      BY <1>1, <2>3, <2>11
  <1>6. CASE ~(n > 1)
    <2>1. n = 1 /\ b # npos_block
      BY <1>3, <1>6
    <2>2. PICK q : q = [p EXCEPT !.data[b] = v]
      OBVIOUS
    <2>3. w = [block |-> b, pool |-> q]
      <3>1. cow_write(p, b, slot, value) = [block |-> b, pool |-> [p EXCEPT !.data[b][slot] = value]]
        BY <1>3, <1>6 DEF cow_write
      <3>2. [p EXCEPT !.data[b][slot] = value] = [p EXCEPT !.data[b] = v]
        BY <1>1
      <3>3. QED
        BY <1>1, <2>2, <3>1, <3>2
    <2>4. /\ PoolOK(q) /\ BlocksOf(q) = BlocksOf(p) /\ \A c : Count(q, c) = Count(p, c)
          /\ \A c \in BlocksOf(p) : q.data[c] = IF c = b THEN v ELSE p.data[c]
      BY <1>2, <2>1, <2>2, WriteFacts
    <2>5. ASSUME NEW c
          PROVE  Count(q, c) = Count(p, c) - One(b, c) + One(b, c)
      <3>1. PICK m \in Nat : m = Count(p, c)
        BY ExactFacts DEF Count, PoolOK, BlocksOf
      <3>2. QED
        BY <2>4, <3>1 DEF One
    <2>6. Written(p, b, b, q, v)
      BY <1>2, <1>4, <2>1, <2>4, <2>5 DEF Written
    <2>7. QED
      BY <1>1, <2>3, <2>6
  <1>7. QED
    BY <1>3, <1>5, <1>6

-----------------------------------------------------------------------------
(* A list's threads release their blocks.                                  *)

\* The pools on the way, the first k threads' references given back.
Released(p, t) ==
  CHOOSE released :
    released = [k \in 0 .. Len(t) |-> IF k = 0 THEN p ELSE decref(released[k - 1], t[k].carry)]

LEMMA ReleasedExists ==
  ASSUME NEW p, NEW t, Len(t) \in Nat
  PROVE  Released(p, t) =
           [k \in 0 .. Len(t) |-> IF k = 0 THEN p ELSE decref(Released(p, t)[k - 1], t[k].carry)]
  <1> DEFINE step(h, n) == [k \in 0 .. n |-> IF k = 0 THEN p ELSE decref(h[k - 1], t[k].carry)]
             S == {n \in Nat : \E h : h = step(h, n)}
  <1>1. 0 \in S
    <2>1. PICK h : h = [k \in 0 .. 0 |-> p]
      OBVIOUS
    <2>2. h = step(h, 0)
      BY <2>1
    <2>3. QED
      BY <2>2
  <1>2. ASSUME NEW n \in S PROVE n + 1 \in S
    <2>1. PICK h : h = step(h, n)
      OBVIOUS
    <2>2. n \in Nat
      OBVIOUS
    <2>3. PICK g : g = [k \in 0 .. n + 1 |-> IF k = n + 1 THEN decref(h[n], t[n + 1].carry) ELSE h[k]]
      OBVIOUS
    <2>4. \A k \in 0 .. n : g[k] = h[k]
      BY <2>2, <2>3
    <2>5. ASSUME NEW k \in 0 .. n + 1
          PROVE  g[k] = IF k = 0 THEN p ELSE decref(g[k - 1], t[k].carry)
      <3>1. CASE k = n + 1
        <4>1. k # 0 /\ k - 1 = n /\ n \in 0 .. n /\ g[k] = decref(h[n], t[n + 1].carry)
          BY <2>2, <2>3, <3>1
        <4>2. g[k - 1] = h[n]
          BY <2>4, <4>1
        <4>3. QED
          BY <3>1, <4>1, <4>2
      <3>2. CASE k \in 0 .. n
        <4>1. h[k] = IF k = 0 THEN p ELSE decref(h[k - 1], t[k].carry)
          BY <2>1, <3>2
        <4>2. k # 0 => k - 1 \in 0 .. n
          BY <2>2, <3>2
        <4>3. k # 0 => g[k - 1] = h[k - 1]
          BY <2>4, <4>2
        <4>4. QED
          BY <2>4, <3>2, <4>1, <4>3
      <3>3. QED
        BY <2>2, <3>1, <3>2
    <2>6. g = step(g, n + 1)
      BY <2>3, <2>5
    <2>7. n + 1 \in Nat
      BY <2>2
    <2> HIDE DEF step
    <2>8. QED
      BY <2>6, <2>7
  <1>3. S = Nat
    <2>1. S \in SUBSET Nat
      OBVIOUS
    <2> HIDE DEF S
    <2>2. QED
      BY <1>1, <1>2, <2>1, SetInduction
  <1>4. \E h : h = step(h, Len(t))
    BY <1>3
  <1>5. QED
    BY <1>4 DEF Released

\* Each thread gives back the reference it held, and nothing else changes.
ReleasedBy(p, t, q) ==
  /\ PoolOK(q) /\ BlocksOf(q) = BlocksOf(p) /\ q.data = p.data
  /\ \A b : Count(q, b) = Count(p, b) - Held(t, b)

\* Every reference the threads hold is counted, beside the pool's own to the all-npos block.
Backed(p, t) ==
  \A k \in 1 .. Len(t) :
    /\ t[k].carry \in BlocksOf(p)
    /\ Count(p, t[k].carry) >= Held(t, t[k].carry) + One(t[k].carry, npos_block)

LEMMA CountNat ==
  ASSUME NEW p, PoolOK(p), NEW b
  PROVE  Count(p, b) \in Nat
  BY ExactFacts DEF PoolOK, Count, BlocksOf

LEMMA ReleaseFacts ==
  ASSUME NEW p, PoolOK(p), NEW S, NEW t \in Seq(S), Backed(p, t)
  PROVE  ReleasedBy(p, t, Released(p, t)[Len(t)])
  <1> DEFINE n == Len(t)
             released == Released(p, t)
             given(k) == /\ PoolOK(released[k]) /\ BlocksOf(released[k]) = BlocksOf(p)
                         /\ released[k].data = p.data
                         /\ \A b : Count(released[k], b) = Count(p, b) - HeldUpTo(t, k, b)
             good == {k \in Nat : k <= n => given(k)}
  <1>1. n \in Nat
    BY LenProperties
  <1>2. \A k \in 0 .. n : released[k] = IF k = 0 THEN p ELSE decref(released[k - 1], t[k].carry)
    BY <1>1, ReleasedExists
  <1>3. 0 \in good
    <2>1. released[0] = p
      BY <1>1, <1>2
    <2>2. \A b : Count(p, b) = Count(p, b) - HeldUpTo(t, 0, b)
      BY CountNat, HeldUpToFacts
    <2>3. QED
      BY <2>1, <2>2
  <1>4. ASSUME NEW k \in good PROVE k + 1 \in good
    <2>1. SUFFICES ASSUME k + 1 <= n PROVE given(k + 1)
      BY <1>4
    <2>2. k \in Nat /\ k <= n /\ k + 1 \in 0 .. n /\ k + 1 \in 1 .. n /\ k + 1 - 1 = k /\ k + 1 # 0
      BY <1>1, <2>1
    <2>3. given(k)
      BY <2>2
    <2>4. PICK r, q, c : r = released[k] /\ q = released[k + 1] /\ c = t[k + 1].carry
      OBVIOUS
    <2>5. q = decref(r, c)
      BY <1>2, <2>2, <2>4
    <2>6. /\ PoolOK(r) /\ BlocksOf(r) = BlocksOf(p) /\ r.data = p.data
          /\ \A b : Count(r, b) = Count(p, b) - HeldUpTo(t, k, b)
      BY <2>3, <2>4
    <2>7. \A b : HeldUpTo(t, k, b) \in Nat /\ HeldUpTo(t, k + 1, b) = HeldUpTo(t, k, b) + One(c, b)
      BY <2>2, <2>4, HeldUpToFacts
    <2>8. /\ c \in BlocksOf(p)
          /\ Count(p, c) >= Held(t, c) + One(c, npos_block)
      BY <2>2, <2>4 DEF Backed
    <2>9. HeldUpTo(t, k + 1, c) <= Held(t, c) /\ Held(t, c) \in Nat
      <3>1. {j \in 1 .. k + 1 : t[j].carry = c} \in SUBSET {j \in 1 .. n : t[j].carry = c}
        BY <1>1, <2>2
      <3>2. IsFiniteSet({j \in 1 .. n : t[j].carry = c})
        <4>1. {j \in 1 .. n : t[j].carry = c} \in SUBSET (1 .. n) /\ IsFiniteSet(1 .. n)
          BY <1>1, FS_Interval
        <4>2. QED
          BY <4>1, FS_Subset
      <3>3. HeldUpTo(t, k + 1, c) <= HeldUpTo(t, n, c)
        BY <3>1, <3>2, FS_Subset DEF HeldUpTo
      <3>4. QED
        BY <3>3, HeldFacts
    <2>10. Referred(r, c)
      <3>1. PICK x, y, h \in Nat : x = Count(p, c) /\ y = HeldUpTo(t, k, c) /\ h = Held(t, c)
        BY <2>7, <2>9, CountNat
      <3>2. x >= h + One(c, npos_block) /\ y + 1 <= h
        BY <2>7, <2>8, <2>9, <3>1 DEF One
      <3>3. Count(r, c) = x - y
        BY <2>6, <3>1
      <3>4. c \in BlocksOf(r) /\ r.refcount[c] = x - y
        BY <2>6, <2>8, <3>3 DEF Count
      <3>5. QED
        BY <3>1, <3>2, <3>4 DEF Referred, One
    <2>11. /\ PoolOK(q) /\ BlocksOf(q) = BlocksOf(r) /\ q.data = r.data
           /\ \A b : Count(q, b) = Count(r, b) - One(c, b)
      BY <2>5, <2>6, <2>10, DecrefFacts DEF Referred
    <2>12. ASSUME NEW b PROVE Count(q, b) = Count(p, b) - HeldUpTo(t, k + 1, b)
      <3>1. PICK x, y \in Nat : x = Count(p, b) /\ y = HeldUpTo(t, k, b)
        BY <2>7, CountNat
      <3>2. Count(r, b) = x - y
        BY <2>6, <3>1
      <3>3. Count(q, b) = Count(r, b) - One(c, b)
        BY <2>11
      <3>4. HeldUpTo(t, k + 1, b) = y + One(c, b)
        BY <2>7, <3>1
      <3>5. QED
        BY <3>1, <3>2, <3>3, <3>4 DEF One
    <2>13. QED
      BY <2>4, <2>6, <2>11, <2>12
  <1>5. good = Nat
    <2>1. good \in SUBSET Nat
      OBVIOUS
    <2> HIDE DEF good
    <2>2. QED
      BY <1>3, <1>4, <2>1, SetInduction
  <1>6. given(n)
    BY <1>1, <1>5
  <1>7. \A b : HeldUpTo(t, n, b) = Held(t, b)
    BY HeldFacts
  <1>8. QED
    BY <1>6, <1>7 DEF ReleasedBy

-----------------------------------------------------------------------------
(* The inductive invariant.                                                *)

CarryIn(p) == IF capture_free THEN 0 .. size ELSE BlocksOf(p)
ThreadsIn(p) == [pc : DOMAIN code, carry : CarryIn(p)]

\* A list's threads stand at counters it has seen, no two at the same.
ListOK(list, p) ==
  /\ list \in [threads : Seq(ThreadsIn(p)), seen : SUBSET DOMAIN code]
  /\ \A k \in 1 .. Len(list.threads) : list.threads[k].pc \in list.seen
  /\ \A j, k \in 1 .. Len(list.threads) : list.threads[j].pc = list.threads[k].pc => j = k

Balance(p, c, n, s) ==
  \A b \in BlocksOf(p) :
    Count(p, b) = Held(c, b) + Held(n, b) + Held(s, b) + One(b, npos_block)

Stepped == at = "step" \/ (at = "closure" /\ into = "nlist")

Control ==
  /\ at \in {"loop", "closure", "check", "step", "drain", "done"}
  /\ pos \in 0 .. size + 1 /\ i \in 1 .. Len(code) + 1
  /\ into \in {"clist", "nlist"} /\ carried \in npos .. size
  /\ matched \in BOOLEAN /\ out_slots \in Blocks
  /\ at \in {"closure", "check", "step"} => pos <= size
  /\ at = "closure" /\ into = "nlist" => pos < size
  /\ at = "closure" /\ capture_free => carried \in 0 .. size

Rests ==
  /\ at # "closure" => stack = <<>>
  /\ Stepped => i <= Len(clist.threads) + 1
  /\ ~Stepped /\ at \notin {"drain", "done"} => nlist.threads = <<>>

Structure ==
  /\ lists = [clist |-> clist, nlist |-> nlist]
  /\ PoolOK(pool)
  /\ ListOK(clist, pool) /\ ListOK(nlist, pool)
  /\ stack \in Seq(ThreadsIn(pool))

Balanced ==
  ~capture_free =>
    IF at = "done" THEN Balance(pool, <<>>, <<>>, <<>>)
                   ELSE Balance(pool, clist.threads, nlist.threads, stack)

VMInv == search \in Searches /\ Control /\ Rests /\ Structure /\ Balanced

LEMMA Kept ==
  ASSUME UNCHANGED search
  PROVE  /\ prog' = prog /\ code' = code /\ hints' = hints /\ text' = text /\ size' = size
         /\ Slots' = Slots /\ capture_free' = capture_free /\ Blocks' = Blocks
  BY DEF prog, code, hints, text, size, Slots, capture_free, Blocks

LEMMA ThreadsGrow ==
  ASSUME NEW p, NEW q, BlocksOf(p) \subseteq BlocksOf(q)
  PROVE  /\ ThreadsIn(p) \subseteq ThreadsIn(q)
         /\ \A s \in Seq(ThreadsIn(p)) : s \in Seq(ThreadsIn(q))
         /\ \A list : ListOK(list, p) => ListOK(list, q)
  <1>1. ThreadsIn(p) \subseteq ThreadsIn(q)
    BY DEF ThreadsIn, CarryIn
  <1>2. \A s \in Seq(ThreadsIn(p)) : s \in Seq(ThreadsIn(q))
    BY <1>1, SeqMonotonic
  <1>3. ASSUME NEW list, ListOK(list, p) PROVE ListOK(list, q)
    <2>1. list \in [threads : Seq(ThreadsIn(p)), seen : SUBSET DOMAIN code]
      BY <1>3 DEF ListOK
    <2>2. list \in [threads : Seq(ThreadsIn(q)), seen : SUBSET DOMAIN code]
      BY <1>2, <2>1
    <2>3. QED
      BY <1>3, <2>2 DEF ListOK
  <1>4. QED
    BY <1>1, <1>2, <1>3

LEMMA PoolPrimed ==
  ASSUME UNCHANGED search, NEW p, p = pool', PoolOK(p)
  PROVE  PoolOK(pool)'
  BY Kept DEF PoolOK, Exact

LEMMA ThreadsPrimed ==
  ASSUME UNCHANGED search, NEW p, p = pool'
  PROVE  ThreadsIn(pool)' = ThreadsIn(p)
  <1>1. CarryIn(pool)' = CarryIn(p)
    BY Kept DEF CarryIn, BlocksOf
  <1>2. QED
    BY <1>1, Kept DEF ThreadsIn

LEMMA ListPrimed ==
  ASSUME UNCHANGED search, NEW p, NEW c, NEW n, p = pool', lists' = [clist |-> c, nlist |-> n],
         ListOK(c, p), ListOK(n, p)
  PROVE  clist' = c /\ nlist' = n /\ ListOK(clist, pool)' /\ ListOK(nlist, pool)'
  <1>1. clist' = c /\ nlist' = n
    BY DEF clist, nlist
  <1>2. ListOK(clist, pool)'
    BY <1>1, Kept, ThreadsPrimed DEF ListOK
  <1>3. ListOK(nlist, pool)'
    BY <1>1, Kept, ThreadsPrimed DEF ListOK
  <1>4. QED
    BY <1>1, <1>2, <1>3

\* What an action must establish, said of the state it leaves.
LEMMA Arrive ==
  ASSUME search \in Searches, UNCHANGED search, Control', Rests',
         NEW p, NEW c, NEW n, NEW s,
         p = pool', s = stack', lists' = [clist |-> c, nlist |-> n],
         PoolOK(p), ListOK(c, p), ListOK(n, p), s \in Seq(ThreadsIn(p)),
         ~capture_free =>
           IF at' = "done" THEN Balance(p, <<>>, <<>>, <<>>)
                           ELSE Balance(p, c.threads, n.threads, s)
  PROVE  VMInv'
  <1>1. clist' = c /\ nlist' = n /\ ListOK(clist, pool)' /\ ListOK(nlist, pool)'
    BY ListPrimed
  <1>2. PoolOK(pool)'
    BY PoolPrimed
  <1>3. stack' \in Seq(ThreadsIn(pool)')
    BY ThreadsPrimed
  <1>4. Structure'
    BY <1>1, <1>2, <1>3 DEF Structure
  <1>5. Balanced'
    BY <1>1, Kept DEF Balanced, Balance, Count, BlocksOf, Held, One
  <1>6. QED
    BY <1>4, <1>5 DEF VMInv

LEMMA Parts ==
  ASSUME VMInv
  PROVE  /\ search \in Searches /\ Control /\ Rests
         /\ lists = [clist |-> clist, nlist |-> nlist] /\ PoolOK(pool)
         /\ ListOK(clist, pool) /\ ListOK(nlist, pool) /\ stack \in Seq(ThreadsIn(pool))
         /\ ~capture_free /\ at # "done" =>
              Balance(pool, clist.threads, nlist.threads, stack)
  BY DEF VMInv, Structure, Balanced

LEMMA ListFacts ==
  ASSUME NEW p, NEW list, ListOK(list, p)
  PROVE  /\ list.threads \in Seq(ThreadsIn(p)) /\ list.seen \subseteq DOMAIN code
         /\ Len(list.threads) \in Nat /\ DOMAIN list.threads = 1 .. Len(list.threads)
         /\ \A k \in 1 .. Len(list.threads) :
              list.threads[k] \in ThreadsIn(p) /\ list.threads[k].pc \in list.seen
  <1>1. list.threads \in Seq(ThreadsIn(p)) /\ list.seen \subseteq DOMAIN code
    BY DEF ListOK
  <1>2. QED
    BY <1>1, LenProperties, ElementOfSeq DEF ListOK

\* A list has at most one thread per instruction.
LEMMA ListFits ==
  ASSUME search \in Searches, NEW p, NEW list, ListOK(list, p)
  PROVE  Len(list.threads) <= Len(code)
  <1>1. PICK m, n \in Nat : m = Len(list.threads) /\ n = Len(code) /\ DOMAIN code = 1 .. n
    BY ListFacts, CallFacts
  <1>2. PICK f : f = [k \in 1 .. m |-> list.threads[k].pc]
    OBVIOUS
  <1>3. \A k \in 1 .. m : list.threads[k].pc \in 1 .. n
    BY <1>1, ListFacts
  <1>4. f \in Injection(1 .. m, 1 .. n)
    <2>1. f \in [1 .. m -> 1 .. n]
      BY <1>2, <1>3
    <2>2. \A j, k \in 1 .. m : f[j] = f[k] => j = k
      BY <1>1, <1>2 DEF ListOK
    <2>3. QED
      BY <2>1, <2>2 DEF Injection, IsInjective
  <1>5. IsFiniteSet(1 .. n) /\ Cardinality(1 .. n) = n /\ Cardinality(1 .. m) = m
    <2>1. 1 \in Int /\ m \in Int /\ n \in Int
      BY <1>1
    <2>2. /\ IsFiniteSet(1 .. n) /\ Cardinality(1 .. n) = IF 1 > n THEN 0 ELSE n - 1 + 1
          /\ Cardinality(1 .. m) = IF 1 > m THEN 0 ELSE m - 1 + 1
      BY <2>1, FS_Interval
    <2>3. QED
      BY <1>1, <2>2
  <1>6. Cardinality(1 .. m) <= Cardinality(1 .. n)
    BY <1>4, <1>5, FS_Injection
  <1>7. QED
    BY <1>1, <1>5, <1>6

-----------------------------------------------------------------------------
(* Steps that leave the pool and the stack alone.                          *)

LEMMA EmptyListOK ==
  ASSUME NEW p
  PROVE  ListOK(EmptyList, p)
  <1>1. <<>> \in Seq(ThreadsIn(p)) /\ Len(<<>>) = 0
    BY EmptySeq
  <1>2. PICK e : e = <<>>
    OBVIOUS
  <1>3. EmptyList = [threads |-> e, seen |-> {}]
    BY <1>2 DEF EmptyList
  <1>4. e \in Seq(ThreadsIn(p)) /\ \A k : k \notin 1 .. Len(e)
    BY <1>1, <1>2
  <1>5. QED
    BY <1>3, <1>4 DEF ListOK

\* A list without threads forgets the counters it has seen.
Reset == clist.threads = <<>> /\ lists' = [lists EXCEPT !.clist = EmptyList]

LEMMA ResetFacts ==
  ASSUME VMInv, Reset
  PROVE  lists' = [clist |-> EmptyList, nlist |-> nlist] /\ clist' = EmptyList /\ nlist' = nlist
         /\ EmptyList.threads = clist.threads
  <1>1. lists = [clist |-> clist, nlist |-> nlist] /\ clist.threads = <<>>
    BY Parts DEF Reset
  <1>2. lists' = [clist |-> EmptyList, nlist |-> nlist]
    BY <1>1 DEF Reset
  <1>3. QED
    BY <1>1, <1>2 DEF clist, nlist, EmptyList

LEMMA QuietStep ==
  ASSUME VMInv, at # "done", at' # "done", UNCHANGED <<search, stack, pool>>,
         lists' = lists \/ Reset, Control', Rests'
  PROVE  VMInv'
  <1>1. UNCHANGED search /\ pool' = pool /\ stack' = stack
    OBVIOUS
  <1>2. PICK p, c, n, s, d : /\ p = pool /\ c = clist /\ n = nlist /\ s = stack
                             /\ d = IF lists' = lists THEN c ELSE EmptyList
    OBVIOUS
  <1>3. /\ search \in Searches /\ PoolOK(p) /\ ListOK(c, p) /\ ListOK(n, p)
        /\ s \in Seq(ThreadsIn(p))
        /\ ~capture_free => Balance(p, c.threads, n.threads, s)
    BY <1>2, Parts
  <1>4. lists' = [clist |-> d, nlist |-> n] /\ d.threads = c.threads /\ ListOK(d, p)
    <2>1. CASE lists' = lists
      BY <1>2, <1>3, <2>1, Parts
    <2>2. CASE lists' # lists
      BY <1>2, <2>2, ResetFacts, EmptyListOK
    <2>3. QED
      BY <2>1, <2>2
  <1>5. p = pool' /\ s = stack'
    BY <1>1, <1>2
  <1>6. ~capture_free =>
          IF at' = "done" THEN Balance(p, <<>>, <<>>, <<>>)
                          ELSE Balance(p, d.threads, n.threads, s)
    BY <1>3, <1>4
  <1>7. QED
    BY <1>1, <1>3, <1>4, <1>5, <1>6, Arrive

\* Where a seed may arrive.
LEMMA ArrivalFits ==
  ASSUME VMInv, pos <= size, Arrival # npos
  PROVE  Arrival \in pos .. size /\ Arrival \in 0 .. size
  <1>1. text \in Seq(Bytes) /\ size = Len(text) /\ size \in Nat /\ pos \in 0 .. size + 1
    BY Parts, CallFacts DEF Control, size
  <1>2. CASE Skipping
    <2>1. Arrival = next_candidate(hints, text, pos, search.start) /\ pos \in Nat
      BY <1>1, <1>2 DEF Arrival
    <2>2. Arrival \in pos .. size
      BY <1>1, <2>1, NextCandidateFits
    <2>3. QED
      BY <1>1, <2>2
  <1>3. CASE ~Skipping
    BY <1>1, <1>3 DEF Arrival
  <1>4. QED
    BY <1>2, <1>3

LEMMA ExhaustedStep ==
  ASSUME VMInv, Exhausted
  PROVE  VMInv'
  <1>1. /\ at = "loop" /\ at' = "drain"
        /\ UNCHANGED <<search, pos, i, lists, into, stack, carried, pool, matched, out_slots>>
    BY DEF Exhausted
  <1>2. UNCHANGED search
    BY <1>1
  <1>3. Control'
    BY <1>1, <1>2, Kept, Parts DEF Control
  <1>4. Rests'
    BY <1>1, Parts DEF Rests, Stepped
  <1>5. QED
    BY <1>1, <1>3, <1>4, QuietStep

LEMMA NoSeedStep ==
  ASSUME VMInv, NoSeed
  PROVE  VMInv'
  <1>1. /\ at = "loop" /\ at' = "check" /\ pos <= size /\ Arrival # npos /\ pos' = Arrival
        /\ lists' = [lists EXCEPT !.clist = IF Skipping THEN EmptyList ELSE @]
        /\ UNCHANGED <<search, i, into, stack, carried, pool, matched, out_slots>>
    BY DEF NoSeed
  <1>2. UNCHANGED search /\ size \in Nat
    BY <1>1, Parts, CallFacts
  <1>3. lists' = lists \/ Reset
    BY <1>1, Parts DEF Skipping, Reset
  <1>4. nlist' = nlist
    BY <1>3, ResetFacts DEF nlist
  <1>5. Arrival \in 0 .. size
    BY <1>1, ArrivalFits
  <1>6. Control'
    BY <1>1, <1>2, <1>5, Kept, Parts DEF Control
  <1>7. Rests'
    BY <1>1, <1>4, Parts DEF Rests, Stepped
  <1>8. QED
    BY <1>1, <1>3, <1>6, <1>7, QuietStep

LEMMA NoThreadStep ==
  ASSUME VMInv, NoThread
  PROVE  VMInv'
  <1>1. /\ at = "check" /\ clist.threads = <<>> /\ at' \in {"drain", "loop"}
        /\ \/ UNCHANGED <<pos, lists>>
           \/ pos' = pos + 1 /\ lists' = [lists EXCEPT !.clist = EmptyList]
        /\ UNCHANGED <<search, i, into, stack, carried, pool, matched, out_slots>>
    BY DEF NoThread
  <1>2. UNCHANGED search /\ size \in Nat
    BY <1>1, Parts, CallFacts
  <1>3. lists' = lists \/ Reset
    BY <1>1 DEF Reset
  <1>4. nlist' = nlist
    BY <1>3, ResetFacts DEF nlist
  <1>5. Control'
    BY <1>1, <1>2, Kept, Parts DEF Control
  <1>6. Rests'
    BY <1>1, <1>4, Parts DEF Rests, Stepped
  <1>7. QED
    BY <1>1, <1>3, <1>5, <1>6, QuietStep

LEMMA BeginStepStep ==
  ASSUME VMInv, BeginStep
  PROVE  VMInv'
  <1>1. /\ at = "check" /\ at' = "step" /\ i' = 1
        /\ UNCHANGED <<search, pos, lists, into, stack, carried, pool, matched, out_slots>>
    BY DEF BeginStep
  <1>2. UNCHANGED search /\ Len(code) \in Nat
    BY <1>1, Parts, CallFacts
  <1>3. Control'
    BY <1>1, <1>2, Kept, Parts DEF Control
  <1>4. Rests'
    <2>1. clist' = clist /\ Len(clist.threads) \in Nat
      BY <1>1, Parts, ListFacts DEF clist
    <2>2. QED
      BY <1>1, <2>1, Parts DEF Rests, Stepped
  <1>5. QED
    BY <1>1, <1>3, <1>4, QuietStep

LEMMA ClosureDoneStep ==
  ASSUME VMInv, ClosureDone
  PROVE  VMInv'
  <1>1. /\ at = "closure" /\ stack = <<>>
        /\ at' = IF into = "clist" THEN "check" ELSE "step"
        /\ UNCHANGED <<search, pos, i, lists, into, stack, carried, pool, matched, out_slots>>
    BY DEF ClosureDone
  <1>2. UNCHANGED search
    BY <1>1
  <1>3. Control'
    BY <1>1, <1>2, Kept, Parts DEF Control
  <1>4. Rests'
    <2>1. clist' = clist /\ nlist' = nlist
      BY <1>1 DEF clist, nlist
    <2>2. QED
      BY <1>1, <2>1, Parts DEF Rests, Stepped, Control
  <1>5. QED
    BY <1>1, <1>3, <1>4, QuietStep

\* The thread that steps.
LEMMA ThreadFacts ==
  ASSUME VMInv, at = "step", i <= Len(clist.threads)
  PROVE  /\ i \in 1 .. Len(clist.threads) /\ thread \in ThreadsIn(pool)
         /\ thread.pc \in DOMAIN code /\ thread.carry \in CarryIn(pool)
         /\ i + 1 \in 1 .. Len(code) + 1 /\ i + 1 <= Len(clist.threads) + 1
         /\ Len(clist.threads) + 1 \in 1 .. Len(code) + 1
         /\ pos \in 0 .. size
  <1>1. Len(clist.threads) \in Nat /\ Len(clist.threads) <= Len(code) /\ Len(code) \in Nat
    BY Parts, ListFacts, ListFits, CallFacts
  <1>2. i \in Nat /\ i >= 1 /\ pos \in 0 .. size + 1 /\ pos <= size /\ size \in Nat
    BY <1>1, Parts, CallFacts DEF Control
  <1>3. i \in 1 .. Len(clist.threads)
    BY <1>1, <1>2
  <1>4. thread \in ThreadsIn(pool)
    BY <1>3, Parts, ListFacts DEF thread
  <1>5. thread.pc \in DOMAIN code /\ thread.carry \in CarryIn(pool)
    BY <1>4 DEF ThreadsIn
  <1>6. QED
    BY <1>1, <1>2, <1>3, <1>4, <1>5

LEMMA FoundFits ==
  ASSUME VMInv, at = "step", i <= Len(clist.threads)
  PROVE  Found \in Blocks
  <1>1. thread.carry \in CarryIn(pool) /\ pos \in 0 .. size /\ {0, 1} \subseteq Slots
        /\ out_slots \in Blocks /\ PoolOK(pool)
    BY ThreadFacts, Parts, CallFacts DEF Control
  <1>2. CASE capture_free
    <2>1. thread.carry \in npos .. size /\ pos \in npos .. size
      BY <1>1, <1>2 DEF CarryIn, npos
    <2>2. QED
      BY <1>1, <1>2, <2>1 DEF Found, Blocks
  <1>3. CASE ~capture_free
    <2>1. \A b \in BlocksOf(pool) : pool.data[b] \in Blocks
      BY <1>1, ExactFacts DEF PoolOK, BlocksOf
    <2>2. QED
      BY <1>1, <1>3, <2>1 DEF CarryIn, Found
  <1>4. QED
    BY <1>2, <1>3

\* A thread that dies or matches leaves the lists and the pool as they are.
LEMMA ThreadEndsStep ==
  ASSUME VMInv, Die \/ Reject \/ MatchFirst \/ MatchLongest
  PROVE  VMInv'
  <1>1. /\ at = "step" /\ i <= Len(clist.threads)
        /\ UNCHANGED <<search, pos>> /\ UNCHANGED <<at, lists, into, stack, carried, pool>>
        /\ i' \in {i + 1, Len(clist.threads) + 1}
        /\ \/ UNCHANGED <<matched, out_slots>>
           \/ matched' = TRUE /\ out_slots' \in {Found, out_slots}
    BY DEF Die, Reject, MatchFirst, MatchLongest, Stepping
  <1>2. UNCHANGED search /\ clist' = clist /\ nlist' = nlist
    BY <1>1 DEF clist, nlist
  <1>3. i' \in 1 .. Len(code) + 1 /\ i' <= Len(clist.threads) + 1
    <2>1. Len(clist.threads) \in Nat
      BY Parts, ListFacts
    <2>2. QED
      BY <1>1, <2>1, ThreadFacts
  <1>4. out_slots' \in Blocks /\ matched' \in BOOLEAN
    BY <1>1, FoundFits, Parts DEF Control
  <1>5. Control'
    BY <1>1, <1>2, <1>3, <1>4, Kept, Parts DEF Control
  <1>6. Rests'
    BY <1>1, <1>2, <1>3, Parts DEF Rests, Stepped
  <1>7. QED
    BY <1>1, <1>5, <1>6, QuietStep

-----------------------------------------------------------------------------
(* The closure's walk.                                                     *)

\* What a visit leaves of the list it fills, the pool, the stack and the carried start.
Visited(l, p, s) ==
  /\ at = "closure" /\ UNCHANGED <<search, at, pos, i, into, matched, out_slots>>
  /\ p = pool' /\ s = stack'
  /\ lists' = [lists EXCEPT ![into] = l]
  /\ ListOK(l, p) /\ PoolOK(p) /\ BlocksOf(pool) \subseteq BlocksOf(p)
  /\ s \in Seq(ThreadsIn(p))
  /\ carried' \in npos .. size /\ (capture_free => carried' \in 0 .. size)
  /\ ~capture_free =>
       \A b : Count(p, b) + Held(lists[into].threads, b) + Held(stack, b)
                = Count(pool, b) + Held(l.threads, b) + Held(s, b)

\* From p to q, with the threads' and the entries' references exchanged, every count follows.
Exchanged(p, c, n, s, q, e, m, t) ==
  \A b : Count(q, b) + Held(c, b) + Held(n, b) + Held(s, b)
           = Count(p, b) + Held(e, b) + Held(m, b) + Held(t, b)

Unheld(p, q, c, n, s) ==
  \A b \in BlocksOf(q) \ BlocksOf(p) : Held(c, b) = 0 /\ Held(n, b) = 0 /\ Held(s, b) = 0

LEMMA BalanceMoves ==
  ASSUME NEW p, NEW q, PoolOK(p), PoolOK(q), BlocksOf(p) \subseteq BlocksOf(q),
         NEW S, NEW c \in Seq(S), NEW n \in Seq(S), NEW s \in Seq(S),
         Balance(p, c, n, s), Unheld(p, q, c, n, s),
         NEW T, NEW e \in Seq(T), NEW m \in Seq(T), NEW t \in Seq(T),
         Exchanged(p, c, n, s, q, e, m, t)
  PROVE  Balance(q, e, m, t)
  <1>1. SUFFICES ASSUME NEW b \in BlocksOf(q)
                 PROVE  Count(q, b) = Held(e, b) + Held(m, b) + Held(t, b) + One(b, npos_block)
    BY DEF Balance
  <1>2. PICK x, y \in Nat : x = Count(p, b) /\ y = Count(q, b)
    BY CountNat
  <1>3. PICK c1, n1, s1, e1, m1, t1 \in Nat :
          /\ c1 = Held(c, b) /\ n1 = Held(n, b) /\ s1 = Held(s, b)
          /\ e1 = Held(e, b) /\ m1 = Held(m, b) /\ t1 = Held(t, b)
    BY HeldFacts
  <1>4. y + c1 + n1 + s1 = x + e1 + m1 + t1
    BY <1>2, <1>3 DEF Exchanged
  <1>5. x = c1 + n1 + s1 + One(b, npos_block)
    <2>1. CASE b \in BlocksOf(p)
      BY <1>2, <1>3, <2>1 DEF Balance
    <2>2. CASE b \notin BlocksOf(p)
      <3>1. x = 0 /\ c1 = 0 /\ n1 = 0 /\ s1 = 0
        BY <1>2, <1>3, <2>2 DEF Count, Unheld
      <3>2. 1 \in BlocksOf(p)
        BY ExactFacts DEF PoolOK, BlocksOf
      <3>3. QED
        BY <2>2, <3>1, <3>2 DEF One, npos_block
    <2>3. QED
      BY <2>1, <2>2
  <1>6. PICK o \in Nat : o = One(b, npos_block)
    BY DEF One
  <1>7. x = c1 + n1 + s1 + o
    BY <1>5, <1>6
  <1>8. y = e1 + m1 + t1 + o
    BY <1>4, <1>7
  <1>9. QED
    BY <1>2, <1>3, <1>6, <1>8

\* No thread holds a block that was not made yet.
LEMMA HeldNowhere ==
  ASSUME ~capture_free, NEW p, NEW s \in Seq(ThreadsIn(p)), NEW b, b \notin BlocksOf(p)
  PROVE  Held(s, b) = 0
  <1>1. ASSUME NEW k \in 1 .. Len(s) PROVE s[k].carry # b
    <2>1. s[k] \in ThreadsIn(p)
      BY ElementOfSeq
    <2>2. QED
      BY <2>1 DEF ThreadsIn, CarryIn
  <1>2. QED
    BY <1>1, HeldFacts

LEMMA VisitedStep ==
  ASSUME VMInv, NEW l, NEW p, NEW s, Visited(l, p, s)
  PROVE  VMInv'
  <1>1. UNCHANGED search /\ UNCHANGED <<at, pos, i, into, matched, out_slots>>
        /\ at = "closure" /\ into \in {"clist", "nlist"}
    BY Parts DEF Visited, Control
  <1>2. PICK c, n : /\ c = IF into = "clist" THEN l ELSE clist
                    /\ n = IF into = "nlist" THEN l ELSE nlist
    OBVIOUS
  <1>3. lists' = [clist |-> c, nlist |-> n] /\ ListOK(c, p) /\ ListOK(n, p)
    <2>1. lists = [clist |-> clist, nlist |-> nlist] /\ lists' = [lists EXCEPT ![into] = l]
      BY Parts DEF Visited
    <2>2. lists' = [clist |-> c, nlist |-> n]
      BY <1>1, <1>2, <2>1
    <2>3. ListOK(l, p) /\ ListOK(clist, p) /\ ListOK(nlist, p)
      BY Parts, ThreadsGrow DEF Visited
    <2>4. QED
      BY <1>2, <2>2, <2>3
  <1>4. clist' = c /\ nlist' = n
    BY <1>3 DEF clist, nlist
  <1>5. Control'
    BY <1>1, Kept, Parts DEF Control, Visited
  <1>6. Rests'
    <2>1. into = "clist" => n = nlist
      BY <1>1, <1>2
    <2>2. into = "nlist" => c = clist
      BY <1>1, <1>2
    <2>3. QED
      BY <1>1, <1>4, <2>1, <2>2, Parts DEF Rests, Stepped
  <1>7. ASSUME ~capture_free PROVE Balance(p, c.threads, n.threads, s)
    <2>1. PICK c0, n0, s0 : c0 = clist.threads /\ n0 = nlist.threads /\ s0 = stack
      OBVIOUS
    <2>2. /\ c0 \in Seq(ThreadsIn(pool)) /\ n0 \in Seq(ThreadsIn(pool))
          /\ s0 \in Seq(ThreadsIn(pool)) /\ Balance(pool, c0, n0, s0) /\ PoolOK(pool)
      BY <1>1, <1>7, <2>1, Parts, ListFacts
    <2>3. /\ c.threads \in Seq(ThreadsIn(p)) /\ n.threads \in Seq(ThreadsIn(p))
          /\ s \in Seq(ThreadsIn(p)) /\ PoolOK(p) /\ BlocksOf(pool) \subseteq BlocksOf(p)
      BY <1>3, ListFacts DEF Visited
    <2>4. Unheld(pool, p, c0, n0, s0)
      BY <1>7, <2>2, HeldNowhere DEF Unheld
    <2>5. ASSUME NEW b
          PROVE  Count(p, b) + Held(c0, b) + Held(n0, b) + Held(s0, b)
                   = Count(pool, b) + Held(c.threads, b) + Held(n.threads, b) + Held(s, b)
      <3>1. PICK x, y \in Nat : x = Count(pool, b) /\ y = Count(p, b)
        BY <2>2, <2>3, CountNat
      <3>2. PICK c1, n1, s1, l1, t1 \in Nat :
              /\ c1 = Held(c0, b) /\ n1 = Held(n0, b) /\ s1 = Held(s0, b)
              /\ l1 = Held(l.threads, b) /\ t1 = Held(s, b)
        <4>1. l.threads \in Seq(ThreadsIn(p))
          BY ListFacts DEF Visited
        <4>2. QED
          BY <2>2, <2>3, <4>1, HeldFacts
      <3>3. Count(p, b) + Held(lists[into].threads, b) + Held(stack, b)
              = Count(pool, b) + Held(l.threads, b) + Held(s, b)
        BY <1>7 DEF Visited
      <3>4. CASE into = "clist"
        <4>1. lists[into].threads = c0 /\ c.threads = l.threads /\ n.threads = n0
          BY <1>2, <2>1, <3>4 DEF clist, nlist
        <4>2. y + c1 + s1 = x + l1 + t1
          BY <2>1, <3>1, <3>2, <3>3, <4>1
        <4>3. y + c1 + n1 + s1 = x + l1 + n1 + t1
          BY <4>2
        <4>4. QED
          BY <3>1, <3>2, <4>1, <4>3
      <3>5. CASE into = "nlist"
        <4>1. lists[into].threads = n0 /\ n.threads = l.threads /\ c.threads = c0
          BY <1>2, <2>1, <3>5 DEF clist, nlist
        <4>2. y + n1 + s1 = x + l1 + t1
          BY <2>1, <3>1, <3>2, <3>3, <4>1
        <4>3. y + c1 + n1 + s1 = x + c1 + l1 + t1
          BY <4>2
        <4>4. QED
          BY <3>1, <3>2, <4>1, <4>3
      <3>6. QED
        BY <1>1, <3>4, <3>5
    <2>6. Exchanged(pool, c0, n0, s0, p, c.threads, n.threads, s)
      BY <2>5 DEF Exchanged
    <2>7. QED
      BY <2>2, <2>3, <2>4, <2>6, BalanceMoves
  <1>8. /\ search \in Searches /\ p = pool' /\ s = stack' /\ PoolOK(p)
        /\ s \in Seq(ThreadsIn(p)) /\ at' # "done"
    BY <1>1, Parts DEF Visited
  <1>9. ~capture_free =>
          IF at' = "done" THEN Balance(p, <<>>, <<>>, <<>>)
                          ELSE Balance(p, c.threads, n.threads, s)
    BY <1>7, <1>8
  <1>10. QED
    BY <1>1, <1>3, <1>5, <1>6, <1>8, <1>9, Arrive

LEMMA ShareFacts ==
  ASSUME NEW p, PoolOK(p), NEW b, ~capture_free => b \in BlocksOf(p) /\ p.refcount[b] >= 1
  PROVE  /\ PoolOK(Share(p, b)) /\ BlocksOf(Share(p, b)) = BlocksOf(p) /\ Share(p, b).data = p.data
         /\ ~capture_free => \A c : Count(Share(p, b), c) = Count(p, c) + One(b, c)
  BY IncrefFacts DEF Share

LEMMA ReleaseOneFacts ==
  ASSUME NEW p, PoolOK(p), NEW b, ~capture_free => Referred(p, b)
  PROVE  /\ PoolOK(Release(p, b)) /\ BlocksOf(Release(p, b)) = BlocksOf(p)
         /\ Release(p, b).data = p.data
         /\ ~capture_free => \A c : Count(Release(p, b), c) = Count(p, c) - One(b, c)
  BY DecrefFacts DEF Release, Referred

\* The entry a visit takes.
LEMMA TopFacts ==
  ASSUME VMInv, at = "closure", stack # <<>>
  PROVE  /\ into \in {"clist", "nlist"} /\ ListOK(lists[into], pool) /\ PoolOK(pool)
         /\ top \in ThreadsIn(pool) /\ top.pc \in DOMAIN code /\ top.carry \in CarryIn(pool)
         /\ Front(stack) \in Seq(ThreadsIn(pool)) /\ here \in 0 .. size
         /\ \A b : Held(stack, b) = Held(Front(stack), b) + One(top.carry, b)
         /\ ~capture_free => Referred(pool, top.carry)
  <1>1. into \in {"clist", "nlist"} /\ PoolOK(pool) /\ stack \in Seq(ThreadsIn(pool))
    BY Parts DEF Control
  <1>2. ListOK(lists[into], pool)
    BY <1>1, Parts DEF clist, nlist
  <1>3. Front(stack) \in Seq(ThreadsIn(pool)) /\ top \in ThreadsIn(pool)
    BY <1>1, FrontFacts DEF top
  <1>4. top.pc \in DOMAIN code /\ top.carry \in CarryIn(pool)
    BY <1>3 DEF ThreadsIn
  <1>5. here \in 0 .. size
    BY <1>1, Parts, CallFacts DEF Control, here
  <1>6. \A b : Held(stack, b) = Held(Front(stack), b) + One(top.carry, b)
    BY <1>1, HeldFront DEF top
  <1>7. ASSUME ~capture_free PROVE Referred(pool, top.carry)
    <2>1. PICK b : b = top.carry
      OBVIOUS
    <2>2. b \in BlocksOf(pool)
      BY <1>4, <1>7, <2>1 DEF CarryIn
    <2>3. PICK c, n, s, f \in Nat : /\ c = Held(clist.threads, b) /\ n = Held(nlist.threads, b)
                                    /\ s = Held(stack, b) /\ f = Held(Front(stack), b)
      BY <1>1, <1>3, HeldFacts, Parts, ListFacts
    <2>4. Balance(pool, clist.threads, nlist.threads, stack)
      BY <1>7, Parts
    <2>5. Count(pool, b) = c + n + s + One(b, npos_block)
      BY <2>2, <2>3, <2>4 DEF Balance
    <2>6. s = f + 1
      BY <1>6, <2>1, <2>3 DEF One
    <2>7. pool.refcount[b] = c + n + (f + 1) + One(b, npos_block)
      BY <2>2, <2>5, <2>6 DEF Count
    <2>8. PICK o \in Nat : o = One(b, npos_block) /\ (b = npos_block => o = 1)
      BY DEF One
    <2>9. PICK r : r = pool.refcount[b] /\ r = c + n + (f + 1) + o
      BY <2>7, <2>8
    <2>10. r >= 1 /\ (b = npos_block => r >= 2)
      BY <2>8, <2>9
    <2>11. QED
      BY <2>1, <2>2, <2>9, <2>10 DEF Referred
  <1>8. QED
    BY <1>1, <1>2, <1>3, <1>4, <1>5, <1>6, <1>7

LEMMA MarkFacts ==
  ASSUME VMInv, at = "closure", stack # <<>>
  PROVE  LET l == [threads |-> lists[into].threads, seen |-> lists[into].seen \cup {top.pc}]
         IN /\ Mark = [lists EXCEPT ![into] = l] /\ ListOK(l, pool) /\ Mark[into] = l
            /\ lists = [lists EXCEPT ![into] = lists[into]]
  <1> DEFINE l == [threads |-> lists[into].threads, seen |-> lists[into].seen \cup {top.pc}]
  <1>1. /\ lists = [clist |-> clist, nlist |-> nlist] /\ into \in {"clist", "nlist"}
        /\ top.pc \in DOMAIN code /\ ListOK(lists[into], pool)
    BY TopFacts, Parts
  <1>2. PICK o : o = lists[into] /\ ListOK(o, pool)
    BY <1>1
  <1>3. PICK t, e : o = [threads |-> t, seen |-> e]
    BY <1>2 DEF ListOK
  <1>4. PICK w : w = e \cup {top.pc} /\ w = o.seen \cup {top.pc}
    BY <1>3
  <1>5. Mark = [lists EXCEPT ![into] = l]
    <2>1. [o EXCEPT !.seen = w] = [threads |-> t, seen |-> w]
      BY <1>3
    <2>2. [threads |-> t, seen |-> w] = l
      BY <1>2, <1>3, <1>4
    <2>3. Mark = [lists EXCEPT ![into] = [o EXCEPT !.seen = w]]
      BY <1>1, <1>2, <1>4 DEF Mark
    <2>4. QED
      BY <2>1, <2>2, <2>3
  <1>6. ListOK(l, pool)
    BY <1>1, <1>2 DEF ListOK
  <1>7. Mark[into] = l /\ lists = [lists EXCEPT ![into] = lists[into]]
    BY <1>1, <1>5
  <1>8. QED
    BY <1>5, <1>6, <1>7

\* A visit that adds no thread.
LEMMA WalkStep ==
  ASSUME VMInv, at = "closure", stack # <<>>,
         UNCHANGED <<search, at, pos, i, into, matched, out_slots>>, lists' \in {lists, Mark},
         carried' \in npos .. size, capture_free => carried' \in 0 .. size,
         NEW p, NEW s, p = pool', s = stack',
         PoolOK(p), BlocksOf(pool) \subseteq BlocksOf(p), s \in Seq(ThreadsIn(p)),
         ~capture_free => \A b : Count(p, b) + Held(stack, b) = Count(pool, b) + Held(s, b)
  PROVE  VMInv'
  <1>1. PICK l : l = IF lists' = lists THEN lists[into]
                     ELSE [threads |-> lists[into].threads, seen |-> lists[into].seen \cup {top.pc}]
    OBVIOUS
  <1>2. lists' = [lists EXCEPT ![into] = l] /\ ListOK(l, pool) /\ l.threads = lists[into].threads
    BY <1>1, MarkFacts, TopFacts
  <1>3. ListOK(l, p)
    BY <1>2, ThreadsGrow
  <1>4. ASSUME ~capture_free, NEW b
        PROVE  Count(p, b) + Held(lists[into].threads, b) + Held(stack, b)
                 = Count(pool, b) + Held(l.threads, b) + Held(s, b)
    <2>1. PICK x, y, h, s0, s1 \in Nat :
            /\ x = Count(pool, b) /\ y = Count(p, b) /\ h = Held(l.threads, b)
            /\ s0 = Held(stack, b) /\ s1 = Held(s, b)
      BY <1>2, CountNat, HeldFacts, ListFacts, Parts
    <2>2. y + s0 = x + s1
      BY <1>4, <2>1
    <2>3. y + h + s0 = x + h + s1
      BY <2>2
    <2>4. QED
      BY <1>2, <2>1, <2>3
  <1>5. Visited(l, p, s)
    BY <1>2, <1>3, <1>4 DEF Visited
  <1>6. QED
    BY <1>5, VisitedStep

LEMMA PushFacts ==
  ASSUME NEW p, NEW s \in Seq(ThreadsIn(p)), NEW pc \in DOMAIN code, NEW carry \in CarryIn(p)
  PROVE  /\ Append(s, Entry(pc, carry)) \in Seq(ThreadsIn(p))
         /\ \A b : Held(Append(s, Entry(pc, carry)), b) = Held(s, b) + One(carry, b)
  <1>1. Entry(pc, carry) \in ThreadsIn(p) /\ Entry(pc, carry).carry = carry
    BY DEF Entry, ThreadsIn
  <1>2. Append(s, Entry(pc, carry)) \in Seq(ThreadsIn(p))
    BY <1>1, AppendProperties
  <1>3. QED
    BY <1>1, <1>2, HeldAppend

\* A visit that drops its entry gives the entry's block back.
LEMMA DropStep ==
  ASSUME VMInv, at = "closure", stack # <<>>,
         UNCHANGED <<search, at, pos, i, into, carried, matched, out_slots>>,
         lists' \in {lists, Mark}, stack' = Front(stack), pool' = Release(pool, top.carry)
  PROVE  VMInv'
  <1>1. PICK p, s : p = pool' /\ s = stack' /\ p = Release(pool, top.carry) /\ s = Front(stack)
    OBVIOUS
  <1>2. /\ PoolOK(p) /\ BlocksOf(p) = BlocksOf(pool) /\ s \in Seq(ThreadsIn(pool))
        /\ ~capture_free => \A b : Count(p, b) = Count(pool, b) - One(top.carry, b)
    BY <1>1, TopFacts, ReleaseOneFacts
  <1>3. BlocksOf(pool) \subseteq BlocksOf(p) /\ s \in Seq(ThreadsIn(p))
    BY <1>2, ThreadsGrow
  <1>4. ASSUME ~capture_free, NEW b
        PROVE  Count(p, b) + Held(stack, b) = Count(pool, b) + Held(s, b)
    <2>1. PICK x, y, s0, s1 \in Nat : /\ x = Count(pool, b) /\ y = Count(p, b)
                                      /\ s0 = Held(stack, b) /\ s1 = Held(s, b)
      BY <1>2, CountNat, HeldFacts, Parts
    <2>2. PICK o \in Nat : o = One(top.carry, b)
      BY DEF One
    <2>3. y = x - o
      BY <1>2, <1>4, <2>1, <2>2
    <2>4. s0 = s1 + o
      BY <1>1, <2>1, <2>2, TopFacts
    <2>5. y + s0 = x + s1
      BY <2>3, <2>4
    <2>6. QED
      BY <2>1, <2>5
  <1>5. carried' \in npos .. size /\ (capture_free => carried' \in 0 .. size)
    BY Parts DEF Control
  <1>6. QED
    BY <1>1, <1>2, <1>3, <1>4, <1>5, WalkStep

\* A visit that goes on elsewhere with what its entry holds.
LEMMA ContinueStep ==
  ASSUME VMInv, at = "closure", stack # <<>>,
         UNCHANGED <<search, at, pos, i, into, matched, out_slots>>, lists' \in {lists, Mark},
         carried' \in npos .. size, capture_free => carried' \in 0 .. size,
         NEW p, p = pool', NEW pc \in DOMAIN code, NEW carry \in CarryIn(p), Continue(pc, carry),
         PoolOK(p), BlocksOf(pool) \subseteq BlocksOf(p),
         ~capture_free =>
           \A b : Count(p, b) = Count(pool, b) - One(top.carry, b) + One(carry, b)
  PROVE  VMInv'
  <1>1. PICK f, s : f = Front(stack) /\ s = stack' /\ s = Append(f, Entry(pc, carry))
    BY DEF Continue
  <1>2. f \in Seq(ThreadsIn(pool)) /\ f \in Seq(ThreadsIn(p))
    BY <1>1, TopFacts, ThreadsGrow
  <1>3. s \in Seq(ThreadsIn(p)) /\ \A b : Held(s, b) = Held(f, b) + One(carry, b)
    BY <1>1, <1>2, PushFacts
  <1>4. ASSUME ~capture_free, NEW b
        PROVE  Count(p, b) + Held(stack, b) = Count(pool, b) + Held(s, b)
    <2>1. PICK x, y, s0, s1, f1 \in Nat : /\ x = Count(pool, b) /\ y = Count(p, b)
                                          /\ s0 = Held(stack, b) /\ s1 = Held(s, b)
                                          /\ f1 = Held(f, b)
      BY <1>2, <1>3, CountNat, HeldFacts, Parts
    <2>2. PICK o, o1 \in Nat : o = One(top.carry, b) /\ o1 = One(carry, b)
      BY DEF One
    <2>3. y = x - o + o1
      BY <1>4, <2>1, <2>2
    <2>4. s0 = f1 + o
      BY <1>1, <2>1, <2>2, TopFacts
    <2>5. s1 = f1 + o1
      BY <1>3, <2>1, <2>2
    <2>6. y + s0 = x + s1
      BY <2>3, <2>4, <2>5
    <2>7. QED
      BY <2>1, <2>6
  <1>5. QED
    BY <1>1, <1>3, <1>4, WalkStep

\* With its block and the pool as they are.
LEMMA MoveOnStep ==
  ASSUME VMInv, at = "closure", stack # <<>>,
         UNCHANGED <<search, at, pos, i, into, matched, out_slots>>, lists' \in {lists, Mark},
         carried' \in npos .. size, capture_free => carried' \in 0 .. size,
         UNCHANGED pool, NEW pc \in DOMAIN code, Continue(pc, top.carry)
  PROVE  VMInv'
  <1>1. PICK p, carry : p = pool /\ p = pool' /\ carry = top.carry
    OBVIOUS
  <1>2. carry \in CarryIn(p) /\ PoolOK(p) /\ BlocksOf(pool) \subseteq BlocksOf(p) /\ Continue(pc, carry)
    BY <1>1, TopFacts
  <1>3. ASSUME NEW b PROVE Count(p, b) = Count(pool, b) - One(top.carry, b) + One(carry, b)
    <2>1. PICK x \in Nat : x = Count(p, b) /\ x = Count(pool, b)
      BY <1>1, <1>2, CountNat
    <2>2. PICK o \in Nat : o = One(top.carry, b) /\ o = One(carry, b)
      BY <1>1 DEF One
    <2>3. QED
      BY <2>1, <2>2
  <1>4. QED
    BY <1>1, <1>2, <1>3, ContinueStep

LEMMA VisitFacts ==
  ASSUME VMInv, NEW ops, Visiting(ops)
  PROVE  /\ at = "closure" /\ stack # <<>> /\ code[top.pc].op \in ops
         /\ top.pc \in DOMAIN code /\ top.pc \notin lists[into].seen
         /\ UNCHANGED search /\ UNCHANGED <<search, at, pos, i, into, matched, out_slots>>
         /\ carried \in npos .. size /\ (capture_free => carried \in 0 .. size)
  <1>1. at = "closure" /\ stack # <<>> /\ code[top.pc].op \in ops /\ top.pc \notin lists[into].seen
        /\ UNCHANGED <<search, at, pos, i, into, matched, out_slots>>
    BY DEF Visiting
  <1>2. QED
    BY <1>1, TopFacts, Parts DEF Control

LEMMA VisitSeenStep ==
  ASSUME VMInv, VisitSeen
  PROVE  VMInv'
  <1>1. /\ at = "closure" /\ stack # <<>> /\ stack' = Front(stack) /\ pool' = Release(pool, top.carry)
        /\ UNCHANGED <<search, at, pos, i, into, carried, matched, out_slots>> /\ lists' = lists
    BY DEF VisitSeen
  <1>2. QED
    BY <1>1, DropStep

LEMMA VisitJumpStep ==
  ASSUME VMInv, VisitJump
  PROVE  VMInv'
  <1>1. PICK target, entered : target = JumpTarget(code, top.pc, entered) /\ entered = Mark[into].seen
    OBVIOUS
  <1>2. /\ Visiting({"jump"}) /\ lists' = Mark /\ UNCHANGED <<carried, pool>>
        /\ Continue(target, top.carry)
    BY <1>1 DEF VisitJump
  <1>3. /\ search \in Searches /\ at = "closure" /\ stack # <<>>
        /\ top.pc \in DOMAIN code /\ code[top.pc].op = "jump"
    BY <1>2, VisitFacts, Parts
  <1>4. entered \in SUBSET DOMAIN code
    BY <1>1, <1>3, MarkFacts DEF ListOK
  <1>5. \A h \in DOMAIN code : /\ code[h].op = "jump" => code[h].primary \in DOMAIN code
                               /\ code[h].op = "split" => code[h].secondary \in DOMAIN code
    BY <1>3, ProgramFacts
  <1>6. \/ target = code[top.pc].primary
        \/ \E h \in entered : code[h].op = "split" /\ target = code[h].secondary
    BY <1>1, <1>3, <1>4, <1>5, JumpTargetFacts
  <1>7. target \in DOMAIN code
    BY <1>3, <1>4, <1>5, <1>6
  <1>8. QED
    BY <1>2, <1>7, VisitFacts, MoveOnStep

LEMMA VisitLoopExitStep ==
  ASSUME VMInv, VisitLoopExit
  PROVE  VMInv'
  <1>1. /\ Visiting(Possessive) /\ lists' = Mark /\ UNCHANGED <<carried, pool>>
        /\ Continue(code[top.pc].secondary, top.carry)
    BY DEF VisitLoopExit
  <1>2. code[top.pc].secondary \in DOMAIN code
    BY <1>1, VisitFacts, Parts, ProgramFacts
  <1>3. QED
    BY <1>1, <1>2, VisitFacts, MoveOnStep

LEMMA VisitAssertionStep ==
  ASSUME VMInv, VisitAssertion
  PROVE  VMInv'
  <1>1. Visiting({"assert_position", "assert_lookaround"}) /\ lists' = Mark /\ UNCHANGED carried
    BY DEF VisitAssertion
  <1>2. CASE Passes(code[top.pc])
    <2>1. Continue(top.pc + 1, top.carry) /\ UNCHANGED pool
      BY <1>2 DEF VisitAssertion
    <2>2. top.pc + 1 \in DOMAIN code
      BY <1>1, VisitFacts, Parts, ProgramFacts
    <2>3. QED
      BY <1>1, <2>1, <2>2, VisitFacts, MoveOnStep
  <1>3. CASE ~Passes(code[top.pc])
    <2>1. stack' = Front(stack) /\ pool' = Release(pool, top.carry)
      BY <1>3 DEF VisitAssertion
    <2>2. UNCHANGED <<search, at, pos, i, into, carried, matched, out_slots>>
      BY <1>1, VisitFacts
    <2>3. QED
      BY <1>1, <2>1, <2>2, VisitFacts, DropStep
  <1>4. QED
    BY <1>2, <1>3

LEMMA VisitSaveStep ==
  ASSUME VMInv, VisitSave
  PROVE  VMInv'
  <1>1. Visiting({"save"}) /\ lists' = Mark
    BY DEF VisitSave
  <1>2. PICK slot : slot = code[top.pc].slot
    OBVIOUS
  <1>3. /\ search \in Searches /\ at = "closure" /\ stack # <<>> /\ top.pc + 1 \in DOMAIN code
        /\ slot \in Slots /\ here \in 0 .. size /\ size \in Nat
    BY <1>1, <1>2, VisitFacts, TopFacts, Parts, ProgramFacts, CallFacts
  <1>4. CASE capture_free
    <2>1. /\ Continue(top.pc + 1, top.carry) /\ UNCHANGED pool
          /\ carried' = IF slot = 0 THEN here ELSE carried
      BY <1>2, <1>4 DEF VisitSave
    <2>2. carried' \in npos .. size /\ carried' \in 0 .. size
      BY <1>1, <1>3, <1>4, <2>1, VisitFacts DEF npos
    <2>3. QED
      BY <1>1, <1>3, <2>1, <2>2, VisitFacts, MoveOnStep
  <1>5. CASE ~capture_free
    <2>1. PICK block, p : /\ block = cow_write(pool, top.carry, slot, here).block
                          /\ p = cow_write(pool, top.carry, slot, here).pool
      OBVIOUS
    <2>2. Continue(top.pc + 1, block) /\ pool' = p /\ UNCHANGED carried
      BY <1>2, <1>5, <2>1 DEF VisitSave
    <2>3. PoolOK(pool) /\ Referred(pool, top.carry) /\ here \in npos .. size
      BY <1>3, <1>5, TopFacts DEF npos
    <2>4. Written(pool, top.carry, block, p, [pool.data[top.carry] EXCEPT ![slot] = here])
      BY <1>3, <2>1, <2>3, CowFacts
    <2>5. /\ PoolOK(p) /\ BlocksOf(pool) \subseteq BlocksOf(p) /\ block \in CarryIn(p)
          /\ \A b : Count(p, b) = Count(pool, b) - One(top.carry, b) + One(block, b)
      BY <1>5, <2>4 DEF Written, CarryIn
    <2>6. carried' \in npos .. size /\ (capture_free => carried' \in 0 .. size)
      BY <1>1, <1>5, <2>2, VisitFacts
    <2>7. QED
      BY <1>1, <1>3, <2>2, <2>5, <2>6, VisitFacts, ContinueStep
  <1>6. QED
    BY <1>4, <1>5

LEMMA VisitSplitStep ==
  ASSUME VMInv, VisitSplit
  PROVE  VMInv'
  <1>1. /\ Visiting({"split"}) /\ lists' = Mark /\ UNCHANGED carried
        /\ pool' = Share(pool, top.carry)
        /\ stack' = Append(Append(Front(stack), Entry(code[top.pc].secondary, top.carry)),
                           Entry(code[top.pc].primary, top.carry))
    BY DEF VisitSplit
  <1>2. PICK p, carry : p = pool' /\ carry = top.carry /\ p = Share(pool, carry)
    BY <1>1
  <1>3. PICK f, first, second :
          f = Front(stack) /\ first = code[top.pc].primary /\ second = code[top.pc].secondary
    OBVIOUS
  <1>4. PICK m, s : /\ m = Append(f, Entry(second, carry)) /\ s = Append(m, Entry(first, carry))
                    /\ s = stack'
    BY <1>1, <1>2, <1>3
  <1>5. at = "closure" /\ stack # <<>> /\ first \in DOMAIN code /\ second \in DOMAIN code
    <2>1. top.pc \in DOMAIN code /\ code[top.pc].op = "split" /\ search \in Searches
      BY <1>1, VisitFacts, Parts
    <2>2. {first, second} \subseteq DOMAIN code
      BY <1>3, <2>1, ProgramFacts
    <2>3. QED
      BY <1>1, <2>2, VisitFacts
  <1>6. /\ carry \in CarryIn(pool) /\ f \in Seq(ThreadsIn(pool)) /\ PoolOK(pool)
        /\ ~capture_free => Referred(pool, carry)
    BY <1>2, <1>3, <1>5, TopFacts
  <1>7. /\ PoolOK(p) /\ BlocksOf(p) = BlocksOf(pool)
        /\ ~capture_free => \A b : Count(p, b) = Count(pool, b) + One(carry, b)
    <2>1. ~capture_free => carry \in BlocksOf(pool) /\ pool.refcount[carry] >= 1
      BY <1>6 DEF Referred
    <2>2. QED
      BY <1>2, <1>6, <2>1, ShareFacts
  <1>8. BlocksOf(pool) \subseteq BlocksOf(p) /\ f \in Seq(ThreadsIn(p)) /\ carry \in CarryIn(p)
    BY <1>6, <1>7, ThreadsGrow DEF CarryIn
  <1>9. m \in Seq(ThreadsIn(p)) /\ \A b : Held(m, b) = Held(f, b) + One(carry, b)
    BY <1>4, <1>5, <1>8, PushFacts
  <1>10. s \in Seq(ThreadsIn(p)) /\ \A b : Held(s, b) = Held(m, b) + One(carry, b)
    <2>1. m \in Seq(ThreadsIn(p)) /\ s = Append(m, Entry(first, carry))
      BY <1>4, <1>9
    <2>2. QED
      BY <1>5, <1>8, <2>1, PushFacts
  <1>11. ASSUME ~capture_free, NEW b
         PROVE  Count(p, b) + Held(stack, b) = Count(pool, b) + Held(s, b)
    <2>1. PICK x, y, s0, s1, m1, f1 \in Nat : /\ x = Count(pool, b) /\ y = Count(p, b)
                                              /\ s0 = Held(stack, b) /\ s1 = Held(s, b)
                                              /\ m1 = Held(m, b) /\ f1 = Held(f, b)
      BY <1>6, <1>7, <1>8, <1>9, <1>10, CountNat, HeldFacts, Parts
    <2>2. PICK o \in Nat : o = One(carry, b)
      BY DEF One
    <2>3. y = x + o
      BY <1>7, <1>11, <2>1, <2>2
    <2>4. s0 = f1 + o
      BY <1>2, <1>3, <1>5, <2>1, <2>2, TopFacts
    <2>5. m1 = f1 + o
      BY <1>9, <2>1, <2>2
    <2>6. s1 = m1 + o
      BY <1>10, <2>1, <2>2
    <2>7. y + s0 = x + s1
      BY <2>3, <2>4, <2>5, <2>6
    <2>8. QED
      BY <2>1, <2>7
  <1>12. carried' \in npos .. size /\ (capture_free => carried' \in 0 .. size)
    BY <1>1, VisitFacts
  <1>13. UNCHANGED <<search, at, pos, i, into, matched, out_slots>>
    BY <1>1, VisitFacts
  <1>14. p = pool' /\ s = stack' /\ lists' \in {lists, Mark}
    BY <1>1, <1>2, <1>4
  <1>15. QED
    BY <1>5, <1>7, <1>8, <1>10, <1>11, <1>12, <1>13, <1>14, WalkStep

\* A list's new thread stands at a counter the list had not seen.
LEMMA ListGrows ==
  ASSUME NEW p, NEW list, ListOK(list, p), NEW t \in ThreadsIn(p), t.pc \notin list.seen
  PROVE  /\ ListOK([threads |-> Append(list.threads, t), seen |-> list.seen \cup {t.pc}], p)
         /\ \A b : Held(Append(list.threads, t), b) = Held(list.threads, b) + One(t.carry, b)
  <1>1. PICK old, n : old = list.threads /\ n = Len(old)
    OBVIOUS
  <1>2. /\ old \in Seq(ThreadsIn(p)) /\ n \in Nat
        /\ \A k \in 1 .. n : old[k].pc \in list.seen
        /\ \A j, k \in 1 .. n : old[j].pc = old[k].pc => j = k
    BY <1>1, ListFacts DEF ListOK
  <1>3. PICK new : new = Append(old, t)
    OBVIOUS
  <1>4. /\ new \in Seq(ThreadsIn(p)) /\ Len(new) = n + 1
        /\ \A k \in 1 .. n : new[k] = old[k]
        /\ new[n + 1] = t
    BY <1>1, <1>2, <1>3, AppendProperties
  <1>5. \A k \in 1 .. n + 1 : k \in 1 .. n \/ k = n + 1
    BY <1>2
  <1>6. \A k \in 1 .. n + 1 : new[k].pc \in list.seen \cup {t.pc}
    BY <1>2, <1>4, <1>5
  <1>7. \A j, k \in 1 .. n + 1 : new[j].pc = new[k].pc => j = k
    BY <1>2, <1>4, <1>5
  <1>8. t.pc \in DOMAIN code /\ list.seen \subseteq DOMAIN code
    BY ListFacts DEF ThreadsIn
  <1>9. ListOK([threads |-> new, seen |-> list.seen \cup {t.pc}], p)
    BY <1>4, <1>6, <1>7, <1>8 DEF ListOK
  <1>10. \A b : Held(new, b) = Held(old, b) + One(t.carry, b)
    BY <1>2, <1>3, HeldAppend
  <1>11. QED
    BY <1>1, <1>3, <1>9, <1>10

LEMMA VisitLeafStep ==
  ASSUME VMInv, VisitLeaf
  PROVE  VMInv'
  <1>1. PICK t : t = Entry(top.pc, IF capture_free THEN carried ELSE top.carry)
    OBVIOUS
  <1>2. /\ Visiting(Consuming \cup Possessive \cup {"match"}) /\ UNCHANGED <<carried, pool>>
        /\ lists' = [Mark EXCEPT ![into].threads = Append(@, t)]
        /\ stack' = Front(stack)
    BY <1>1 DEF VisitLeaf
  <1>3. PICK o, threads, f : o = lists[into] /\ threads = o.threads /\ f = Front(stack)
    OBVIOUS
  <1>4. PICK old, marked, l : /\ old = o.seen /\ marked = old \cup {top.pc}
                              /\ l = [threads |-> Append(threads, t), seen |-> marked]
    OBVIOUS
  <1>5. /\ at = "closure" /\ stack # <<>> /\ into \in {"clist", "nlist"} /\ ListOK(o, pool)
        /\ top.pc \in DOMAIN code /\ top.pc \notin old /\ PoolOK(pool)
        /\ carried \in npos .. size /\ (capture_free => carried \in 0 .. size)
        /\ UNCHANGED search /\ UNCHANGED <<search, at, pos, i, into, matched, out_slots>>
        /\ top.carry \in CarryIn(pool) /\ f \in Seq(ThreadsIn(pool))
    BY <1>2, <1>3, <1>4, VisitFacts, TopFacts
  <1>6. t \in ThreadsIn(pool) /\ t.pc = top.pc /\ (~capture_free => t.carry = top.carry)
    BY <1>1, <1>5 DEF ThreadsIn, CarryIn, Entry
  <1>7. ListOK(l, pool) /\ \A b : Held(l.threads, b) = Held(threads, b) + One(t.carry, b)
    <2>1. ListOK(o, pool) /\ t \in ThreadsIn(pool) /\ t.pc \notin o.seen
      BY <1>4, <1>5, <1>6
    <2>2. l = [threads |-> Append(o.threads, t), seen |-> o.seen \cup {t.pc}]
      BY <1>3, <1>4, <1>6
    <2>3. l.threads = Append(o.threads, t)
      BY <2>2
    <2>4. /\ ListOK([threads |-> Append(o.threads, t), seen |-> o.seen \cup {t.pc}], pool)
          /\ \A b : Held(Append(o.threads, t), b) = Held(o.threads, b) + One(t.carry, b)
      BY <2>1, ListGrows
    <2>5. QED
      BY <1>3, <2>2, <2>3, <2>4
  <1>8. lists' = [lists EXCEPT ![into] = l]
    <2>1. lists = [clist |-> clist, nlist |-> nlist]
      BY Parts
    <2>2. PICK marks : marks = [threads |-> threads, seen |-> marked]
      OBVIOUS
    <2>3. PICK grown : grown = Append(threads, t)
      OBVIOUS
    <2>4. Mark = [lists EXCEPT ![into] = marks] /\ Mark[into] = marks
      BY <1>3, <1>4, <1>5, <2>2, MarkFacts
    <2>5. marks.threads = threads
      BY <2>2
    <2>6. lists' = [Mark EXCEPT ![into] = [marks EXCEPT !.threads = grown]]
      BY <1>2, <2>3, <2>4, <2>5
    <2>7. [marks EXCEPT !.threads = grown] = [threads |-> grown, seen |-> marked]
      BY <2>2
    <2>8. [threads |-> grown, seen |-> marked] = l
      BY <1>4, <2>3
    <2>9. QED
      BY <1>5, <2>1, <2>4, <2>6, <2>7, <2>8
  <1>9. PICK p, s : p = pool /\ p = pool' /\ s = f /\ s = stack'
    BY <1>2, <1>3
  <1>10. ASSUME ~capture_free, NEW b
         PROVE  Count(p, b) + Held(lists[into].threads, b) + Held(stack, b)
                  = Count(pool, b) + Held(l.threads, b) + Held(s, b)
    <2>1. PICK x, h0, h1, s0, s1 \in Nat : /\ x = Count(pool, b)
                                           /\ h0 = Held(threads, b) /\ h1 = Held(l.threads, b)
                                           /\ s0 = Held(stack, b) /\ s1 = Held(s, b)
      BY <1>3, <1>5, <1>7, <1>9, CountNat, HeldFacts, ListFacts, Parts
    <2>2. PICK k \in Nat : k = One(top.carry, b) /\ k = One(t.carry, b)
      BY <1>6, <1>10 DEF One
    <2>3. h1 = h0 + k
      BY <1>7, <2>1, <2>2
    <2>4. s0 = s1 + k
      BY <1>3, <1>5, <1>9, <2>1, <2>2, TopFacts
    <2>5. x + h0 + s0 = x + h1 + s1
      BY <2>3, <2>4
    <2>6. QED
      BY <1>3, <1>9, <2>1, <2>5
  <1>11. carried' \in npos .. size /\ (capture_free => carried' \in 0 .. size)
    BY <1>2, <1>5
  <1>12. Visited(l, p, s)
    BY <1>5, <1>7, <1>8, <1>9, <1>10, <1>11 DEF Visited
  <1>13. QED
    BY <1>12, VisitedStep

-----------------------------------------------------------------------------
(* Steps that start a closure: a seed, and a thread over a byte.           *)

\* A closure starts with one entry, for the block its thread holds.
LEMMA StartFacts ==
  ASSUME search \in Searches, NEW p, NEW list, NEW pc \in DOMAIN code, NEW carry \in CarryIn(p),
         add_thread(list, pc, carry), NEW s, s = stack'
  PROVE  /\ at' = "closure" /\ into' = list /\ s \in Seq(ThreadsIn(p))
         /\ carried' \in npos .. size /\ (capture_free => carried' \in 0 .. size)
         /\ ~capture_free => \A b : Held(s, b) = One(carry, b)
  <1>1. size \in Nat
    BY CallFacts
  <1>2. PICK e, k : e = <<>> /\ k = IF capture_free THEN 0 ELSE carry
    OBVIOUS
  <1>3. e \in Seq(ThreadsIn(p)) /\ \A b : Held(e, b) = 0
    BY <1>2, EmptySeq, HeldEmpty
  <1>4. k \in CarryIn(p)
    BY <1>1, <1>2 DEF CarryIn
  <1>5. s = <<Entry(pc, k)>>
    BY <1>2 DEF add_thread
  <1>6. s = Append(e, Entry(pc, k))
    BY <1>2, <1>5
  <1>7. s \in Seq(ThreadsIn(p)) /\ \A b : Held(s, b) = Held(e, b) + One(k, b)
    BY <1>3, <1>4, <1>6, PushFacts
  <1>8. carried' \in npos .. size /\ (capture_free => carried' \in 0 .. size)
    BY <1>1 DEF add_thread, CarryIn, npos
  <1>9. ASSUME ~capture_free, NEW b PROVE Held(s, b) = One(carry, b)
    BY <1>2, <1>3, <1>7, <1>9 DEF One
  <1>10. QED
    BY <1>7, <1>8, <1>9 DEF add_thread

\* From a state with no entry pending, and a pool q balanced with the lists c and n.
LEMMA LaunchStep ==
  ASSUME VMInv, UNCHANGED search, UNCHANGED <<search, matched, out_slots>>,
         NEW q, NEW c, NEW n, PoolOK(q), ListOK(c, q), ListOK(n, q),
         ~capture_free => Balance(q, c.threads, n.threads, <<>>),
         NEW list \in {"clist", "nlist"}, NEW pc \in DOMAIN code, NEW carry \in CarryIn(q),
         ~capture_free => q.refcount[carry] >= 1,
         add_thread(list, pc, carry), pool' = Share(q, carry), lists' = [clist |-> c, nlist |-> n],
         pos' \in 0 .. size, list = "nlist" => pos' < size, i' \in 1 .. Len(code) + 1,
         list = "nlist" => i' <= Len(c.threads) + 1, list = "clist" => n.threads = <<>>
  PROVE  VMInv'
  <1>1. PICK p, s : p = pool' /\ s = stack' /\ p = Share(q, carry)
    OBVIOUS
  <1>2. search \in Searches /\ size \in Nat
    BY Parts, CallFacts
  <1>3. /\ PoolOK(p) /\ BlocksOf(p) = BlocksOf(q)
        /\ ~capture_free => \A b : Count(p, b) = Count(q, b) + One(carry, b)
    BY <1>1, ShareFacts DEF CarryIn
  <1>4. ListOK(c, p) /\ ListOK(n, p) /\ carry \in CarryIn(p)
    BY <1>3, ThreadsGrow DEF CarryIn
  <1>5. /\ at' = "closure" /\ into' = list /\ s \in Seq(ThreadsIn(p))
        /\ carried' \in npos .. size /\ (capture_free => carried' \in 0 .. size)
        /\ ~capture_free => \A b : Held(s, b) = One(carry, b)
    BY <1>1, <1>2, <1>4, StartFacts
  <1>6. clist' = c /\ nlist' = n
    BY DEF clist, nlist
  <1>7. Control'
    BY <1>2, <1>5, Kept, Parts DEF Control
  <1>8. Rests'
    BY <1>5, <1>6 DEF Rests, Stepped
  <1>9. ASSUME ~capture_free PROVE Balance(p, c.threads, n.threads, s)
    <2>1. SUFFICES ASSUME NEW b \in BlocksOf(p)
                   PROVE  Count(p, b) = Held(c.threads, b) + Held(n.threads, b) + Held(s, b)
                                          + One(b, npos_block)
      BY DEF Balance
    <2>2. PICK x, y, h, k, r \in Nat :
            /\ x = Count(q, b) /\ y = Count(p, b) /\ h = Held(c.threads, b)
            /\ k = Held(n.threads, b) /\ r = Held(s, b)
      BY <1>3, <1>4, <1>5, CountNat, HeldFacts, ListFacts
    <2>3. PICK o \in Nat : o = One(b, npos_block)
      BY DEF One
    <2>4. y = x + r
      BY <1>3, <1>5, <1>9, <2>2
    <2>5. x = h + k + 0 + o
      BY <1>3, <1>9, <2>2, <2>3, HeldEmpty DEF Balance
    <2>6. y = h + k + r + o
      BY <2>4, <2>5
    <2>7. QED
      BY <2>2, <2>3, <2>6
  <1>10. ~capture_free =>
           IF at' = "done" THEN Balance(p, <<>>, <<>>, <<>>)
                           ELSE Balance(p, c.threads, n.threads, s)
    BY <1>5, <1>9
  <1>11. QED
    BY <1>1, <1>2, <1>3, <1>4, <1>5, <1>7, <1>8, <1>10, Arrive

LEMMA SeedStep ==
  ASSUME VMInv, Seed
  PROVE  VMInv'
  <1>1. /\ at = "loop" /\ pos <= size /\ Arrival # npos /\ pos' = Arrival
        /\ lists' = [lists EXCEPT !.clist = IF Skipping THEN EmptyList ELSE @]
        /\ pool' = Share(pool, npos_block)
        /\ add_thread("clist", 1, IF capture_free THEN Arrival ELSE npos_block)
        /\ UNCHANGED <<search, i, matched, out_slots>>
    BY DEF Seed
  <1>2. UNCHANGED search /\ UNCHANGED <<search, matched, out_slots>> /\ i' = i
    BY <1>1
  <1>3. PICK q, c, n, carry : /\ q = pool /\ n = nlist /\ c = IF Skipping THEN EmptyList ELSE clist
                              /\ carry = IF capture_free THEN Arrival ELSE npos_block
    OBVIOUS
  <1>4. /\ search \in Searches /\ PoolOK(q) /\ ListOK(n, q) /\ stack = <<>> /\ n.threads = <<>>
        /\ lists = [clist |-> clist, nlist |-> n] /\ i \in 1 .. Len(code) + 1
    BY <1>1, <1>3, Parts DEF Control, Rests, Stepped
  <1>5. ListOK(c, q) /\ c.threads = clist.threads /\ lists' = [clist |-> c, nlist |-> n]
    BY <1>1, <1>3, <1>4, Parts, EmptyListOK DEF EmptyList, Skipping
  <1>6. Arrival \in 0 .. size
    BY <1>1, ArrivalFits
  <1>7. npos_block \in BlocksOf(q) /\ q.refcount[npos_block] >= 1
    BY <1>4, ExactFacts DEF PoolOK, Exact, BlocksOf, npos_block
  <1>8. carry \in CarryIn(q) /\ (~capture_free => q.refcount[carry] >= 1)
    BY <1>3, <1>6, <1>7 DEF CarryIn
  <1>9. 1 \in DOMAIN code
    BY <1>4, CallFacts
  <1>10. ~capture_free => Balance(q, c.threads, n.threads, <<>>)
    BY <1>1, <1>3, <1>4, <1>5, Parts
  <1>11. pool' = Share(q, carry) /\ add_thread("clist", 1, carry)
    BY <1>1, <1>3 DEF Share
  <1>12. pos' \in 0 .. size /\ i' \in 1 .. Len(code) + 1
    BY <1>1, <1>2, <1>4, <1>6
  <1>13. QED
    BY <1>2, <1>4, <1>5, <1>8, <1>9, <1>10, <1>11, <1>12, LaunchStep

\* The stepping thread holds a reference of its own.
LEMMA ThreadReferred ==
  ASSUME VMInv, at = "step", i <= Len(clist.threads), ~capture_free
  PROVE  Referred(pool, thread.carry)
  <1>1. PICK b : b = thread.carry
    OBVIOUS
  <1>2. /\ b \in BlocksOf(pool) /\ i \in 1 .. Len(clist.threads)
        /\ Balance(pool, clist.threads, nlist.threads, stack)
        /\ clist.threads \in Seq(ThreadsIn(pool)) /\ nlist.threads \in Seq(ThreadsIn(pool))
        /\ stack \in Seq(ThreadsIn(pool))
    BY <1>1, ThreadFacts, Parts, ListFacts DEF CarryIn
  <1>3. PICK c, n, s \in Nat : /\ c = Held(clist.threads, b) /\ n = Held(nlist.threads, b)
                               /\ s = Held(stack, b)
    BY <1>2, HeldFacts
  <1>4. c >= 1
    BY <1>1, <1>2, <1>3, HeldFacts DEF thread
  <1>5. PICK o \in Nat : o = One(b, npos_block) /\ (b = npos_block => o = 1)
    BY DEF One
  <1>6. Count(pool, b) = c + n + s + o
    BY <1>2, <1>3, <1>5 DEF Balance
  <1>7. PICK r : r = pool.refcount[b] /\ r = c + n + s + o
    BY <1>2, <1>6 DEF Count
  <1>8. r >= 1 /\ (b = npos_block => r >= 2)
    BY <1>4, <1>5, <1>7
  <1>9. QED
    BY <1>1, <1>2, <1>7, <1>8 DEF Referred

LEMMA ConsumeStep ==
  ASSUME VMInv, Consume
  PROVE  VMInv'
  <1>1. /\ at = "step" /\ i <= Len(clist.threads) /\ code[thread.pc].op \in Consuming
        /\ UNCHANGED <<search, pos>> /\ UNCHANGED <<lists, matched, out_slots>>
        /\ advance_thread(thread.carry, pool)
    BY DEF Consume, Stepping, instruction
  <1>2. PICK pc : /\ pc \in Advanced(code, text, thread.pc, pos)
                  /\ add_thread("nlist", pc, thread.carry)
                  /\ pool' = Share(pool, thread.carry) /\ i' = i + 1
    BY <1>1 DEF advance_thread
  <1>3. PICK q, c, n, carry : q = pool /\ c = clist /\ n = nlist /\ carry = thread.carry
    OBVIOUS
  <1>4. /\ search \in Searches /\ thread.pc \in DOMAIN code /\ carry \in CarryIn(q)
        /\ i + 1 \in 1 .. Len(code) + 1 /\ i + 1 <= Len(c.threads) + 1 /\ pos \in 0 .. size
    BY <1>1, <1>3, ThreadFacts, Parts
  <1>5. pos < size /\ pc \in DOMAIN code
    <2>1. /\ text \in Seq(Bytes) /\ pos \in Nat /\ thread.pc \in Nat
          /\ Successors(code, thread.pc) \subseteq DOMAIN code
      BY <1>4, CallFacts, ProgramFacts
    <2>2. pos < Len(text) /\ pc \in Successors(code, thread.pc)
      BY <1>1, <1>2, <2>1, AdvancedFits
    <2>3. QED
      BY <2>1, <2>2 DEF size
  <1>6. /\ PoolOK(q) /\ ListOK(c, q) /\ ListOK(n, q) /\ stack = <<>>
        /\ ~capture_free => Balance(q, c.threads, n.threads, stack)
        /\ lists' = [clist |-> c, nlist |-> n]
    BY <1>1, <1>3, Parts DEF Rests
  <1>7. ~capture_free => Balance(q, c.threads, n.threads, <<>>)
    BY <1>6
  <1>8. ~capture_free => q.refcount[carry] >= 1
    BY <1>1, <1>3, ThreadReferred DEF Referred
  <1>9. /\ UNCHANGED search /\ UNCHANGED <<search, matched, out_slots>>
        /\ add_thread("nlist", pc, carry) /\ pool' = Share(q, carry)
        /\ pos' \in 0 .. size /\ pos' < size /\ i' \in 1 .. Len(code) + 1
        /\ i' <= Len(c.threads) + 1
    BY <1>1, <1>2, <1>3, <1>4, <1>5
  <1>10. QED
    BY <1>4, <1>5, <1>6, <1>7, <1>8, <1>9, LaunchStep

\* A repetition's two slots are written through the thread's block.
LEMMA TierFacts ==
  ASSUME NEW p, PoolOK(p), NEW b, Referred(p, b), NEW slot, slot \in Slots, slot + 1 \in Slots,
         pos \in npos .. size, NEW end \in npos .. size,
         NEW block, NEW q,
         block = tier1_capture_on_match(p, b, slot, end).block,
         q = tier1_capture_on_match(p, b, slot, end).pool
  PROVE  /\ PoolOK(q) /\ BlocksOf(p) \subseteq BlocksOf(q) /\ block \in BlocksOf(q)
         /\ q.refcount[block] >= 1
         /\ \A c : Count(q, c) = Count(p, c) - One(b, c) + One(block, c)
  <1>1. PICK b1, p1 : /\ b1 = cow_write(p, b, slot, pos).block
                      /\ p1 = cow_write(p, b, slot, pos).pool
    OBVIOUS
  <1>2. /\ block = cow_write(p1, b1, slot + 1, end).block
        /\ q = cow_write(p1, b1, slot + 1, end).pool
    BY <1>1 DEF tier1_capture_on_match
  <1>3. Written(p, b, b1, p1, [p.data[b] EXCEPT ![slot] = pos])
    BY <1>1, CowFacts
  <1>4. /\ PoolOK(p1) /\ BlocksOf(p1) = BlocksOf(p) \cup {b1} /\ b1 # npos_block
        /\ \A c : Count(p1, c) = Count(p, c) - One(b, c) + One(b1, c)
        /\ IF b1 = b THEN Count(p, b) = 1 ELSE Count(p, b1) = 0
    BY <1>3 DEF Written
  <1>5. Count(p1, b1) = 1
    <2>1. CASE b1 = b
      BY <1>4, <2>1 DEF One
    <2>2. CASE b1 # b
      BY <1>4, <2>2 DEF One
    <2>3. QED
      BY <2>1, <2>2
  <1>6. Referred(p1, b1)
    BY <1>4, <1>5 DEF Referred, Count
  <1>7. Written(p1, b1, block, q, [p1.data[b1] EXCEPT ![slot + 1] = end])
    BY <1>2, <1>4, <1>6, CowFacts
  <1>8. /\ PoolOK(q) /\ BlocksOf(q) = BlocksOf(p1) \cup {block}
        /\ \A c : Count(q, c) = Count(p1, c) - One(b1, c) + One(block, c)
        /\ IF block = b1 THEN Count(p1, b1) = 1 ELSE Count(p1, block) = 0
    BY <1>7 DEF Written
  <1>9. Count(q, block) = 1
    <2>1. CASE block = b1
      BY <1>8, <2>1 DEF One
    <2>2. CASE block # b1
      BY <1>8, <2>2 DEF One
    <2>3. QED
      BY <2>1, <2>2
  <1>10. q.refcount[block] >= 1
    BY <1>8, <1>9 DEF Count
  <1>11. ASSUME NEW c PROVE Count(q, c) = Count(p, c) - One(b, c) + One(block, c)
    <2>1. PICK x, x1, o, o1, o2 \in Nat : /\ x = Count(p, c) /\ x1 = Count(p1, c)
                                          /\ o = One(b, c) /\ o1 = One(b1, c) /\ o2 = One(block, c)
      BY <1>4, CountNat DEF One
    <2>2. x1 = x - o + o1
      BY <1>4, <2>1
    <2>3. Count(q, c) = x1 - o1 + o2
      BY <1>8, <2>1
    <2>4. QED
      BY <2>1, <2>2, <2>3
  <1>12. QED
    BY <1>4, <1>8, <1>10, <1>11

\* A thread of the list takes another block.
WithCarry(list, k, carry) == [list EXCEPT !.threads[k].carry = carry]

HeldInstead(list, b0, b1, new) ==
  /\ Len(new.threads) = Len(list.threads)
  /\ \A b : Held(new.threads, b) = Held(list.threads, b) - One(b0, b) + One(b1, b)

LEMMA ListExchanged ==
  ASSUME NEW p, NEW list, ListOK(list, p), NEW i0 \in 1 .. Len(list.threads),
         NEW carry \in CarryIn(p)
  PROVE  /\ ListOK(WithCarry(list, i0, carry), p)
         /\ HeldInstead(list, list.threads[i0].carry, carry, WithCarry(list, i0, carry))
  <1>0. PICK new : new = WithCarry(list, i0, carry)
    OBVIOUS
  <1>1. PICK t, e, n : t = list.threads /\ e = list.seen /\ n = Len(t)
    OBVIOUS
  <1>2. /\ t \in Seq(ThreadsIn(p)) /\ e \subseteq DOMAIN code /\ n \in Nat /\ DOMAIN t = 1 .. n
        /\ i0 \in 1 .. n /\ \A k \in 1 .. n : t[k] \in ThreadsIn(p) /\ t[k].pc \in e
    BY <1>1, ListFacts
  <1>3. \A j, k \in 1 .. n : t[j].pc = t[k].pc => j = k
    BY <1>1 DEF ListOK
  <1>4. PICK x : x = [t[i0] EXCEPT !.carry = carry]
    OBVIOUS
  <1>5. x \in ThreadsIn(p) /\ x.pc = t[i0].pc /\ x.carry = carry
    BY <1>2, <1>4 DEF ThreadsIn
  <1>6. PICK u : u = [t EXCEPT ![i0] = x]
    OBVIOUS
  <1>7. /\ u \in Seq(ThreadsIn(p)) /\ Len(u) = n
        /\ \A k \in 1 .. n : u[k] = IF k = i0 THEN x ELSE t[k]
    BY <1>2, <1>5, <1>6, ExceptSeq
  <1>8. list = [threads |-> t, seen |-> e]
    BY <1>1 DEF ListOK
  <1>9. new = [threads |-> u, seen |-> e]
    <2>1. new = [list EXCEPT !.threads =
                   [list.threads EXCEPT ![i0] = [list.threads[i0] EXCEPT !.carry = carry]]]
      BY <1>0 DEF WithCarry
    <2>2. new = [list EXCEPT !.threads = u]
      BY <1>1, <1>4, <1>6, <2>1
    <2>3. QED
      BY <1>8, <2>2
  <1>10. ListOK(new, p)
    <2>1. \A k \in 1 .. n : u[k].pc \in e
      BY <1>2, <1>5, <1>7
    <2>2. \A k \in 1 .. n : u[k].pc = t[k].pc
      BY <1>5, <1>7
    <2>3. \A j, k \in 1 .. n : u[j].pc = u[k].pc => j = k
      BY <1>3, <2>2
    <2>4. PICK m : m = [threads |-> u, seen |-> e]
      OBVIOUS
    <2>5. m.threads = u /\ m.seen = e /\ m \in [threads : Seq(ThreadsIn(p)), seen : SUBSET DOMAIN code]
      BY <1>2, <1>7, <2>4
    <2>6. ListOK(m, p)
      BY <1>7, <2>1, <2>3, <2>5 DEF ListOK
    <2>7. QED
      BY <1>9, <2>4, <2>6
  <1>11. ASSUME NEW b PROVE Held(u, b) = Held(t, b) - One(t[i0].carry, b) + One(carry, b)
    <2>1. Len(t) = n /\ \A k \in 1 .. n : k # i0 => u[k].carry = t[k].carry
      BY <1>1, <1>7
    <2>2. u[i0].carry = carry
      BY <1>2, <1>5, <1>7
    <2>3. /\ t \in Seq(ThreadsIn(p)) /\ u \in Seq(ThreadsIn(p))
          /\ i0 \in 1 .. Len(t) /\ Len(u) = Len(t)
          /\ \A k \in 1 .. Len(t) : k # i0 => u[k].carry = t[k].carry
      BY <1>2, <1>7, <2>1
    <2>4. Held(u, b) = Held(t, b) - One(t[i0].carry, b) + One(u[i0].carry, b)
      BY <2>3, HeldExchanged
    <2>5. QED
      BY <2>2, <2>4
  <1>12. HeldInstead(list, list.threads[i0].carry, carry, new)
    BY <1>1, <1>7, <1>9, <1>11 DEF HeldInstead
  <1>13. QED
    BY <1>0, <1>10, <1>12

LEMMA ConsumePossessiveStep ==
  ASSUME VMInv, ConsumePossessive
  PROVE  VMInv'
  <1> DEFINE slot == instruction.slot
             end == pos + AtomLength(code, text, thread.pc, pos)
             written == IF slot < 0 \/ capture_free
                          THEN [block |-> thread.carry, pool |-> pool]
                          ELSE tier1_capture_on_match(pool, thread.carry, slot, end)
  <1>1. /\ at = "step" /\ i <= Len(clist.threads) /\ code[thread.pc].op \in Possessive
        /\ UNCHANGED <<search, pos>> /\ UNCHANGED <<matched, out_slots>>
        /\ lists' = [lists EXCEPT !.clist.threads[i].carry = written.block]
        /\ advance_thread(written.block, written.pool)
    BY DEF ConsumePossessive, Stepping, instruction
  <1>2. PICK q, block : q = written.pool /\ block = written.block
    OBVIOUS
  <1>3. PICK pc : /\ pc \in Advanced(code, text, thread.pc, pos)
                  /\ add_thread("nlist", pc, block) /\ pool' = Share(q, block) /\ i' = i + 1
    BY <1>1, <1>2 DEF advance_thread
  <1>4. PICK c, n, b : c = clist /\ n = nlist /\ b = thread.carry
    OBVIOUS
  <1>5. /\ search \in Searches /\ thread.pc \in DOMAIN code /\ b \in CarryIn(pool)
        /\ i \in 1 .. Len(c.threads) /\ pos \in 0 .. size /\ size \in Nat
        /\ i + 1 \in 1 .. Len(code) + 1 /\ i + 1 <= Len(c.threads) + 1
    BY <1>1, <1>4, ThreadFacts, Parts, CallFacts
  <1>6. /\ text \in Seq(Bytes) /\ pos \in Nat /\ thread.pc \in Nat
        /\ Successors(code, thread.pc) \subseteq DOMAIN code
    BY <1>5, CallFacts, ProgramFacts
  <1>7. pos < size /\ pc \in DOMAIN code
    <2>1. pos < Len(text) /\ pc \in Successors(code, thread.pc)
      BY <1>1, <1>3, <1>6, AdvancedFits
    <2>2. QED
      BY <1>6, <2>1 DEF size
  <1>8. end \in npos .. size /\ pos \in npos .. size
    <2>1. AtomLength(code, text, thread.pc, pos) \in {1, 2}
          /\ pos + AtomLength(code, text, thread.pc, pos) <= Len(text)
      BY <1>1, <1>3, <1>6, AtomFits
    <2>2. QED
      BY <1>5, <2>1 DEF size, npos
  <1>9. PoolOK(pool) /\ ListOK(c, pool) /\ ListOK(n, pool)
    BY <1>4, Parts
  <1>10. ~capture_free => Referred(pool, b)
    BY <1>1, <1>4, ThreadReferred
  <1>11. /\ PoolOK(q) /\ BlocksOf(pool) \subseteq BlocksOf(q) /\ block \in CarryIn(q)
         /\ ~capture_free => q.refcount[block] >= 1
         /\ ~capture_free => \A x : Count(q, x) = Count(pool, x) - One(b, x) + One(block, x)
    <2>1. CASE slot < 0 \/ capture_free
      <3>1. q = pool /\ block = b
        BY <1>2, <1>4, <2>1
      <3>2. ASSUME NEW x PROVE Count(q, x) = Count(pool, x) - One(b, x) + One(block, x)
        <4>1. PICK y, o \in Nat : y = Count(pool, x) /\ o = One(b, x)
          BY <1>9, CountNat DEF One
        <4>2. QED
          BY <3>1, <4>1
      <3>3. QED
        BY <1>5, <1>9, <1>10, <3>1, <3>2 DEF Referred
    <2>2. CASE ~(slot < 0 \/ capture_free)
      <3>1. /\ block = tier1_capture_on_match(pool, b, slot, end).block
            /\ q = tier1_capture_on_match(pool, b, slot, end).pool
        BY <1>2, <1>4, <2>2
      <3>2. slot \in Slots /\ slot + 1 \in Slots
        BY <1>1, <1>5, <2>2, ProgramFacts DEF instruction
      <3>3. Referred(pool, b) /\ ~capture_free
        BY <1>10, <2>2
      <3> HIDE DEF slot, end, written
      <3>4. /\ PoolOK(q) /\ BlocksOf(pool) \subseteq BlocksOf(q) /\ block \in BlocksOf(q)
            /\ q.refcount[block] >= 1
            /\ \A x : Count(q, x) = Count(pool, x) - One(b, x) + One(block, x)
        BY <1>8, <1>9, <3>1, <3>2, <3>3, TierFacts
      <3>5. QED
        BY <3>3, <3>4 DEF CarryIn
    <2>3. QED
      BY <2>1, <2>2
  <1> HIDE DEF slot, end, written
  <1>12. ListOK(c, q) /\ ListOK(n, q)
    BY <1>9, <1>11, ThreadsGrow
  <1>13. PICK new : new = WithCarry(c, i, block)
    OBVIOUS
  <1>14. /\ ListOK(new, q) /\ Len(new.threads) = Len(c.threads)
         /\ \A x : Held(new.threads, x) = Held(c.threads, x) - One(b, x) + One(block, x)
    <2>1. ListOK(c, q) /\ i \in 1 .. Len(c.threads) /\ block \in CarryIn(q)
      BY <1>5, <1>11, <1>12
    <2>2. ListOK(new, q) /\ HeldInstead(c, c.threads[i].carry, block, new)
      BY <1>13, <2>1, ListExchanged
    <2>3. c.threads[i].carry = b
      BY <1>4 DEF thread
    <2>4. QED
      BY <2>2, <2>3 DEF HeldInstead
  <1>15. lists' = [clist |-> new, nlist |-> n]
    <2>1. lists = [clist |-> c, nlist |-> n]
      BY <1>4, Parts
    <2>2. lists' = [lists EXCEPT !.clist = new]
      BY <1>1, <1>2, <1>13, <2>1 DEF WithCarry
    <2>3. QED
      BY <2>1, <2>2
  <1>16. ASSUME ~capture_free PROVE Balance(q, new.threads, n.threads, <<>>)
    <2>1. stack = <<>> /\ Balance(pool, c.threads, n.threads, stack)
      BY <1>1, <1>4, <1>16, Parts DEF Rests
    <2>2. SUFFICES ASSUME NEW x \in BlocksOf(q)
                   PROVE  Count(q, x) = Held(new.threads, x) + Held(n.threads, x) + Held(<<>>, x)
                                          + One(x, npos_block)
      BY DEF Balance
    <2>3. PICK y, y1, h, h1, k, o, o1, o2 \in Nat :
            /\ y = Count(pool, x) /\ y1 = Count(q, x) /\ h = Held(c.threads, x)
            /\ h1 = Held(new.threads, x) /\ k = Held(n.threads, x)
            /\ o = One(b, x) /\ o1 = One(block, x) /\ o2 = One(x, npos_block)
      BY <1>9, <1>11, <1>12, <1>14, CountNat, HeldFacts, ListFacts DEF One
    <2>4. y1 = y - o + o1
      BY <1>11, <1>16, <2>3
    <2>5. h1 = h - o + o1
      BY <1>14, <2>3
    <2>6. y = h + k + 0 + o2
      <3>1. CASE x \in BlocksOf(pool)
        BY <2>1, <2>3, <3>1, HeldEmpty DEF Balance
      <3>2. CASE x \notin BlocksOf(pool)
        <4>1. y = 0 /\ h = 0 /\ k = 0
          BY <1>9, <1>16, <2>3, <3>2, HeldNowhere, ListFacts DEF Count
        <4>2. 1 \in BlocksOf(pool)
          BY <1>9, ExactFacts DEF PoolOK, BlocksOf
        <4>3. o2 = 0
          BY <2>3, <3>2, <4>2 DEF One, npos_block
        <4>4. QED
          BY <4>1, <4>3
      <3>3. QED
        BY <3>1, <3>2
    <2>7. y1 = h1 + k + 0 + o2
      BY <2>4, <2>5, <2>6
    <2>8. QED
      BY <2>3, <2>7, HeldEmpty
  <1>17. /\ UNCHANGED search /\ UNCHANGED <<search, matched, out_slots>>
         /\ pos' \in 0 .. size /\ pos' < size /\ i' \in 1 .. Len(code) + 1
         /\ i' <= Len(new.threads) + 1
    BY <1>1, <1>3, <1>5, <1>7, <1>14
  <1>18. QED
    BY <1>3, <1>7, <1>11, <1>12, <1>14, <1>15, <1>16, <1>17, LaunchStep

-----------------------------------------------------------------------------
(* Steps that give whole lists of blocks back.                             *)

\* A list's references go, and what is left is balanced with the rest.
GivenBack(p, t, n, q) ==
  /\ PoolOK(q) /\ BlocksOf(q) = BlocksOf(p) /\ q.data = p.data
  /\ ~capture_free => Balance(q, n, <<>>, <<>>)

LEMMA GiveBackFacts ==
  ASSUME NEW p, PoolOK(p), NEW list, ListOK(list, p), NEW n \in Seq(ThreadsIn(p)),
         ~capture_free => Balance(p, list.threads, n, <<>>)
  PROVE  GivenBack(p, list.threads, n, cow_release_blocks(p, list))
  <1>1. PICK t, q : t = list.threads /\ q = cow_release_blocks(p, list)
    OBVIOUS
  <1>2. t \in Seq(ThreadsIn(p)) /\ Len(t) \in Nat /\ \A k \in 1 .. Len(t) : t[k] \in ThreadsIn(p)
    BY <1>1, ListFacts
  <1>3. CASE capture_free
    <2>1. q = p
      BY <1>1, <1>3 DEF cow_release_blocks
    <2>2. QED
      BY <1>1, <1>3, <2>1 DEF GivenBack
  <1>4. CASE ~capture_free
    <2>1. q = Released(p, t)[Len(t)]
      BY <1>1, <1>4 DEF cow_release_blocks, Released
    <2>2. ASSUME NEW b \in BlocksOf(p)
          PROVE  /\ Count(p, b) = Held(t, b) + Held(n, b) + One(b, npos_block)
                 /\ Held(t, b) \in Nat /\ Held(n, b) \in Nat
      <3>1. Held(t, b) \in Nat /\ Held(n, b) \in Nat
        BY <1>2, HeldFacts
      <3>2. PICK h, k, o \in Nat : h = Held(t, b) /\ k = Held(n, b) /\ o = One(b, npos_block)
        BY <3>1 DEF One
      <3>3. Count(p, b) = h + k + 0 + o
        BY <1>1, <1>4, <3>2, HeldEmpty DEF Balance
      <3>4. QED
        BY <3>2, <3>3
    <2>3. Backed(p, t)
      <3>1. ASSUME NEW k \in 1 .. Len(t)
            PROVE  /\ t[k].carry \in BlocksOf(p)
                   /\ Count(p, t[k].carry) >= Held(t, t[k].carry) + One(t[k].carry, npos_block)
        <4>1. PICK b : b = t[k].carry /\ b \in BlocksOf(p)
          BY <1>2, <1>4 DEF ThreadsIn, CarryIn
        <4>2. PICK h, m, o \in Nat : h = Held(t, b) /\ m = Held(n, b) /\ o = One(b, npos_block)
          BY <2>2, <4>1 DEF One
        <4>3. Count(p, b) = h + m + o
          BY <2>2, <4>1, <4>2
        <4>4. PICK x : x = Count(p, b) /\ x = h + m + o
          BY <4>3
        <4>5. x >= h + o
          BY <4>4
        <4>6. QED
          BY <4>1, <4>2, <4>4, <4>5
      <3>2. QED
        BY <3>1 DEF Backed
    <2>4. ReleasedBy(p, t, q)
      BY <1>2, <2>1, <2>3, ReleaseFacts
    <2>5. ASSUME NEW b \in BlocksOf(q)
          PROVE  Count(q, b) = Held(n, b) + Held(<<>>, b) + Held(<<>>, b) + One(b, npos_block)
      <3>1. b \in BlocksOf(p) /\ Count(q, b) = Count(p, b) - Held(t, b)
        BY <2>4 DEF ReleasedBy
      <3>2. PICK h, m, o \in Nat : h = Held(t, b) /\ m = Held(n, b) /\ o = One(b, npos_block)
        BY <2>2, <3>1 DEF One
      <3>3. Count(p, b) = h + m + o
        BY <2>2, <3>1, <3>2
      <3>4. Count(q, b) = m + 0 + 0 + o
        BY <3>1, <3>2, <3>3
      <3>5. QED
        BY <3>2, <3>4, HeldEmpty
    <2>6. QED
      BY <1>1, <2>4, <2>5 DEF GivenBack, ReleasedBy, Balance
  <1>5. QED
    BY <1>3, <1>4

LEMMA RotateStep ==
  ASSUME VMInv, Rotate
  PROVE  VMInv'
  <1>1. /\ at = "step" /\ at' = "loop" /\ pos' = pos + 1
        /\ lists' = [clist |-> nlist, nlist |-> EmptyList]
        /\ pool' = cow_release_blocks(pool, clist)
        /\ UNCHANGED <<search, i, into, stack, carried, matched, out_slots>>
    BY DEF Rotate
  <1>2. UNCHANGED search
    BY <1>1
  <1>3. PICK p, c, n, s, e : /\ p = pool' /\ p = cow_release_blocks(pool, clist) /\ c = nlist
                             /\ n = EmptyList /\ s = stack' /\ e = <<>>
    BY <1>1
  <1>4. /\ search \in Searches /\ PoolOK(pool) /\ ListOK(clist, pool) /\ ListOK(c, pool)
        /\ c.threads \in Seq(ThreadsIn(pool)) /\ stack = <<>> /\ size \in Nat
        /\ pos \in 0 .. size
    BY <1>1, <1>3, Parts, ListFacts, CallFacts DEF Rests, Control
  <1>5. ~capture_free => Balance(pool, clist.threads, c.threads, <<>>)
    BY <1>1, <1>3, <1>4, Parts
  <1>6. GivenBack(pool, clist.threads, c.threads, p)
    BY <1>3, <1>4, <1>5, GiveBackFacts
  <1>7. PoolOK(p) /\ BlocksOf(pool) \subseteq BlocksOf(p)
    BY <1>6 DEF GivenBack
  <1>8. ListOK(c, p) /\ ListOK(n, p) /\ s \in Seq(ThreadsIn(p)) /\ s = stack' /\ s = <<>>
    BY <1>1, <1>3, <1>4, <1>7, ThreadsGrow, EmptyListOK, EmptySeq
  <1>9. clist' = c /\ nlist' = n /\ n.threads = <<>> /\ lists' = [clist |-> c, nlist |-> n]
    BY <1>1, <1>3 DEF clist, nlist, EmptyList
  <1>10. Control'
    BY <1>1, <1>2, <1>4, Kept, Parts DEF Control
  <1>11. Rests'
    BY <1>1, <1>8, <1>9 DEF Rests, Stepped
  <1>12. ~capture_free =>
           IF at' = "done" THEN Balance(p, <<>>, <<>>, <<>>)
                           ELSE Balance(p, c.threads, n.threads, s)
    BY <1>1, <1>6, <1>8, <1>9 DEF GivenBack
  <1>13. QED
    BY <1>2, <1>3, <1>4, <1>7, <1>8, <1>9, <1>10, <1>11, <1>12, Arrive

LEMMA DrainStep ==
  ASSUME VMInv, Drain
  PROVE  VMInv'
  <1>1. /\ at = "drain" /\ at' = "done"
        /\ pool' = cow_release_blocks(cow_release_blocks(pool, clist), nlist)
        /\ UNCHANGED <<search, pos, i, lists, into, stack, carried, matched, out_slots>>
    BY DEF Drain
  <1>2. UNCHANGED search
    BY <1>1
  <1>3. PICK q, p, c, n, s : /\ q = cow_release_blocks(pool, c) /\ p = cow_release_blocks(q, n)
                             /\ p = pool' /\ c = clist /\ n = nlist /\ s = stack'
    BY <1>1
  <1>4. /\ search \in Searches /\ PoolOK(pool) /\ ListOK(c, pool) /\ ListOK(n, pool)
        /\ n.threads \in Seq(ThreadsIn(pool)) /\ stack = <<>> /\ s = <<>>
    BY <1>1, <1>3, Parts, ListFacts DEF Rests
  <1>5. ~capture_free => Balance(pool, c.threads, n.threads, <<>>)
    BY <1>1, <1>3, <1>4, Parts
  <1>6. GivenBack(pool, c.threads, n.threads, q)
    BY <1>3, <1>4, <1>5, GiveBackFacts
  <1>7. /\ PoolOK(q) /\ BlocksOf(q) = BlocksOf(pool) /\ ListOK(n, q)
        /\ ~capture_free => Balance(q, n.threads, <<>>, <<>>)
    BY <1>4, <1>6, ThreadsGrow DEF GivenBack
  <1>8. PICK e : e = <<>> /\ e \in Seq(ThreadsIn(q))
    BY EmptySeq
  <1>9. ~capture_free => Balance(q, n.threads, e, <<>>)
    BY <1>7, <1>8
  <1>10. GivenBack(q, n.threads, e, p)
    BY <1>3, <1>7, <1>8, <1>9, GiveBackFacts
  <1>11. /\ PoolOK(p) /\ BlocksOf(pool) \subseteq BlocksOf(p)
         /\ ~capture_free => Balance(p, <<>>, <<>>, <<>>)
    BY <1>7, <1>8, <1>10 DEF GivenBack
  <1>12. ListOK(c, p) /\ ListOK(n, p) /\ s \in Seq(ThreadsIn(p))
    BY <1>4, <1>11, ThreadsGrow, EmptySeq
  <1>13. lists' = [clist |-> c, nlist |-> n] /\ clist' = c /\ nlist' = n
    BY <1>1, <1>3, Parts DEF clist, nlist
  <1>14. Control'
    BY <1>1, <1>2, Kept, Parts DEF Control
  <1>15. Rests'
    BY <1>1, <1>3, <1>4 DEF Rests, Stepped
  <1>16. ~capture_free =>
           IF at' = "done" THEN Balance(p, <<>>, <<>>, <<>>)
                           ELSE Balance(p, c.threads, n.threads, s)
    BY <1>1, <1>11
  <1>17. QED
    BY <1>2, <1>3, <1>4, <1>11, <1>12, <1>13, <1>14, <1>15, <1>16, Arrive

-----------------------------------------------------------------------------
(* The invariant holds at the start, and every step keeps it.              *)

LEMMA PoolReset ==
  ASSUME search \in Searches
  PROVE  /\ PoolOK(pool_reset(Slots)) /\ BlocksOf(pool_reset(Slots)) = {1}
         /\ pool_reset(Slots).refcount[1] = 1
  <1>1. PICK v, d, r, f : v = Unset(Slots) /\ d = <<v>> /\ r = <<1>> /\ f = <<>>
    OBVIOUS
  <1>2. v \in Blocks
    BY <1>1, CallFacts DEF Unset, Blocks, npos
  <1>3. d \in Seq(Blocks) /\ Len(d) = 1 /\ d[1] = v
    BY <1>1, <1>2
  <1>4. r \in Seq(Nat) /\ Len(r) = 1 /\ r[1] = 1
    BY <1>1
  <1>5. f \in Seq(Nat) /\ Len(f) = 0
    BY <1>1, EmptySeq
  <1>6. Exact(d, r, f)
    BY <1>1, <1>3, <1>4, <1>5 DEF Exact, npos_block
  <1>7. pool_reset(Slots) = [data |-> d, refcount |-> r, free |-> f]
    BY <1>1 DEF pool_reset
  <1>8. PICK p : p = pool_reset(Slots) /\ p = [data |-> d, refcount |-> r, free |-> f]
    BY <1>7
  <1>9. p.refcount = r
    BY <1>8
  <1>10. PoolOK(p)
    BY <1>6, <1>8, PoolMade
  <1>11. BlocksOf(p) = {1} /\ p.refcount[1] = 1
    <2>1. Len(p.refcount) = 1 /\ p.refcount[1] = 1
      BY <1>4, <1>9
    <2>2. BlocksOf(p) = 1 .. 1
      BY <2>1 DEF BlocksOf
    <2>3. QED
      BY <2>1, <2>2
  <1>12. QED
    BY <1>8, <1>10, <1>11

LEMMA Initially ==
  ASSUME Init
  PROVE  VMInv
  <1>1. /\ search \in Searches /\ at = "loop" /\ pos = search.start /\ i = 1
        /\ lists = [clist |-> EmptyList, nlist |-> EmptyList] /\ into = "clist"
        /\ stack = <<>> /\ carried = npos /\ pool = pool_reset(Slots)
        /\ matched = FALSE /\ out_slots = Unset(Slots)
    BY DEF Init
  <1>2. size \in Nat /\ search.start \in 0 .. size /\ Len(code) \in Nat \ {0}
    BY <1>1, CallFacts
  <1>3. out_slots \in Blocks
    BY <1>1, <1>2 DEF Unset, Blocks, npos
  <1>4. Control
    <2>1. pos \in 0 .. size + 1 /\ pos <= size /\ i \in 1 .. Len(code) + 1
      BY <1>1, <1>2
    <2>2. carried \in npos .. size
      BY <1>1, <1>2 DEF npos
    <2>3. QED
      BY <1>1, <1>3, <2>1, <2>2 DEF Control
  <1>5. clist = EmptyList /\ nlist = EmptyList /\ EmptyList.threads = <<>>
    BY <1>1 DEF clist, nlist, EmptyList
  <1>6. Rests
    BY <1>1, <1>5 DEF Rests, Stepped
  <1>7. PoolOK(pool) /\ BlocksOf(pool) = {1} /\ pool.refcount[1] = 1
    BY <1>1, PoolReset
  <1>8. Structure
    BY <1>1, <1>5, <1>7, EmptyListOK, EmptySeq DEF Structure
  <1>9. Balance(pool, <<>>, <<>>, <<>>)
    BY <1>7, HeldEmpty DEF Balance, Count, One, npos_block
  <1>10. Balanced
    BY <1>1, <1>5, <1>9 DEF Balanced
  <1>11. QED
    BY <1>1, <1>4, <1>6, <1>8, <1>10 DEF VMInv

LEMMA StutterStep ==
  ASSUME VMInv, UNCHANGED vars
  PROVE  VMInv'
  <1>1. UNCHANGED <<search, at, pos, i, lists, into, stack, carried, pool, matched, out_slots>>
    BY DEF vars
  <1>2. UNCHANGED search
    BY <1>1
  <1>3. PICK p, c, n, s : p = pool /\ c = clist /\ n = nlist /\ s = stack
    OBVIOUS
  <1>4. /\ search \in Searches /\ PoolOK(p) /\ ListOK(c, p) /\ ListOK(n, p)
        /\ s \in Seq(ThreadsIn(p)) /\ p = pool' /\ s = stack'
        /\ lists' = [clist |-> c, nlist |-> n] /\ clist' = c /\ nlist' = n
    BY <1>1, <1>3, Parts DEF clist, nlist
  <1>5. Control'
    BY <1>1, <1>2, Kept, Parts DEF Control
  <1>6. Rests'
    BY <1>1, <1>3, <1>4, Parts DEF Rests, Stepped
  <1>7. ~capture_free =>
          IF at' = "done" THEN Balance(p, <<>>, <<>>, <<>>)
                          ELSE Balance(p, c.threads, n.threads, s)
    BY <1>1, <1>3 DEF VMInv, Balanced
  <1>8. QED
    BY <1>2, <1>4, <1>5, <1>6, <1>7, Arrive

\* The inductive invariant: where control stands, the lists and the pool they share, and
\* every reference count the number of its holders.
THEOREM Inductive ==
  Spec => []VMInv
  <1>1. Init => VMInv
    BY Initially
  <1>2. VMInv /\ [Next]_vars => VMInv'
    <2>1. SUFFICES ASSUME VMInv, [Next]_vars PROVE VMInv'
      OBVIOUS
    <2>2. CASE Exhausted
      BY <2>1, <2>2, ExhaustedStep
    <2>3. CASE Seed
      BY <2>1, <2>3, SeedStep
    <2>4. CASE NoSeed
      BY <2>1, <2>4, NoSeedStep
    <2>5. CASE NoThread
      BY <2>1, <2>5, NoThreadStep
    <2>6. CASE BeginStep
      BY <2>1, <2>6, BeginStepStep
    <2>7. CASE VisitSeen
      BY <2>1, <2>7, VisitSeenStep
    <2>8. CASE VisitJump
      BY <2>1, <2>8, VisitJumpStep
    <2>9. CASE VisitSplit
      BY <2>1, <2>9, VisitSplitStep
    <2>10. CASE VisitSave
      BY <2>1, <2>10, VisitSaveStep
    <2>11. CASE VisitAssertion
      BY <2>1, <2>11, VisitAssertionStep
    <2>12. CASE VisitLeaf
      BY <2>1, <2>12, VisitLeafStep
    <2>13. CASE VisitLoopExit
      BY <2>1, <2>13, VisitLoopExitStep
    <2>14. CASE ClosureDone
      BY <2>1, <2>14, ClosureDoneStep
    <2>15. CASE Consume
      BY <2>1, <2>15, ConsumeStep
    <2>16. CASE ConsumePossessive
      BY <2>1, <2>16, ConsumePossessiveStep
    <2>17. CASE Die \/ Reject \/ MatchFirst \/ MatchLongest
      BY <2>1, <2>17, ThreadEndsStep
    <2>18. CASE Rotate
      BY <2>1, <2>18, RotateStep
    <2>19. CASE Drain
      BY <2>1, <2>19, DrainStep
    <2>20. CASE UNCHANGED vars
      BY <2>1, <2>20, StutterStep
    <2>21. QED
      BY <2>1, <2>2, <2>3, <2>4, <2>5, <2>6, <2>7, <2>8, <2>9, <2>10, <2>11, <2>12, <2>13,
         <2>14, <2>15, <2>16, <2>17, <2>18, <2>19, <2>20 DEF Next
  <1>3. QED
    BY <1>1, <1>2, PTL DEF Spec

LEMMA TypesFollow ==
  ASSUME VMInv
  PROVE  TypeOK
  <1>1. /\ Control /\ Rests /\ PoolOK(pool) /\ stack \in Seq(ThreadsIn(pool))
        /\ ListOK(clist, pool) /\ ListOK(nlist, pool)
        /\ lists = [clist |-> clist, nlist |-> nlist]
    BY Parts
  <1>2. PICK d, r, f : /\ d = pool.data /\ r = pool.refcount /\ f = pool.free
                       /\ pool = [data |-> d, refcount |-> r, free |-> f] /\ Exact(d, r, f)
    BY <1>1 DEF PoolOK
  <1>3. /\ d \in Seq(Blocks) /\ r \in Seq(Nat) /\ f \in Seq(Nat) /\ DOMAIN r = 1 .. Len(r)
        /\ DOMAIN d = DOMAIN r /\ DOMAIN f = 1 .. Len(f)
    BY <1>2, ExactFacts
  <1>4. ThreadsIn(pool) = Threads
    BY <1>2, <1>3 DEF ThreadsIn, Threads, CarryIn, Carry, BlocksOf
  <1>5. clist \in [threads : Seq(Threads), seen : SUBSET DOMAIN code]
    BY <1>1, <1>4 DEF ListOK
  <1>6. nlist \in [threads : Seq(Threads), seen : SUBSET DOMAIN code]
    BY <1>1, <1>4 DEF ListOK
  <1>7. lists \in [{"clist", "nlist"} -> [threads : Seq(Threads), seen : SUBSET DOMAIN code]]
    <2>1. PICK c, n : c = clist /\ n = nlist
      OBVIOUS
    <2>2. lists = [clist |-> c, nlist |-> n]
      BY <1>1, <2>1
    <2>3. QED
      BY <1>5, <1>6, <2>1, <2>2
  <1>8. f \in Seq(DOMAIN r)
    <2>1. \A k \in 1 .. Len(f) : f[k] \in DOMAIN r
      BY <1>2, <1>3 DEF Exact
    <2>2. PICK n \in Nat : n = Len(f)
      BY <1>3, LenProperties
    <2>3. f = [k \in 1 .. n |-> f[k]]
      BY <1>3, <2>2
    <2>4. f \in [1 .. n -> DOMAIN r]
      BY <2>1, <2>2, <2>3
    <2>5. QED
      BY <2>4, SeqDef
  <1>9. pool \in [data : Seq([Slots -> npos .. size]), refcount : Seq(Nat),
                  free : Seq(DOMAIN pool.refcount)]
    BY <1>2, <1>3, <1>8 DEF Blocks
  <1>10. at = "step" => i <= Len(clist.threads) + 1
    BY <1>1 DEF Rests, Stepped
  <1>11. QED
    BY <1>1, <1>2, <1>3, <1>4, <1>7, <1>9, <1>10 DEF TypeOK, Control, Blocks

-----------------------------------------------------------------------------
(* The theorems.                                                           *)

\* run_general never reads outside its lists, its closure's stack, its pool or its slots, for
\* any well-formed program, subject and start.
THEOREM TypeCorrect ==
  Spec => []TypeOK
  BY Inductive, TypesFollow, PTL

\* cow_write, add_thread and cow_release_blocks keep every reference count the number of the
\* threads and entries that hold the block, and the call ends with none held: what
\* run_general asserts as it returns.
THEOREM ReferencesBalanced ==
  Spec => []RefsBalanced
  <1>1. ASSUME VMInv PROVE RefsBalanced
    <2>1. SUFFICES ASSUME ~capture_free, NEW b \in DOMAIN pool.refcount
                   PROVE  pool.refcount[b] = Holders(b) + (IF b = npos_block THEN 1 ELSE 0)
      BY DEF RefsBalanced
    <2>2. PICK r \in Nat : r = pool.refcount[b] /\ r = Count(pool, b) /\ b \in BlocksOf(pool)
      BY <1>1, <2>1, Parts, ExactFacts DEF PoolOK, Count, BlocksOf
    <2>3. CASE at = "done"
      <3>1. Balance(pool, <<>>, <<>>, <<>>)
        BY <1>1, <2>1, <2>3 DEF VMInv, Balanced
      <3>2. r = 0 + 0 + 0 + One(b, npos_block)
        BY <2>2, <3>1, HeldEmpty DEF Balance
      <3>3. QED
        BY <2>2, <2>3, <3>2 DEF Holders, One
    <2>4. CASE at # "done"
      <3>1. /\ Balance(pool, clist.threads, nlist.threads, stack)
            /\ clist.threads \in Seq(ThreadsIn(pool)) /\ nlist.threads \in Seq(ThreadsIn(pool))
            /\ stack \in Seq(ThreadsIn(pool))
        BY <1>1, <2>1, <2>4, Parts, ListFacts
      <3>2. PICK c, n, s \in Nat : /\ c = Held(clist.threads, b) /\ n = Held(nlist.threads, b)
                                   /\ s = Held(stack, b)
        BY <3>1, HeldFacts
      <3>3. r = c + n + s + One(b, npos_block)
        BY <2>2, <3>1, <3>2 DEF Balance
      <3>4. Holders(b) = c + n + s
        BY <2>4, <3>2 DEF Holders
      <3>5. QED
        BY <2>2, <3>2, <3>3, <3>4 DEF One
    <2>5. QED
      BY <2>3, <2>4
  <1>2. QED
    BY <1>1, Inductive, PTL

\* A block is handed out again only when nothing refers to it, and by one holder at a time:
\* cow_alloc's free list is exact, and the block all seeds share is never written.
THEOREM PoolStaysSound ==
  Spec => []PoolSound
  <1>1. ASSUME VMInv PROVE PoolSound
    <2>1. PICK d, r, f : /\ d = pool.data /\ r = pool.refcount /\ f = pool.free
                         /\ Exact(d, r, f)
      BY <1>1, Parts DEF PoolOK
    <2>2. /\ DOMAIN r = 1 .. Len(r) /\ f \in Seq(Nat) /\ Len(f) \in Nat
          /\ DOMAIN f = 1 .. Len(f)
      BY <2>1, ExactFacts
    <2>3. PICK n \in Nat : n = Len(f)
      BY <2>2
    <2>4. Range(f) = {b \in DOMAIN r : r[b] = 0}
      <3>1. \A k \in DOMAIN f : f[k] \in DOMAIN r /\ r[f[k]] = 0
        BY <2>1, <2>2 DEF Exact
      <3>2. \A b \in DOMAIN r : r[b] = 0 => \E k \in DOMAIN f : f[k] = b
        BY <2>1, <2>2 DEF Exact
      <3>3. QED
        BY <3>1, <3>2 DEF Range
    <2>5. f \in Surjection(1 .. n, Range(f))
      <3>1. f \in [1 .. n -> Range(f)]
        BY <2>2, <2>3 DEF Range
      <3>2. \A b \in Range(f) : \E k \in 1 .. n : f[k] = b
        BY <2>2, <2>3 DEF Range
      <3>3. QED
        BY <3>1, <3>2 DEF Surjection
    <2>6. f \in Injection(1 .. n, Range(f))
      BY <2>1, <2>3, <2>5 DEF Injection, IsInjective, Surjection, Exact
    <2>7. IsFiniteSet(1 .. n) /\ Cardinality(1 .. n) = n
      <3>1. 1 \in Int /\ n \in Int
        OBVIOUS
      <3>2. IsFiniteSet(1 .. n) /\ Cardinality(1 .. n) = IF 1 > n THEN 0 ELSE n - 1 + 1
        BY <3>1, FS_Interval
      <3>3. QED
        BY <3>2
    <2>8. Cardinality(Range(f)) = n
      BY <2>5, <2>6, <2>7, FS_Surjection
    <2>9. d[npos_block] = Unset(Slots)
      BY <2>1 DEF Exact
    <2>10. QED
      BY <2>1, <2>3, <2>4, <2>8, <2>9 DEF PoolSound
  <1>2. QED
    BY <1>1, Inductive, PTL

=============================================================================
