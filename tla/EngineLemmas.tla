----------------------------- MODULE EngineLemmas -----------------------------
(***************************************************************************)
(* What the proofs about both engines of the general loop rest on: how far *)
(* a byte or a code point reaches, where a jump leads, what a well-formed  *)
(* program lets an instruction do, and facts about sequences and minima.   *)
(***************************************************************************)
EXTENDS Program, TLAPS, SequenceTheorems, FiniteSetTheorems, WellFoundedInduction

-----------------------------------------------------------------------------
(* The text: what a byte or a code point at a position leaves room for.    *)

LEMMA Encodings ==
  ASSUME NEW c \in CodePoints
  PROVE  /\ Encode(c) \in Seq(Bytes) /\ Len(Encode(c)) \in {1, 2}
         /\ Encode(c)[1] = IF c = Accented THEN Lead ELSE c
  <1>1. CASE c = Accented
    <2>1. Encode(c) = <<Lead, Cont>> /\ Lead \in Bytes /\ Cont \in Bytes
      BY <1>1 DEF Encode, Bytes
    <2>2. QED
      BY <1>1, <2>1
  <1>2. CASE c # Accented
    <2>1. Encode(c) = <<c>> /\ c \in Bytes
      BY <1>2 DEF Encode, Bytes, CodePoints
    <2>2. QED
      BY <1>2, <2>1
  <1>3. QED
    BY <1>1, <1>2

LEMMA DecodedFits ==
  ASSUME NEW t \in Seq(Bytes), NEW q \in Nat, NEW c \in Decoded(t, q)
  PROVE  /\ c \in CodePoints
         /\ q + Len(Encode(c)) <= Len(t)
         /\ t[q + 1] = Encode(c)[1]
  <1> DEFINE rest == SubSeq(t, q + 1, Len(t))
  <1>1. c \in CodePoints /\ IsPrefix(Encode(c), rest)
    BY DEF Decoded
  <1>2. Encode(c) \in Seq(Bytes) /\ Len(Encode(c)) \in {1, 2}
    BY <1>1, Encodings
  <1>3. Len(t) \in Nat /\ \A k \in q + 1 .. Len(t) : t[k] \in Bytes
    BY LenProperties, ElementOfSeq
  <1>4. /\ rest \in Seq(Bytes)
        /\ Len(rest) = IF q + 1 <= Len(t) THEN Len(t) - (q + 1) + 1 ELSE 0
        /\ \A k \in 1 .. Len(t) - (q + 1) + 1 : rest[k] = t[q + 1 + k - 1]
    BY <1>3, SubSeqProperties
  <1> HIDE DEF rest
  <1>5. /\ Len(Encode(c)) <= Len(rest)
        /\ SubSeq(Encode(c), 1, Len(Encode(c))) = SubSeq(rest, 1, Len(Encode(c)))
    BY <1>1 DEF IsPrefix
  <1>6. PICK n : n = Len(Encode(c))
    OBVIOUS
  <1>7. n \in {1, 2} /\ n <= Len(rest) /\ SubSeq(Encode(c), 1, n) = SubSeq(rest, 1, n)
    BY <1>2, <1>5, <1>6
  <1>8. Len(rest) = IF q + 1 <= Len(t) THEN Len(t) - (q + 1) + 1 ELSE 0
    BY <1>4
  <1>9. q + n <= Len(t) /\ Len(rest) = Len(t) - q
    BY <1>3, <1>7, <1>8
  <1>10. rest[1] = t[q + 1]
    <2>1. 1 \in 1 .. Len(t) - (q + 1) + 1 /\ q + 1 + 1 - 1 = q + 1
      BY <1>3, <1>7, <1>9
    <2>2. QED
      BY <1>4, <2>1
  <1>11. SubSeq(rest, 1, n)[1] = rest[1]
    <2>1. \A k \in 1 .. n : rest[k] \in Bytes
      BY <1>3, <1>4, <1>7, <1>9, ElementOfSeq
    <2>2. \A k \in 1 .. n - 1 + 1 : SubSeq(rest, 1, n)[k] = rest[1 + k - 1]
      BY <1>7, <2>1, SubSeqProperties
    <2>3. QED
      BY <1>7, <2>2
  <1>12. SubSeq(Encode(c), 1, n) = Encode(c)
    BY <1>2, <1>6, SubSeqFull
  <1>13. QED
    BY <1>1, <1>6, <1>7, <1>9, <1>10, <1>11, <1>12

\* A first byte begins one code point, so at most one is decoded at a position.
LEMMA DecodedOnce ==
  ASSUME NEW t \in Seq(Bytes), NEW q \in Nat, NEW c \in Decoded(t, q), NEW d \in Decoded(t, q)
  PROVE  c = d
  <1>1. c \in CodePoints /\ d \in CodePoints /\ Encode(c)[1] = Encode(d)[1]
    BY DecodedFits
  <1>2. (IF c = Accented THEN Lead ELSE c) = (IF d = Accented THEN Lead ELSE d)
    BY <1>1, Encodings
  <1>3. QED
    BY <1>1, <1>2 DEF CodePoints, Ascii, Letters, Lead, Newline, Accented

LEMMA AdvancedOnce ==
  ASSUME NEW c, NEW t \in Seq(Bytes), NEW p, NEW q \in Nat,
         NEW a \in Advanced(c, t, p, q), NEW b \in Advanced(c, t, p, q)
  PROVE  a = b
  <1>1. CASE c[p].op \in {"byte", "klass", "klass_loop_possessive"}
    BY <1>1 DEF Advanced
  <1>2. CASE c[p].op \notin {"byte", "klass", "klass_loop_possessive"}
    <2>1. Advanced(c, t, p, q) =
            {p + 1 + (4 - Len(Encode(x))) : x \in Decoded(t, q) \cap c[p].class}
      BY <1>2 DEF Advanced
    <2>2. PICK x \in Decoded(t, q) : a = p + 1 + (4 - Len(Encode(x)))
      BY <2>1
    <2>3. PICK y \in Decoded(t, q) : b = p + 1 + (4 - Len(Encode(y)))
      BY <2>1
    <2>4. x = y
      BY DecodedOnce
    <2>5. QED
      BY <2>2, <2>3, <2>4
  <1>3. QED
    BY <1>1, <1>2

\* A byte taken is a byte of the subject, and control stays in the code.
LEMMA AdvancedFits ==
  ASSUME NEW c, NEW t \in Seq(Bytes), NEW p \in Nat, NEW q \in Nat,
         NEW a \in Advanced(c, t, p, q), c[p].op \in Consuming \cup Possessive
  PROVE  q < Len(t) /\ a \in Successors(c, p)
  <1>1. CASE c[p].op \in {"byte", "klass", "klass_loop_possessive"}
    <2>1. a = p + 1 /\ q < Len(t)
      BY <1>1 DEF Advanced, HasByte
    <2>2. p + 1 \in Successors(c, p)
      BY <1>1 DEF Successors
    <2>3. QED
      BY <2>1, <2>2
  <1>2. CASE c[p].op \in {"klass_cp", "klass_cp_loop_possessive"}
    <2>1. PICK x \in Decoded(t, q) : a = p + 1 + (4 - Len(Encode(x)))
      BY <1>2 DEF Advanced
    <2>2. PICK n : n = Len(Encode(x))
      OBVIOUS
    <2>3. n \in {1, 2} /\ q + n <= Len(t) /\ Len(t) \in Nat /\ a = p + 1 + (4 - n)
      BY <2>1, <2>2, DecodedFits, Encodings, LenProperties
    <2>4. a \in {p + 3, p + 4} /\ q < Len(t)
      BY <2>3
    <2>5. {p + 3, p + 4} \subseteq Successors(c, p)
      BY <1>2 DEF Successors
    <2>6. QED
      BY <2>4, <2>5
  <1>3. QED
    BY <1>1, <1>2 DEF Consuming, Possessive

LEMMA AtomFits ==
  ASSUME NEW c, NEW t \in Seq(Bytes), NEW p \in Nat, NEW q \in Nat,
         c[p].op \in Possessive, Advanced(c, t, p, q) # {}
  PROVE  AtomLength(c, t, p, q) \in {1, 2} /\ q + AtomLength(c, t, p, q) <= Len(t)
  <1>0. Len(t) \in Nat
    BY LenProperties
  <1>1. CASE c[p].op = "klass_loop_possessive"
    <2>1. q < Len(t)
      BY AdvancedFits
    <2>2. AtomLength(c, t, p, q) = 1
      BY <1>1 DEF AtomLength
    <2>3. QED
      BY <1>0, <2>1, <2>2
  <1>2. CASE c[p].op # "klass_loop_possessive"
    <2> DEFINE lengths == {Len(Encode(x)) : x \in Decoded(t, q) \cap c[p].class}
    <2>1. c[p].op \notin {"byte", "klass", "klass_loop_possessive"}
      BY <1>2 DEF Possessive
    <2>2. Decoded(t, q) \cap c[p].class # {}
      BY <2>1 DEF Advanced
    <2>3. \A n \in lengths : n \in {1, 2} /\ q + n <= Len(t)
      BY DecodedFits, Encodings
    <2>4. lengths # {}
      BY <2>2
    <2>5. AtomLength(c, t, p, q) \in lengths
      BY <1>2, <2>4 DEF AtomLength
    <2>6. QED
      BY <2>3, <2>5
  <1>3. QED
    BY <1>1, <1>2

-----------------------------------------------------------------------------
(* A jump's target.  The heads it hops to, spelled out.                    *)

Hopped(first, hop) ==
  CHOOSE head : head = [k \in 0 .. max_loop_hops |-> IF k = 0 THEN first ELSE hop[head[k - 1]]]

LEMMA HopsExist ==
  ASSUME NEW first, NEW hop
  PROVE  /\ Hopped(first, hop)[0] = first
         /\ \A k \in 1 .. max_loop_hops :
              Hopped(first, hop)[k] = hop[Hopped(first, hop)[k - 1]]
  <1>1. PICK h1 : h1 = hop[first]
    OBVIOUS
  <1>2. PICK h2 : h2 = hop[h1]
    OBVIOUS
  <1>3. PICK h3 : h3 = hop[h2]
    OBVIOUS
  <1>4. PICK h4 : h4 = hop[h3]
    OBVIOUS
  <1>5. PICK h5 : h5 = hop[h4]
    OBVIOUS
  <1>6. PICK h6 : h6 = hop[h5]
    OBVIOUS
  <1>7. PICK h7 : h7 = hop[h6]
    OBVIOUS
  <1>8. PICK h8 : h8 = hop[h7]
    OBVIOUS
  <1> DEFINE list == <<first, h1, h2, h3, h4, h5, h6, h7, h8>>
             head == [k \in 0 .. max_loop_hops |-> list[k + 1]]
             step(h) == [k \in 0 .. max_loop_hops |-> IF k = 0 THEN first ELSE hop[h[k - 1]]]
  <1>9. \A k \in 0 .. max_loop_hops : head[k] = IF k = 0 THEN first ELSE hop[head[k - 1]]
    <2>1. ASSUME NEW k \in 0 .. max_loop_hops
          PROVE  k = 0 \/ k = 1 \/ k = 2 \/ k = 3 \/ k = 4 \/ k = 5 \/ k = 6 \/ k = 7 \/ k = 8
      BY DEF max_loop_hops
    <2>2. /\ head[0] = first /\ head[1] = h1 /\ head[2] = h2 /\ head[3] = h3 /\ head[4] = h4
          /\ head[5] = h5 /\ head[6] = h6 /\ head[7] = h7 /\ head[8] = h8
      BY DEF max_loop_hops
    <2> HIDE DEF head
    <2>3. ASSUME NEW k \in 0 .. max_loop_hops
          PROVE  head[k] = IF k = 0 THEN first ELSE hop[head[k - 1]]
      <3>1. CASE k = 0
        BY <2>2, <3>1
      <3>2. CASE k = 1
        BY <1>1, <2>2, <3>2
      <3>3. CASE k = 2
        BY <1>2, <2>2, <3>3
      <3>4. CASE k = 3
        BY <1>3, <2>2, <3>4
      <3>5. CASE k = 4
        BY <1>4, <2>2, <3>5
      <3>6. CASE k = 5
        BY <1>5, <2>2, <3>6
      <3>7. CASE k = 6
        BY <1>6, <2>2, <3>7
      <3>8. CASE k = 7
        BY <1>7, <2>2, <3>8
      <3>9. CASE k = 8
        BY <1>8, <2>2, <3>9
      <3>10. QED
        BY <2>1, <3>1, <3>2, <3>3, <3>4, <3>5, <3>6, <3>7, <3>8, <3>9
    <2>4. QED
      BY <2>3
  <1>10. head = step(head)
    BY <1>9
  <1>11. \E h : h = step(h)
    BY <1>10
  <1>12. Hopped(first, hop) = step(Hopped(first, hop))
    BY <1>11 DEF Hopped
  <1> HIDE DEF head, list
  <1>13. QED
    BY <1>12 DEF max_loop_hops

LEMMA HopsStay ==
  ASSUME NEW first, NEW hop, NEW S, first \in S, \A h \in S : hop[h] \in S
  PROVE  Hopped(first, hop)[max_loop_hops] \in S
  <1>0. \A k \in 1 .. max_loop_hops :
          Hopped(first, hop)[k - 1] \in S => Hopped(first, hop)[k] \in S
    BY HopsExist
  <1>1. Hopped(first, hop)[0] \in S
    BY HopsExist
  <1>2. Hopped(first, hop)[1] \in S
    BY <1>0, <1>1 DEF max_loop_hops
  <1>3. Hopped(first, hop)[2] \in S
    BY <1>0, <1>2 DEF max_loop_hops
  <1>4. Hopped(first, hop)[3] \in S
    BY <1>0, <1>3 DEF max_loop_hops
  <1>5. Hopped(first, hop)[4] \in S
    BY <1>0, <1>4 DEF max_loop_hops
  <1>6. Hopped(first, hop)[5] \in S
    BY <1>0, <1>5 DEF max_loop_hops
  <1>7. Hopped(first, hop)[6] \in S
    BY <1>0, <1>6 DEF max_loop_hops
  <1>8. Hopped(first, hop)[7] \in S
    BY <1>0, <1>7 DEF max_loop_hops
  <1>9. Hopped(first, hop)[8] \in S
    BY <1>0, <1>8 DEF max_loop_hops
  <1>10. QED
    BY <1>9 DEF max_loop_hops

\* A jump leads where it says, or out of a loop whose head it says, or hops to, was entered.
LEMMA JumpTargetFacts ==
  ASSUME NEW c, NEW p \in DOMAIN c, NEW entered \in SUBSET DOMAIN c,
         c[p].primary \in DOMAIN c,
         \A h \in DOMAIN c : c[h].op = "jump" => c[h].primary \in DOMAIN c
  PROVE  \/ JumpTarget(c, p, entered) = c[p].primary
         \/ /\ c[p].primary \in entered
            /\ \E h \in entered : c[h].op = "split" /\ JumpTarget(c, p, entered) = c[h].secondary
  <1> DEFINE jumps == {h \in entered : c[h].op = "jump"}
             heads == {h \in entered : c[h].op = "split"}
             hop == [h \in DOMAIN c |-> IF h \in jumps THEN c[h].primary ELSE h]
             target == [h \in DOMAIN c |-> IF h \in heads THEN c[h].secondary ELSE c[p].primary]
             last == Hopped(c[p].primary, hop)[max_loop_hops]
  <1>1. JumpTarget(c, p, entered) = target[last]
    BY DEF JumpTarget, Hopped
  <1>2. last \in DOMAIN c
    <2>1. \A h \in DOMAIN c : hop[h] \in DOMAIN c
      OBVIOUS
    <2> HIDE DEF hop
    <2>2. QED
      BY <2>1, HopsStay
  <1>3. CASE last \in heads
    <2>1. JumpTarget(c, p, entered) = c[last].secondary /\ last \in entered
          /\ c[last].op = "split"
      BY <1>1, <1>2, <1>3
    <2>2. CASE c[p].primary \in jumps
      BY <2>1, <2>2
    <2>3. CASE c[p].primary \notin jumps
      <3>1. hop[c[p].primary] = c[p].primary
        BY <2>3
      <3>2. last \in {c[p].primary}
        <4>0. PICK S : S = {c[p].primary}
          OBVIOUS
        <4>1. c[p].primary \in S /\ \A h \in S : hop[h] \in S
          BY <3>1, <4>0
        <4> HIDE DEF hop
        <4>2. last \in S
          BY <4>1, HopsStay
        <4>3. QED
          BY <4>0, <4>2
      <3>3. QED
        BY <2>1, <3>2
    <2>4. QED
      BY <2>2, <2>3
  <1>4. CASE last \notin heads
    BY <1>1, <1>2, <1>4
  <1>5. QED
    BY <1>3, <1>4

-----------------------------------------------------------------------------
(* Minima.                                                                 *)

LEMMA MinOfTwo ==
  ASSUME NEW a \in Int, NEW b \in Int
  PROVE  Min({a, b}) = IF a <= b THEN a ELSE b
  BY DEF Min

LEMMA MinIsLeast ==
  ASSUME NEW S \in SUBSET Nat, S # {}
  PROVE  Min(S) \in S /\ \A y \in S : Min(S) <= y
  <1> DEFINE Less == {ss \in Nat \X Nat : ss[1] < ss[2]}
  <1>1. IsWellFoundedOn(Less, Nat)
    BY NatLessThanWellFounded DEF OpToRel
  <1>2. PICK x \in S : \A y \in S : <<y, x>> \notin Less
    <2> HIDE DEF Less
    <2>1. QED
      BY <1>1, WFMin
  <1>3. ASSUME NEW y \in S PROVE x <= y
    <2>1. PICK ss \in Nat \X Nat : ss = <<y, x>>
      OBVIOUS
    <2>2. ss \notin Less /\ ss[1] = y /\ ss[2] = x
      BY <1>2, <2>1
    <2>3. ~(ss[1] < ss[2])
      BY <2>2
    <2>4. QED
      BY <2>2, <2>3
  <1>4. QED
    BY <1>2, <1>3 DEF Min

\* Induction, for a set of naturals.
LEMMA SetInduction ==
  ASSUME NEW S \in SUBSET Nat, 0 \in S, \A n \in S : n + 1 \in S
  PROVE  S = Nat
  <1>1. SUFFICES ASSUME Nat \ S # {}
                 PROVE  FALSE
    OBVIOUS
  <1>2. PICK x \in Nat \ S : \A y \in Nat \ S : x <= y
    <2>1. PICK T \in SUBSET Nat : T = Nat \ S
      OBVIOUS
    <2>2. Min(T) \in T /\ \A y \in T : Min(T) <= y
      BY <1>1, <2>1, MinIsLeast
    <2>3. QED
      BY <2>1, <2>2
  <1>3. x - 1 \in Nat /\ x - 1 < x /\ x - 1 + 1 = x
    BY <1>2
  <1>4. x - 1 \in S
    BY <1>2, <1>3
  <1>5. QED
    BY <1>2, <1>3, <1>4

\* The next start is at or past where it is looked for, within the subject.
LEMMA NextCandidateFits ==
  ASSUME NEW h, NEW t \in Seq(Bytes), NEW p \in Nat, NEW s,
         next_candidate(h, t, p, s) # npos
  PROVE  next_candidate(h, t, p, s) \in p .. Len(t)
  <1> DEFINE after == Candidates(h, t, p, s)
  <1>1. after # {} /\ next_candidate(h, t, p, s) = Min(after)
    BY DEF next_candidate
  <1>2. after \subseteq p .. Len(t) /\ Len(t) \in Nat
    BY LenProperties DEF Candidates
  <1>3. after \in SUBSET Nat
    BY <1>2
  <1> HIDE DEF after
  <1>4. Min(after) \in after
    BY <1>1, <1>3, MinIsLeast
  <1>5. QED
    BY <1>1, <1>2, <1>4

-----------------------------------------------------------------------------
(* The end of a sequence.                                                  *)

LEMMA FrontFacts ==
  ASSUME NEW S, NEW s \in Seq(S), s # <<>>
  PROVE  /\ Front(s) \in Seq(S) /\ Len(Front(s)) = Len(s) - 1 /\ Last(s) \in S
         /\ s = Front(s) \o <<Last(s)>>
         /\ Last(s) = s[Len(s)] /\ \A k \in 1 .. Len(s) - 1 : Front(s)[k] = s[k]
  <1>1. Len(s) \in Nat \ {0}
    BY LenProperties, EmptySeq
  <1>2. \A k \in 1 .. Len(s) : s[k] \in S
    BY ElementOfSeq
  <1>3. /\ Front(s) \in Seq(S) /\ Len(Front(s)) = Len(s) - 1
        /\ \A k \in 1 .. Len(s) - 1 : Front(s)[k] = s[k]
    <2>1. PICK n : n = Len(s)
      OBVIOUS
    <2>2. 1 \in Int /\ n - 1 \in Int /\ \A k \in 1 .. n - 1 : s[k] \in S
      BY <1>1, <1>2, <2>1
    <2>3. /\ SubSeq(s, 1, n - 1) \in Seq(S)
          /\ Len(SubSeq(s, 1, n - 1)) = IF 1 <= n - 1 THEN n - 1 - 1 + 1 ELSE 0
          /\ \A k \in 1 .. n - 1 - 1 + 1 : SubSeq(s, 1, n - 1)[k] = s[1 + k - 1]
      BY <2>2, SubSeqProperties
    <2>4. /\ Len(SubSeq(s, 1, n - 1)) = n - 1
          /\ \A k \in 1 .. n - 1 : SubSeq(s, 1, n - 1)[k] = s[k]
      BY <1>1, <2>1, <2>3
    <2>5. QED
      BY <2>1, <2>3, <2>4 DEF Front
  <1>4. SubSeq(s, 1, Len(s)) = SubSeq(s, 1, Len(s) - 1) \o <<s[Len(s)]>>
    BY <1>1, SubSeqRecursiveSecond
  <1>5. QED
    BY <1>1, <1>2, <1>3, <1>4, SubSeqFull DEF Front, Last

LastOf(s, e) == Last(s \o <<e>>) = e

LEMMA LastAppended ==
  ASSUME NEW S, NEW s \in Seq(S), NEW e \in S
  PROVE  LastOf(s, e)
  <1>1. <<e>> \in Seq(S) /\ Len(<<e>>) = 1 /\ <<e>>[1] = e /\ Len(s) \in Nat
    BY LenProperties
  <1>2. /\ Len(s \o <<e>>) = Len(s) + 1
        /\ \A k \in 1 .. Len(s) + 1 : (s \o <<e>>)[k] =
             IF k <= Len(s) THEN s[k] ELSE <<e>>[k - Len(s)]
    BY <1>1, ConcatProperties
  <1>3. (s \o <<e>>)[Len(s) + 1] = e
    BY <1>1, <1>2
  <1>4. QED
    BY <1>2, <1>3 DEF LastOf, Last

-----------------------------------------------------------------------------
\* Where an epsilon instruction leads.
LEMMA EpsilonKinds ==
  ASSUME NEW c, NEW p
  PROVE  /\ c[p].op \in Possessive => EpsilonSuccessors(c, p) = {c[p].secondary}
         /\ c[p].op = "jump" => EpsilonSuccessors(c, p) = {c[p].primary}
         /\ c[p].op = "split" => EpsilonSuccessors(c, p) = {c[p].primary, c[p].secondary}
         /\ c[p].op \in {"save", "assert_position", "assert_lookaround"} =>
              EpsilonSuccessors(c, p) = {p + 1}
  BY DEF EpsilonSuccessors, Possessive

=============================================================================
