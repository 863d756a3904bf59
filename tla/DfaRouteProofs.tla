---------------------------- MODULE DfaRouteProofs ----------------------------
(***************************************************************************)
(* Theorems about the lazy DFAs under their route, for every set of byte   *)
(* programs and of searches, every budget of states and every policy of    *)
(* quitting.                                                               *)
(***************************************************************************)
EXTENDS DfaRoute, EngineLemmas

-----------------------------------------------------------------------------
(* The byte alphabet: what a class tells of one byte it tells of all.      *)

LEMMA ClassAlike ==
  ASSUME NEW c, NEW b, NEW x \in alphabet(c, b)
  PROVE  x \in Bytes /\ alphabet(c, x) = alphabet(c, b)
  BY DEF alphabet

LEMMA ConsumersAlike ==
  ASSUME NEW c, NEW b, NEW x \in alphabet(c, b)
  PROVE  consumers(c, x) = consumers(c, b)
  BY DEF alphabet, consumers

LEMMA SteppedAlike ==
  ASSUME NEW c, NEW set, NEW b, NEW x \in alphabet(c, b), NEW seeded
  PROVE  Stepped(c, set, x, seeded) = Stepped(c, set, b, seeded)
  BY ClassAlike, ConsumersAlike DEF Stepped

LEMMA ContextAlike ==
  ASSUME NEW c, looks(c), NEW b, NEW x \in alphabet(c, b)
  PROVE  Context(x) = class_ctx(alphabet(c, b))
  <1>1. PICK y : y = CHOOSE z \in alphabet(c, b) : TRUE
    OBVIOUS
  <1>2. y \in alphabet(c, b)
    BY <1>1
  <1>3. \A kind \in {{Newline}, Letters, Bytes \ Ascii} : x \in kind <=> y \in kind
    BY <1>2 DEF alphabet
  <1>4. Context(x) = Context(y)
    BY <1>3 DEF Context
  <1>5. QED
    BY <1>1, <1>4 DEF class_ctx

LEMMA EmptySet ==
  ASSUME NEW c, NEW pcs, NEW left, Set(c, pcs, left).pcs = <<>>
  PROVE  Set(c, pcs, left) = Set(c, <<>>, "none")
  <1>1. pcs = <<>>
    BY DEF Set
  <1>2. Range(<<>>) = {}
    BY DEF Range
  <1>3. QED
    BY <1>1, <1>2 DEF Set, Pending

-----------------------------------------------------------------------------
(* The forward cache.                                                      *)

Rows(c) == DOMAIN c.states

\* Row id is what is asked in the table under the key.
Means(p, c, t, key, id) ==
  LET Of(i) == c.states[i]
  IN CASE t \in {"trans", "trans_seeded"} ->
            /\ {key[1], id} \subseteq Rows(c)
            /\ \A byte \in key[2] : Of(id) = Stepped(p, Of(key[1]), byte, t = "trans_seeded")
       [] t = "cuts" -> {key, id} \subseteq Rows(c) /\ Of(id) = Cut(p, Of(key))
       [] t = "starts" -> id \in Rows(c) /\ Of(id) = Start(p, key)
       [] t = "res" ->
            /\ key[1] \in Rows(c) /\ id \in Rows(c) \cup {quit_state}
            /\ \A ahead \in key[2] :
                 LET right == IF ahead \in Bytes THEN Context(ahead) ELSE ahead
                     met == Resolution(p, Of(key[1]), right)
                 IN IF met.quit THEN id = quit_state
                    ELSE id \in Rows(c) /\ Of(id) = Set(p, met.out, "none")

Shaped(c) == \E S, F : c \in [states : Seq(S), known : [Tables -> F]]

CacheOK(p, c) ==
  /\ Shaped(c)
  /\ dead_state \in Rows(c) /\ c.states[dead_state] = Set(p, <<>>, "none")
  /\ \A t \in Tables : \A key \in DOMAIN c.known[t] : Means(p, c, t, key, c.known[t][key])

\* The rows of one cache are rows of another.
KeepsRows(c, d) == \A id \in Rows(c) : id \in Rows(d) /\ d.states[id] = c.states[id]

LEMMA MeansKept ==
  ASSUME NEW c, NEW d, KeepsRows(c, d), NEW t \in Tables, NEW key, NEW id, Means(code, c, t, key, id)
  PROVE  Means(code, d, t, key, id)
  <1>1. CASE t \in {"trans", "trans_seeded"}
    BY <1>1 DEF Means, KeepsRows
  <1>2. CASE t = "cuts"
    BY <1>2 DEF Means, KeepsRows
  <1>3. CASE t = "starts"
    BY <1>3 DEF Means, KeepsRows
  <1>4. CASE t = "res"
    BY <1>4 DEF Means, KeepsRows
  <1>5. QED
    BY <1>1, <1>2, <1>3, <1>4 DEF Tables

LEMMA RowAdded ==
  ASSUME NEW c, CacheOK(code, c), NEW set, NEW d, d = [c EXCEPT !.states = Append(@, set)]
  PROVE  /\ CacheOK(code, d) /\ KeepsRows(c, d)
         /\ Len(c.states) + 1 \in Rows(d) /\ d.states[Len(c.states) + 1] = set
  <1>1. PICK S, F : c \in [states : Seq(S), known : [Tables -> F]]
    BY DEF CacheOK, Shaped
  <1>2. PICK s, T : s = c.states /\ T = S \cup {set}
    OBVIOUS
  <1>3. s \in Seq(T) /\ set \in T
    BY <1>1, <1>2
  <1>4. d = [states |-> Append(s, set), known |-> c.known]
    BY <1>1, <1>2
  <1>5. PICK e : e = d.states
    OBVIOUS
  <1>6. /\ e \in Seq(T) /\ DOMAIN e = 1 .. Len(s) + 1 /\ DOMAIN s = 1 .. Len(s) /\ Len(s) \in Nat
        /\ e[Len(s) + 1] = set /\ \A id \in 1 .. Len(s) : e[id] = s[id]
    <2>1. e = Append(s, set)
      BY <1>4, <1>5
    <2>2. QED
      BY <1>3, <2>1
  <1>7. /\ KeepsRows(c, d) /\ Len(c.states) + 1 \in Rows(d)
        /\ d.states[Len(c.states) + 1] = set
    BY <1>2, <1>5, <1>6 DEF KeepsRows, Rows
  <1>8. CacheOK(code, d)
    <2>1. \A t \in Tables : \A key \in DOMAIN d.known[t] : Means(code, d, t, key, d.known[t][key])
      <3>1. d.known = c.known
        BY <1>4
      <3>2. QED
        BY <1>7, <3>1, MeansKept DEF CacheOK
    <2>2. Shaped(d)
      <3>1. d \in [states : Seq(T), known : [Tables -> F]]
        BY <1>1, <1>4, <1>5, <1>6
      <3>2. QED
        BY <3>1 DEF Shaped
    <2>3. dead_state \in Rows(d) /\ d.states[dead_state] = Set(code, <<>>, "none")
      BY <1>7 DEF KeepsRows, CacheOK
    <2>4. QED
      BY <2>1, <2>2, <2>3 DEF CacheOK
  <1>9. QED
    BY <1>7, <1>8

LEMMA Remembering ==
  ASSUME NEW c, CacheOK(code, c), NEW t \in Tables, NEW key, NEW id, Means(code, c, t, key, id),
         NEW d, d = [c EXCEPT !.known[t] = WithEntry(@, key, id)]
  PROVE  CacheOK(code, d) /\ d.states = c.states
  <1>1. PICK S, F : c \in [states : Seq(S), known : [Tables -> F]]
    BY DEF CacheOK, Shaped
  <1>2. PICK f : f = WithEntry(c.known[t], key, id)
    OBVIOUS
  <1>3. /\ DOMAIN f = {key} \cup DOMAIN c.known[t]
        /\ f[key] = id /\ \A k \in DOMAIN f \ {key} : f[k] = c.known[t][k]
    BY <1>2 DEF WithEntry
  <1>4. d = [states |-> c.states, known |-> [c.known EXCEPT ![t] = f]]
    BY <1>1, <1>2
  <1>5. PICK G : G = F \cup {f}
    OBVIOUS
  <1>6. /\ d.states = c.states /\ d.known[t] = f
        /\ \A u \in Tables \ {t} : d.known[u] = c.known[u]
        /\ d \in [states : Seq(S), known : [Tables -> G]]
    BY <1>1, <1>4, <1>5
  <1>7. KeepsRows(c, d)
    BY <1>6 DEF KeepsRows, Rows
  <1>8. ASSUME NEW u \in Tables, NEW k \in DOMAIN d.known[u]
        PROVE  Means(code, d, u, k, d.known[u][k])
    <2>1. Means(code, c, u, k, d.known[u][k])
      BY <1>3, <1>6, <1>8 DEF CacheOK
    <2>2. QED
      BY <1>7, <2>1, MeansKept
  <1>9. Shaped(d)
    BY <1>6 DEF Shaped
  <1>10. QED
    BY <1>6, <1>8, <1>9 DEF CacheOK, Rows

LEMMA FlushedOK == CacheOK(code, Flushed)
  <1>1. PICK d, s : d = Set(code, <<>>, "none") /\ s = Start(code, "start")
    OBVIOUS
  <1>2. PICK F : F = {Flushed.known[t] : t \in Tables}
    OBVIOUS
  <1>3. /\ Flushed.states = <<d, s>>
        /\ Flushed \in [states : Seq({d, s}), known : [Tables -> F]]
    BY <1>1, <1>2 DEF Flushed
  <1>4. DOMAIN Flushed.states = 1 .. 2 /\ Flushed.states[1] = d /\ Flushed.states[2] = s
    BY <1>3
  <1>5. Flushed.known = [t \in Tables |-> IF t = "starts" THEN [left \in {"start"} |-> start_state]
                                          ELSE <<>>]
    BY DEF Flushed
  <1>6. ASSUME NEW t \in Tables, NEW key \in DOMAIN Flushed.known[t]
        PROVE  Means(code, Flushed, t, key, Flushed.known[t][key])
    <2>1. t = "starts"
      BY <1>5, <1>6
    <2>2. key = "start" /\ Flushed.known[t][key] = start_state
      BY <1>5, <1>6, <2>1
    <2>3. QED
      BY <1>1, <1>4, <2>1, <2>2 DEF Means, Rows, start_state
  <1>7. Shaped(Flushed)
    BY <1>3 DEF Shaped
  <1>8. QED
    BY <1>1, <1>4, <1>6, <1>7 DEF CacheOK, Rows, dead_state

\* A set of no counters is the dead one.
DeadOnly(set) == set.pcs = <<>> => set = Set(code, <<>>, "none")

LEMMA SetsAreDead ==
  /\ \A left : DeadOnly(Start(code, left))
  /\ \A set, byte, seeded : DeadOnly(Stepped(code, set, byte, seeded))
  /\ \A set : DeadOnly(Cut(code, set))
  /\ \A pcs : DeadOnly(Set(code, pcs, "none"))
  BY EmptySet DEF DeadOnly, Start, Stepped, Cut

\* What intern leaves: a sound cache with the set in it, or a refusal.
LEMMA InternFacts ==
  ASSUME CacheOK(code, cache), NEW set, DeadOnly(set), NEW missed, NEW got, got = intern(set, missed)
  PROVE  /\ CacheOK(code, got.cache) /\ got.id \in Rows(got.cache)
         /\ got.how \in {"kept", "refused", "flushed"}
         /\ got.how = "refused" => got.cache = cache /\ got.id = dead_state
         /\ got.how # "refused" => got.cache.states[got.id] = set
         /\ got.how = "kept" => KeepsRows(cache, got.cache)
         /\ got = [id |-> got.id, cache |-> got.cache, how |-> got.how]
  <1>1. CASE set.pcs = <<>>
    <2>1. got = [id |-> dead_state, cache |-> cache, how |-> "kept"]
      BY <1>1 DEF intern
    <2>2. QED
      BY <1>1, <2>1 DEF CacheOK, KeepsRows, DeadOnly
  <1>2. CASE set.pcs # <<>> /\ Find(set) # {}
    <2>1. PICK id : id = CHOOSE row \in Find(set) : TRUE
      OBVIOUS
    <2>2. id \in Rows(cache) /\ cache.states[id] = set
      BY <1>2, <2>1 DEF Find, Rows
    <2>3. got = [id |-> id, cache |-> cache, how |-> "kept"]
      BY <1>2, <2>1 DEF intern
    <2>4. QED
      BY <2>2, <2>3 DEF KeepsRows
  <1>3. CASE set.pcs # <<>> /\ Find(set) = {} /\ Full /\ Refused(missed)
    <2>1. got = [id |-> dead_state, cache |-> cache, how |-> "refused"]
      BY <1>3 DEF intern
    <2>2. QED
      BY <2>1 DEF CacheOK
  <1>4. CASE set.pcs # <<>> /\ Find(set) = {} /\ ~(Full /\ Refused(missed))
    <2>1. PICK d : d = [Room EXCEPT !.states = Append(@, set)]
      OBVIOUS
    <2>2. got = [id |-> Len(Room.states) + 1, cache |-> d, how |-> IF Full THEN "flushed" ELSE "kept"]
      BY <1>4, <2>1 DEF intern
    <2>3. CacheOK(code, Room) /\ (~Full => Room = cache)
      BY FlushedOK DEF Room
    <2>4. /\ CacheOK(code, d) /\ KeepsRows(Room, d)
          /\ Len(Room.states) + 1 \in Rows(d) /\ d.states[Len(Room.states) + 1] = set
      BY <2>1, <2>3, RowAdded
    <2>5. QED
      BY <2>2, <2>3, <2>4
  <1>5. QED
    BY <1>1, <1>2, <1>3, <1>4

\* What a table has, or a miss builds, is what was asked, unless it was refused.
LEMMA FetchFacts ==
  ASSUME CacheOK(code, cache), NEW t \in Tables, NEW key, NEW set, DeadOnly(set), NEW missed,
         \A d, id : KeepsRows(cache, d) /\ id \in Rows(d) /\ d.states[id] = set =>
                      Means(code, d, t, key, id),
         NEW got, got = Fetch(t, key, set, missed)
  PROVE  /\ CacheOK(code, got.cache)
         /\ got.how \in {"known", "kept", "refused", "flushed"}
         /\ got.id \in Rows(got.cache) \/ (t = "res" /\ got.how = "known" /\ got.id = quit_state)
         /\ got.how \in {"kept", "flushed"} => got.cache.states[got.id] = set
         /\ got.how \in {"known", "refused"} => got.cache = cache
         /\ got.how = "refused" => got.id = dead_state
         /\ got.how = "known" => \/ Means(code, cache, t, key, got.id)
                                 \/ t = "trans" /\ got.id = dead_state
         /\ got = [id |-> got.id, cache |-> got.cache, how |-> got.how]
  <1>1. CASE Known(t, key)
    <2>1. got = [id |-> IF t = "trans" /\ key[1] = dead_state THEN dead_state
                        ELSE cache.known[t][key],
                 cache |-> cache, how |-> "known"]
      BY <1>1 DEF Fetch
    <2>2. CASE t = "trans" /\ key[1] = dead_state
      BY <2>1, <2>2 DEF CacheOK
    <2>3. CASE ~(t = "trans" /\ key[1] = dead_state)
      <3>1. Means(code, cache, t, key, got.id)
        BY <1>1, <2>1, <2>3 DEF Known, CacheOK
      <3>2. got.id \in Rows(cache) \/ (t = "res" /\ got.id = quit_state)
        BY <3>1 DEF Means, Tables
      <3>3. QED
        BY <2>1, <3>1, <3>2
    <2>4. QED
      BY <2>2, <2>3
  <1>2. CASE ~Known(t, key)
    <2>1. PICK in : in = intern(set, missed)
      OBVIOUS
    <2>2. /\ CacheOK(code, in.cache) /\ in.id \in Rows(in.cache)
          /\ in.how \in {"kept", "refused", "flushed"}
          /\ in.how = "refused" => in.cache = cache /\ in.id = dead_state
          /\ in.how # "refused" => in.cache.states[in.id] = set
          /\ in.how = "kept" => KeepsRows(cache, in.cache)
          /\ in = [id |-> in.id, cache |-> in.cache, how |-> in.how]
      BY <2>1, InternFacts
    <2>3. got = [id |-> in.id, cache |-> remembered(t, key, in), how |-> in.how]
      BY <1>2, <2>1, <2>2 DEF Fetch
    <2>4. CASE in.how = "kept"
      <3>1. Means(code, in.cache, t, key, in.id)
        BY <2>2, <2>4
      <3>2. remembered(t, key, in) = [in.cache EXCEPT !.known[t] = WithEntry(@, key, in.id)]
        BY <2>4 DEF remembered, Memoised
      <3>3. CacheOK(code, remembered(t, key, in)) /\ remembered(t, key, in).states = in.cache.states
        BY <2>2, <3>1, <3>2, Remembering
      <3>4. QED
        BY <2>2, <2>3, <2>4, <3>3 DEF Rows
    <2>5. CASE in.how # "kept"
      BY <2>2, <2>3, <2>5 DEF remembered
    <2>6. QED
      BY <2>4, <2>5
  <1>3. QED
    BY <1>1, <1>2

-----------------------------------------------------------------------------
(* What the scans ask their cache for.                                     *)

LEMMA PendingLooks ==
  ASSUME NEW set, Pending(code, set)
  PROVE  look
  BY DEF Pending, asserting, look, looks, Has

LEMMA EdgeMeans ==
  ASSUME state \in Rows(cache), NEW seeded \in BOOLEAN, NEW byte, NEW d, KeepsRows(cache, d),
         NEW id \in Rows(d), d.states[id] = Stepped(code, here, byte, seeded)
  PROVE  Means(code, d, IF seeded THEN "trans_seeded" ELSE "trans", <<state, alphabet(code, byte)>>, id)
  <1>1. state \in Rows(d) /\ d.states[state] = here
    BY DEF KeepsRows, here
  <1>2. \A b \in alphabet(code, byte) : Stepped(code, here, b, seeded) = d.states[id]
    BY SteppedAlike
  <1>3. CASE seeded = TRUE
    BY <1>1, <1>2, <1>3 DEF Means
  <1>4. CASE seeded = FALSE
    BY <1>1, <1>2, <1>4 DEF Means
  <1>5. QED
    BY <1>3, <1>4

LEMMA CutMeans ==
  ASSUME state \in Rows(cache), NEW d, KeepsRows(cache, d),
         NEW id \in Rows(d), d.states[id] = Cut(code, here)
  PROVE  Means(code, d, "cuts", state, id)
  BY DEF KeepsRows, here, Means

LEMMA StartMeans ==
  ASSUME NEW left, NEW d, NEW id \in Rows(d), d.states[id] = Start(code, left)
  PROVE  Means(code, d, "starts", left, id)
  BY DEF Means

\* What the key tells of the right side.
LEMMA KeyTells ==
  ASSUME look, NEW ahead \in Key
  PROVE  (IF ahead \in Bytes THEN Context(ahead) ELSE ahead) = Right
  <1>1. CASE Right \in {"end", "final_newline"}
    BY <1>1 DEF Key, Bytes, Ascii, Letters, Newline, Lead, Cont
  <1>2. CASE Right \notin {"end", "final_newline"}
    <2>1. ahead \in alphabet(code, ByteAt(text, pos))
      BY <1>2 DEF Key
    <2>2. Right = class_ctx(alphabet(code, ByteAt(text, pos)))
      BY <1>2 DEF Right, right_ctx
    <2>3. QED
      BY <2>1, <2>2, ContextAlike, ClassAlike DEF look
  <1>3. QED
    BY <1>1, <1>2

LEMMA ResolutionMeans ==
  ASSUME look, state \in Rows(cache), NEW met, met = Resolution(code, here, Right),
         NEW d, KeepsRows(cache, d), NEW id,
         IF met.quit THEN id = quit_state
         ELSE id \in Rows(d) /\ d.states[id] = Set(code, met.out, "none")
  PROVE  Means(code, d, "res", <<state, Key>>, id)
  <1>1. state \in Rows(d) /\ d.states[state] = here
    BY DEF KeepsRows, here
  <1>2. PICK k : k = <<state, Key>>
    OBVIOUS
  <1>3. k[1] = state /\ k[2] = Key
    BY <1>2
  <1>4. id \in Rows(d) \cup {quit_state}
    OBVIOUS
  <1>5. Means(code, d, "res", k, id)
    BY <1>1, <1>3, <1>4, KeyTells DEF Means
  <1>6. QED
    BY <1>2, <1>5

-----------------------------------------------------------------------------
(* The forward DFA's steps keep its cache sound.                           *)

Sound == CacheOK(code, cache) /\ state \in Rows(cache)

LEMMA SoundNext ==
  ASSUME program' = program, CacheOK(code, cache'), state' \in Rows(cache')
  PROVE  Sound'
  <1>1. code' = code
    BY DEF code
  <1>2. QED
    BY <1>1 DEF Sound, Rows

LEMMA DeadRow ==
  ASSUME NEW c, CacheOK(code, c)
  PROVE  dead_state \in Rows(c)
  BY DEF CacheOK

LEMMA BeginSound ==
  ASSUME Sound, NEW s, Begin(s)
  PROVE  Sound'
  <1> DEFINE left == IF look THEN left_ctx(code, s.text, s.start) ELSE "start"
  <1>1. PICK got : got = Fetch("starts", left, Start(code, left), miss_pos)
    OBVIOUS
  <1>2. cache' = got.cache /\ state' = got.id /\ program' = program
    BY <1>1 DEF Begin, Adopt
  <1>3. \A d, id : KeepsRows(cache, d) /\ id \in Rows(d) /\ d.states[id] = Start(code, left) =>
                     Means(code, d, "starts", left, id)
    BY StartMeans
  <1> HIDE DEF left
  <1>4. CacheOK(code, got.cache) /\ got.id \in Rows(got.cache)
    BY <1>1, <1>3, FetchFacts, SetsAreDead DEF Sound, Tables
  <1>5. QED
    BY <1>2, <1>4, SoundNext

LEMMA CutSound ==
  ASSUME Sound, cut
  PROVE  Sound'
  <1>1. PICK got : got = Fetch("cuts", state, Cut(code, here), miss_pos)
    OBVIOUS
  <1>2. cache' = InScan(got).cache /\ state' = InScan(got).id /\ program' = program
    BY <1>1 DEF cut, AdoptInScan, Adopt
  <1>3. \A d, id : KeepsRows(cache, d) /\ id \in Rows(d) /\ d.states[id] = Cut(code, here) =>
                     Means(code, d, "cuts", state, id)
    BY CutMeans DEF Sound
  <1>4. /\ CacheOK(code, got.cache) /\ got.id \in Rows(got.cache)
        /\ got = [id |-> got.id, cache |-> got.cache, how |-> got.how]
    BY <1>1, <1>3, FetchFacts, SetsAreDead DEF Sound, Tables
  <1>5. InScan(got).cache = got.cache /\ InScan(got).id \in {got.id, dead_state}
    BY <1>4 DEF InScan
  <1>6. QED
    BY <1>2, <1>4, <1>5, DeadRow, SoundNext

LEMMA StepSound ==
  ASSUME Sound, step
  PROVE  Sound'
  <1>1. PICK byte, seeded : byte = ByteAt(text, pos) /\ seeded = Seeds
    OBVIOUS
  <1>2. seeded \in BOOLEAN
    BY <1>1 DEF Seeds
  <1>3. PICK t : t = IF seeded THEN "trans_seeded" ELSE "trans"
    OBVIOUS
  <1>4. PICK got : got = Fetch(t, <<state, alphabet(code, byte)>>, Stepped(code, here, byte, seeded), pos)
    OBVIOUS
  <1>5. \/ cache' = got.cache /\ state' = dead_state /\ program' = program
        \/ cache' = InScan(got).cache /\ state' = InScan(got).id /\ program' = program
    BY <1>1, <1>3, <1>4 DEF step, AdoptInScan, Adopt, Ended
  <1>6. \A d, id : KeepsRows(cache, d) /\ id \in Rows(d)
                   /\ d.states[id] = Stepped(code, here, byte, seeded) =>
                     Means(code, d, t, <<state, alphabet(code, byte)>>, id)
    BY <1>2, <1>3, EdgeMeans DEF Sound
  <1>7. /\ CacheOK(code, got.cache) /\ got.id \in Rows(got.cache)
        /\ got = [id |-> got.id, cache |-> got.cache, how |-> got.how]
    <2>1. t \in Tables /\ t # "res"
      BY <1>3 DEF Tables
    <2>2. QED
      BY <1>4, <1>6, <2>1, FetchFacts, SetsAreDead DEF Sound
  <1>8. InScan(got).cache = got.cache /\ InScan(got).id \in {got.id, dead_state}
    BY <1>7 DEF InScan
  <1>9. QED
    BY <1>5, <1>7, <1>8, DeadRow, SoundNext

LEMMA ResolveSound ==
  ASSUME Sound, resolve
  PROVE  Sound'
  <1>1. PICK met, memo : met = Resolution(code, here, Right) /\ memo = <<state, Key>>
    OBVIOUS
  <1>2. look
    BY PendingLooks DEF resolve
  <1>3. CASE ~Known("res", memo) /\ met.quit
    <2>1. PICK c : c = [cache EXCEPT !.known["res"] = WithEntry(@, memo, quit_state)]
      OBVIOUS
    <2>2. cache' = c /\ state' = dead_state /\ program' = program
      BY <1>1, <1>3, <2>1 DEF resolve, Ended
    <2>3. Means(code, cache, "res", memo, quit_state)
      <3>1. KeepsRows(cache, cache)
        BY DEF KeepsRows
      <3>2. QED
        BY <1>1, <1>2, <1>3, <3>1, ResolutionMeans DEF Sound
    <2>4. CacheOK(code, c)
      BY <2>1, <2>3, Remembering DEF Sound, Tables
    <2>5. QED
      BY <2>2, <2>4, DeadRow, SoundNext
  <1>4. CASE Known("res", memo) \/ ~met.quit
    <2>1. PICK got : got = Fetch("res", memo, Set(code, met.out, "none"), miss_pos)
      OBVIOUS
    <2>2. /\ program' = program
          /\ \/ got.id = quit_state /\ cache' = got.cache /\ state' = dead_state
             \/ got.id # quit_state /\ cache' = got.cache /\ state' = got.id
      BY <1>1, <1>4, <2>1 DEF resolve, Ended, AdoptInScan, Adopt
    <2>3. CASE Known("res", memo)
      <3>1. got = [id |-> cache.known["res"][memo], cache |-> cache, how |-> "known"]
        BY <2>1, <2>3 DEF Fetch
      <3>2. Means(code, cache, "res", memo, got.id)
        BY <2>3, <3>1 DEF Known, Sound, CacheOK, Tables
      <3>3. got.id \in Rows(cache) \cup {quit_state}
        BY <3>2 DEF Means
      <3>4. QED
        BY <2>2, <3>1, <3>3, DeadRow, SoundNext DEF Sound
    <2>4. CASE ~Known("res", memo)
      <3>1. ~met.quit
        BY <1>4, <2>4
      <3>2. \A d, id : KeepsRows(cache, d) /\ id \in Rows(d)
                       /\ d.states[id] = Set(code, met.out, "none") =>
                         Means(code, d, "res", memo, id)
        BY <1>1, <1>2, <3>1, ResolutionMeans DEF Sound
      <3>3. CacheOK(code, got.cache) /\ (got.id \in Rows(got.cache) \/ got.id = quit_state)
        BY <2>1, <3>2, FetchFacts, SetsAreDead DEF Sound, Tables
      <3>4. QED
        BY <2>2, <3>3, DeadRow, SoundNext
    <2>5. QED
      BY <2>3, <2>4
  <1>5. QED
    BY <1>3, <1>4

LEMMA WalkSound ==
  ASSUME Sound, Walk
  PROVE  Sound'
  <1>1. CASE finish
    BY <1>1, DeadRow, SoundNext DEF finish, Ended, Sound
  <1>2. QED
    BY <1>1, ResolveSound, CutSound, StepSound DEF Walk

LEMMA SoundIsExact ==
  ASSUME Sound
  PROVE  EdgesAreExact
  <1> DEFINE Of(id) == cache.states[id]
             known == cache.known
  <1>1. \A t \in Tables : \A key \in DOMAIN known[t] : Means(code, cache, t, key, known[t][key])
    BY DEF Sound, CacheOK
  <1>2. ASSUME NEW seeded \in BOOLEAN
        PROVE  LET edges == IF seeded THEN known.trans_seeded ELSE known.trans
               IN \A key \in DOMAIN edges : \A byte \in key[2] :
                    key[1] \in Ids /\ Of(edges[key]) = Stepped(code, Of(key[1]), byte, seeded)
    BY <1>1 DEF Means, Tables, Rows, Ids
  <1>3. \A id \in DOMAIN known.cuts : id \in Ids /\ Of(known.cuts[id]) = Cut(code, Of(id))
    BY <1>1 DEF Means, Tables, Rows, Ids
  <1>4. \A left \in DOMAIN known.starts : Of(known.starts[left]) = Start(code, left)
    BY <1>1 DEF Means, Tables, Rows, Ids
  <1>5. \A key \in DOMAIN known.res : \A ahead \in key[2] :
          LET right == IF ahead \in Bytes THEN Context(ahead) ELSE ahead
              met == Resolution(code, Of(key[1]), right)
          IN /\ key[1] \in Ids
             /\ IF met.quit THEN known.res[key] = quit_state
                ELSE Of(known.res[key]) = Set(code, met.out, "none")
    BY <1>1 DEF Means, Tables, Rows, Ids
  <1>6. QED
    BY <1>2, <1>3, <1>4, <1>5 DEF EdgesAreExact

\* What an action of the route does not touch.
DfaKept == UNCHANGED <<program, dfa_vars>>

LEMMA KeptSound ==
  ASSUME Sound, DfaKept
  PROVE  Sound'
  BY SoundNext DEF DfaKept, dfa_vars, registers, Sound

LEMMA StartSearchSound ==
  ASSUME Sound, NEW s, StartSearch(s)
  PROVE  Sound'
  <1>1. CASE MatchByTable(s)
    BY <1>1, KeptSound DEF MatchByTable, DfaKept
  <1>2. CASE MatchPrefix(s)
    BY <1>2, KeptSound, BeginSound DEF MatchPrefix, DfaKept
  <1>3. CASE SearchText(s)
    BY <1>3, KeptSound, BeginSound DEF SearchText, DfaKept
  <1>4. QED
    BY <1>1, <1>2, <1>3 DEF StartSearch

LEMMA ProceedSound ==
  ASSUME Sound, Proceed
  PROVE  Sound'
  <1>1. CASE Forward
    BY <1>1, WalkSound DEF Forward
  <1>2. CASE Backward
    <2>1. program' = program
      BY <1>2 DEF Backward, Backwards!Walk, Backwards!resolve, Backwards!step, Backwards!finish
    <2>2. QED
      BY <1>2, <2>1, KeptSound DEF Backward, DfaKept
  <1>3. CASE PrefixWalked
    BY <1>3, KeptSound DEF PrefixWalked, DfaKept
  <1>4. CASE NextCandidate
    BY <1>4, KeptSound, BeginSound DEF NextCandidate, AnchoredAt, DfaKept
  <1>5. CASE Walked
    BY <1>5, KeptSound, BeginSound DEF Walked, PassFrom, DfaKept
  <1>6. CASE Passed
    BY <1>6, KeptSound DEF Passed, DfaKept
  <1>7. CASE WalkedBack
    BY <1>7, KeptSound DEF WalkedBack, DfaKept
  <1>8. QED
    BY <1>1, <1>2, <1>3, <1>4, <1>5, <1>6, <1>7 DEF Proceed

LEMMA InitSound ==
  ASSUME Init
  PROVE  Sound
  BY FlushedOK, DeadRow DEF Init, Sound

LEMMA NextSound ==
  ASSUME Sound, [RouteNext]_<<vars, rev_vars, route>>
  PROVE  Sound'
  <1>1. CASE \E s \in program.searches : StartSearch(s)
    BY <1>1, StartSearchSound
  <1>2. CASE Rest \/ UNCHANGED <<vars, rev_vars, route>>
    BY <1>2, KeptSound DEF Rest, vars, dfa_vars, DfaKept
  <1>3. QED
    BY <1>1, <1>2, ProceedSound DEF RouteNext

\* The forward cache holds its rows and what is remembered of them, whatever scans shared it,
\* quit in it or flushed it in the middle.
THEOREM CacheSound == RouteSpec => []Sound
  <1>1. RouteInit => Sound
    BY InitSound DEF RouteInit
  <1>2. Sound /\ [RouteNext]_<<vars, rev_vars, route>> => Sound'
    BY NextSound
  <1>3. QED
    BY <1>1, <1>2, PTL DEF RouteSpec

\* Every edge, cut, resolution and start the forward cache remembers leads to the set it is of,
\* for every byte of its class: intern's epoch test and the refusals keep it so.
THEOREM EdgesExact == RouteSpec => []EdgesAreExact
  <1>1. Sound => EdgesAreExact
    BY SoundIsExact
  <1>2. QED
    BY <1>1, CacheSound, PTL

-----------------------------------------------------------------------------
(* The reverse DFA, whose definitions are those of its instance.           *)

LEMMA BackClassAlike ==
  ASSUME NEW c, NEW b, NEW x \in Backwards!alphabet(c, b)
  PROVE  /\ x \in Backwards!Bytes /\ Backwards!alphabet(c, x) = Backwards!alphabet(c, b)
         /\ \A set : Backwards!Takers(c, set, x) = Backwards!Takers(c, set, b)
         /\ Backwards!looks(c) => Backwards!Context(x) = Backwards!class_ctx(Backwards!alphabet(c, b))
  <1>1. x \in Backwards!Bytes /\ Backwards!alphabet(c, x) = Backwards!alphabet(c, b)
    BY DEF Backwards!alphabet
  <1>2. \A set : Backwards!Takers(c, set, x) = Backwards!Takers(c, set, b)
    BY DEF Backwards!alphabet, Backwards!Takers
  <1>3. ASSUME Backwards!looks(c)
        PROVE  Backwards!Context(x) = Backwards!class_ctx(Backwards!alphabet(c, b))
    <2>1. PICK y : y = CHOOSE z \in Backwards!alphabet(c, b) : TRUE
      OBVIOUS
    <2>2. y \in Backwards!alphabet(c, b)
      BY <2>1
    <2>3. \A kind \in {{Backwards!Newline}, Backwards!Letters, Backwards!Bytes \ Backwards!Ascii} :
            x \in kind <=> y \in kind
      BY <1>3, <2>2 DEF Backwards!alphabet
    <2>4. Backwards!Context(x) = Backwards!Context(y)
      BY <2>3 DEF Backwards!Context
    <2>5. QED
      BY <2>1, <2>4 DEF Backwards!class_ctx
  <1>4. QED
    BY <1>1, <1>2, <1>3

\* Only assertions wait, and where none is, the context is no part of a set.
LEMMA BackWaits ==
  ASSUME NEW c, NEW from, NEW left, NEW right
  PROVE  LET met == Backwards!Back(c, from, left, right)
         IN /\ ~Backwards!looks(c) => met.pending = {}
            /\ met.pending # {} => Backwards!looks(c)
  <1>1. PICK met : met = Backwards!Back(c, from, left, right)
    OBVIOUS
  <1>2. met.pending \subseteq Backwards!Waiting(c, left)
    BY <1>1 DEF Backwards!Back
  <1>3. Backwards!Waiting(c, left) # {} => Backwards!looks(c)
    BY DEF Backwards!Waiting, Backwards!looks_left, Backwards!Asserts, Backwards!looks, Backwards!Has
  <1>4. QED
    BY <1>1, <1>2, <1>3

LEMMA SeesNoContext ==
  ASSUME NEW c, ~Backwards!looks(c), NEW from, NEW left, NEW right, NEW other
  PROVE  Backwards!Back(c, from, left, right) = Backwards!Back(c, from, left, other)
  <1>1. \A p \in DOMAIN c : ~Backwards!Asserts(c, p)
    BY DEF Backwards!Asserts, Backwards!looks, Backwards!Has
  <1>2. Backwards!Crossed(c, left, right) = Backwards!Crossed(c, left, other)
    BY <1>1 DEF Backwards!Crossed
  <1>3. \A pcs, r : ~\E p \in UNION {Backwards!Predecessors(c, pc) : pc \in pcs} :
                       Backwards!Undecidable(c, p, left, r)
    BY <1>1 DEF Backwards!Predecessors, Backwards!Undecidable
  <1>4. QED
    BY <1>2, <1>3 DEF Backwards!Back

LEMMA BackSteppedAlike ==
  ASSUME NEW c, NEW set, NEW b, NEW x \in Backwards!alphabet(c, b)
  PROVE  Backwards!Stepped(c, set, x, Backwards!Context(x))
           = Backwards!Stepped(c, set, b, Backwards!class_ctx(Backwards!alphabet(c, b)))
  <1>1. PICK from : from = Backwards!Takers(c, set, b)
    OBVIOUS
  <1>2. Backwards!Takers(c, set, x) = from
    BY <1>1, BackClassAlike
  <1>3. CASE Backwards!looks(c)
    BY <1>1, <1>2, <1>3, BackClassAlike DEF Backwards!Stepped
  <1>4. CASE ~Backwards!looks(c)
    <2>1. PICK r, q : r = Backwards!Context(x) /\ q = Backwards!class_ctx(Backwards!alphabet(c, b))
      OBVIOUS
    <2>2. PICK met : met = Backwards!Back(c, from, Backwards!unknown, r)
      OBVIOUS
    <2>3. met = Backwards!Back(c, from, Backwards!unknown, q)
      BY <1>4, <2>2, SeesNoContext
    <2>4. met.pending = {}
      BY <1>4, <2>2, BackWaits
    <2>5. Backwards!Set(met, r) = Backwards!Set(met, q)
      BY <2>4 DEF Backwards!Set
    <2>6. QED
      BY <1>1, <1>2, <2>1, <2>2, <2>3, <2>5 DEF Backwards!Stepped
  <1>5. QED
    BY <1>3, <1>4

-----------------------------------------------------------------------------
(* The reverse cache.                                                      *)

BackTables == {"trans", "res", "starts"}

\* Row id is what is asked in the table under the key.
BackMeans(p, c, t, key, id) ==
  LET Of(i) == c.states[i]
  IN CASE t = "trans" ->
            /\ {key[1], id} \subseteq Rows(c)
            /\ \A byte \in key[2] :
                 Of(id) = Backwards!Stepped(p, Of(key[1]), byte, Backwards!Context(byte))
       [] t = "starts" -> id \in Rows(c) /\ Of(id) = Backwards!Start(p, key)
       [] t = "res" ->
            /\ key[1] \in Rows(c) /\ id \in Rows(c) \cup {Backwards!quit_state}
            /\ \A before \in key[2] :
                 LET left == IF before \in Backwards!Bytes THEN Backwards!Context(before) ELSE before
                     met == Backwards!Resolution(p, Of(key[1]), left)
                 IN IF met.quit THEN id = Backwards!quit_state
                    ELSE id \in Rows(c) /\ Of(id) = Backwards!Set(met, "none")

BackShaped(c) == \E S, F : c \in [states : Seq(S), known : [BackTables -> F]]

\* Only a program that asserts has a set that waits.
MayWait(p, set) == set.pending # {} => Backwards!looks(p)

BackCacheOK(p, c) ==
  /\ BackShaped(c)
  /\ Backwards!dead_state \in Rows(c)
  /\ c.states[Backwards!dead_state] = Backwards!Nothing
  /\ ~Backwards!looks(p) => Backwards!start_state \in Rows(c)
  /\ \A id \in Rows(c) : MayWait(p, c.states[id])
  /\ \A t \in BackTables : \A key \in DOMAIN c.known[t] : BackMeans(p, c, t, key, c.known[t][key])

LEMMA BackMeansKept ==
  ASSUME NEW p, NEW c, NEW d, KeepsRows(c, d), NEW t \in BackTables, NEW key, NEW id,
         BackMeans(p, c, t, key, id)
  PROVE  BackMeans(p, d, t, key, id)
  <1>1. CASE t = "trans"
    BY <1>1 DEF BackMeans, KeepsRows
  <1>2. CASE t = "starts"
    BY <1>2 DEF BackMeans, KeepsRows
  <1>3. CASE t = "res"
    BY <1>3 DEF BackMeans, KeepsRows
  <1>4. QED
    BY <1>1, <1>2, <1>3 DEF BackTables

LEMMA BackRowAdded ==
  ASSUME NEW p, NEW c, BackCacheOK(p, c), NEW set, MayWait(p, set),
         NEW d, d = [c EXCEPT !.states = Append(@, set)]
  PROVE  /\ BackCacheOK(p, d) /\ KeepsRows(c, d)
         /\ Len(c.states) + 1 \in Rows(d) /\ d.states[Len(c.states) + 1] = set
  <1>1. PICK S, F : c \in [states : Seq(S), known : [BackTables -> F]]
    BY DEF BackCacheOK, BackShaped
  <1>2. PICK s, T : s = c.states /\ T = S \cup {set}
    OBVIOUS
  <1>3. s \in Seq(T) /\ set \in T
    BY <1>1, <1>2
  <1>4. d = [states |-> Append(s, set), known |-> c.known]
    BY <1>1, <1>2
  <1>5. PICK e : e = d.states
    OBVIOUS
  <1>6. /\ e \in Seq(T) /\ DOMAIN e = 1 .. Len(s) + 1 /\ DOMAIN s = 1 .. Len(s) /\ Len(s) \in Nat
        /\ e[Len(s) + 1] = set /\ \A id \in 1 .. Len(s) : e[id] = s[id]
    <2>1. e = Append(s, set)
      BY <1>4, <1>5
    <2>2. QED
      BY <1>3, <2>1
  <1>7. /\ KeepsRows(c, d) /\ Len(c.states) + 1 \in Rows(d)
        /\ d.states[Len(c.states) + 1] = set
    BY <1>2, <1>5, <1>6 DEF KeepsRows, Rows
  <1>8. BackCacheOK(p, d)
    <2>1. \A t \in BackTables : \A key \in DOMAIN d.known[t] : BackMeans(p, d, t, key, d.known[t][key])
      <3>1. d.known = c.known
        BY <1>4
      <3>2. QED
        BY <1>7, <3>1, BackMeansKept DEF BackCacheOK
    <2>2. BackShaped(d)
      <3>1. d \in [states : Seq(T), known : [BackTables -> F]]
        BY <1>1, <1>4, <1>5, <1>6
      <3>2. QED
        BY <3>1 DEF BackShaped
    <2>3. /\ Backwards!dead_state \in Rows(d) /\ d.states[Backwards!dead_state] = Backwards!Nothing
          /\ ~Backwards!looks(p) => Backwards!start_state \in Rows(d)
      BY <1>7 DEF KeepsRows, BackCacheOK
    <2>4. \A id \in Rows(d) : MayWait(p, d.states[id])
      <3>1. \A id \in Rows(d) : d.states[id] = set \/ (id \in Rows(c) /\ d.states[id] = c.states[id])
        BY <1>2, <1>5, <1>6 DEF Rows
      <3>2. QED
        BY <3>1 DEF BackCacheOK
    <2>5. QED
      BY <2>1, <2>2, <2>3, <2>4 DEF BackCacheOK
  <1>9. QED
    BY <1>7, <1>8

LEMMA BackRemembering ==
  ASSUME NEW p, NEW c, BackCacheOK(p, c), NEW t \in BackTables, NEW key, NEW id,
         BackMeans(p, c, t, key, id),
         NEW d, d = [c EXCEPT !.known[t] = Backwards!WithEntry(@, key, id)]
  PROVE  BackCacheOK(p, d) /\ d.states = c.states
  <1>1. PICK S, F : c \in [states : Seq(S), known : [BackTables -> F]]
    BY DEF BackCacheOK, BackShaped
  <1>2. PICK f : f = Backwards!WithEntry(c.known[t], key, id)
    OBVIOUS
  <1>3. /\ DOMAIN f = {key} \cup DOMAIN c.known[t]
        /\ f[key] = id /\ \A k \in DOMAIN f \ {key} : f[k] = c.known[t][k]
    BY <1>2 DEF Backwards!WithEntry
  <1>4. d = [states |-> c.states, known |-> [c.known EXCEPT ![t] = f]]
    BY <1>1, <1>2
  <1>5. PICK G : G = F \cup {f}
    OBVIOUS
  <1>6. /\ d.states = c.states /\ d.known[t] = f
        /\ \A u \in BackTables \ {t} : d.known[u] = c.known[u]
        /\ d \in [states : Seq(S), known : [BackTables -> G]]
    BY <1>1, <1>4, <1>5
  <1>7. KeepsRows(c, d)
    BY <1>6 DEF KeepsRows, Rows
  <1>8. ASSUME NEW u \in BackTables, NEW k \in DOMAIN d.known[u]
        PROVE  BackMeans(p, d, u, k, d.known[u][k])
    <2>1. BackMeans(p, c, u, k, d.known[u][k])
      BY <1>3, <1>6, <1>8 DEF BackCacheOK
    <2>2. QED
      BY <1>7, <2>1, BackMeansKept
  <1>9. BackShaped(d)
    BY <1>6 DEF BackShaped
  <1>10. QED
    BY <1>6, <1>8, <1>9 DEF BackCacheOK, Rows


\* The sets that are interned wait only where something is asserted, and one that is Nothing
\* is the dead row's.
LEMMA BackSetsMayWait ==
  ASSUME NEW p
  PROVE  /\ MayWait(p, Backwards!Nothing)
         /\ \A right : MayWait(p, Backwards!Start(p, right))
         /\ \A set, byte, right : MayWait(p, Backwards!Stepped(p, set, byte, right))
         /\ \A set, left : MayWait(p, Backwards!Set(Backwards!Resolution(p, set, left), "none"))
  <1>1. MayWait(p, Backwards!Nothing)
    BY DEF MayWait, Backwards!Nothing
  <1>2. ASSUME NEW from, NEW left, NEW right, NEW r
        PROVE  MayWait(p, Backwards!Set(Backwards!Back(p, from, left, right), r))
    BY BackWaits DEF MayWait, Backwards!Set
  <1>3. ASSUME NEW set, NEW left
        PROVE  MayWait(p, Backwards!Set(Backwards!Resolution(p, set, left), "none"))
    <2>1. PICK from : from = set.pcs \cup (set.pending \cap Backwards!Crossed(p, left, set.ctx))
      OBVIOUS
    <2>2. PICK closed : closed = Backwards!Back(p, from, left, set.ctx)
      OBVIOUS
    <2>3. closed = [pcs |-> closed.pcs, pending |-> closed.pending, quit |-> closed.quit]
      BY <2>2 DEF Backwards!Back
    <2>4. Backwards!Resolution(p, set, left)
            = [closed EXCEPT !.quit = @ \/ \E q \in set.pending :
                                             Backwards!Undecidable(p, q, left, set.ctx)]
      BY <2>1, <2>2 DEF Backwards!Resolution
    <2>5. Backwards!Resolution(p, set, left).pending = closed.pending
      BY <2>3, <2>4
    <2>6. QED
      BY <2>2, <2>5, BackWaits DEF MayWait, Backwards!Set
  <1>4. QED
    BY <1>1, <1>2, <1>3 DEF Backwards!Start, Backwards!Stepped

LEMMA BackFlushedOK == BackCacheOK(Backwards!code, Backwards!Flushed)
  <1> DEFINE p == Backwards!code
  <1>1. PICK d, s : d = Backwards!Nothing /\ s = Backwards!Start(p, "end")
    OBVIOUS
  <1>2. PICK flush : flush = Backwards!Flushed
    OBVIOUS
  <1>3. /\ flush.states = IF Backwards!look THEN <<d>> ELSE <<d, s>>
        /\ flush = [states |-> flush.states, known |-> [t \in BackTables |-> <<>>]]
    BY <1>1, <1>2 DEF Backwards!Flushed, BackTables
  <1>4. PICK F : F = {<<>>}
    OBVIOUS
  <1>5. flush.states \in Seq({d, s})
    <2>1. <<d>> \in Seq({d, s}) /\ <<d, s>> \in Seq({d, s})
      OBVIOUS
    <2>2. QED
      BY <1>3, <2>1
  <1>6. BackShaped(flush)
    <2>1. flush \in [states : Seq({d, s}), known : [BackTables -> F]]
      BY <1>3, <1>4, <1>5
    <2>2. QED
      BY <2>1 DEF BackShaped
  <1>7. \A t \in BackTables : DOMAIN flush.known[t] = {}
    <2>1. flush.known = [t \in BackTables |-> <<>>]
      BY <1>3
    <2>2. QED
      BY <2>1
  <1>8. /\ DOMAIN flush.states = IF Backwards!look THEN {1} ELSE {1, 2}
        /\ flush.states[1] = d /\ (~Backwards!look => flush.states[2] = s)
    <2>1. DOMAIN <<d>> = {1} /\ <<d>>[1] = d
      OBVIOUS
    <2>2. DOMAIN <<d, s>> = {1, 2} /\ <<d, s>>[1] = d /\ <<d, s>>[2] = s
      OBVIOUS
    <2>3. QED
      BY <1>3, <2>1, <2>2
  <1>9. MayWait(p, d) /\ MayWait(p, s)
    BY <1>1, BackSetsMayWait
  <1>10. QED
    BY <1>1, <1>2, <1>6, <1>7, <1>8, <1>9
       DEF BackCacheOK, Rows, Backwards!dead_state, Backwards!start_state, Backwards!look

\* What intern leaves: a sound cache with the set in it.
LEMMA BackInternFacts ==
  ASSUME BackCacheOK(Backwards!code, rev_cache), NEW set, MayWait(Backwards!code, set),
         NEW got, got = Backwards!intern(set)
  PROVE  /\ BackCacheOK(Backwards!code, got.cache) /\ got.id \in Rows(got.cache)
         /\ got.how \in {"kept", "flushed"}
         /\ got.cache.states[got.id] = set
         /\ got.how = "kept" => KeepsRows(rev_cache, got.cache)
         /\ got = [id |-> got.id, cache |-> got.cache, how |-> got.how]
  <1>1. CASE set = Backwards!Nothing
    <2>1. got = [id |-> Backwards!dead_state, cache |-> rev_cache, how |-> "kept"]
      BY <1>1 DEF Backwards!intern
    <2>2. QED
      BY <1>1, <2>1 DEF BackCacheOK, KeepsRows
  <1>2. CASE set # Backwards!Nothing /\ Backwards!Find(set) # {}
    <2>1. PICK id : id = CHOOSE row \in Backwards!Find(set) : TRUE
      OBVIOUS
    <2>2. id \in Rows(rev_cache) /\ rev_cache.states[id] = set
      BY <1>2, <2>1 DEF Backwards!Find, Rows
    <2>3. got = [id |-> id, cache |-> rev_cache, how |-> "kept"]
      BY <1>2, <2>1 DEF Backwards!intern
    <2>4. QED
      BY <2>2, <2>3 DEF KeepsRows
  <1>3. CASE set # Backwards!Nothing /\ Backwards!Find(set) = {}
    <2>1. PICK room : room = IF Backwards!Full THEN Backwards!Flushed ELSE rev_cache
      OBVIOUS
    <2>2. PICK d : d = [room EXCEPT !.states = Append(@, set)]
      OBVIOUS
    <2>3. got = [id |-> Len(room.states) + 1, cache |-> d,
                 how |-> IF Backwards!Full THEN "flushed" ELSE "kept"]
      BY <1>3, <2>1, <2>2 DEF Backwards!intern
    <2>4. BackCacheOK(Backwards!code, room) /\ (~Backwards!Full => room = rev_cache)
      BY <2>1, BackFlushedOK
    <2>5. /\ BackCacheOK(Backwards!code, d) /\ KeepsRows(room, d)
          /\ Len(room.states) + 1 \in Rows(d) /\ d.states[Len(room.states) + 1] = set
      BY <2>2, <2>4, BackRowAdded
    <2>6. QED
      BY <2>3, <2>4, <2>5
  <1>4. QED
    BY <1>1, <1>2, <1>3

\* What a table has, or a miss builds, is what was asked.
LEMMA BackFetchFacts ==
  ASSUME BackCacheOK(Backwards!code, rev_cache), NEW t \in BackTables, NEW key, NEW set,
         MayWait(Backwards!code, set),
         \A d, id : KeepsRows(rev_cache, d) /\ id \in Rows(d) /\ d.states[id] = set =>
                      BackMeans(Backwards!code, d, t, key, id),
         NEW got, got = Backwards!Fetch(t, key, set)
  PROVE  /\ BackCacheOK(Backwards!code, got.cache)
         /\ got.id \in Rows(got.cache) \/ (t = "res" /\ got.id = Backwards!quit_state)
  <1>1. CASE key \in DOMAIN rev_cache.known[t]
    <2>1. got = [id |-> rev_cache.known[t][key], cache |-> rev_cache, how |-> "known"]
      BY <1>1 DEF Backwards!Fetch
    <2>2. BackMeans(Backwards!code, rev_cache, t, key, got.id)
      BY <1>1, <2>1 DEF BackCacheOK
    <2>3. got.id \in Rows(rev_cache) \/ (t = "res" /\ got.id = Backwards!quit_state)
      BY <2>2 DEF BackMeans, BackTables
    <2>4. QED
      BY <2>1, <2>3
  <1>2. CASE key \notin DOMAIN rev_cache.known[t]
    <2>1. PICK in : in = Backwards!intern(set)
      OBVIOUS
    <2>2. /\ BackCacheOK(Backwards!code, in.cache) /\ in.id \in Rows(in.cache)
          /\ in.how \in {"kept", "flushed"}
          /\ in.cache.states[in.id] = set
          /\ in.how = "kept" => KeepsRows(rev_cache, in.cache)
          /\ in = [id |-> in.id, cache |-> in.cache, how |-> in.how]
      BY <2>1, BackInternFacts
    <2>3. got = [id |-> in.id, cache |-> Backwards!remembered(t, key, in), how |-> in.how]
      BY <1>2, <2>1, <2>2 DEF Backwards!Fetch
    <2>4. CASE in.how = "kept"
      <3>1. BackMeans(Backwards!code, in.cache, t, key, in.id)
        BY <2>2, <2>4
      <3>2. Backwards!remembered(t, key, in)
              = [in.cache EXCEPT !.known[t] = Backwards!WithEntry(@, key, in.id)]
        BY <2>4 DEF Backwards!remembered, Backwards!Memoised
      <3>3. /\ BackCacheOK(Backwards!code, Backwards!remembered(t, key, in))
            /\ Backwards!remembered(t, key, in).states = in.cache.states
        BY <2>2, <3>1, <3>2, BackRemembering
      <3>4. QED
        BY <2>2, <2>3, <3>3 DEF Rows
    <2>5. CASE in.how # "kept"
      BY <2>2, <2>3, <2>5 DEF Backwards!remembered
    <2>6. QED
      BY <2>4, <2>5
  <1>3. QED
    BY <1>1, <1>2

-----------------------------------------------------------------------------
(* The reverse DFA's steps keep its cache sound.                           *)

BackSound == BackCacheOK(Backwards!code, rev_cache) /\ rev_state \in Rows(rev_cache)

LEMMA BackSoundNext ==
  ASSUME program' = program, BackCacheOK(Backwards!code, rev_cache'), rev_state' \in Rows(rev_cache')
  PROVE  BackSound'
  <1>1. Backwards!code' = Backwards!code
    BY DEF Backwards!code
  <1>2. QED
    BY <1>1 DEF BackSound, Rows

LEMMA BackDeadRow ==
  ASSUME NEW p, NEW c, BackCacheOK(p, c)
  PROVE  Backwards!dead_state \in Rows(c)
  BY DEF BackCacheOK

LEMMA BackBeginSound ==
  ASSUME BackSound, NEW w, Backwards!Begin(w)
  PROVE  BackSound'
  <1>1. CASE Backwards!look
    <2>1. PICK right : right = Backwards!right_ctx(Backwards!code, w.text, w.end)
      OBVIOUS
    <2>2. PICK set : set = Backwards!Start(Backwards!code, right)
      OBVIOUS
    <2>3. PICK got : got = Backwards!Fetch("starts", right, set)
      OBVIOUS
    <2>4. rev_cache' = got.cache /\ rev_state' = got.id /\ program' = program
      BY <1>1, <2>1, <2>2, <2>3 DEF Backwards!Begin, Backwards!Adopt
    <2>5. \A d, id : KeepsRows(rev_cache, d) /\ id \in Rows(d) /\ d.states[id] = set =>
                       BackMeans(Backwards!code, d, "starts", right, id)
      BY <2>2 DEF BackMeans
    <2>6. MayWait(Backwards!code, set)
      BY <2>2, BackSetsMayWait
    <2>7. BackCacheOK(Backwards!code, got.cache) /\ got.id \in Rows(got.cache)
      BY <2>3, <2>5, <2>6, BackFetchFacts DEF BackSound, BackTables
    <2>8. QED
      BY <2>4, <2>7, BackSoundNext
  <1>2. CASE ~Backwards!look
    BY <1>2, BackSoundNext DEF Backwards!Begin, Backwards!look, BackSound, BackCacheOK
  <1>3. QED
    BY <1>1, <1>2

LEMMA BackStepSound ==
  ASSUME BackSound, Backwards!step
  PROVE  BackSound'
  <1>1. PICK byte, right, class :
          /\ byte = Backwards!ByteAt(Backwards!text, rev_pos - 1)
          /\ right = Backwards!right_ctx(Backwards!code, Backwards!text, rev_pos - 1)
          /\ class = Backwards!alphabet(Backwards!code, byte)
    OBVIOUS
  <1>2. CASE Backwards!look /\ right = "final_newline"
    <2>1. PICK set : set = Backwards!Stepped(Backwards!code, Backwards!here, byte, right)
      OBVIOUS
    <2>2. PICK got : got = Backwards!intern(set)
      OBVIOUS
    <2>3. rev_cache' = got.cache /\ rev_state' = got.id /\ program' = program
      BY <1>1, <1>2, <2>1, <2>2 DEF Backwards!step, Backwards!Adopt
    <2>4. MayWait(Backwards!code, set)
      BY <2>1, BackSetsMayWait
    <2>5. BackCacheOK(Backwards!code, got.cache) /\ got.id \in Rows(got.cache)
      BY <2>2, <2>4, BackInternFacts DEF BackSound
    <2>6. QED
      BY <2>3, <2>5, BackSoundNext
  <1>3. CASE ~(Backwards!look /\ right = "final_newline")
    <2>1. PICK set : set = Backwards!Stepped(Backwards!code, Backwards!here, byte,
                                             Backwards!class_ctx(class))
      OBVIOUS
    <2>2. PICK key : key = <<rev_state, class>>
      OBVIOUS
    <2>3. PICK got : got = Backwards!Fetch("trans", key, set)
      OBVIOUS
    <2>4. rev_cache' = got.cache /\ rev_state' = got.id /\ program' = program
      BY <1>1, <1>3, <2>1, <2>2, <2>3 DEF Backwards!step, Backwards!Adopt
    <2>5. \A b \in class : Backwards!Stepped(Backwards!code, Backwards!here, b, Backwards!Context(b)) = set
      BY <1>1, <2>1, BackSteppedAlike
    <2>6. ASSUME NEW d, NEW id, KeepsRows(rev_cache, d), id \in Rows(d), d.states[id] = set
          PROVE  BackMeans(Backwards!code, d, "trans", key, id)
      <3>1. key[1] = rev_state /\ key[2] = class
        BY <2>2
      <3>2. rev_state \in Rows(d) /\ d.states[rev_state] = Backwards!here
        BY <2>6 DEF BackSound, KeepsRows, Backwards!here
      <3>3. QED
        BY <2>5, <2>6, <3>1, <3>2 DEF BackMeans
    <2>7. MayWait(Backwards!code, set)
      BY <2>1, BackSetsMayWait
    <2>8. BackCacheOK(Backwards!code, got.cache) /\ got.id \in Rows(got.cache)
      BY <2>3, <2>6, <2>7, BackFetchFacts DEF BackSound, BackTables
    <2>9. QED
      BY <2>4, <2>8, BackSoundNext
  <1>4. QED
    BY <1>2, <1>3

\* What the key tells of the left side.
LEMMA LeftKeyTells ==
  ASSUME Backwards!look, NEW before \in Backwards!LeftKey
  PROVE  (IF before \in Backwards!Bytes THEN Backwards!Context(before) ELSE before) = Backwards!Left
  <1>1. CASE rev_pos = 0
    BY <1>1 DEF Backwards!LeftKey, Backwards!Left, Backwards!left_ctx, Backwards!Bytes,
                Backwards!Ascii, Backwards!Letters, Backwards!Newline, Backwards!Lead, Backwards!Cont
  <1>2. CASE rev_pos # 0
    <2>1. PICK b : b = Backwards!ByteAt(Backwards!text, rev_pos - 1)
      OBVIOUS
    <2>2. before \in Backwards!alphabet(Backwards!code, b)
      BY <1>2, <2>1 DEF Backwards!LeftKey
    <2>3. Backwards!Left = Backwards!class_ctx(Backwards!alphabet(Backwards!code, b))
      BY <1>2, <2>1 DEF Backwards!Left, Backwards!left_ctx
    <2>4. QED
      BY <2>2, <2>3, BackClassAlike DEF Backwards!look
  <1>3. QED
    BY <1>1, <1>2

LEMMA BackResolutionMeans ==
  ASSUME Backwards!look, BackSound, NEW met, met = Backwards!Resolution(Backwards!code, Backwards!here, Backwards!Left),
         NEW d, KeepsRows(rev_cache, d), NEW id,
         IF met.quit THEN id = Backwards!quit_state
         ELSE id \in Rows(d) /\ d.states[id] = Backwards!Set(met, "none")
  PROVE  BackMeans(Backwards!code, d, "res", <<rev_state, Backwards!LeftKey>>, id)
  <1>1. rev_state \in Rows(d) /\ d.states[rev_state] = Backwards!here
    BY DEF BackSound, KeepsRows, Backwards!here
  <1>2. PICK k : k = <<rev_state, Backwards!LeftKey>>
    OBVIOUS
  <1>3. k[1] = rev_state /\ k[2] = Backwards!LeftKey
    BY <1>2
  <1>4. id \in Rows(d) \cup {Backwards!quit_state}
    OBVIOUS
  <1>5. BackMeans(Backwards!code, d, "res", k, id)
    BY <1>1, <1>3, <1>4, LeftKeyTells DEF BackMeans
  <1>6. QED
    BY <1>2, <1>5

LEMMA BackResolveSound ==
  ASSUME BackSound, Backwards!resolve
  PROVE  BackSound'
  <1>1. PICK met, key : /\ met = Backwards!Resolution(Backwards!code, Backwards!here, Backwards!Left)
                        /\ key = <<rev_state, Backwards!LeftKey>>
    OBVIOUS
  <1>2. Backwards!look
    BY DEF Backwards!resolve, Backwards!look, Backwards!here, BackSound, BackCacheOK, MayWait
  <1>3. KeepsRows(rev_cache, rev_cache)
    BY DEF KeepsRows
  <1>4. CASE key \notin DOMAIN rev_cache.known["res"] /\ met.quit
    <2>1. PICK c : c = [rev_cache EXCEPT !.known["res"] = Backwards!WithEntry(@, key, Backwards!quit_state)]
      OBVIOUS
    <2>2. rev_cache' = c /\ rev_state' = Backwards!dead_state /\ program' = program
      BY <1>1, <1>4, <2>1 DEF Backwards!resolve, Backwards!Ended
    <2>3. BackMeans(Backwards!code, rev_cache, "res", key, Backwards!quit_state)
      BY <1>1, <1>2, <1>3, <1>4, BackResolutionMeans
    <2>4. BackCacheOK(Backwards!code, c)
      BY <2>1, <2>3, BackRemembering DEF BackSound, BackTables
    <2>5. QED
      BY <2>2, <2>4, BackDeadRow, BackSoundNext
  <1>5. CASE key \in DOMAIN rev_cache.known["res"] \/ ~met.quit
    <2>1. PICK got : got = Backwards!Fetch("res", key, Backwards!Set(met, "none"))
      OBVIOUS
    <2>2. /\ program' = program
          /\ \/ got.id = Backwards!quit_state /\ rev_cache' = got.cache /\ rev_state' = Backwards!dead_state
             \/ got.id # Backwards!quit_state /\ rev_cache' = got.cache /\ rev_state' = got.id
      BY <1>1, <1>5, <2>1 DEF Backwards!resolve, Backwards!Ended, Backwards!Adopt
    <2>3. BackCacheOK(Backwards!code, got.cache)
          /\ (got.id \in Rows(got.cache) \/ got.id = Backwards!quit_state)
      <3>1. CASE key \in DOMAIN rev_cache.known["res"]
        <4>1. got = [id |-> rev_cache.known["res"][key], cache |-> rev_cache, how |-> "known"]
          BY <2>1, <3>1 DEF Backwards!Fetch
        <4>2. BackMeans(Backwards!code, rev_cache, "res", key, got.id)
          BY <3>1, <4>1 DEF BackSound, BackCacheOK, BackTables
        <4>3. got.id \in Rows(rev_cache) \cup {Backwards!quit_state}
          BY <4>2 DEF BackMeans
        <4>4. QED
          BY <4>1, <4>3 DEF BackSound
      <3>2. CASE key \notin DOMAIN rev_cache.known["res"]
        <4>1. ~met.quit
          BY <1>5, <3>2
        <4>2. \A d, id : KeepsRows(rev_cache, d) /\ id \in Rows(d)
                         /\ d.states[id] = Backwards!Set(met, "none") =>
                           BackMeans(Backwards!code, d, "res", key, id)
          BY <1>1, <1>2, <4>1, BackResolutionMeans
        <4>3. MayWait(Backwards!code, Backwards!Set(met, "none"))
          BY <1>1, BackSetsMayWait
        <4>4. QED
          BY <2>1, <4>2, <4>3, BackFetchFacts DEF BackSound, BackTables
      <3>3. QED
        BY <3>1, <3>2
    <2>4. QED
      BY <2>2, <2>3, BackDeadRow, BackSoundNext
  <1>6. QED
    BY <1>4, <1>5

LEMMA BackWalkSound ==
  ASSUME BackSound, Backwards!Walk
  PROVE  BackSound'
  <1>1. CASE Backwards!finish
    BY <1>1, BackDeadRow, BackSoundNext DEF Backwards!finish, Backwards!Ended, BackSound
  <1>2. QED
    BY <1>1, BackResolveSound, BackStepSound DEF Backwards!Walk

LEMMA BackSoundIsExact ==
  ASSUME BackSound
  PROVE  ReverseEdgesAreExact
  <1> DEFINE known == rev_cache.known
             Of(id) == rev_cache.states[id]
             p == Backwards!code
  <1>1. \A t \in BackTables : \A key \in DOMAIN known[t] : BackMeans(p, rev_cache, t, key, known[t][key])
    BY DEF BackSound, BackCacheOK
  <1>2. \A key \in DOMAIN known.trans : \A byte \in key[2] :
          /\ key[1] \in Rows(rev_cache)
          /\ Of(known.trans[key]) = Backwards!Stepped(p, Of(key[1]), byte, Backwards!Context(byte))
    BY <1>1 DEF BackMeans, BackTables
  <1>3. \A right \in DOMAIN known.starts : Of(known.starts[right]) = Backwards!Start(p, right)
    BY <1>1 DEF BackMeans, BackTables
  <1>4. \A key \in DOMAIN known.res : \A before \in key[2] :
          LET left == IF before \in Backwards!Bytes THEN Backwards!Context(before) ELSE before
              met == Backwards!Resolution(p, Of(key[1]), left)
          IN /\ key[1] \in Rows(rev_cache)
             /\ IF met.quit THEN known.res[key] = Backwards!quit_state
                ELSE Of(known.res[key]) = Backwards!Set(met, "none")
    BY <1>1 DEF BackMeans, BackTables
  <1>5. QED
    BY <1>2, <1>3, <1>4 DEF ReverseEdgesAreExact, Backwards!EdgesAreExact, Rows

LEMMA BackKept ==
  ASSUME BackSound, UNCHANGED <<program, rev_vars>>
  PROVE  BackSound'
  BY BackSoundNext DEF rev_vars, BackSound

LEMMA StartSearchKeepsProgram ==
  ASSUME NEW s, StartSearch(s)
  PROVE  UNCHANGED <<program, rev_vars>>
  BY DEF StartSearch, MatchByTable, MatchPrefix, SearchText, Begin

LEMMA BackProceedSound ==
  ASSUME BackSound, Proceed
  PROVE  BackSound'
  <1>1. CASE Forward
    <2>1. program' = program
      BY <1>1 DEF Forward, Walk, resolve, cut, step, finish
    <2>2. QED
      BY <1>1, <2>1, BackKept DEF Forward
  <1>2. CASE Backward
    BY <1>2, BackWalkSound DEF Backward
  <1>3. CASE PrefixWalked
    BY <1>3, BackKept DEF PrefixWalked
  <1>4. CASE NextCandidate
    BY <1>4, BackKept DEF NextCandidate, AnchoredAt, Begin
  <1>5. CASE Walked
    BY <1>5, BackKept DEF Walked, PassFrom, Begin
  <1>6. CASE Passed
    BY <1>6, BackKept, BackBeginSound DEF Passed
  <1>7. CASE WalkedBack
    BY <1>7, BackKept DEF WalkedBack
  <1>8. QED
    BY <1>1, <1>2, <1>3, <1>4, <1>5, <1>6, <1>7 DEF Proceed

LEMMA BackNextSound ==
  ASSUME BackSound, [RouteNext]_<<vars, rev_vars, route>>
  PROVE  BackSound'
  <1>1. CASE \E s \in program.searches : StartSearch(s)
    BY <1>1, StartSearchKeepsProgram, BackKept
  <1>2. CASE Rest \/ UNCHANGED <<vars, rev_vars, route>>
    BY <1>2, BackKept DEF Rest, vars
  <1>3. QED
    BY <1>1, <1>2, BackProceedSound DEF RouteNext

\* The reverse cache holds its rows and what is remembered of them, whatever walks shared it or
\* flushed it in the middle.
THEOREM ReverseCacheSound == RouteSpec => []BackSound
  <1>1. RouteInit => BackSound
    BY BackFlushedOK, BackDeadRow DEF RouteInit, Backwards!Init, BackSound
  <1>2. BackSound /\ [RouteNext]_<<vars, rev_vars, route>> => BackSound'
    BY BackNextSound
  <1>3. QED
    BY <1>1, <1>2, PTL DEF RouteSpec

\* Every backward edge, resolution and start the reverse cache remembers leads to the set it is
\* of, for every byte of its class, the step onto a newline that ends the text left out of it.
THEOREM ReverseEdgesExact == RouteSpec => []ReverseEdgesAreExact
  <1>1. BackSound => ReverseEdgesAreExact
    BY BackSoundIsExact
  <1>2. QED
    BY <1>1, ReverseCacheSound, PTL

-----------------------------------------------------------------------------
(* The counters of the forward sets are the code's, and a closure that     *)
(* quits has met a boundary its sides do not decide.                       *)

\* Where an instruction leads is in the code.
LEMMA TargetsStay ==
  ASSUME NEW p, Contained(p), NEW pc \in DOMAIN p
  PROVE  /\ p[pc].op = "split" => p[pc].primary \in DOMAIN p /\ p[pc].secondary \in DOMAIN p
         /\ p[pc].op \in {"save", "assert_position"} => pc + 1 \in DOMAIN p
         /\ p[pc].op \in Consuming => pc + 1 \in DOMAIN p
         /\ p[pc].op = "jump" => \A seen \in SUBSET DOMAIN p : JumpTarget(p, pc, seen) \in DOMAIN p
  <1>1. \A q \in DOMAIN p : EpsilonSuccessors(p, q) \subseteq DOMAIN p
    BY DEF Contained, Successors
  <1>2. /\ \A q \in DOMAIN p : p[q].op = "jump" => p[q].primary \in DOMAIN p
        /\ \A q \in DOMAIN p : p[q].op = "split" =>
             p[q].primary \in DOMAIN p /\ p[q].secondary \in DOMAIN p
        /\ p[pc].op \in {"save", "assert_position"} => pc + 1 \in DOMAIN p
    BY <1>1, EpsilonKinds
  <1>3. p[pc].op \in Consuming => pc + 1 \in DOMAIN p
    <2>1. SUFFICES ASSUME p[pc].op \in Consuming
                   PROVE  pc + 1 \in Successors(p, pc)
      BY DEF Contained
    <2>2. p[pc].op \in {"byte", "klass", "klass_loop_possessive"}
      BY <2>1 DEF Contained, Consuming
    <2>3. QED
      BY <2>2 DEF Successors
  <1>4. ASSUME p[pc].op = "jump", NEW seen \in SUBSET DOMAIN p
        PROVE  JumpTarget(p, pc, seen) \in DOMAIN p
    <2>1. \/ JumpTarget(p, pc, seen) = p[pc].primary
          \/ \E h \in seen : p[h].op = "split" /\ JumpTarget(p, pc, seen) = p[h].secondary
      BY <1>2, <1>4, JumpTargetFacts
    <2>2. QED
      BY <1>2, <1>4, <2>1
  <1>5. QED
    BY <1>2, <1>3, <1>4

Closing(p) == [stack : Seq(DOMAIN p), out : Seq(DOMAIN p), seen : SUBSET DOMAIN p, quit : BOOLEAN]

\* Some assertion of the code is a boundary that what is known of its sides does not decide.
Undecides(p, left, right) ==
  \E pc \in asserting(p) : undecidable_word(p[pc].kind, left, right)

SoFar(p, c, left, right) == c \in Closing(p) /\ (c.quit => Undecides(p, left, right))

LEMMA CloseOneStays ==
  ASSUME NEW p, Contained(p), NEW left, NEW right, NEW c, SoFar(p, c, left, right), c.stack # <<>>
  PROVE  SoFar(p, CloseOne(p, c, left, right), left, right)
  <1>1. PICK D, pc, rest, seen : /\ D = DOMAIN p /\ pc = Head(c.stack) /\ rest = Tail(c.stack)
                                 /\ seen = c.seen \cup {pc}
    OBVIOUS
  <1>2. /\ c = [stack |-> c.stack, out |-> c.out, seen |-> c.seen, quit |-> c.quit]
        /\ c.stack \in Seq(D) /\ c.out \in Seq(D) /\ c.seen \in SUBSET D /\ c.quit \in BOOLEAN
    BY <1>1 DEF SoFar, Closing
  <1>3. pc \in D /\ rest \in Seq(D) /\ seen \in SUBSET D
    BY <1>1, <1>2, HeadTailProperties
  <1>4. PICK d : d = CloseOne(p, c, left, right)
    OBVIOUS
  <1> DEFINE On(targets) == [c EXCEPT !.stack = targets \o rest, !.seen = seen]
  <1> HIDE DEF On
  <1>5. ASSUME NEW targets \in Seq(D), d = On(targets)
        PROVE  SoFar(p, d, left, right)
    <2>1. targets \o rest \in Seq(D)
      BY <1>3, ConcatProperties
    <2>2. d = [stack |-> targets \o rest, out |-> c.out, seen |-> seen, quit |-> c.quit]
      BY <1>2, <1>5 DEF On
    <2>3. QED
      BY <1>1, <1>2, <1>3, <2>1, <2>2 DEF SoFar, Closing
  <1>6. CASE pc \in c.seen
    <2>1. d = [stack |-> rest, out |-> c.out, seen |-> c.seen, quit |-> c.quit]
      BY <1>1, <1>2, <1>4, <1>6 DEF CloseOne
    <2>2. QED
      BY <1>1, <1>2, <1>3, <1>4, <2>1 DEF SoFar, Closing
  <1>7. PICK kept : kept = [c EXCEPT !.stack = rest, !.seen = seen, !.out = Append(@, pc)]
    OBVIOUS
  <1>8. ASSUME d = kept PROVE SoFar(p, d, left, right)
    <2>1. Append(c.out, pc) \in Seq(D)
      BY <1>2, <1>3, AppendProperties
    <2>2. d = [stack |-> rest, out |-> Append(c.out, pc), seen |-> seen, quit |-> c.quit]
      BY <1>2, <1>7, <1>8
    <2>3. QED
      BY <1>1, <1>2, <1>3, <2>1, <2>2 DEF SoFar, Closing
  <1>9. CASE pc \notin c.seen /\ p[pc].op \in Consuming \cup {"match"}
    <2>1. d = kept
      BY <1>1, <1>4, <1>7, <1>9 DEF CloseOne, Consuming
    <2>2. QED
      BY <1>4, <1>8, <2>1
  <1>10. CASE pc \notin c.seen /\ p[pc].op = "split"
    <2>1. d = On(<<p[pc].primary, p[pc].secondary>>)
      BY <1>1, <1>4, <1>10 DEF CloseOne, Consuming, On
    <2>2. <<p[pc].primary, p[pc].secondary>> \in Seq(D)
      BY <1>1, <1>3, <1>10, TargetsStay
    <2>3. QED
      BY <1>4, <1>5, <2>1, <2>2
  <1>11. CASE pc \notin c.seen /\ p[pc].op = "jump"
    <2>1. d = On(<<JumpTarget(p, pc, seen)>>)
      BY <1>1, <1>4, <1>11 DEF CloseOne, Consuming, On
    <2>2. <<JumpTarget(p, pc, seen)>> \in Seq(D)
      BY <1>1, <1>3, <1>11, TargetsStay
    <2>3. QED
      BY <1>4, <1>5, <2>1, <2>2
  <1>12. CASE pc \notin c.seen /\ p[pc].op = "save"
    <2>1. d = On(<<pc + 1>>)
      BY <1>1, <1>4, <1>12 DEF CloseOne, Consuming, On
    <2>2. <<pc + 1>> \in Seq(D)
      BY <1>1, <1>3, <1>12, TargetsStay
    <2>3. QED
      BY <1>4, <1>5, <2>1, <2>2
  <1>13. CASE pc \notin c.seen /\ p[pc].op = "assert_position"
    <2>1. <<pc + 1>> \in Seq(D) /\ <<>> \in Seq(D)
      BY <1>1, <1>3, <1>13, TargetsStay
    <2>2. \/ d = kept
          \/ d = On(<<pc + 1>>)
          \/ d = On(<<>>)
          \/ /\ undecidable_word(p[pc].kind, left, right)
             /\ d = [On(<<>>) EXCEPT !.quit = TRUE]
      BY <1>1, <1>4, <1>7, <1>13 DEF CloseOne, Consuming, On
    <2>3. ASSUME undecidable_word(p[pc].kind, left, right),
                 d = [On(<<>>) EXCEPT !.quit = TRUE]
          PROVE  SoFar(p, d, left, right)
      <3>1. <<>> \o rest \in Seq(D)
        BY <1>3, <2>1, ConcatProperties
      <3>2. d = [stack |-> <<>> \o rest, out |-> c.out, seen |-> seen, quit |-> TRUE]
        BY <1>2, <2>3 DEF On
      <3>3. Undecides(p, left, right)
        BY <1>1, <1>3, <1>13, <2>3 DEF Undecides, asserting
      <3>4. QED
        BY <1>1, <1>2, <1>3, <3>1, <3>2, <3>3 DEF SoFar, Closing
    <2>4. QED
      BY <1>4, <1>5, <1>8, <2>1, <2>2, <2>3
  <1>14. p[pc].op \in Consuming \cup {"match", "split", "jump", "save", "assert_position"}
    BY <1>1, <1>3 DEF Contained
  <1>15. QED
    BY <1>4, <1>6, <1>9, <1>10, <1>11, <1>12, <1>13, <1>14

\* The closure entry by entry.
FirstClosure(pcs) == [stack |-> pcs, out |-> <<>>, seen |-> {}, quit |-> FALSE]
NextClosure(p, c, left, right) == IF c.stack = <<>> THEN c ELSE CloseOne(p, c, left, right)
Closures(p, pcs, left, right) ==
  CHOOSE after :
    after = [k \in 0 .. 2 * Len(p) + Len(pcs) |->
               IF k = 0 THEN FirstClosure(pcs) ELSE NextClosure(p, after[k - 1], left, right)]

LEMMA ClosuresExist ==
  ASSUME NEW p, NEW pcs, NEW left, NEW right, 2 * Len(p) + Len(pcs) \in Nat
  PROVE  Closures(p, pcs, left, right) =
           [k \in 0 .. 2 * Len(p) + Len(pcs) |->
              IF k = 0 THEN FirstClosure(pcs)
              ELSE NextClosure(p, Closures(p, pcs, left, right)[k - 1], left, right)]
  <1> DEFINE upto(h, n) == [k \in 0 .. n |->
                              IF k = 0 THEN FirstClosure(pcs) ELSE NextClosure(p, h[k - 1], left, right)]
             S == {n \in Nat : \E h : h = upto(h, n)}
  <1>1. 0 \in S
    <2>1. PICK h : h = [k \in 0 .. 0 |-> FirstClosure(pcs)]
      OBVIOUS
    <2>2. h = upto(h, 0)
      BY <2>1
    <2>3. QED
      BY <2>2
  <1>2. ASSUME NEW n \in S PROVE n + 1 \in S
    <2>1. PICK h : h = upto(h, n)
      OBVIOUS
    <2>2. n \in Nat
      OBVIOUS
    <2>3. PICK g : g = [k \in 0 .. n + 1 |-> IF k = n + 1 THEN NextClosure(p, h[n], left, right) ELSE h[k]]
      OBVIOUS
    <2>4. \A k \in 0 .. n : g[k] = h[k]
      BY <2>2, <2>3
    <2>5. ASSUME NEW k \in 0 .. n + 1
          PROVE  g[k] = IF k = 0 THEN FirstClosure(pcs) ELSE NextClosure(p, g[k - 1], left, right)
      <3>1. CASE k = n + 1
        <4>1. k # 0 /\ k - 1 = n /\ n \in 0 .. n /\ g[k] = NextClosure(p, h[n], left, right)
          BY <2>2, <2>3, <3>1
        <4>2. g[k - 1] = h[n]
          BY <2>4, <4>1
        <4>3. QED
          BY <3>1, <4>1, <4>2
      <3>2. CASE k \in 0 .. n
        <4>1. h[k] = IF k = 0 THEN FirstClosure(pcs) ELSE NextClosure(p, h[k - 1], left, right)
          BY <2>1, <3>2
        <4>2. k # 0 => k - 1 \in 0 .. n
          BY <2>2, <3>2
        <4>3. k # 0 => g[k - 1] = h[k - 1]
          BY <2>4, <4>2
        <4>4. QED
          BY <2>4, <3>2, <4>1, <4>3
      <3>3. QED
        BY <2>2, <3>1, <3>2
    <2>6. g = upto(g, n + 1)
      BY <2>3, <2>5
    <2>7. n + 1 \in Nat
      BY <2>2
    <2> HIDE DEF upto
    <2>8. QED
      BY <2>6, <2>7
  <1>3. S = Nat
    <2>1. S \in SUBSET Nat
      OBVIOUS
    <2> HIDE DEF S
    <2>2. QED
      BY <1>1, <1>2, <2>1, SetInduction
  <1>4. \E h : h = upto(h, 2 * Len(p) + Len(pcs))
    BY <1>3
  <1>5. QED
    BY <1>4 DEF Closures

\* A closure over counters of the code has counters of the code, and quits only at a boundary
\* that the sides do not decide.
LEMMA CloseFacts ==
  ASSUME NEW p, Contained(p), NEW pcs \in Seq(DOMAIN p), NEW left, NEW right
  PROVE  SoFar(p, Close(p, pcs, left, right), left, right)
  <1> DEFINE n == 2 * Len(p) + Len(pcs)
             after == Closures(p, pcs, left, right)
             good == {k \in Nat : k <= n => SoFar(p, after[k], left, right)}
  <1>1. n \in Nat
    BY LenProperties DEF Contained
  <1>2. \A k \in 0 .. n : after[k] = IF k = 0 THEN FirstClosure(pcs)
                                     ELSE NextClosure(p, after[k - 1], left, right)
    BY <1>1, ClosuresExist
  <1>3. Close(p, pcs, left, right) = after[n]
    BY DEF Close, Closures, FirstClosure, NextClosure
  <1> HIDE DEF after, n
  <1>4. 0 \in good
    <2>1. after[0] = FirstClosure(pcs)
      BY <1>1, <1>2
    <2>2. SoFar(p, FirstClosure(pcs), left, right)
      <3>1. <<>> \in Seq(DOMAIN p)
        OBVIOUS
      <3>2. QED
        BY <3>1 DEF SoFar, Closing, FirstClosure
    <2>3. QED
      BY <2>1, <2>2
  <1>5. ASSUME NEW k \in good PROVE k + 1 \in good
    <2>1. SUFFICES ASSUME k + 1 <= n PROVE SoFar(p, after[k + 1], left, right)
      BY <1>5
    <2>2. k \in Nat /\ k <= n /\ k + 1 \in 0 .. n /\ k + 1 # 0 /\ k + 1 - 1 = k
      BY <1>1, <2>1
    <2>3. PICK c : c = after[k]
      OBVIOUS
    <2>4. SoFar(p, c, left, right)
      BY <2>2, <2>3
    <2>5. after[k + 1] = NextClosure(p, c, left, right)
      BY <1>2, <2>2, <2>3
    <2>6. QED
      BY <2>4, <2>5, CloseOneStays DEF NextClosure
  <1>6. good = Nat
    <2>1. good \in SUBSET Nat
      OBVIOUS
    <2> HIDE DEF good
    <2>2. QED
      BY <1>4, <1>5, <2>1, SetInduction
  <1>7. QED
    BY <1>1, <1>3, <1>6

\* The takers' next counters, in order.
NextMoved(s, takers, moved, k) == IF s[k] \in takers THEN Append(moved, s[k] + 1) ELSE moved
Moved(s, takers) ==
  CHOOSE moved :
    moved = [k \in 0 .. Len(s) |->
               IF k = 0 THEN <<>> ELSE NextMoved(s, takers, moved[k - 1], k)]

LEMMA MovedExists ==
  ASSUME NEW s, NEW takers, Len(s) \in Nat
  PROVE  Moved(s, takers) =
           [k \in 0 .. Len(s) |->
              IF k = 0 THEN <<>> ELSE NextMoved(s, takers, Moved(s, takers)[k - 1], k)]
  <1> DEFINE next(m, k) == NextMoved(s, takers, m, k)
             upto(h, n) == [k \in 0 .. n |-> IF k = 0 THEN <<>> ELSE next(h[k - 1], k)]
             S == {n \in Nat : \E h : h = upto(h, n)}
  <1>1. 0 \in S
    <2>1. PICK h : h = [k \in 0 .. 0 |-> <<>>]
      OBVIOUS
    <2>2. h = upto(h, 0)
      BY <2>1
    <2>3. QED
      BY <2>2
  <1>2. ASSUME NEW n \in S PROVE n + 1 \in S
    <2>1. PICK h : h = upto(h, n)
      OBVIOUS
    <2>2. n \in Nat
      OBVIOUS
    <2>3. PICK g : g = [k \in 0 .. n + 1 |-> IF k = n + 1 THEN next(h[n], n + 1) ELSE h[k]]
      OBVIOUS
    <2>4. \A k \in 0 .. n : g[k] = h[k]
      BY <2>2, <2>3
    <2>5. ASSUME NEW k \in 0 .. n + 1
          PROVE  g[k] = IF k = 0 THEN <<>> ELSE next(g[k - 1], k)
      <3>1. CASE k = n + 1
        <4>1. k # 0 /\ k - 1 = n /\ n \in 0 .. n /\ g[k] = next(h[n], k)
          BY <2>2, <2>3, <3>1
        <4>2. g[k - 1] = h[n]
          BY <2>4, <4>1
        <4>3. QED
          BY <3>1, <4>1, <4>2
      <3>2. CASE k \in 0 .. n
        <4>1. h[k] = IF k = 0 THEN <<>> ELSE next(h[k - 1], k)
          BY <2>1, <3>2
        <4>2. k # 0 => k - 1 \in 0 .. n
          BY <2>2, <3>2
        <4>3. k # 0 => g[k - 1] = h[k - 1]
          BY <2>4, <4>2
        <4>4. QED
          BY <2>4, <3>2, <4>1, <4>3
      <3>3. QED
        BY <2>2, <3>1, <3>2
    <2>6. g = upto(g, n + 1)
      BY <2>3, <2>5
    <2>7. n + 1 \in Nat
      BY <2>2
    <2> HIDE DEF upto
    <2>8. QED
      BY <2>6, <2>7
  <1>3. S = Nat
    <2>1. S \in SUBSET Nat
      OBVIOUS
    <2> HIDE DEF S
    <2>2. QED
      BY <1>1, <1>2, <2>1, SetInduction
  <1>4. \E h : h = upto(h, Len(s))
    BY <1>3
  <1>5. QED
    BY <1>4 DEF Moved

\* What moves on is at counters of the code.
LEMMA MovedFacts ==
  ASSUME NEW p, Contained(p), NEW byte, NEW s \in Seq(DOMAIN p)
  PROVE  Moved(s, consumers(p, byte))[Len(s)] \in Seq(DOMAIN p)
  <1> DEFINE n == Len(s)
             takers == consumers(p, byte)
             moved == Moved(s, takers)
             good == {k \in Nat : k <= n => moved[k] \in Seq(DOMAIN p)}
  <1>1. n \in Nat /\ \A k \in 1 .. n : s[k] \in DOMAIN p
    BY LenProperties, ElementOfSeq
  <1> HIDE DEF takers
  <1>0. moved = [k \in 0 .. n |-> IF k = 0 THEN <<>> ELSE NextMoved(s, takers, moved[k - 1], k)]
    BY <1>1, MovedExists
  <1> HIDE DEF moved, n
  <1>2. \A k \in 0 .. n : moved[k] = IF k = 0 THEN <<>> ELSE NextMoved(s, takers, moved[k - 1], k)
    BY <1>0
  <1>3. 0 \in good
    <2>1. moved[0] = <<>> /\ <<>> \in Seq(DOMAIN p)
      BY <1>1, <1>2
    <2>2. QED
      BY <2>1
  <1>4. ASSUME NEW k \in good PROVE k + 1 \in good
    <2>1. SUFFICES ASSUME k + 1 <= n PROVE moved[k + 1] \in Seq(DOMAIN p)
      BY <1>4
    <2>2. k \in Nat /\ k <= n /\ k + 1 \in 0 .. n /\ k + 1 \in 1 .. n /\ k + 1 # 0 /\ k + 1 - 1 = k
      BY <1>1, <2>1
    <2>3. PICK m, pc : m = moved[k] /\ pc = s[k + 1]
      OBVIOUS
    <2>4. m \in Seq(DOMAIN p) /\ pc \in DOMAIN p
      BY <1>1, <2>2, <2>3
    <2>5. moved[k + 1] = IF pc \in takers THEN Append(m, pc + 1) ELSE m
      <3>1. moved[k + 1] = NextMoved(s, takers, m, k + 1)
        BY <1>2, <2>2, <2>3
      <3>2. QED
        BY <2>3, <3>1 DEF NextMoved
    <2>6. pc \in takers => pc + 1 \in DOMAIN p
      BY <2>4, TargetsStay DEF consumers, takers
    <2>7. pc \in takers => Append(m, pc + 1) \in Seq(DOMAIN p)
      BY <2>4, <2>6, AppendProperties
    <2>8. QED
      BY <2>4, <2>5, <2>7
  <1>5. good = Nat
    <2>1. good \in SUBSET Nat
      OBVIOUS
    <2> HIDE DEF good
    <2>2. QED
      BY <1>3, <1>4, <2>1, SetInduction
  <1>6. moved[n] \in Seq(DOMAIN p)
    BY <1>1, <1>5
  <1>7. QED
    BY <1>6 DEF n, moved, takers

\* What the scans ask for has counters of the code.
LEMMA AskedRows ==
  ASSUME NEW p, Contained(p), NEW set, set.pcs \in Seq(DOMAIN p)
  PROVE  /\ \A left : Start(p, left).pcs \in Seq(DOMAIN p)
         /\ \A byte, seeded : Stepped(p, set, byte, seeded).pcs \in Seq(DOMAIN p)
         /\ Accepts(p, set) # {} => Cut(p, set).pcs \in Seq(DOMAIN p)
         /\ \A right : Set(p, Resolution(p, set, right).out, "none").pcs \in Seq(DOMAIN p)
  <1>0. \A pcs, left : Set(p, pcs, left).pcs = pcs
    BY DEF Set
  <1>1. \A pcs \in Seq(DOMAIN p) : \A left, right : Close(p, pcs, left, right).out \in Seq(DOMAIN p)
    BY CloseFacts DEF SoFar, Closing
  <1>2. 1 \in DOMAIN p
    BY DEF Contained
  <1>3. \A left : Start(p, left).pcs \in Seq(DOMAIN p)
    <2>1. <<1>> \in Seq(DOMAIN p)
      BY <1>2
    <2>2. QED
      BY <1>0, <1>1, <2>1 DEF Start
  <1>4. ASSUME NEW byte, NEW seeded PROVE Stepped(p, set, byte, seeded).pcs \in Seq(DOMAIN p)
    <2>1. PICK m : m = Moved(set.pcs, consumers(p, byte))[Len(set.pcs)]
      OBVIOUS
    <2>2. m \in Seq(DOMAIN p) /\ Append(m, 1) \in Seq(DOMAIN p)
      BY <1>2, <2>1, MovedFacts, AppendProperties
    <2>3. MovedOn(set, consumers(p, byte), seeded) = IF seeded THEN Append(m, 1) ELSE m
      BY <2>1 DEF MovedOn, Moved, NextMoved
    <2>4. MovedOn(set, consumers(p, byte), seeded) \in Seq(DOMAIN p)
      BY <2>2, <2>3
    <2>5. QED
      BY <1>0, <1>1, <2>4 DEF Stepped
  <1>5. ASSUME Accepts(p, set) # {} PROVE Cut(p, set).pcs \in Seq(DOMAIN p)
    <2>1. DOMAIN set.pcs = 1 .. Len(set.pcs) /\ Len(set.pcs) \in Nat
      BY LenProperties
    <2>2. Accepts(p, set) \in SUBSET Nat /\ Accepts(p, set) \subseteq 1 .. Len(set.pcs)
      BY <2>1 DEF Accepts
    <2>3. Min(Accepts(p, set)) \in 1 .. Len(set.pcs)
      BY <1>5, <2>2, MinIsLeast
    <2>4. PICK m : m = Min(Accepts(p, set)) - 1
      OBVIOUS
    <2>5. SubSeq(set.pcs, 1, m) \in Seq(DOMAIN p)
      <3>1. m \in 0 .. Len(set.pcs)
        BY <2>1, <2>3, <2>4
      <3>2. \A i \in 1 .. m : set.pcs[i] \in DOMAIN p
        BY <2>1, <3>1, ElementOfSeq
      <3>3. QED
        BY <2>1, <3>1, <3>2, SubSeqProperties
    <2>6. QED
      BY <1>0, <2>4, <2>5 DEF Cut
  <1>6. \A right : Set(p, Resolution(p, set, right).out, "none").pcs \in Seq(DOMAIN p)
    BY <1>0, <1>1 DEF Resolution
  <1>7. QED
    BY <1>3, <1>4, <1>5, <1>6

-----------------------------------------------------------------------------
(* The scan stands in its text, on rows of the code's counters.            *)

RowsIn(c) == \A id \in Rows(c) : c.states[id].pcs \in Seq(DOMAIN code)

LEMMA ProgramContained ==
  ASSUME program \in Programs
  PROVE  Contained(code)
  BY ProgramsAssumption DEF code

LEMMA FlushedRows ==
  ASSUME Contained(code)
  PROVE  RowsIn(Flushed)
  <1>1. PICK d, s : d = Set(code, <<>>, "none") /\ s = Start(code, "start")
    OBVIOUS
  <1>2. Flushed.states = <<d, s>>
    BY <1>1 DEF Flushed
  <1>3. d.pcs = <<>> /\ <<>> \in Seq(DOMAIN code)
    BY <1>1 DEF Set
  <1>4. s.pcs \in Seq(DOMAIN code)
    BY <1>1, <1>3, AskedRows
  <1>5. PICK f : f = Flushed.states
    OBVIOUS
  <1>6. DOMAIN f = 1 .. 2 /\ f[1] = d /\ f[2] = s
    BY <1>2, <1>5
  <1>7. ASSUME NEW id \in DOMAIN f PROVE f[id].pcs \in Seq(DOMAIN code)
    <2>1. CASE id = 1
      BY <1>3, <1>6, <2>1
    <2>2. CASE id = 2
      BY <1>4, <1>6, <2>2
    <2>3. QED
      BY <1>6, <2>1, <2>2
  <1>8. QED
    BY <1>5, <1>7 DEF RowsIn, Rows

LEMMA RowAppended ==
  ASSUME NEW c, Shaped(c), RowsIn(c), NEW set, set.pcs \in Seq(DOMAIN code),
         NEW d, d = [c EXCEPT !.states = Append(@, set)]
  PROVE  RowsIn(d)
  <1>1. PICK S, F : c \in [states : Seq(S), known : [Tables -> F]]
    BY DEF Shaped
  <1>2. PICK s, T : s = c.states /\ T = S \cup {set}
    OBVIOUS
  <1>3. s \in Seq(T) /\ set \in T
    BY <1>1, <1>2
  <1>4. PICK e : e = d.states
    OBVIOUS
  <1>5. e = Append(s, set)
    BY <1>1, <1>2, <1>4
  <1>6. /\ DOMAIN e = 1 .. Len(s) + 1 /\ DOMAIN s = 1 .. Len(s) /\ Len(s) \in Nat
        /\ e[Len(s) + 1] = set /\ \A id \in 1 .. Len(s) : e[id] = s[id]
    BY <1>3, <1>5
  <1>7. QED
    BY <1>2, <1>4, <1>6 DEF RowsIn, Rows

\* What a table has, or a miss builds, leaves rows of the code's counters.
LEMMA FetchRows ==
  ASSUME CacheOK(code, cache), RowsIn(cache), Contained(code), NEW t \in Tables, NEW key,
         NEW set, set.pcs \in Seq(DOMAIN code), NEW missed, NEW got, got = Fetch(t, key, set, missed)
  PROVE  RowsIn(got.cache)
  <1>1. CASE Known(t, key)
    <2>1. got.cache = cache
      BY <1>1 DEF Fetch
    <2>2. QED
      BY <2>1
  <1>2. CASE ~Known(t, key)
    <2>1. PICK in : in = intern(set, missed)
      OBVIOUS
    <2>2. in = [id |-> in.id, cache |-> in.cache, how |-> in.how]
      BY <2>1 DEF intern
    <2>3. got.cache = remembered(t, key, in)
      BY <1>2, <2>1, <2>2 DEF Fetch
    <2>4. RowsIn(in.cache) /\ Shaped(in.cache)
      <3>1. CASE in.cache = cache
        BY <3>1 DEF CacheOK
      <3>2. CASE in.cache # cache
        <4>1. in.cache = [Room EXCEPT !.states = Append(@, set)]
          BY <2>1, <3>2 DEF intern
        <4>2. CacheOK(code, Room) /\ RowsIn(Room)
          BY FlushedOK, FlushedRows DEF Room
        <4>3. RowsIn(in.cache)
          BY <4>1, <4>2, RowAppended DEF CacheOK
        <4>4. CacheOK(code, in.cache)
          BY <4>1, <4>2, RowAdded
        <4>5. QED
          BY <4>3, <4>4 DEF CacheOK
      <3>3. QED
        BY <3>1, <3>2
    <2>5. remembered(t, key, in).states = in.cache.states
      <3>1. PICK c, S, F, f : /\ c = in.cache /\ c \in [states : Seq(S), known : [Tables -> F]]
                              /\ f = WithEntry(c.known[t], key, in.id)
        BY <2>4 DEF Shaped
      <3>2. [c EXCEPT !.known[t] = f].states = c.states
        BY <3>1
      <3>3. remembered(t, key, in) \in {c, [c EXCEPT !.known[t] = f]}
        BY <3>1 DEF remembered, Memoised
      <3>4. QED
        BY <3>1, <3>2, <3>3
    <2>6. QED
      BY <2>3, <2>4, <2>5 DEF RowsIn, Rows
  <1>3. QED
    BY <1>1, <1>2

\* A scan is inside its text.
Placed(s, p) == s.text \in Seq(Bytes) /\ p \in 0 .. Len(s.text) /\ s.start \in 0 .. p

\* A row that waits, waits in the context of what is left of the position.
Awaits(c, row, s, p) ==
  Pending(code, c.states[row]) => c.states[row].ctx = left_ctx(code, s.text, p)

Counted ==
  /\ {thrashing, flushed} \subseteq BOOLEAN
  /\ window_bytes \in 0 .. SizeValues - 1 /\ scan_origin \in Nat /\ miss_pos \in Nat

Outcome ==
  /\ at \in {"idle", "read", "resolved", "cut"}
  /\ best_end \in {npos} \cup 0 .. pos
  /\ answer \in {npos, quit_pos} \cup 0 .. Len(text)
  /\ matched \in BOOLEAN

Scanning ==
  /\ program \in Programs
  /\ RowsIn(cache)
  /\ Placed(scan, pos)
  /\ Counted
  /\ Outcome
  /\ at = "read" => Awaits(cache, state, scan, pos)
  /\ QuitsHaveCause

LEMMA DeadWaitsNot ==
  ASSUME NEW c, CacheOK(code, c)
  PROVE  ~Pending(code, c.states[dead_state])
  <1>1. c.states[dead_state].pcs = <<>>
    BY DEF CacheOK, Set
  <1>2. Range(<<>>) = {}
    BY DEF Range
  <1>3. QED
    BY <1>1, <1>2 DEF Pending

LEMMA WaitingContext ==
  ASSUME NEW pcs, NEW left, Pending(code, Set(code, pcs, left))
  PROVE  Set(code, pcs, left).ctx = left
  BY DEF Set, Pending

\* What the policy keeps of a miss.
LEMMA AdoptedCounts ==
  ASSUME Counted, NEW got, NEW missed \in Nat, AdoptInScan(got, missed)
  PROVE  Counted'
  BY SizeAssumption DEF Counted, AdoptInScan, Adopt

LEMMA BeginScans ==
  ASSUME Sound, Scanning, NEW s, Begin(s), s.text \in Seq(Bytes), s.start \in 0 .. Len(s.text)
  PROVE  Scanning'
  <1> DEFINE left == IF look THEN left_ctx(code, s.text, s.start) ELSE "start"
  <1>1. PICK got : got = Fetch("starts", left, Start(code, left), miss_pos)
    OBVIOUS
  <1>2. /\ cache' = got.cache /\ state' = got.id /\ program' = program
        /\ scan' = s /\ pos' = s.start /\ at' = "read" /\ best_end' = npos /\ matched' = FALSE
        /\ answer' = npos /\ scan_origin' = s.start /\ thrashing' = (got.how = "refused")
        /\ flushed' = (flushed \/ got.how = "flushed") /\ miss_pos' \in {miss_pos}
        /\ window_bytes' \in {0, window_bytes}
    BY <1>1 DEF Begin, Adopt
  <1>3. \A d, id : KeepsRows(cache, d) /\ id \in Rows(d) /\ d.states[id] = Start(code, left) =>
                     Means(code, d, "starts", left, id)
    BY StartMeans
  <1>4. Contained(code)
    BY ProgramContained DEF Scanning
  <1>5. look => left = left_ctx(code, s.text, s.start)
    OBVIOUS
  <1> HIDE DEF left
  <1>6. /\ CacheOK(code, got.cache)
        /\ got.how \in {"known", "kept", "refused", "flushed"}
        /\ got.how \in {"kept", "flushed"} => got.cache.states[got.id] = Start(code, left)
        /\ got.how \in {"known", "refused"} => got.cache = cache
        /\ got.how = "refused" => got.id = dead_state
        /\ got.how = "known" => Means(code, cache, "starts", left, got.id)
    BY <1>1, <1>3, FetchFacts, SetsAreDead DEF Sound, Tables
  <1>7. got.id = dead_state \/ got.cache.states[got.id] = Start(code, left)
    BY <1>6 DEF Means
  <1>8. RowsIn(got.cache)
    <2>1. Start(code, left).pcs \in Seq(DOMAIN code)
      <3>1. PICK empty : empty = [pcs |-> <<>>]
        OBVIOUS
      <3>2. empty.pcs \in Seq(DOMAIN code)
        BY <3>1
      <3>3. QED
        BY <1>4, <3>2, AskedRows
    <2>2. QED
      BY <1>1, <1>4, <2>1, FetchRows DEF Sound, Scanning, Tables
  <1>9. Awaits(got.cache, got.id, s, s.start)
    <2>1. SUFFICES ASSUME Pending(code, got.cache.states[got.id])
                   PROVE  got.cache.states[got.id].ctx = left_ctx(code, s.text, s.start)
      BY DEF Awaits
    <2>2. look
      BY <2>1, PendingLooks
    <2>3. got.cache.states[got.id] = Start(code, left)
      BY <1>6, <1>7, <2>1, DeadWaitsNot
    <2>4. got.cache.states[got.id].ctx = left
      BY <2>1, <2>3, WaitingContext DEF Start
    <2>5. QED
      BY <1>5, <2>2, <2>4
  <1>10. Placed(s, s.start) /\ s.start \in Nat /\ Len(s.text) \in Nat
    BY LenProperties DEF Placed
  <1>11. Counted'
    BY <1>2, <1>10, SizeAssumption DEF Counted, Scanning
  <1>12. Outcome'
    BY <1>2 DEF Outcome
  <1>13. code' = code
    BY <1>2 DEF code
  <1>14. RowsIn(cache)' /\ Placed(scan, pos)' /\ Awaits(cache, state, scan, pos)'
    BY <1>2, <1>8, <1>9, <1>10, <1>13 DEF RowsIn, Placed, Awaits
  <1>15. QuitsHaveCause'
    BY <1>2 DEF QuitsHaveCause
  <1>16. program' \in Programs
    BY <1>2 DEF Scanning
  <1>17. QED
    BY <1>11, <1>12, <1>14, <1>15, <1>16 DEF Scanning

LEMMA CutScans ==
  ASSUME Sound, Scanning, cut
  PROVE  Scanning'
  <1>1. PICK got : got = Fetch("cuts", state, Cut(code, here), miss_pos)
    OBVIOUS
  <1>2. /\ AdoptInScan(InScan(got), miss_pos)
        /\ program' = program /\ scan' = scan /\ pos' = pos /\ answer' = answer
        /\ best_end' = pos /\ matched' = TRUE /\ at' = "cut"
        /\ Accepts(code, here) # {}
    BY <1>1 DEF cut
  <1>3. Contained(code) /\ here.pcs \in Seq(DOMAIN code)
    BY ProgramContained DEF Scanning, RowsIn, Sound, here
  <1>4. Cut(code, here).pcs \in Seq(DOMAIN code)
    BY <1>2, <1>3, AskedRows
  <1>5. RowsIn(got.cache)
    BY <1>1, <1>3, <1>4, FetchRows DEF Sound, Scanning, Tables
  <1>6. InScan(got).cache = got.cache
    BY <1>1 DEF InScan, Fetch, intern
  <1>7. cache' = got.cache /\ code' = code
    BY <1>2, <1>6 DEF AdoptInScan, Adopt, code
  <1>8. RowsIn(cache)' /\ Placed(scan, pos)'
    BY <1>2, <1>5, <1>7 DEF RowsIn, Placed, Scanning
  <1>9. Counted'
    BY <1>2, AdoptedCounts DEF Scanning, Counted
  <1>10. Outcome'
    BY <1>2 DEF Outcome, Scanning, Placed, text
  <1>11. QuitsHaveCause'
    BY <1>2 DEF QuitsHaveCause
  <1>12. QED
    BY <1>2, <1>8, <1>9, <1>10, <1>11 DEF Scanning

LEMMA FinishScans ==
  ASSUME Sound, Scanning, finish
  PROVE  Scanning'
  <1>1. /\ program' = program /\ cache' = cache /\ scan' = scan /\ pos' = pos
        /\ thrashing' = thrashing /\ flushed' = flushed /\ scan_origin' = scan_origin
        /\ miss_pos' = miss_pos /\ at' = "idle" /\ best_end' = npos /\ matched' = FALSE
        /\ answer' = IF thrashing THEN quit_pos ELSE best_end
        /\ window_bytes' = (window_bytes + pos - scan_origin) % SizeValues
    BY DEF finish, Ended
  <1>2. /\ window_bytes \in Int /\ pos \in Int /\ scan_origin \in Int
        /\ Len(text) \in Nat /\ pos \in 0 .. Len(text)
    BY LenProperties DEF Scanning, Counted, Placed, text
  <1>3. window_bytes' \in 0 .. SizeValues - 1
    <2>1. \A n \in Int : n % SizeValues \in 0 .. SizeValues - 1
      BY SizeAssumption
    <2>2. window_bytes + pos - scan_origin \in Int
      BY <1>2
    <2>3. QED
      BY <1>1, <2>1, <2>2
  <1>4. Counted'
    BY <1>1, <1>3 DEF Counted, Scanning
  <1>5. code' = code /\ RowsIn(cache)' /\ Placed(scan, pos)'
    BY <1>1 DEF code, RowsIn, Placed, Scanning
  <1>6. Outcome'
    <2>1. text' = text
      BY <1>1 DEF text
    <2>2. best_end \in {npos} \cup 0 .. Len(text)
      BY <1>2 DEF Scanning, Outcome
    <2>3. answer' \in {npos, quit_pos} \cup 0 .. Len(text)
      BY <1>1, <2>2
    <2>4. QED
      BY <1>1, <2>1, <2>3 DEF Outcome
  <1>7. QuitsHaveCause'
    BY <1>1 DEF QuitsHaveCause, Scanning, Outcome, npos, quit_pos
  <1>8. QED
    BY <1>1, <1>4, <1>5, <1>6, <1>7 DEF Scanning

LEMMA StepScans ==
  ASSUME Sound, Scanning, step
  PROVE  Scanning'
  <1>1. PICK byte, seeded : byte = ByteAt(text, pos) /\ seeded = Seeds
    OBVIOUS
  <1>2. seeded \in BOOLEAN
    BY <1>1 DEF Seeds
  <1>3. PICK t : t = IF seeded THEN "trans_seeded" ELSE "trans"
    OBVIOUS
  <1>4. t \in Tables /\ t # "res" /\ t \in {"trans", "trans_seeded"} /\ (t = "trans_seeded") = seeded
    BY <1>2, <1>3 DEF Tables
  <1>5. PICK key, set : key = <<state, alphabet(code, byte)>> /\ set = Stepped(code, here, byte, seeded)
    OBVIOUS
  <1>6. PICK got : got = Fetch(t, key, set, pos)
    OBVIOUS
  <1>7. /\ pos \in Nat /\ pos < Len(text) /\ Len(text) \in Nat /\ text \in Seq(Bytes)
        /\ byte \in Bytes /\ byte \in alphabet(code, byte)
    <2>1. text \in Seq(Bytes) /\ pos \in 0 .. Len(text) /\ Len(text) \in Nat
      BY LenProperties DEF Scanning, Placed, text
    <2>2. pos # Len(text)
      BY DEF step, Over
    <2>3. pos + 1 \in 1 .. Len(text) /\ byte = text[pos + 1]
      BY <1>1, <2>1, <2>2 DEF ByteAt
    <2>4. byte \in Bytes
      BY <2>1, <2>3, ElementOfSeq
    <2>5. QED
      BY <2>1, <2>2, <2>3, <2>4 DEF alphabet
  <1>8. Contained(code) /\ here.pcs \in Seq(DOMAIN code) /\ set.pcs \in Seq(DOMAIN code)
    BY <1>5, ProgramContained, AskedRows DEF Scanning, RowsIn, Sound, here
  <1>9. RowsIn(got.cache)
    BY <1>4, <1>6, <1>8, FetchRows DEF Sound, Scanning
  <1>10. \A d, id : KeepsRows(cache, d) /\ id \in Rows(d) /\ d.states[id] = set =>
                      Means(code, d, t, key, id)
    BY <1>2, <1>3, <1>5, EdgeMeans DEF Sound
  <1>11. /\ CacheOK(code, got.cache)
         /\ got.how \in {"known", "kept", "refused", "flushed"}
         /\ got.how \in {"kept", "flushed"} => got.cache.states[got.id] = set
         /\ got.how \in {"known", "refused"} => got.cache = cache
         /\ got.how = "refused" => got.id = dead_state
         /\ got.how = "known" => Means(code, cache, t, key, got.id) \/ got.id = dead_state
         /\ got = [id |-> got.id, cache |-> got.cache, how |-> got.how]
    BY <1>4, <1>5, <1>6, <1>10, FetchFacts, SetsAreDead DEF Sound
  <1>12. got.id = dead_state \/ got.cache.states[got.id] = set
    <2>1. ASSUME Means(code, cache, t, key, got.id)
          PROVE  cache.states[got.id] = set
      <3>1. key[1] = state /\ key[2] = alphabet(code, byte)
        BY <1>5
      <3>2. cache.states[got.id] = Stepped(code, cache.states[key[1]], byte, t = "trans_seeded")
        BY <1>4, <1>7, <2>1, <3>1 DEF Means
      <3>3. QED
        BY <1>4, <1>5, <3>1, <3>2 DEF here
    <2>2. QED
      BY <1>11, <2>1
  <1>13. InScan(got).cache = got.cache /\ InScan(got).id \in {got.id, dead_state}
    BY <1>11 DEF InScan
  <1>14. \/ /\ Ended(quit_pos) /\ cache' = got.cache /\ thrashing' = TRUE
            /\ flushed' = (flushed \/ got.how = "flushed") /\ miss_pos' = pos
            /\ window_bytes' \in {0, window_bytes} /\ scan_origin' \in {pos, scan_origin}
            /\ pos' = pos
         \/ /\ AdoptInScan(InScan(got), pos)
            /\ at' = "read" /\ pos' = pos + 1
            /\ UNCHANGED <<best_end, matched, answer>>
    BY <1>1, <1>3, <1>5, <1>6 DEF step
  <1>15. program' = program /\ scan' = scan /\ code' = code
    BY DEF step, code
  <1>16. cache' = got.cache
    BY <1>13, <1>14 DEF AdoptInScan, Adopt
  <1>17. RowsIn(cache)'
    BY <1>9, <1>15, <1>16 DEF RowsIn
  <1>18. pos' \in {pos, pos + 1} /\ Placed(scan, pos)'
    BY <1>7, <1>14, <1>15 DEF Placed, Scanning, text
  <1>19. Counted'
    <2>1. CASE AdoptInScan(InScan(got), pos)
      BY <1>7, <2>1, AdoptedCounts DEF Scanning
    <2>2. CASE ~AdoptInScan(InScan(got), pos)
      <3>1. /\ thrashing' = TRUE /\ flushed' = (flushed \/ got.how = "flushed") /\ miss_pos' = pos
            /\ window_bytes' \in {0, window_bytes} /\ scan_origin' \in {pos, scan_origin}
        BY <1>14, <2>2
      <3>2. flushed' \in BOOLEAN
        BY <3>1
      <3>3. window_bytes' \in 0 .. SizeValues - 1 /\ scan_origin' \in Nat /\ miss_pos' \in Nat
        BY <1>7, <3>1, SizeAssumption DEF Counted, Scanning
      <3>4. QED
        BY <3>1, <3>2, <3>3 DEF Counted
    <2>3. QED
      BY <2>1, <2>2
  <1>20. Outcome'
    <2>1. text' = text
      BY <1>15 DEF text
    <2>2. CASE Ended(quit_pos)
      BY <2>1, <2>2 DEF Outcome, Ended
    <2>3. CASE at' = "read" /\ pos' = pos + 1 /\ UNCHANGED <<best_end, matched, answer>>
      <3>1. best_end' \in {npos} \cup 0 .. pos'
        BY <1>7, <2>3 DEF Outcome, Scanning
      <3>2. QED
        BY <2>1, <2>3, <3>1 DEF Outcome, Scanning
    <2>4. QED
      BY <1>14, <2>2, <2>3
  <1>21. ASSUME at' = "read" PROVE Awaits(cache, state, scan, pos)'
    <2>1. AdoptInScan(InScan(got), pos) /\ pos' = pos + 1
      BY <1>14, <1>21 DEF Ended
    <2>2. state' \in {got.id, dead_state}
      BY <1>13, <2>1 DEF AdoptInScan, Adopt
    <2>3. SUFFICES ASSUME Pending(code, got.cache.states[state'])
                   PROVE  got.cache.states[state'].ctx = left_ctx(code, text, pos + 1)
      BY <1>15, <1>16, <2>1 DEF Awaits, text
    <2>4. got.cache.states[state'] = set
      BY <1>11, <1>12, <2>2, <2>3, DeadWaitsNot
    <2>5. set.ctx = class_ctx(alphabet(code, byte))
      BY <1>5, <2>3, <2>4, WaitingContext DEF Stepped
    <2>6. left_ctx(code, text, pos + 1) = class_ctx(alphabet(code, byte))
      <3>1. PICK q : q = pos + 1
        OBVIOUS
      <3>2. q # 0 /\ q - 1 = pos
        BY <1>7, <3>1
      <3>3. left_ctx(code, text, q) = class_ctx(alphabet(code, byte))
        BY <1>1, <3>2 DEF left_ctx
      <3>4. QED
        BY <3>1, <3>3
    <2>7. QED
      BY <2>4, <2>5, <2>6
  <1>22. QuitsHaveCause'
    BY <1>14 DEF QuitsHaveCause, Ended
  <1>23. QED
    BY <1>15, <1>17, <1>18, <1>19, <1>20, <1>21, <1>22 DEF Scanning

\* Only a word boundary with a byte outside ASCII on a side is left undecided.
LEMMA UndecidedWords ==
  ASSUME NEW kind, NEW left, NEW right, undecidable_word(kind, left, right)
  PROVE  kind \in WordKinds /\ (left = "nonascii" \/ right = "nonascii")
  BY DEF undecidable_word, WordKinds

\* A resolution that quits is at such a boundary.
LEMMA QuitIsCaused ==
  ASSUME Scanning, look, Undecides(code, left_ctx(code, text, pos), Right)
  PROVE  /\ \E pc \in DOMAIN code : code[pc].op = "assert_position" /\ code[pc].kind \in WordKinds
         /\ \E p \in scan.start .. pos :
              HasByte(text, p, Bytes \ Ascii) \/ (p > 0 /\ ByteAt(text, p - 1) \notin Ascii)
  <1>1. PICK left, pc : /\ left = left_ctx(code, text, pos)
                        /\ pc \in asserting(code) /\ undecidable_word(code[pc].kind, left, Right)
    BY DEF Undecides
  <1>2. /\ pc \in DOMAIN code /\ code[pc].op = "assert_position" /\ code[pc].kind \in WordKinds
        /\ left = "nonascii" \/ Right = "nonascii"
    BY <1>1, UndecidedWords DEF asserting
  <1>3. /\ text \in Seq(Bytes) /\ pos \in 0 .. Len(text) /\ Len(text) \in Nat
        /\ scan.start \in 0 .. pos /\ \A i \in 1 .. Len(text) : text[i] \in Bytes
    BY LenProperties, ElementOfSeq DEF Scanning, Placed, text
  <1>4. ASSUME NEW b \in Bytes, class_ctx(alphabet(code, b)) = "nonascii"
        PROVE  b \notin Ascii
    <2>1. b \in alphabet(code, b)
      BY DEF alphabet
    <2>2. Context(b) = "nonascii"
      BY <1>4, <2>1, ContextAlike DEF look
    <2>3. QED
      BY <2>2 DEF Context
  <1>5. CASE left = "nonascii"
    <2>1. pos # 0 /\ class_ctx(alphabet(code, ByteAt(text, pos - 1))) = "nonascii"
      BY <1>1, <1>5 DEF left_ctx
    <2>2. ByteAt(text, pos - 1) \in Bytes
      BY <1>3, <2>1 DEF ByteAt
    <2>3. pos > 0 /\ ByteAt(text, pos - 1) \notin Ascii
      BY <1>3, <1>4, <2>1, <2>2
    <2>4. pos \in scan.start .. pos
      BY <1>3
    <2>5. QED
      BY <1>2, <2>3, <2>4
  <1>6. CASE Right = "nonascii"
    <2>1. pos # Len(text) /\ class_ctx(alphabet(code, ByteAt(text, pos))) = "nonascii"
      BY <1>6 DEF Right, right_ctx
    <2>2. ByteAt(text, pos) \in Bytes
      BY <1>3, <2>1 DEF ByteAt
    <2>3. HasByte(text, pos, Bytes \ Ascii)
      BY <1>3, <1>4, <2>1, <2>2 DEF HasByte
    <2>4. pos \in scan.start .. pos
      BY <1>3
    <2>5. QED
      BY <1>2, <2>3, <2>4
  <1>7. QED
    BY <1>2, <1>5, <1>6

\* Every key of a resolution names something that may come next.
LEMMA KeyIsSome ==
  ASSUME Scanning
  PROVE  Key # {}
  <1>1. CASE Right \in {"end", "final_newline"}
    BY <1>1 DEF Key
  <1>2. CASE Right \notin {"end", "final_newline"}
    <2>1. PICK b : b = ByteAt(text, pos)
      OBVIOUS
    <2>2. pos # Len(text)
      BY <1>2 DEF Right, right_ctx
    <2>3. text \in Seq(Bytes) /\ pos + 1 \in 1 .. Len(text)
      BY <2>2, LenProperties DEF Scanning, Placed, text
    <2>4. b \in Bytes
      BY <2>1, <2>3, ElementOfSeq DEF ByteAt
    <2>5. b \in Key
      BY <1>2, <2>1, <2>4 DEF Key, alphabet
    <2>6. QED
      BY <2>5
  <1>3. QED
    BY <1>1, <1>2

LEMMA RowsAreOnes ==
  ASSUME NEW c, CacheOK(code, c)
  PROVE  quit_state \notin Rows(c)
  <1>1. PICK S, F : c \in [states : Seq(S), known : [Tables -> F]]
    BY DEF CacheOK, Shaped
  <1>2. DOMAIN c.states = 1 .. Len(c.states) /\ Len(c.states) \in Nat
    BY <1>1, LenProperties
  <1>3. QED
    BY <1>2 DEF Rows, quit_state

LEMMA ResolveScans ==
  ASSUME Sound, Scanning, resolve
  PROVE  Scanning'
  <1>1. PICK met, memo : met = Resolution(code, here, Right) /\ memo = <<state, Key>>
    OBVIOUS
  <1>2. look /\ Contained(code) /\ here.pcs \in Seq(DOMAIN code)
    BY PendingLooks, ProgramContained DEF resolve, Scanning, RowsIn, Sound, here
  <1>3. here.ctx = left_ctx(code, text, pos)
    BY DEF resolve, Scanning, Awaits, here, text
  <1>4. met.quit => Undecides(code, left_ctx(code, text, pos), Right)
    BY <1>1, <1>2, <1>3, CloseFacts DEF SoFar, Resolution
  <1>5. PICK quits : quits = [id |-> quit_state, how |-> "kept",
                              cache |-> [cache EXCEPT !.known["res"] = WithEntry(@, memo, quit_state)]]
    OBVIOUS
  <1>6. PICK fetched : fetched = Fetch("res", memo, Set(code, met.out, "none"), miss_pos)
    OBVIOUS
  <1>7. PICK got : got = IF ~Known("res", memo) /\ met.quit THEN quits ELSE fetched
    OBVIOUS
  <1>8. RowsIn(got.cache)
    <2>1. RowsIn(fetched.cache)
      <3>1. Set(code, met.out, "none").pcs \in Seq(DOMAIN code)
        BY <1>1, <1>2, AskedRows
      <3>2. QED
        BY <1>2, <1>6, <3>1, FetchRows DEF Sound, Scanning, Tables
    <2>2. RowsIn(quits.cache)
      <3>1. PICK S, F : cache \in [states : Seq(S), known : [Tables -> F]]
        BY DEF Sound, CacheOK, Shaped
      <3>2. quits.cache.states = cache.states
        BY <1>5, <3>1
      <3>3. QED
        BY <3>2 DEF RowsIn, Rows, Scanning
    <2>3. QED
      BY <1>7, <2>1, <2>2
  <1>9. got.id = quit_state => met.quit
    <2>1. CASE Known("res", memo)
      <3>1. fetched.id = cache.known["res"][memo]
        BY <1>6, <2>1 DEF Fetch
      <3>2. Means(code, cache, "res", memo, fetched.id)
        BY <2>1, <3>1 DEF Known, Sound, CacheOK, Tables
      <3>3. memo[1] = state /\ memo[2] = Key
        BY <1>1
      <3>4. PICK ahead : ahead \in Key
        BY KeyIsSome
      <3>5. (IF ahead \in Bytes THEN Context(ahead) ELSE ahead) = Right
        BY <1>2, <3>4, KeyTells
      <3>6. IF met.quit THEN fetched.id = quit_state ELSE fetched.id \in Rows(cache)
        BY <1>1, <3>2, <3>3, <3>4, <3>5 DEF Means, here
      <3>7. QED
        BY <1>7, <2>1, <3>6, RowsAreOnes DEF Sound
    <2>2. CASE ~Known("res", memo) /\ ~met.quit
      <3>1. PICK in : in = intern(Set(code, met.out, "none"), miss_pos)
        OBVIOUS
      <3>2. /\ in.id \in Rows(in.cache) /\ CacheOK(code, in.cache)
            /\ in = [id |-> in.id, cache |-> in.cache, how |-> in.how]
        BY <3>1, InternFacts, SetsAreDead DEF Sound
      <3>3. fetched.id = in.id
        BY <1>6, <2>2, <3>1, <3>2 DEF Fetch
      <3>4. QED
        BY <1>7, <2>2, <3>2, <3>3, RowsAreOnes
    <2>3. QED
      BY <2>1, <2>2
  <1>10. /\ program' = program /\ scan' = scan /\ pos' = pos
         /\ \/ got.id = quit_state /\ Ended(quit_pos) /\ cache' = got.cache /\ UNCHANGED policy
            \/ /\ got.id # quit_state /\ AdoptInScan(got, miss_pos) /\ at' = "resolved"
               /\ UNCHANGED <<best_end, matched, answer>>
    BY <1>1, <1>5, <1>6, <1>7 DEF resolve
  <1>11. code' = code /\ text' = text /\ cache' = got.cache
    BY <1>10 DEF code, text, AdoptInScan, Adopt
  <1>12. RowsIn(cache)' /\ Placed(scan, pos)'
    BY <1>8, <1>10, <1>11 DEF RowsIn, Placed, Scanning
  <1>13. Counted'
    <2>1. CASE UNCHANGED policy
      BY <2>1 DEF policy, Counted, Scanning
    <2>2. CASE AdoptInScan(got, miss_pos)
      BY <2>2, AdoptedCounts DEF Scanning, Counted
    <2>3. QED
      BY <1>10, <2>1, <2>2
  <1>14. Outcome'
    BY <1>10, <1>11 DEF Outcome, Scanning, Ended
  <1>15. QuitsHaveCause'
    <2>1. CASE at' = "resolved"
      BY <2>1 DEF QuitsHaveCause
    <2>2. CASE got.id = quit_state
      BY <1>2, <1>4, <1>9, <1>10, <1>11, <2>2, QuitIsCaused DEF QuitsHaveCause
    <2>3. QED
      BY <1>10, <2>1, <2>2
  <1>16. at' # "read"
    BY <1>10 DEF Ended
  <1>17. QED
    BY <1>10, <1>12, <1>13, <1>14, <1>15, <1>16 DEF Scanning

LEMMA WalkScans ==
  ASSUME Sound, Scanning, Walk
  PROVE  Scanning'
  BY ResolveScans, CutScans, StepScans, FinishScans DEF Walk

-----------------------------------------------------------------------------
(* The route starts its scans inside the subject.                          *)

RouteFits ==
  /\ Sound /\ Scanning
  /\ subject \in Seq(Bytes)
  /\ stage = "candidates" => candidate \in 0 .. Len(subject)
  /\ stage = "walk" => text = subject /\ scan.start = candidate

LEMMA KeptScans ==
  ASSUME Scanning, DfaKept
  PROVE  Scanning'
  <1>1. /\ program' = program /\ cache' = cache /\ state' = state /\ scan' = scan /\ pos' = pos
        /\ at' = at /\ best_end' = best_end /\ matched' = matched /\ answer' = answer
        /\ thrashing' = thrashing /\ flushed' = flushed /\ window_bytes' = window_bytes
        /\ scan_origin' = scan_origin /\ miss_pos' = miss_pos
    BY DEF DfaKept, dfa_vars, policy, registers
  <1>2. code' = code /\ text' = text
    BY <1>1 DEF code, text
  <1>3. RowsIn(cache)' /\ Placed(scan, pos)' /\ Counted' /\ Outcome'
    BY <1>1, <1>2 DEF Scanning, RowsIn, Placed, Counted, Outcome
  <1>4. (at = "read" => Awaits(cache, state, scan, pos))'
    BY <1>1, <1>2 DEF Scanning, Awaits
  <1>5. QuitsHaveCause'
    BY <1>1, <1>2 DEF Scanning, QuitsHaveCause
  <1>6. QED
    BY <1>1, <1>3, <1>4, <1>5 DEF Scanning

LEMMA StartSearchFits ==
  ASSUME RouteFits, NEW s \in program.searches, StartSearch(s)
  PROVE  RouteFits'
  <1>1. s.text \in Seq(Bytes) /\ s.start \in Nat /\ s.forbid \in Nat /\ Len(s.text) \in Nat
    BY SubjectsAssumption, LenProperties DEF RouteFits, Scanning
  <1>2. subject' = s.text
    BY DEF StartSearch, subject
  <1>3. Sound'
    BY StartSearchSound DEF RouteFits
  <1>4. CASE MatchByTable(s)
    <2>1. DfaKept /\ stage' = "idle"
      BY <1>4 DEF MatchByTable, MatchFull, MatchGroups, FromTable, Answered, DfaKept
    <2>2. QED
      BY <1>1, <1>2, <1>3, <2>1, KeptScans DEF RouteFits
  <1>5. CASE MatchPrefix(s)
    <2>1. s.start \in 0 .. Len(s.text)
      BY <1>1, <1>5 DEF MatchPrefix, LongEnough
    <2>2. /\ stage' \in {"prefix", "idle"}
          /\ DfaKept \/ Begin([text |-> s.text, start |-> s.start, anchored |-> TRUE])
      BY <1>5 DEF MatchPrefix, Answered, DfaKept
    <2>3. Scanning'
      BY <1>1, <2>1, <2>2, KeptScans, BeginScans DEF RouteFits
    <2>4. QED
      BY <1>1, <1>2, <1>3, <2>2, <2>3 DEF RouteFits
  <1>6. CASE SearchText(s)
    <2>1. PICK from : from = LeftFrom(s)
      OBVIOUS
    <2>2. from \in Nat
      BY <1>1, <2>1 DEF LeftFrom
    <2>3. /\ stage' \in {"idle", "candidates", "pass"} /\ candidate' = from
          /\ stage' # "idle" => from <= Len(s.text)
          /\ \/ DfaKept
             \/ /\ Begin([text |-> s.text, start |-> from, anchored |-> FALSE])
                /\ from <= Len(s.text)
      BY <1>6, <2>1 DEF SearchText, Answered, DfaKept, LongEnough
    <2>4. Scanning'
      BY <1>1, <2>2, <2>3, KeptScans, BeginScans DEF RouteFits
    <2>5. QED
      BY <1>1, <1>2, <1>3, <2>2, <2>3, <2>4 DEF RouteFits
  <1>7. QED
    BY <1>4, <1>5, <1>6 DEF StartSearch

LEMMA ProceedFits ==
  ASSUME RouteFits, Proceed
  PROVE  RouteFits'
  <1>1. Sound'
    BY ProceedSound DEF RouteFits
  <1>2. subject' = subject /\ Len(subject) \in Nat
    <2>1. search' = search
      BY DEF Proceed, Forward, Backward, PrefixWalked, NextCandidate, Walked, Passed, WalkedBack, route
    <2>2. QED
      BY <2>1, LenProperties DEF RouteFits, subject
  <1>3. CASE Forward
    <2>1. Scanning'
      BY <1>3, WalkScans DEF Forward, RouteFits
    <2>2. stage' = stage /\ candidate' = candidate
      BY <1>3 DEF Forward, route
    <2>3. scan' = scan /\ text' = text
      BY <1>3 DEF Forward, Walk, resolve, cut, step, finish, text
    <2>4. QED
      BY <1>1, <1>2, <2>1, <2>2, <2>3 DEF RouteFits
  <1>4. CASE Backward
    <2>1. DfaKept
      BY <1>4 DEF Backward, Backwards!Walk, Backwards!resolve, Backwards!step, Backwards!finish, DfaKept
    <2>2. stage' = stage /\ candidate' = candidate
      BY <1>4 DEF Backward, route
    <2>3. scan' = scan /\ text' = text
      BY <2>1 DEF DfaKept, dfa_vars, registers, text
    <2>4. QED
      BY <1>1, <1>2, <2>1, <2>2, <2>3, KeptScans DEF RouteFits
  <1>5. CASE PrefixWalked
    <2>1. DfaKept /\ stage' = "idle"
      BY <1>5 DEF PrefixWalked, Declined, Answered, DfaKept
    <2>2. QED
      BY <1>1, <1>2, <2>1, KeptScans DEF RouteFits
  <1>6. CASE NextCandidate
    <2>1. PICK c : c = next_candidate(hints, subject, candidate, scan_start)
      OBVIOUS
    <2>2. CASE c = npos
      <3>1. DfaKept /\ stage' = "idle"
        BY <1>6, <2>1, <2>2 DEF NextCandidate, Answered, DfaKept
      <3>2. QED
        BY <1>1, <1>2, <3>1, KeptScans DEF RouteFits
    <2>3. CASE c # npos
      <3>1. /\ Begin([text |-> subject, start |-> c, anchored |-> TRUE])
            /\ candidate' = c /\ stage' = "walk" /\ stage = "candidates"
        BY <1>6, <2>1, <2>3 DEF NextCandidate, AnchoredAt
      <3>2. c \in 0 .. Len(subject)
        <4>1. candidate \in Nat /\ subject \in Seq(Bytes)
          BY <1>2, <3>1 DEF RouteFits
        <4>2. c \in candidate .. Len(subject)
          BY <2>1, <2>3, <4>1, NextCandidateFits
        <4>3. QED
          BY <1>2, <4>1, <4>2
      <3>3. Scanning'
        BY <3>1, <3>2, BeginScans DEF RouteFits
      <3>4. text' = subject /\ scan'.start = c
        BY <3>1 DEF Begin, text
      <3>5. QED
        BY <1>1, <1>2, <3>1, <3>3, <3>4 DEF RouteFits
    <2>4. QED
      BY <2>2, <2>3
  <1>7. CASE Walked
    <2>1. candidate \in 0 .. pos /\ pos \in 0 .. Len(subject)
      BY <1>7 DEF Walked, RouteFits, Scanning, Placed, text
    <2>2. \/ DfaKept /\ stage' = "idle"
          \/ DfaKept /\ stage' = "candidates" /\ candidate' = candidate + 1 /\ pos # Len(subject)
          \/ /\ Begin([text |-> subject, start |-> candidate + 1, anchored |-> FALSE])
             /\ stage' = "pass" /\ candidate < Len(subject)
      BY <1>7 DEF Walked, Declined, Located, Answered, DfaKept, PassFrom, AfterCandidate
    <2>3. CASE DfaKept /\ stage' = "idle"
      BY <1>1, <1>2, <2>3, KeptScans DEF RouteFits
    <2>4. CASE DfaKept /\ stage' = "candidates" /\ candidate' = candidate + 1 /\ pos # Len(subject)
      <3>1. candidate' \in 0 .. Len(subject)
        BY <1>2, <2>1, <2>4
      <3>2. QED
        BY <1>1, <1>2, <2>4, <3>1, KeptScans DEF RouteFits
    <2>5. CASE /\ Begin([text |-> subject, start |-> candidate + 1, anchored |-> FALSE])
               /\ stage' = "pass" /\ candidate < Len(subject)
      <3>1. candidate + 1 \in 0 .. Len(subject)
        BY <1>2, <2>1, <2>5
      <3>2. Scanning'
        BY <2>5, <3>1, BeginScans DEF RouteFits
      <3>3. QED
        BY <1>1, <1>2, <2>5, <3>2 DEF RouteFits
    <2>6. QED
      BY <2>2, <2>3, <2>4, <2>5
  <1>8. CASE Passed
    <2>1. DfaKept /\ stage' \in {"idle", "back"}
      BY <1>8 DEF Passed, Declined, Answered, DfaKept
    <2>2. QED
      BY <1>1, <1>2, <2>1, KeptScans DEF RouteFits
  <1>9. CASE WalkedBack
    <2>1. DfaKept /\ stage' = "idle"
      BY <1>9 DEF WalkedBack, Declined, Located, Answered, DfaKept
    <2>2. QED
      BY <1>1, <1>2, <2>1, KeptScans DEF RouteFits
  <1>10. QED
    BY <1>3, <1>4, <1>5, <1>6, <1>7, <1>8, <1>9 DEF Proceed

LEMMA NextFits ==
  ASSUME RouteFits, [RouteNext]_<<vars, rev_vars, route>>
  PROVE  RouteFits'
  <1>1. CASE \E s \in program.searches : StartSearch(s)
    BY <1>1, StartSearchFits
  <1>2. CASE Rest \/ UNCHANGED <<vars, rev_vars, route>>
    <2>1. DfaKept /\ UNCHANGED route
      BY <1>2 DEF Rest, vars, dfa_vars, DfaKept
    <2>2. Sound' /\ Scanning'
      BY <2>1, KeptSound, KeptScans DEF RouteFits
    <2>3. /\ subject' = subject /\ stage' = stage /\ candidate' = candidate
          /\ text' = text /\ scan' = scan
      BY <2>1 DEF route, DfaKept, dfa_vars, registers, subject, text
    <2>4. QED
      BY <2>2, <2>3 DEF RouteFits
  <1>3. QED
    BY <1>1, <1>2, ProceedFits DEF RouteNext

LEMMA InitFits ==
  ASSUME RouteInit
  PROVE  RouteFits
  <1>1. Sound
    BY InitSound DEF RouteInit
  <1>2. /\ program \in Programs /\ cache = Flushed /\ scan = no_scan /\ at = "idle" /\ pos = 0
        /\ best_end = npos /\ matched = FALSE /\ answer = npos /\ thrashing = FALSE
        /\ flushed = FALSE /\ window_bytes = 0 /\ scan_origin = 0 /\ miss_pos = 0
        /\ search = no_search /\ stage = "idle"
    BY DEF RouteInit, Init
  <1>3. RowsIn(cache)
    BY <1>2, ProgramContained, FlushedRows
  <1>4. <<>> \in Seq(Bytes) /\ Len(<<>>) = 0
    OBVIOUS
  <1>5. text = <<>> /\ scan.start = 0
    BY <1>2 DEF text, no_scan
  <1>6. Placed(scan, pos)
    BY <1>2, <1>4, <1>5 DEF Placed, text
  <1>7. Counted
    <2>1. 0 \in 0 .. SizeValues - 1
      BY SizeAssumption
    <2>2. QED
      BY <1>2, <2>1 DEF Counted
  <1>8. Outcome
    BY <1>2 DEF Outcome
  <1>9. QuitsHaveCause
    BY <1>2 DEF QuitsHaveCause, npos, quit_pos
  <1>10. subject \in Seq(Bytes)
    BY <1>2, <1>4 DEF subject, no_search
  <1>11. QED
    BY <1>1, <1>2, <1>3, <1>6, <1>7, <1>8, <1>9, <1>10 DEF RouteFits, Scanning

\* Every scan stays inside its subject, on rows of the code's counters, in the context it reads.
THEOREM ScansFit == RouteSpec => []RouteFits
  <1>1. RouteInit => RouteFits
    BY InitFits
  <1>2. RouteFits /\ [RouteNext]_<<vars, rev_vars, route>> => RouteFits'
    BY NextFits
  <1>3. QED
    BY <1>1, <1>2, PTL DEF RouteSpec

\* The scan's state is a row, rows hold counters of the code, positions are in the text and the
\* window is a size_t, whatever the route asks of the DFA and whenever its cache is flushed.
THEOREM ScanTyped == RouteSpec => []TypeOK
  <1>1. RouteFits => TypeOK
    <2>1. SUFFICES ASSUME RouteFits PROVE TypeOK
      OBVIOUS
    <2>2. \A id \in Ids : Range(cache.states[id].pcs) \subseteq DOMAIN code
      <3>1. \A s \in Seq(DOMAIN code) : Range(s) \subseteq DOMAIN code
        BY ElementOfSeq, LenProperties DEF Range
      <3>2. QED
        BY <2>1, <3>1 DEF RouteFits, Scanning, RowsIn, Rows, Ids
    <2>3. QED
      BY <2>1, <2>2 DEF RouteFits, Sound, Scanning, Placed, Counted, Outcome, TypeOK, Rows, Ids, text
  <1>2. QED
    BY <1>1, ScansFit, PTL

\* A scan quits only where its cache was refused a flush, or at a word boundary with a byte
\* outside ASCII on a side, be the resolution built or remembered.
THEOREM QuitsCaused == RouteSpec => []QuitsHaveCause
  <1>1. RouteFits => QuitsHaveCause
    BY DEF RouteFits, Scanning
  <1>2. QED
    BY <1>1, ScansFit, PTL

=============================================================================
