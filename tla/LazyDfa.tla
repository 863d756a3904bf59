-------------------------------- MODULE LazyDfa --------------------------------
(***************************************************************************)
(* The lazy forward DFA and the scans that share its cache.  A state is    *)
(* the ordered epsilon closure of a set of counters; edges, cuts at an     *)
(* accept, resolutions of pending assertions and start states are built    *)
(* on the first use and remembered.  The cache is bounded: a full one is   *)
(* flushed in the middle of a scan, or, when the last filling did not pay, *)
(* kept, and the scan quits.  One action takes one cached value or builds  *)
(* it.  A quit leaves the search to the VM.                                *)
(***************************************************************************)
EXTENDS ForwardSets

CONSTANTS
  Programs,              \* [code, ...], the code a byte program
  state_budget,
  quit_bytes_per_state,
  SizeValues             \* the values of a size_t

\* What build_byte_program emits: the compiler's code, and its code-point classes as tries.
ASSUME ProgramsAssumption == \A p \in Programs : Contained(p.code)
ASSUME BudgetAssumption == state_budget \in Nat /\ quit_bytes_per_state \in Nat
ASSUME SizeAssumption == SizeValues \in Nat \ {0}

VARIABLES
  program,        \* the one the DFA was built for
  cache,          \* states and what is remembered of them
  thrashing,      \* this scan was refused a flush
  flushed,        \* the cache has been flushed (stats_.flushes)
  window_bytes,   \* bytes read since the last flush by scans that have ended
  scan_origin,    \* where the current scan's bytes are counted from
  miss_pos,       \* the position of the latest missing edge
  scan,           \* the arguments of the scan in progress, or of the last one
  at,             \* idle, read, resolved, cut
  state, pos, best_end, matched,
  answer          \* the last scan's answer

registers == <<scan, at, state, pos, best_end, matched, answer>>
policy == <<thrashing, flushed, window_bytes, scan_origin, miss_pos>>
vars == <<program, cache, policy, registers>>

code == program.code
look == looks(code)
text == scan.text

\* States are the rows of the cache, from 1 on.
dead_state == 1
start_state == 2
quit_state == 0
quit_pos == -2

no_scan == [text |-> <<>>, start |-> 0, anchored |-> FALSE]

-----------------------------------------------------------------------------
(* The cache: states, and in each table what has been asked already.       *)

Tables == {"trans", "trans_seeded", "cuts", "res", "starts"}

\* The dead state, then the start of the text.
Flushed ==
  [states |-> << Set(code, <<>>, "none"), Start(code, "start") >>,
   known |-> [t \in Tables |-> IF t = "starts" THEN [left \in {"start"} |-> start_state] ELSE <<>>]]

\* A row of dead edges is made with the dead state.
Known(table, key) ==
  key \in DOMAIN cache.known[table] \/ (table = "trans" /\ key[1] = dead_state)
Find(set) == {id \in DOMAIN cache.states \ {dead_state} : cache.states[id] = set}
Full == Len(cache.states) >= state_budget

\* Bytes read since the last flush, up to a miss at missed.
Window(missed) ==
  (window_bytes + (IF missed >= scan_origin THEN missed - scan_origin ELSE 0)) % SizeValues

\* Past its first filling, a cache that filled again too soon is kept, and the scan quits.
Refused(missed) == flushed /\ Window(missed) < quit_bytes_per_state * Len(cache.states)

\* Mutant: a flush that leaves the tables.
Room_stale == IF Full THEN [cache EXCEPT !.states = Flushed.states] ELSE cache

Room == IF Full THEN Flushed ELSE cache

\* The state of a set, the cache it is in, and what became of the cache.
intern(set, missed) ==
  LET Got(id, c, how) == [id |-> id, cache |-> c, how |-> how]
  IN IF set.pcs = <<>> THEN Got(dead_state, cache, "kept")
     ELSE IF Find(set) # {} THEN Got(CHOOSE id \in Find(set) : TRUE, cache, "kept")
     ELSE IF Full /\ Refused(missed) THEN Got(dead_state, cache, "refused")
     ELSE Got(Len(Room.states) + 1, [Room EXCEPT !.states = Append(@, set)],
              IF Full THEN "flushed" ELSE "kept")

Memoised(table, key, got) == [got.cache EXCEPT !.known[table] = WithEntry(@, key, got.id)]

\* Mutant: what is remembered unless the cache was flushed.
remembered_unless_flushed(table, key, got) ==
  IF got.how = "flushed" THEN got.cache ELSE Memoised(table, key, got)

\* The epoch test: nothing is remembered of states that are gone, nor of a refusal.
remembered(table, key, got) ==
  IF got.how = "kept" THEN Memoised(table, key, got) ELSE got.cache

\* What the table has, or a miss at missed that builds it.
Fetch(table, key, set, missed) ==
  IF Known(table, key)
    THEN [id |-> IF table = "trans" /\ key[1] = dead_state THEN dead_state
                 ELSE cache.known[table][key],
          cache |-> cache, how |-> "known"]
    ELSE LET got == intern(set, missed)
         IN [got EXCEPT !.cache = remembered(table, key, got)]

\* A flush starts a new window at the latest missing edge.
Adopt(got, missed) ==
  /\ state' = got.id
  /\ cache' = got.cache
  /\ flushed' = (flushed \/ got.how = "flushed")
  /\ miss_pos' = IF got.how = "known" THEN miss_pos ELSE missed
  /\ window_bytes' = IF got.how = "flushed" THEN 0 ELSE window_bytes

\* What is built once the scan is thrashing is cached, but the scan gets the dead state.
Lost(got) == got.how # "known" /\ (thrashing \/ got.how = "refused")
InScan(got) == IF Lost(got) THEN [got EXCEPT !.id = dead_state] ELSE got

AdoptInScan(got, missed) ==
  /\ Adopt(got, missed)
  /\ thrashing' = (thrashing \/ got.how = "refused")
  /\ scan_origin' = IF got.how = "flushed" THEN missed ELSE scan_origin

-----------------------------------------------------------------------------
(* A scan: scan_look, and forward_end or anchored_end where nothing is     *)
(* asserted.                                                               *)

here == cache.states[state]

\* The key of what follows: a class of bytes, or an end.
Right == right_ctx(code, text, pos)
Key ==
  IF Right \in {"end", "final_newline"} THEN {Right} ELSE alphabet(code, ByteAt(text, pos))

\* begin_scan and start_for.
Begin(s) ==
  LET left == IF look THEN left_ctx(code, s.text, s.start) ELSE "start"
      got == Fetch("starts", left, Start(code, left), miss_pos)
  IN /\ at = "idle"
     /\ Adopt(got, miss_pos)
     /\ thrashing' = (got.how = "refused")
     /\ scan_origin' = s.start
     /\ scan' = s
     /\ at' = "read"
     /\ pos' = s.start
     /\ best_end' = npos
     /\ matched' = FALSE
     /\ answer' = npos
     /\ UNCHANGED program

Ended(result) ==
  /\ at' = "idle"
  /\ answer' = result
  /\ state' = dead_state
  /\ best_end' = npos
  /\ matched' = FALSE

\* resolve: a boundary next to a byte that does not tell quits, past an accept too.
resolve ==
  LET met == Resolution(code, here, Right)
      memo == <<state, Key>>
      got == IF ~Known("res", memo) /\ met.quit
               THEN [id |-> quit_state, how |-> "kept",
                     cache |-> [cache EXCEPT !.known["res"] = WithEntry(@, memo, quit_state)]]
               ELSE Fetch("res", memo, Set(code, met.out, "none"), miss_pos)
  IN /\ at = "read"
     /\ Pending(code, here)
     /\ IF got.id = quit_state
          THEN /\ Ended(quit_pos)
               /\ cache' = got.cache
               /\ UNCHANGED policy
          ELSE /\ AdoptInScan(got, miss_pos)
               /\ at' = "resolved"
               /\ UNCHANGED <<best_end, matched, answer>>
     /\ UNCHANGED <<program, scan, pos>>

Settled == at = "resolved" \/ (at = "read" /\ ~Pending(code, here))

\* cut_cached: an accept, and what is preferred to it goes on.
cut ==
  /\ Settled
  /\ Accepts(code, here) # {}
  /\ AdoptInScan(InScan(Fetch("cuts", state, Cut(code, here), miss_pos)), miss_pos)
  /\ best_end' = pos
  /\ matched' = TRUE
  /\ at' = "cut"
  /\ UNCHANGED <<program, scan, pos, answer>>

ToMove == at = "cut" \/ (Settled /\ Accepts(code, here) = {})

\* A dead state ends the scan, except where an assertion may let a later seed live.
Over == pos = Len(text) \/ (state = dead_state /\ (scan.anchored \/ matched \/ ~look))

finish ==
  /\ ToMove
  /\ Over
  /\ Ended(IF thrashing THEN quit_pos ELSE best_end)
  /\ window_bytes' = (window_bytes + pos - scan_origin) % SizeValues
  /\ UNCHANGED <<program, cache, thrashing, flushed, scan_origin, miss_pos, scan, pos>>

\* Every position up to the first match seeds a thread, but with assertions none inside a
\* code point.
Seeds ==
  /\ ~scan.anchored
  /\ ~matched
  /\ look => ~HasByte(text, pos + 1, {Cont})

\* step and step_seeded.  A seeding scan with assertions would outlive the dead state of a
\* thrashing cache, and quits.
step ==
  LET byte == ByteAt(text, pos)
      got == Fetch(IF Seeds THEN "trans_seeded" ELSE "trans", <<state, alphabet(code, byte)>>,
                   Stepped(code, here, byte, Seeds), pos)
  IN /\ ToMove
     /\ ~Over
     /\ IF Lost(got) /\ look /\ ~scan.anchored
          THEN /\ Ended(quit_pos)
               /\ cache' = got.cache
               /\ thrashing' = TRUE
               /\ flushed' = (flushed \/ got.how = "flushed")
               /\ miss_pos' = pos
               /\ window_bytes' = IF got.how = "flushed" THEN 0 ELSE window_bytes
               /\ scan_origin' = IF got.how = "flushed" THEN pos ELSE scan_origin
               /\ UNCHANGED pos
          ELSE /\ AdoptInScan(InScan(got), pos)
               /\ at' = "read"
               /\ pos' = pos + 1
               /\ UNCHANGED <<best_end, matched, answer>>
     /\ UNCHANGED <<program, scan>>

-----------------------------------------------------------------------------
Init ==
  /\ program \in Programs
  /\ cache = Flushed
  /\ thrashing = FALSE /\ flushed = FALSE
  /\ window_bytes = 0 /\ scan_origin = 0 /\ miss_pos = 0
  /\ scan = no_scan
  /\ at = "idle"
  /\ state = dead_state /\ pos = 0 /\ best_end = npos /\ matched = FALSE
  /\ answer = npos

Walk == resolve \/ cut \/ step \/ finish

-----------------------------------------------------------------------------
(* Properties.                                                             *)

Ids == DOMAIN cache.states

TypeOK ==
  /\ \A id \in Ids : Range(cache.states[id].pcs) \subseteq DOMAIN code
  /\ state \in Ids
  /\ at \in {"idle", "read", "resolved", "cut"}
  /\ pos \in 0 .. Len(text)
  /\ best_end \in {npos} \cup 0 .. pos
  /\ answer \in {npos, quit_pos} \cup 0 .. Len(text)
  /\ {thrashing, flushed, matched} \subseteq BOOLEAN
  /\ window_bytes \in 0 .. SizeValues - 1

\* Every remembered edge, cut, resolution and start leads to the set it is of, for every byte
\* of the class it is kept under: a flush or a refusal in the middle of a step leaves none
\* behind that the states it names no longer have.
EdgesAreExact ==
  LET Of(id) == cache.states[id]
      known == cache.known
  IN /\ \A seeded \in BOOLEAN :
          LET table == IF seeded THEN known.trans_seeded ELSE known.trans
          IN \A key \in DOMAIN table : \A byte \in key[2] :
               key[1] \in Ids /\ Of(table[key]) = Stepped(code, Of(key[1]), byte, seeded)
     /\ \A id \in DOMAIN known.cuts : id \in Ids /\ Of(known.cuts[id]) = Cut(code, Of(id))
     /\ \A left \in DOMAIN known.starts : Of(known.starts[left]) = Start(code, left)
     /\ \A key \in DOMAIN known.res : \A ahead \in key[2] :
          LET right == IF ahead \in Bytes THEN Context(ahead) ELSE ahead
              met == Resolution(code, Of(key[1]), right)
          IN /\ key[1] \in Ids
             /\ IF met.quit THEN known.res[key] = quit_state
                ELSE Of(known.res[key]) = Set(code, met.out, "none")

\* A scan quits only where its cache was refused a flush, or where it has come to a word
\* boundary with a byte outside ASCII on a side.
QuitsHaveCause ==
  at = "idle" /\ answer = quit_pos =>
    \/ thrashing
    \/ /\ \E pc \in DOMAIN code : code[pc].op = "assert_position" /\ code[pc].kind \in WordKinds
       /\ \E p \in scan.start .. pos :
            HasByte(text, p, Bytes \ Ascii) \/ (p > 0 /\ ByteAt(text, p - 1) \notin Ascii)

=============================================================================
