------------------------------ MODULE ReverseDfa ------------------------------
(***************************************************************************)
(* The reverse DFA: from a known end of a match it walks the text backward *)
(* over the program's edges transposed, and keeps the last position from   *)
(* which the program's start is reached.  A state is a set of counters,    *)
(* some of them assertions that wait for the byte on their left.  Its      *)
(* cache is bounded and flushed as the forward one's, but never refuses.   *)
(***************************************************************************)
EXTENDS BackwardSets

CONSTANT state_budget

VARIABLES
  program,     \* [code, ...], the code a byte program; whoever walks chooses it
  cache,       \* states and what is remembered of them
  walk,        \* [text, end, resume] of the walk in progress, or of the last one
  at,          \* idle, read, resolved
  state, pos, best,
  answer

vars == <<program, cache, walk, at, state, pos, best, answer>>

code == program.code
look == looks(code)
text == walk.text

dead_state == 1
start_state == 2
quit_state == 0
quit_pos == -2
no_walk == [text |-> <<>>, end |-> 0, resume |-> 0]

-----------------------------------------------------------------------------
(* The cache.                                                              *)

Flushed ==
  [states |-> IF look THEN <<Nothing>> ELSE <<Nothing, Start(code, "end")>>,
   known |-> [t \in {"trans", "res", "starts"} |-> <<>>]]

Find(set) == {id \in DOMAIN cache.states \ {dead_state} : cache.states[id] = set}
Full == Len(cache.states) >= state_budget

intern(set) ==
  LET room == IF Full THEN Flushed ELSE cache
      Got(id, c, how) == [id |-> id, cache |-> c, how |-> how]
  IN IF set = Nothing THEN Got(dead_state, cache, "kept")
     ELSE IF Find(set) # {} THEN Got(CHOOSE id \in Find(set) : TRUE, cache, "kept")
     ELSE Got(Len(room.states) + 1, [room EXCEPT !.states = Append(@, set)],
              IF Full THEN "flushed" ELSE "kept")

Memoised(table, key, got) == [got.cache EXCEPT !.known[table] = WithEntry(@, key, got.id)]

\* Mutant: an edge remembered for a state that a flush took away.
remembered_always(table, key, got) == Memoised(table, key, got)

\* Nothing is remembered of states that are gone.
remembered(table, key, got) ==
  IF got.how = "kept" THEN Memoised(table, key, got) ELSE got.cache

Fetch(table, key, set) ==
  IF key \in DOMAIN cache.known[table]
    THEN [id |-> cache.known[table][key], cache |-> cache, how |-> "known"]
    ELSE LET got == intern(set) IN [got EXCEPT !.cache = remembered(table, key, got)]

Adopt(got) == state' = got.id /\ cache' = got.cache

-----------------------------------------------------------------------------
(* A walk: reverse_start and reverse_start_look.                           *)

here == cache.states[state]

\* start_for
Begin(w) ==
  LET right == IF look THEN right_ctx(code, w.text, w.end) ELSE "end"
  IN /\ at = "idle"
     /\ IF look THEN Adopt(Fetch("starts", right, Start(code, right)))
        ELSE state' = start_state /\ UNCHANGED cache
     /\ walk' = w
     /\ at' = "read"
     /\ pos' = w.end
     /\ best' = npos
     /\ answer' = npos
     /\ UNCHANGED program

Ended(result) == at' = "idle" /\ answer' = result /\ state' = dead_state /\ best' = npos

Left == left_ctx(code, text, pos)
LeftKey == IF pos = 0 THEN {"start"} ELSE alphabet(code, ByteAt(text, pos - 1))

resolve ==
  LET met == Resolution(code, here, Left)
      key == <<state, LeftKey>>
      known == key \in DOMAIN cache.known["res"]
      got == IF ~known /\ met.quit
               THEN [id |-> quit_state, cache |-> [cache EXCEPT !.known["res"] = WithEntry(@, key, quit_state)]]
               ELSE Fetch("res", key, Set(met, "none"))
  IN /\ at = "read"
     /\ here.pending # {}
     /\ IF got.id = quit_state THEN Ended(quit_pos) /\ cache' = got.cache
        ELSE Adopt(got) /\ at' = "resolved" /\ UNCHANGED <<best, answer>>
     /\ UNCHANGED <<program, walk, pos>>

Settled == at = "resolved" \/ (at = "read" /\ here.pending = {})

\* The program's start is reached: the match may begin here.
Best == IF 1 \in here.pcs THEN pos ELSE best

\* Mutant: the walk stops before it has asked about the position to resume at.
Over_early == pos <= walk.resume + 1 \/ state = dead_state

Over == pos <= walk.resume \/ state = dead_state

finish ==
  /\ Settled
  /\ Over
  /\ Ended(Best)
  /\ UNCHANGED <<program, cache, walk, pos>>

\* The step onto a newline that ends the text is not remembered: its class does not tell.
step ==
  LET byte == ByteAt(text, pos - 1)
      right == right_ctx(code, text, pos - 1)
      class == alphabet(code, byte)
  IN /\ Settled
     /\ ~Over
     /\ Adopt(IF look /\ right = "final_newline" THEN intern(Stepped(code, here, byte, right))
              ELSE Fetch("trans", <<state, class>>, Stepped(code, here, byte, class_ctx(class))))
     /\ best' = Best
     /\ pos' = pos - 1
     /\ at' = "read"
     /\ UNCHANGED <<program, walk, answer>>

Init ==
  /\ cache = Flushed
  /\ walk = no_walk
  /\ at = "idle"
  /\ state = dead_state /\ pos = 0 /\ best = npos
  /\ answer = npos

Walk == resolve \/ step \/ finish

-----------------------------------------------------------------------------
\* Every remembered backward edge, resolution and start leads to the set it is of, for every
\* byte of the class it is kept under.
EdgesAreExact ==
  LET Ids == DOMAIN cache.states
      Of(id) == cache.states[id]
      known == cache.known
  IN /\ \A key \in DOMAIN known.trans : \A byte \in key[2] :
          key[1] \in Ids /\ Of(known.trans[key]) = Stepped(code, Of(key[1]), byte, Context(byte))
     /\ \A right \in DOMAIN known.starts : Of(known.starts[right]) = Start(code, right)
     /\ \A key \in DOMAIN known.res : \A before \in key[2] :
          LET met == Resolution(code, Of(key[1]), IF before \in Bytes THEN Context(before) ELSE before)
          IN /\ key[1] \in Ids
             /\ IF met.quit THEN known.res[key] = quit_state
                ELSE Of(known.res[key]) = Set(met, "none")

=============================================================================
