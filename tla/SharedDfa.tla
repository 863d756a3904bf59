------------------------------- MODULE SharedDfa -------------------------------
(***************************************************************************)
(* The lazy DFAs threads share: a process-wide map from a regex's address  *)
(* to its slot, each slot a pool of DFA sets and a generation, and the     *)
(* lease that gives a scan one set to itself.  A thread keeps the set it   *)
(* last used; a nested scan takes another; a rebuild retires the sets of   *)
(* earlier programs and a destructor retires the slot, while other threads *)
(* may be giving a set of it back.                                         *)
(*                                                                         *)
(* Programs are numbered; a set's DFAs are known by the program they were  *)
(* built from.  Pointers are identities: 0 is null.                        *)
(***************************************************************************)
EXTENDS Integers, Sequences, FiniteSets, SequencesExt

CONSTANTS
  Threads,      \* threads that search, assign and destroy regexes
  Addresses,    \* where a regex's immutables can live
  Stripes,      \* the mutexes of immut_build_mu
  Stripe,       \* the one each address hashes to
  NoThread,     \* a mutex nobody holds
  NoAddress,    \* a retired slot's owner
  MaxPrograms,  \* bound: programs compiled, constructions and assignments together
  MaxDepth,     \* bound: scans nested in one thread
  AllocFails    \* an allocation may fail

ASSUME NamesAssumption == NoThread \notin Threads /\ NoAddress \notin Addresses
ASSUME ThreadsAssumption == IsFiniteSet(Threads)
ASSUME StripeAssumption == Stripe \in [Addresses -> Stripes]
ASSUME BoundsAssumption ==
  /\ MaxPrograms \in Nat \ {0} /\ MaxDepth \in Nat \ {0} /\ AllocFails \in BOOLEAN

Null == 0
Absent == -1                       \* no map entry

Slots == 1 .. MaxPrograms          \* a program asks for at most one

FreshSlot(a) == [owner |-> a, generation |-> 0, free |-> {}]
FreshSet == [generation |-> 0, dfas |-> Null]
EmptyCache == [slot |-> Null, set |-> Null, busy |-> FALSE]

VARIABLES
  compiled,  \* programs compiled so far
  program,   \* the program of the regex at each address, Null where there is none
  ready,     \* its immutables are built: built_for = code.data()
  build_mu,  \* who holds each stripe
  map,       \* shared_dfa_map
  slots,     \* every shared_dfa_slot made, in order
  sets,      \* the shared_dfa_sets in being
  cache,     \* each thread's dfa_lease cache
  hit,       \* each thread's last slot in shared_dfa_for
  calls      \* each thread's calls in flight, the innermost last

regexes == <<compiled, program, ready>>
vars == <<regexes, build_mu, map, slots, sets, cache, hit, calls>>

-----------------------------------------------------------------------------
Init ==
  /\ compiled = 0
  /\ program = [a \in Addresses |-> Null]
  /\ ready = [a \in Addresses |-> FALSE]
  /\ build_mu = [m \in Stripes |-> NoThread]
  /\ map = [a \in Addresses |-> Absent]
  /\ slots = <<>>
  /\ sets = <<>>
  /\ cache = [t \in Threads |-> EmptyCache]
  /\ hit = [t \in Threads |-> Null]
  /\ calls = [t \in Threads |-> <<>>]

Top(t) == Last(calls[t])
At(t, step) == calls[t] # <<>> /\ Top(t).at = step
WithTop(t, call) == [calls EXCEPT ![t] = Append(Front(calls[t]), call)]
Goto(t, step) == calls' = WithTop(t, [Top(t) EXCEPT !.at = step])
Pop(t) == calls' = [calls EXCEPT ![t] = Front(calls[t])]

CallsOf(t) == ToSet(calls[t])
InUse(a) == \E t \in Threads : \E c \in CallsOf(t) : c.regex = a

\* What is freed is gone: a set read after that has no value.
Destroyed(ids) == [i \in DOMAIN sets \ ids |-> sets[i]]

\* Mutant: the pool takes the set of a retired slot too.
GiveAlways(s, set) ==
  /\ slots' = [slots EXCEPT ![s].free = @ \cup {set}]
  /\ UNCHANGED sets

\* dfa_lease::give: a set of a retired slot, or one the pool cannot grow for, is freed.
Give(s, set) ==
  \/ /\ slots[s].owner # NoAddress
     /\ slots' = [slots EXCEPT ![s].free = @ \cup {set}]
     /\ UNCHANGED sets
  \/ /\ slots[s].owner = NoAddress \/ AllocFails
     /\ sets' = Destroyed({set})
     /\ UNCHANGED slots

\* The slot map[a] names, made on first use; making it may fail once the entry is there.
SlotMade(a, s) ==
  IF map[a] \in {Absent, Null}
    THEN /\ s = Len(slots) + 1
         /\ slots' = Append(slots, FreshSlot(a))
         /\ map' = [map EXCEPT ![a] = s]
    ELSE /\ s = map[a]
         /\ UNCHANGED <<slots, map>>
SlotFails(a) ==
  /\ AllocFails
  /\ map[a] \in {Absent, Null}
  /\ \E entry \in {map[a], Null} : map' = [map EXCEPT ![a] = entry]

-----------------------------------------------------------------------------
(* A search's way to its DFAs: ensure_immutables, then the lease.          *)

\* A thread's own calls nest inside a walk.
CanCall(t) == Len(calls[t]) < MaxDepth /\ (calls[t] # <<>> => Top(t).at = "walk")
Push(t, a, step) ==
  calls' = [calls EXCEPT ![t] = Append(@,
              [regex |-> a, at |-> step, slot |-> Null, set |-> Null, cached |-> FALSE])]

Ending(a) ==
  \E t \in Threads : \E c \in CallsOf(t) :
    c.regex = a /\ c.at \in {"unmap", "retire", "drain", "drop"}

\* ensure_immutables' acquire load sends the search to the build or to its lease.
Search(t, a) ==
  /\ program[a] # Null
  /\ ~Ending(a)
  /\ CanCall(t)
  /\ Push(t, a, IF ready[a] THEN "lease" ELSE "lock")
  /\ UNCHANGED <<regexes, build_mu, map, slots, sets, cache, hit>>

\* Mutant: no second look at the identity under the lock.
LockUnchecked(t) ==
  LET m == Stripe[Top(t).regex] IN
  /\ At(t, "lock")
  /\ build_mu[m] = NoThread
  /\ Goto(t, "resolve")
  /\ build_mu' = [build_mu EXCEPT ![m] = t]
  /\ UNCHANGED <<regexes, map, slots, sets, cache, hit>>

LockBuild(t) ==
  LET m == Stripe[Top(t).regex] IN
  /\ At(t, "lock")
  /\ build_mu[m] = NoThread
  /\ IF ready[Top(t).regex]
       THEN Goto(t, "lease") /\ UNCHANGED build_mu
       ELSE Goto(t, "resolve") /\ build_mu' = [build_mu EXCEPT ![m] = t]
  /\ UNCHANGED <<regexes, map, slots, sets, cache, hit>>

UnlockBuild(t) == build_mu' = [build_mu EXCEPT ![Stripe[Top(t).regex]] = NoThread]

\* shared_dfa_for: the thread's last slot while it is this regex's, else the map's.
HitIsValid(t, a) == hit[t] # Null /\ slots[hit[t]].owner = a

Resolve(t) ==
  LET a == Top(t).regex IN
  /\ At(t, "resolve")
  /\ \/ /\ \E s \in Slots :
             /\ IF HitIsValid(t, a) THEN s = hit[t] /\ UNCHANGED <<slots, map>>
                                    ELSE SlotMade(a, s)
             /\ hit' = [hit EXCEPT ![t] = s]
             /\ calls' = WithTop(t, [Top(t) EXCEPT !.at = "bump", !.slot = s])
        /\ UNCHANGED build_mu
     \/ /\ ~HitIsValid(t, a)
        /\ SlotFails(a)
        /\ UnlockBuild(t)
        /\ Pop(t)
        /\ UNCHANGED <<slots, hit>>
  /\ UNCHANGED <<regexes, sets, cache>>

\* reset_shared_dfas: a held set is cleared by its next lease, the free ones go now.
Bump(t) ==
  /\ At(t, "bump")
  /\ slots' = [slots EXCEPT ![Top(t).slot].generation = @ + 1]
  /\ Goto(t, "clear")
  /\ UNCHANGED <<regexes, build_mu, map, sets, cache, hit>>

ClearPool(t) ==
  /\ At(t, "clear")
  /\ slots' = [slots EXCEPT ![Top(t).slot].free = {}]
  /\ sets' = Destroyed(slots[Top(t).slot].free)
  /\ Goto(t, "publish")
  /\ UNCHANGED <<regexes, build_mu, map, cache, hit>>

\* Mutant: the stripe is never unlocked.
PublishOnly(t) ==
  /\ At(t, "publish")
  /\ ready' = [ready EXCEPT ![Top(t).regex] = TRUE]
  /\ calls' = WithTop(t, [Top(t) EXCEPT !.at = "lease", !.slot = Null])
  /\ UNCHANGED <<compiled, program, build_mu, map, slots, sets, cache, hit>>

Publish(t) ==
  /\ At(t, "publish")
  /\ ready' = [ready EXCEPT ![Top(t).regex] = TRUE]
  /\ UnlockBuild(t)
  /\ calls' = WithTop(t, [Top(t) EXCEPT !.at = "lease", !.slot = Null])
  /\ UNCHANGED <<compiled, program, map, slots, sets, cache, hit>>

\* Mutant: the kept set serves whatever regex comes next.
CacheServesAny(t, a) == cache[t].slot # Null

\* The set the thread kept serves again while its slot is this regex's.
CacheServes(t, a) == cache[t].slot # Null /\ slots[cache[t].slot].owner = a

\* Mutant: a nested lease of the same regex takes the set the outer one walks.
LeaseBusy(t) ==
  /\ At(t, "lease")
  /\ IF ~CacheServes(t, Top(t).regex) THEN Goto(t, "give_back") /\ UNCHANGED cache
     ELSE /\ cache' = [cache EXCEPT ![t].busy = TRUE]
          /\ calls' = WithTop(t, [Top(t) EXCEPT !.at = "check", !.cached = TRUE,
                                    !.slot = cache[t].slot, !.set = cache[t].set])
  /\ UNCHANGED <<regexes, build_mu, map, slots, sets, hit>>

Lease(t) ==
  /\ At(t, "lease")
  /\ IF cache[t].busy THEN Goto(t, "slot") /\ UNCHANGED cache
     ELSE IF ~CacheServes(t, Top(t).regex) THEN Goto(t, "give_back") /\ UNCHANGED cache
     ELSE /\ cache' = [cache EXCEPT ![t].busy = TRUE]
          /\ calls' = WithTop(t, [Top(t) EXCEPT !.at = "check", !.cached = TRUE,
                                    !.slot = cache[t].slot, !.set = cache[t].set])
  /\ UNCHANGED <<regexes, build_mu, map, slots, sets, hit>>

CacheGivesBack(t) ==
  /\ IF cache[t].slot # Null /\ cache[t].set # Null
       THEN Give(cache[t].slot, cache[t].set) ELSE UNCHANGED <<slots, sets>>
  /\ cache' = [cache EXCEPT ![t] = EmptyCache]

GiveBack(t) ==
  /\ At(t, "give_back")
  /\ CacheGivesBack(t)
  /\ Goto(t, "slot")
  /\ UNCHANGED <<regexes, build_mu, map, hit>>

\* slot_for; a lease that is not nested keeps the slot in the thread's cache.
SlotFor(t) ==
  LET a == Top(t).regex IN
  /\ At(t, "slot")
  /\ \/ \E s \in Slots :
          /\ SlotMade(a, s)
          /\ cache' = IF cache[t].busy THEN cache ELSE [cache EXCEPT ![t].slot = s]
          /\ calls' = WithTop(t, [Top(t) EXCEPT !.at = "take", !.slot = s])
     \/ /\ SlotFails(a)
        /\ Pop(t)
        /\ UNCHANGED <<slots, cache>>
  /\ UNCHANGED <<regexes, build_mu, sets, hit>>

\* The set found or made goes to the thread's cache, or to the nested lease.
Hold(t, set) ==
  /\ cache' = IF cache[t].busy THEN cache
                ELSE [cache EXCEPT ![t] = [slot |-> @.slot, set |-> set, busy |-> TRUE]]
  /\ calls' = WithTop(t, [Top(t) EXCEPT !.at = "check", !.set = set,
                                        !.cached = ~cache[t].busy])

NewSet == CHOOSE i \in 1 .. Cardinality(DOMAIN sets) + 1 : i \notin DOMAIN sets

MakeSet(t) ==
  /\ sets' = [i \in DOMAIN sets \cup {NewSet} |-> IF i = NewSet THEN FreshSet ELSE sets[i]]
  /\ Hold(t, NewSet)

\* Mutant: a set is made whatever the pool holds.
TakeNew(t) ==
  /\ At(t, "take")
  /\ MakeSet(t)
  /\ UNCHANGED <<regexes, build_mu, map, slots, hit>>

\* A free set, whichever it is, or a new one; failing to make it leaves the slot in the cache.
Take(t) ==
  LET s == Top(t).slot IN
  /\ At(t, "take")
  /\ \/ \E set \in slots[s].free :
          /\ slots' = [slots EXCEPT ![s].free = @ \ {set}]
          /\ Hold(t, set)
          /\ UNCHANGED sets
     \/ /\ slots[s].free = {}
        /\ MakeSet(t)
        /\ UNCHANGED slots
     \/ /\ slots[s].free = {}
        /\ AllocFails
        /\ Pop(t)
        /\ UNCHANGED <<slots, cache, sets>>
  /\ UNCHANGED <<regexes, build_mu, map, hit>>

\* A set built under an earlier generation is cleared; a null one is read all the same.
CheckGeneration(t) ==
  LET set == Top(t).set
      generation == slots[Top(t).slot].generation
  IN /\ At(t, "check")
     /\ set # Null
     /\ sets' = IF sets[set].generation = generation THEN sets
                  ELSE [sets EXCEPT ![set] = [generation |-> generation, dfas |-> Null]]
     /\ Goto(t, "fill")
     /\ UNCHANGED <<regexes, build_mu, map, slots, cache, hit>>

\* ensure_set_search_dfas, ensure_set_il_prefix_rev: built on the set's first search.
Fill(t) ==
  LET set == Top(t).set IN
  /\ At(t, "fill")
  /\ sets' = [sets EXCEPT ![set].dfas = IF @ = Null THEN program[Top(t).regex] ELSE @]
  /\ Goto(t, "walk")
  /\ UNCHANGED <<regexes, build_mu, map, slots, cache, hit>>

\* ~dfa_lease.
EndLease(t) ==
  /\ At(t, "walk")
  /\ IF Top(t).cached
       THEN /\ cache' = [cache EXCEPT ![t].busy = FALSE]
            /\ UNCHANGED <<slots, sets>>
       ELSE Give(Top(t).slot, Top(t).set) /\ UNCHANGED cache
  /\ Pop(t)
  /\ UNCHANGED <<regexes, build_mu, map, hit>>

-----------------------------------------------------------------------------
(* The regexes' and the threads' lives.                                    *)

Construct(a) ==
  /\ compiled < MaxPrograms
  /\ program[a] = Null
  /\ compiled' = compiled + 1
  /\ program' = [program EXCEPT ![a] = compiled + 1]
  /\ UNCHANGED <<ready, build_mu, map, slots, sets, cache, hit, calls>>

\* Assignment, which nothing on that regex may overlap.
Assign(a) ==
  /\ compiled < MaxPrograms
  /\ program[a] # Null
  /\ ~InUse(a)
  /\ compiled' = compiled + 1
  /\ program' = [program EXCEPT ![a] = compiled + 1]
  /\ ready' = [ready EXCEPT ![a] = FALSE]
  /\ UNCHANGED <<build_mu, map, slots, sets, cache, hit, calls>>

\* ~regex_immutables, which nothing on that regex may overlap.
Destroy(t, a) ==
  /\ program[a] # Null
  /\ ~InUse(a)
  /\ CanCall(t)
  /\ Push(t, a, "unmap")
  /\ UNCHANGED <<regexes, build_mu, map, slots, sets, cache, hit>>

Freed(a) ==
  /\ program' = [program EXCEPT ![a] = Null]
  /\ ready' = [ready EXCEPT ![a] = FALSE]
  /\ UNCHANGED compiled

\* erase_shared_dfas: the entry goes under the map's lock; no entry, nothing to retire.
Unmap(t) ==
  LET a == Top(t).regex IN
  /\ At(t, "unmap")
  /\ map[a] # Null
  /\ IF map[a] = Absent
       THEN Freed(a) /\ Pop(t) /\ UNCHANGED map
       ELSE /\ map' = [map EXCEPT ![a] = Absent]
            /\ calls' = WithTop(t, [Top(t) EXCEPT !.at = "retire", !.slot = map[a]])
            /\ UNCHANGED regexes
  /\ UNCHANGED <<build_mu, slots, sets, cache, hit>>

\* Mutant: the slot is drained but keeps its owner.
RetireNothing(t) ==
  /\ At(t, "retire")
  /\ Goto(t, "drain")
  /\ UNCHANGED <<regexes, build_mu, map, slots, sets, cache, hit>>

Retire(t) ==
  /\ At(t, "retire")
  /\ slots' = [slots EXCEPT ![Top(t).slot].owner = NoAddress]
  /\ Goto(t, "drain")
  /\ UNCHANGED <<regexes, build_mu, map, sets, cache, hit>>

Drain(t) ==
  /\ At(t, "drain")
  /\ slots' = [slots EXCEPT ![Top(t).slot].free = {}]
  /\ sets' = Destroyed(slots[Top(t).slot].free)
  /\ Goto(t, "drop")
  /\ UNCHANGED <<regexes, build_mu, map, cache, hit>>

\* Mutant: the destroying thread keeps its set.
DropNothing(t) ==
  /\ At(t, "drop")
  /\ Freed(Top(t).regex)
  /\ Pop(t)
  /\ UNCHANGED <<build_mu, map, slots, sets, cache, hit>>

\* drop_thread_set, then the storage is freed: another regex may be built at the address.
Drop(t) ==
  /\ At(t, "drop")
  /\ IF ~cache[t].busy /\ cache[t].slot = Top(t).slot
       THEN /\ sets' = Destroyed({cache[t].set})
            /\ cache' = [cache EXCEPT ![t] = EmptyCache]
       ELSE UNCHANGED <<sets, cache>>
  /\ Freed(Top(t).regex)
  /\ Pop(t)
  /\ UNCHANGED <<build_mu, map, slots, hit>>

\* A thread's end: its locals go, and a new thread may take its place.
ThreadExit(t) ==
  /\ calls[t] = <<>>
  /\ cache[t] # EmptyCache \/ hit[t] # Null
  /\ CacheGivesBack(t)
  /\ hit' = [hit EXCEPT ![t] = Null]
  /\ UNCHANGED <<regexes, build_mu, map, calls>>

\* The steps of a thread's innermost call, which it takes without being asked.
Run(t) ==
  \/ LockBuild(t) \/ Resolve(t) \/ Bump(t) \/ ClearPool(t) \/ Publish(t)
  \/ Lease(t) \/ GiveBack(t) \/ SlotFor(t) \/ Take(t) \/ CheckGeneration(t) \/ Fill(t)
  \/ EndLease(t)
  \/ Unmap(t) \/ Retire(t) \/ Drain(t) \/ Drop(t)

Next ==
  \/ \E t \in Threads : Run(t) \/ ThreadExit(t)
  \/ \E t \in Threads, a \in Addresses : Search(t, a) \/ Destroy(t, a)
  \/ \E a \in Addresses : Construct(a) \/ Assign(a)

Spec == Init /\ [][Next]_vars

\* Threads are scheduled; no mutex is fair, so no step gets more than weak fairness.
Fairness == \A t \in Threads : WF_vars(Run(t))
FairSpec == Spec /\ Fairness

-----------------------------------------------------------------------------
Steps == {"lock", "resolve", "bump", "clear", "publish", "lease", "give_back",
          "slot", "take", "check", "fill", "walk", "unmap", "retire", "drain", "drop"}

SetNames == DOMAIN sets \cup {Null}
Call == [regex : Addresses, at : Steps, slot : 0 .. Len(slots), set : SetNames, cached : BOOLEAN]

\* No pool, cache or lease names a set that was freed.
TypeOK ==
  /\ compiled \in 0 .. MaxPrograms
  /\ program \in [Addresses -> 0 .. compiled]
  /\ ready \in [Addresses -> BOOLEAN]
  /\ build_mu \in [Stripes -> Threads \cup {NoThread}]
  /\ map \in [Addresses -> {Absent, Null} \cup DOMAIN slots]
  /\ slots \in Seq([owner : Addresses \cup {NoAddress}, generation : 0 .. MaxPrograms,
                    free : SUBSET DOMAIN sets])
  /\ Len(slots) <= MaxPrograms
  /\ DOMAIN sets \in SUBSET (Nat \ {0}) /\ IsFiniteSet(DOMAIN sets)
  /\ sets \in [DOMAIN sets -> [generation : 0 .. MaxPrograms, dfas : 0 .. compiled]]
  /\ cache \in [Threads -> [slot : 0 .. Len(slots), set : SetNames, busy : BOOLEAN]]
  /\ hit \in [Threads -> 0 .. Len(slots)]
  /\ calls \in [Threads -> Seq(Call)]
  /\ \A t \in Threads : Len(calls[t]) <= MaxDepth

\* A walk reads DFAs of the program its regex runs now, whatever was assigned, destroyed
\* or built again at that address before, and whatever nested inside the walk.
WalkIsCurrent ==
  \A t \in Threads : \A c \in CallsOf(t) :
    c.at = "walk" => sets[c.set].dfas = program[c.regex]

\* A scan takes no lock because its set is nobody else's: a set is in one pool, in one
\* thread's cache or in one nested lease, and a cached one serves one scan at a time.  A set
\* none of them has would be lost: there is none.
Owners(i) ==
  {<<"pool", s>> : s \in {s \in DOMAIN slots : i \in slots[s].free}}
    \cup {<<"cache", t>> : t \in {t \in Threads : cache[t].set = i}}
    \cup {<<"lease", p[1], p[2]>> : p \in
             {q \in Threads \X (1 .. MaxDepth) :
                q[2] <= Len(calls[q[1]]) /\ ~calls[q[1]][q[2]].cached
                                        /\ calls[q[1]][q[2]].set = i}}

OneOwner ==
  /\ \A i \in DOMAIN sets : Cardinality(Owners(i)) = 1
  /\ \A t \in Threads :
       Cardinality({d \in 1 .. Len(calls[t]) : calls[t][d].cached}) = IF cache[t].busy THEN 1 ELSE 0

\* A slot answers for an address only while the map sends that address to it, except
\* for the moment its regex is being destroyed: a new regex at a reused address never
\* meets the old one's slot, and an address never has two.
OwnerIsMapped ==
  \A s \in DOMAIN slots : slots[s].owner # NoAddress =>
    \/ map[slots[s].owner] = s
    \/ \E t \in Threads : At(t, "retire") /\ Top(t).slot = s

\* Once the erase has drained a slot nothing is pooled on it again, although threads still
\* hold it and give sets back to it: what is left of it is in their idle caches.
Drained(s) ==
  /\ slots[s].owner = NoAddress
  /\ ~\E t \in Threads : At(t, "drain") /\ Top(t).slot = s
RetiredStaysEmpty ==
  \A s \in DOMAIN slots : Drained(s) =>
    /\ slots[s].free = {}
    /\ \A t \in Threads : cache[t].slot = s => ~cache[t].busy

\* A slot makes a set only when it has none free, so it never has more than its scans at
\* once: a pool does not grow with the searches.
SetsBounded ==
  \A s \in DOMAIN slots :
    Cardinality(slots[s].free) <= Cardinality(Threads) * MaxDepth

\* The thread that destroys a regex keeps none of its DFAs, even from inside a scan of
\* another regex.
DestroyerKeepsNothing ==
  [][\A t \in Threads :
       At(t, "drop") /\ ~(calls'[t] # <<>> /\ Last(calls'[t]).at = "drop")
         => cache'[t].slot # Top(t).slot]_vars

\* Every search that finds its regex unbuilt gets to walk its DFAs: a build always ends and
\* frees its stripe (ensure_immutables' lock_guard), for the threads that queue on it too.
SearchServed == \A t \in Threads : At(t, "lock") ~> At(t, "walk")

\* A lease holds a set ("This thread's DFA set for one regex, for the lifetime of the lease").
LeaseHoldsSet ==
  \A t \in Threads : \A c \in CallsOf(t) : c.at \in {"check", "fill", "walk"} => c.set # Null

\* A regex being destroyed has an entry only if it has a slot to retire.
EntryHasSlot == \A t \in Threads : At(t, "unmap") => map[Top(t).regex] # Null

\* A failed allocation leaves one of the two promises standing at least: a behaviour that
\* refutes this one shows both of them broken.
FailureKeepsAPromise == LeaseHoldsSet \/ EntryHasSlot

=============================================================================
