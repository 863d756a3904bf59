---------------------------- MODULE MCSharedScenarios ----------------------------
(***************************************************************************)
(* SharedDfa with bounds taken together: which threads act and how deep    *)
(* they nest, which addresses have regexes, how many programs are          *)
(* compiled, whether a lease may end up without a set, whether a regex may *)
(* be destroyed.  A behaviour keeps to one such scenario.                  *)
(***************************************************************************)
EXTENDS MCSharedDfa

CONSTANT Scenarios    \* records [threads, depth, addresses, programs, setless, ends]

Sized(n, S) == {T \in SUBSET S : Cardinality(T) = n}

VARIABLE bounds

ScenarioInit ==
  /\ Init
  /\ \E s \in Scenarios :
       bounds \in [threads : Sized(s.threads, Threads), addresses : Sized(s.addresses, Addresses),
                   depth : {s.depth}, programs : {s.programs}, setless : {s.setless}, ends : {s.ends}]

Within ==
  /\ compiled <= bounds.programs
  /\ \A a \in Addresses \ bounds.addresses : program[a] = Null
  /\ \A t \in Threads : Len(calls[t]) <= IF t \in bounds.threads THEN bounds.depth ELSE 0
  /\ \A t \in Threads :
       ~bounds.setless /\ calls[t] = <<>> /\ cache[t].slot # Null => cache[t].set # Null
  /\ ~bounds.ends => \A t \in Threads : ~At(t, "unmap")

ScenarioNext == Next /\ UNCHANGED bounds /\ Within'

ScenarioSpec == ScenarioInit /\ [][ScenarioNext]_<<vars, bounds>>

\* For liveness, which TLC checks without symmetry: a scenario of n addresses takes the
\* same n.  Where no allocation fails, the bounds stop what callers start, never a step
\* of a call already made.
FairScenarioInit ==
  /\ ScenarioInit
  /\ bounds.addresses =
       CHOOSE T \in SUBSET Addresses : Cardinality(T) = Cardinality(bounds.addresses)

FairScenarioSpec ==
  FairScenarioInit /\ [][ScenarioNext]_<<vars, bounds>> /\ Fairness

\* One regex used over and over; two regexes; one thread's scans nested in its own.
Reuse == [threads |-> 2, addresses |-> 1, depth |-> 2, programs |-> 2, setless |-> TRUE,
          ends |-> TRUE]
Moves == [threads |-> 2, addresses |-> 2, depth |-> 1, programs |-> 2, setless |-> FALSE,
          ends |-> TRUE]
Nest == [threads |-> 1, addresses |-> 2, depth |-> 2, programs |-> 2, setless |-> TRUE,
          ends |-> TRUE]
MCScenarios == {Reuse, Moves, Nest}

\* Two regexes that share nothing but the build stripe.
Strangers == [threads |-> 2, addresses |-> 2, depth |-> 1, programs |-> 2, setless |-> TRUE,
              ends |-> FALSE]
LiveScenarios == {Reuse, Strangers}

=============================================================================
