------------------------------ MODULE BuildOnce ------------------------------
(***************************************************************************)
(* What the per-regex cache promises the searches that share a regex: for  *)
(* each program a product is built at most once, after those it rests on,  *)
(* and never again while a search consults it; a search consults only what *)
(* is built for the program it runs; assignment finds nobody searching.    *)
(***************************************************************************)
EXTENDS Integers

CONSTANTS
  Threads,     \* searching threads
  Products,    \* what the cache can hold
  Base(_),     \* the products a product rests on
  None,        \* a thread that consults nothing
  MaxVersion   \* bound: programs assigned, the first included

VARIABLES
  version,     \* the current program
  built,       \* the products built for it
  using        \* the product each thread consults

vars == <<version, built, using>>

Init ==
  /\ version = 1
  /\ built = {}
  /\ using = [t \in Threads |-> None]

Build(p) ==
  /\ p \notin built
  /\ Base(p) \subseteq built
  /\ built' = built \cup {p}
  /\ UNCHANGED <<version, using>>

Use(t, p) ==
  /\ using[t] = None
  /\ p \in built
  /\ using' = [using EXCEPT ![t] = p]
  /\ UNCHANGED <<version, built>>

Return(t) ==
  /\ using' = [using EXCEPT ![t] = None]
  /\ UNCHANGED <<version, built>>

Assign ==
  /\ version < MaxVersion
  /\ \A t \in Threads : using[t] = None
  /\ version' = version + 1
  /\ built' = {}
  /\ UNCHANGED using

Next ==
  \/ \E p \in Products : Build(p)
  \/ \E t \in Threads, p \in Products : Use(t, p)
  \/ \E t \in Threads : Return(t)
  \/ Assign

Spec == Init /\ [][Next]_vars

=============================================================================
