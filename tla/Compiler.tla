------------------------------- MODULE Compiler -------------------------------
(***************************************************************************)
(* Patterns and the programs the compiler emits for them, in text mode.    *)
(* A pattern is a tree of nodes; Emit(n, at, cf) is the code of node n     *)
(* placed at counter at, without saves where cf (inside a lookaround).     *)
(***************************************************************************)
EXTENDS Program

-----------------------------------------------------------------------------
(* Nodes.  A class is the set of code points it has once folded.           *)

Empty == [kind |-> "empty"]
Byte(b) == [kind |-> "byte", byte |-> b]
Klass(members) == [kind |-> "klass", class |-> members, shorthand |-> FALSE]
Shorthand(members) == [kind |-> "klass", class |-> members, shorthand |-> TRUE]
AnyChar == [kind |-> "any"]
AnchorAt(k) == [kind |-> "anchor", assert |-> k]
Concat(nodes) == [kind |-> "concat", children |-> nodes]
Alt(nodes) == [kind |-> "alternation", children |-> nodes]
Group(k, n) == [kind |-> "group", group |-> k, child |-> n, atomic |-> FALSE]
NonCapturing(n) == [kind |-> "group", group |-> -1, child |-> n, atomic |-> FALSE]
Atomic(n) == [kind |-> "group", group |-> -1, child |-> n, atomic |-> TRUE]
Repeat(n, lo, hi, style) ==
  [kind |-> "repeat", child |-> n, min |-> lo, max |-> hi, lazy |-> style = "lazy",
   possessive |-> style = "possessive"]
Look(n, lmax, behind, negative) ==
  [kind |-> "lookaround", child |-> n, l_max |-> lmax, behind |-> behind, negative |-> negative]

Literal(c) == IF c = Accented THEN Concat(<<Byte(Lead), Byte(Cont)>>) ELSE Byte(c)

\* single_codepoint_atom: bytes that spell one non-ASCII character.
SpellsAccented(n) == n = Literal(Accented)

-----------------------------------------------------------------------------
(* Instructions.                                                           *)

Save(slot) == <<[op |-> "save", slot |-> slot]>>
Split(primary, secondary) == <<[op |-> "split", primary |-> primary, secondary |-> secondary]>>
Jump(target) == <<[op |-> "jump", primary |-> target]>>
EmitKlass(bytes) == <<[op |-> "klass", class |-> bytes]>>
ContinuationSlots == EmitKlass({Cont}) \o EmitKlass({Cont}) \o EmitKlass({Cont})
EmitKlassCp(members) == <<[op |-> "klass_cp", class |-> members]>> \o ContinuationSlots
EmitBytes(bytes) == [k \in DOMAIN bytes |-> [op |-> "byte", class |-> {bytes[k]}]]

\* A code point of the ASCII members or any other: one branch per encoding length.
EmitAnyCodepointClass(ascii, at) ==
  Split(at + 1, at + 3) \o EmitKlass(ascii) \o Jump(at + 5)
    \o EmitKlass({Lead}) \o EmitKlass({Cont})

\* A class all of whose members have one length and one varying byte is spelled out.
EmitEffectiveClass(members) ==
  IF members \subseteq Ascii THEN EmitKlass(members)
  ELSE IF members = {Accented} THEN EmitBytes(Encode(Accented))
  ELSE EmitKlassCp(members)

EmitClass(n, at) ==
  IF n.shorthand THEN EmitKlassCp(n.class)
  ELSE IF n.class \subseteq Ascii THEN EmitKlass(n.class)
  ELSE EmitEffectiveClass(n.class)

\* An alternation of single atoms is their class.
Fused(n) ==
  /\ n.kind = "alternation"
  /\ Len(n.children) > 1
  /\ \A k \in DOMAIN n.children : n.children[k].kind = "byte" \/ SpellsAccented(n.children[k])
FusedMembers(n) ==
  {IF SpellsAccented(n.children[k]) THEN Accented ELSE n.children[k].byte : k \in DOMAIN n.children}

IsSingleAtom(n) == n.kind \in {"byte", "klass", "any"}
IsTier1Body(n) ==
  IsSingleAtom(n) \/ (n.kind = "group" /\ ~n.atomic /\ n.group >= 0 /\ IsSingleAtom(n.child))
Tier1Atom(n) == IF n.kind = "group" THEN n.child ELSE n
Tier1Group(n) == IF n.kind = "group" THEN n.group ELSE -1

\* The test of a possessive loop: it writes its group's slots itself, on a match only.
AtomTest(atom, slot, exit) ==
  LET test(op, class) ==
        <<[op |-> op, class |-> class, slot |-> slot, secondary |-> exit]>>
      cp(class) == test("klass_cp_loop_possessive", class) \o ContinuationSlots
  IN CASE atom.kind = "byte" -> test("klass_loop_possessive", {atom.byte})
       [] atom.kind = "any" -> cp(CodePoints \ {Newline})
       [] OTHER -> IF atom.shorthand \/ ~(atom.class \subseteq Ascii) THEN cp(atom.class)
                   ELSE test("klass_loop_possessive", atom.class)

-----------------------------------------------------------------------------
RECURSIVE Peeled(_), Deterministic(_)

\* The atom under non-capturing groups.
Peeled(n) ==
  IF n.kind = "group" /\ n.group < 0 /\ ~n.atomic THEN Peeled(n.child) ELSE n

\* Nothing in it can give back what it took.
Deterministic(n) ==
  CASE n.kind = "concat" -> \A k \in DOMAIN n.children : Deterministic(n.children[k])
    [] n.kind = "group" -> n.atomic \/ Deterministic(n.child)
    [] n.kind = "repeat" ->
         (n.possessive \/ (n.max # -1 /\ n.min = n.max)) /\ Deterministic(n.child)
    [] n.kind = "alternation" -> FALSE
    [] OTHER -> TRUE

RECURSIVE Emit(_, _, _), EmitAll(_, _, _), EmitCopies(_, _, _, _), EmitBranches(_, _, _, _),
          EmitOptional(_, _, _, _, _)

EmitAll(nodes, at, cf) ==
  IF nodes = <<>> THEN <<>>
  ELSE LET first == Emit(Head(nodes), at, cf)
       IN first \o EmitAll(Tail(nodes), at + Len(first), cf)

\* Every branch but the last jumps to the shared exit.
EmitBranches(nodes, at, end, cf) ==
  IF Len(nodes) = 1 THEN Emit(Head(nodes), at, cf)
  ELSE LET branch == Emit(Head(nodes), at + 1, cf)
           next == at + Len(branch) + 2
       IN Split(at + 1, next) \o branch \o Jump(end) \o EmitBranches(Tail(nodes), next, end, cf)

\* An unbounded loop's body: a lone byte or code point goes as a class.
UnboundedBody(n, at, cf) ==
  LET atom == Peeled(n) IN
  IF atom.kind = "byte" THEN EmitKlass({atom.byte})
  ELSE IF SpellsAccented(atom) THEN EmitKlassCp({Accented})
  ELSE IF Fused(atom) /\ Accented \in FusedMembers(atom) THEN EmitKlassCp(FusedMembers(atom))
  ELSE IF atom.kind = "klass" /\ ~atom.shorthand /\ atom.class = {Accented}
    THEN EmitKlassCp(atom.class)
  ELSE Emit(n, at, cf)

EmitCopies(n, k, at, cf) ==
  IF k = 0 THEN <<>>
  ELSE LET copy == IF n.max = -1 THEN UnboundedBody(n.child, at, cf) ELSE Emit(n.child, at, cf)
       IN copy \o EmitCopies(n, k - 1, at + Len(copy), cf)

Branching(lazy, body, exit) == IF lazy THEN Split(exit, body) ELSE Split(body, exit)

EmitOptional(n, k, at, end, cf) ==
  IF k = 0 THEN <<>>
  ELSE LET copy == Emit(n.child, at + 1, cf)
       IN Branching(n.lazy, at + 1, end) \o copy
            \o EmitOptional(n, k - 1, at + 1 + Len(copy), end, cf)

\* e{n,}: the last mandatory copy is the loop's body; e*: a split in front of it.
EmitLoop(n, at, cf) ==
  IF n.min = 0
    THEN LET body == UnboundedBody(n.child, at + 1, cf)
         IN Branching(n.lazy, at + 1, at + Len(body) + 2) \o body \o Jump(at)
    ELSE LET before == EmitCopies(n, n.min - 1, at, cf)
             here == at + Len(before)
             body == UnboundedBody(n.child, here, cf)
         IN before \o body \o Branching(n.lazy, here, here + Len(body) + 1)

EmitRepeat(n, at, cf) ==
  IF n.max = -1 THEN EmitLoop(n, at, cf)
  ELSE LET before == EmitCopies(n, n.min, at, cf)
           here == at + Len(before)
           end == here + (n.max - n.min) * (1 + Len(Emit(n.child, 1, cf)))
       IN before \o EmitOptional(n, n.max - n.min, here, end, cf)

\* Mandatory copies as usual, then tests that leave by the shared exit on a miss.
EmitTier1(n, at) ==
  LET atom == Tier1Atom(n.child)
      group == Tier1Group(n.child)
      copy(here) == Emit(IF group < 0 THEN atom ELSE Group(group, atom), here, FALSE)
      mandatory[k \in 0 .. n.min] ==
        IF k = 0 THEN <<>> ELSE mandatory[k - 1] \o copy(at + Len(mandatory[k - 1]))
      here == at + Len(mandatory[n.min])
      slot == IF group < 0 THEN -1 ELSE 2 * group
      size == Len(AtomTest(atom, slot, 1))
      tests == IF n.max = -1 THEN 1 ELSE n.max - n.min
      exit == here + tests * size + (IF n.max = -1 THEN 1 ELSE 0)
      tail[k \in 0 .. tests] ==
        IF k = 0 THEN <<>> ELSE tail[k - 1] \o AtomTest(atom, slot, exit)
  IN mandatory[n.min] \o tail[tests] \o (IF n.max = -1 THEN Jump(here) ELSE <<>>)

\* A sub-program in the code that the main walk jumps over.
EmitLookaround(n, at) ==
  LET body == Emit(n.child, at + 2, TRUE)
      sub == [offset |-> at + 2, l_max |-> n.l_max, behind |-> n.behind, negative |-> n.negative]
  IN <<[op |-> "assert_lookaround", sub |-> sub]>> \o Jump(at + 3 + Len(body))
       \o body \o <<[op |-> "match"]>>

EmitGroup(n, at, cf) ==
  IF n.atomic /\ n.child.kind = "repeat" /\ IsTier1Body(n.child.child)
    THEN EmitTier1(n.child, at)
  ELSE IF n.group >= 0 /\ ~cf
    THEN Save(2 * n.group) \o Emit(n.child, at + 1, cf) \o Save(2 * n.group + 1)
  ELSE Emit(n.child, at, cf)

Emit(n, at, cf) ==
  CASE n.kind = "empty" -> <<>>
    [] n.kind = "byte" -> EmitBytes(<<n.byte>>)
    [] n.kind = "klass" -> EmitClass(n, at)
    [] n.kind = "any" -> EmitAnyCodepointClass(Ascii \ {Newline}, at)
    [] n.kind = "anchor" -> <<[op |-> "assert_position", kind |-> n.assert]>>
    [] n.kind = "concat" -> EmitAll(n.children, at, cf)
    [] n.kind = "repeat" -> IF n.possessive THEN EmitTier1(n, at) ELSE EmitRepeat(n, at, cf)
    [] n.kind = "alternation" ->
         IF Fused(n) THEN EmitEffectiveClass(FusedMembers(n))
         ELSE EmitBranches(n.children, at, at + Len(EmitBranches(n.children, at, 0, cf)), cf)
    [] n.kind = "group" -> EmitGroup(n, at, cf)
    [] n.kind = "lookaround" -> EmitLookaround(n, at)

Code(root) == Save(0) \o Emit(root, 2, FALSE) \o Save(1) \o <<[op |-> "match"]>>

ProgramOf(code, slot_count) ==
  [code |-> code, slot_count |-> slot_count, hints |-> HintsOf(code, slot_count)]

Compile(root, groups) == ProgramOf(Code(root), 2 * (groups + 1))

=============================================================================
