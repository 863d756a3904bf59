------------------------------- MODULE DfaRoute -------------------------------
(***************************************************************************)
(* A search by the lazy DFAs: anchored walks from the candidate starts, or *)
(* one pass for the end of the match and a walk back for its start.  Where *)
(* the walks quit, or an empty match is forbidden, the VM answers or has a *)
(* part in the answer.  Groups are filled in the window the DFAs found, by *)
(* the one-pass table or the VM; anchored matches with groups may be the   *)
(* table's alone.  Searches follow one another on one pair of DFAs.        *)
(***************************************************************************)
EXTENDS LazyDfa, OnePass

CONSTANTS
  MaxSearches,
  VM(_, _),            \* the VM's answer to a search of a program, as its module promises
  lazy_dfa_min_input,
  bill_slack           \* what the walks may cost before they give way

ASSUME RouteAssumption == {MaxSearches, lazy_dfa_min_input, bill_slack} \subseteq Nat

\* Subjects are of bytes; positions are size_t.
ASSUME SubjectsAssumption ==
  \A p \in Programs : \A s \in p.searches :
    s.text \in Seq(Bytes) /\ s.start \in Nat /\ s.forbid \in Nat

VARIABLES
  rev_cache, rev_walk, rev_at, rev_state, rev_pos, rev_best, rev_answer,
  search,       \* [text, start, mode, forbid, expected] of the search in progress
  stage,        \* idle, candidates, walk, pass, back
  scan_start,   \* where the single pass, or the candidates, began
  candidate,
  bill,         \* the walks that found nothing and the bytes they read
  out,          \* the answer: matched, slots, and whether the DFAs gave it
  searches

Backwards == INSTANCE ReverseDfa
  WITH cache <- rev_cache, walk <- rev_walk, at <- rev_at, state <- rev_state, pos <- rev_pos,
       best <- rev_best, answer <- rev_answer

dfa_vars == <<cache, policy, registers>>
rev_vars == <<rev_cache, rev_walk, rev_at, rev_state, rev_pos, rev_best, rev_answer>>
route == <<search, stage, scan_start, candidate, bill, out, searches>>

hints == program.hints
table == program.table
subject == search.text

per_walk == 16
per_walk_byte == 2
per_pass_byte == 3

\* anchored_walk_bill: the walks reread the text more than the single pass would.
Overspent(spent, crossed) ==
  per_walk * spent.walks + per_walk_byte * spent.read > bill_slack + per_pass_byte * crossed

NoMatch == [matched |-> FALSE, slots |-> [k \in 0 .. program.slot_count - 1 |-> npos]]
Undecided == [matched |-> FALSE, slots |-> <<>>]
no_search == [text |-> <<>>, start |-> 0, mode |-> "search", forbid |-> 0]

Ask(s, mode, forbid) ==
  VM(program, [text |-> s.text, start |-> s.start, mode |-> mode, sem |-> "first", forbid |-> forbid])

-----------------------------------------------------------------------------
(* Steps of the route; each leaves the DFAs alone, or begins a walk.       *)

Answered(result) == stage' = "idle" /\ out' = result

\* Mutant: a walk that quit is taken up again.
Declined_retried == stage' = "candidates" /\ UNCHANGED out

\* The route declines: the VM answers the search as it was asked.
Declined == Answered(Ask(search, search.mode, search.forbid))

AnchoredAt(p) == Begin([text |-> subject, start |-> p, anchored |-> TRUE])
PassFrom(p) == Begin([text |-> subject, start |-> p, anchored |-> FALSE])

\* The span the DFAs proved; groups are the table's to fill, or the VM's, anchored at its
\* start.  For the VM a subject is cut at its end where no assertion would see the cut.
Located(from, to) ==
  LET window == [text |-> IF look THEN subject ELSE SubSeq(subject, 1, to), start |-> from]
      filled == IF program.slot_count > 2 /\ table.eligible
                  THEN extract(table, subject, from, to) ELSE NotThere
  IN Answered(IF program.slot_count = 2
                THEN [matched |-> TRUE,
                      slots |-> [NoMatch.slots EXCEPT ![0] = from, ![1] = to]]
              ELSE IF filled.matched THEN filled
              ELSE Ask(window, "prefix", 0))

\* The table's answer, or none.
FromTable(walked) == Answered(IF walked.matched THEN walked ELSE NoMatch)

\* A full match by the table, which is deterministic: what it does not extract is no match.
MatchFull(s) ==
  /\ s.mode = "full"
  /\ table.eligible
  /\ FromTable(extract(table, s.text, s.start, Len(s.text)))

\* An anchored match with its groups, once the table is warm.
MatchGroups(s) ==
  /\ s.mode = "prefix"
  /\ program.slot_count > 2
  /\ s.forbid <= s.start
  /\ table.ends_known
  /\ FromTable(extract_leftmost(table, s.text, s.start))

\* One or the other.
MatchByTable(s) ==
  /\ MatchFull(s) \/ MatchGroups(s)
  /\ UNCHANGED <<program, dfa_vars, scan_start, candidate>>

\* Mutant: the position where an empty match is forbidden is skipped, not asked about.
FirstForbidden_skipped(s) == Undecided

\* The VM decides alone at the one position where an empty match is forbidden.
FirstForbidden(s) == IF s.forbid > s.start THEN Ask(s, "prefix", s.forbid) ELSE Undecided

LeftFrom(s) == IF s.forbid > s.start THEN s.forbid ELSE s.start
LongEnough(s, from) == from <= Len(s.text) /\ Len(s.text) - from >= lazy_dfa_min_input

\* try_anchored_prefix_dfa: a first byte that cannot begin the match answers; else the walk.
MatchPrefix(s) ==
  /\ s.mode = "prefix"
  /\ program.slot_count = 2
  /\ s.forbid <= s.start
  /\ LongEnough(s, s.start)
  /\ IF FirstByteOK(hints, s.text, s.start)
       THEN /\ Begin([text |-> s.text, start |-> s.start, anchored |-> TRUE])
            /\ stage' = "prefix"
            /\ UNCHANGED out
       ELSE Answered(NoMatch) /\ UNCHANGED <<program, dfa_vars>>
  /\ scan_start' = s.start /\ candidate' = s.start

\* run, and try_shared_lazy_dfa_search up to the first walk.
SearchText(s) ==
  LET first == FirstForbidden(s)
      from == LeftFrom(s)
  IN /\ s.mode = "search"
     /\ LongEnough(s, s.start)
     /\ IF first.matched \/ ~LongEnough(s, from)
          THEN /\ Answered(IF first.matched THEN first ELSE Ask(s, s.mode, s.forbid))
               /\ UNCHANGED <<program, dfa_vars>>
          ELSE /\ UNCHANGED out
               /\ IF hints.first_bytes_valid
                    THEN stage' = "candidates" /\ UNCHANGED <<program, dfa_vars>>
                    ELSE /\ stage' = "pass"
                         /\ Begin([text |-> s.text, start |-> from, anchored |-> FALSE])
     /\ scan_start' = from /\ candidate' = from

StartSearch(s) ==
  /\ stage = "idle"
  /\ searches < MaxSearches
  /\ search' = s
  /\ searches' = searches + 1
  /\ bill' = [walks |-> 0, read |-> 0]
  /\ MatchByTable(s) \/ MatchPrefix(s) \/ SearchText(s)
  /\ UNCHANGED rev_vars

Idle == at = "idle" /\ rev_at = "idle"
Quit == answer = quit_pos

PrefixWalked ==
  /\ stage = "prefix" /\ Idle
  /\ IF Quit THEN Declined
     ELSE Answered(IF answer = npos THEN NoMatch
                   ELSE [matched |-> TRUE, slots |-> [NoMatch.slots EXCEPT ![0] = scan.start, ![1] = answer]])
  /\ UNCHANGED <<program, dfa_vars, rev_vars, search, scan_start, candidate, bill, searches>>

NextCandidate ==
  LET c == next_candidate(hints, subject, candidate, scan_start)
  IN /\ stage = "candidates"
     /\ IF c = npos THEN Answered(NoMatch) /\ UNCHANGED <<program, dfa_vars, candidate>>
        ELSE AnchoredAt(c) /\ candidate' = c /\ stage' = "walk" /\ UNCHANGED out
     /\ UNCHANGED <<rev_vars, search, scan_start, bill, searches>>

AfterCandidate == candidate + 1

\* An anchored walk is over: its match, the next candidate, or the single pass from there.
Walked ==
  LET spent == [walks |-> bill.walks + 1, read |-> bill.read + (pos - candidate)]
      give_way == pos = Len(subject) \/ Overspent(spent, candidate - scan_start)
  IN /\ stage = "walk" /\ Idle
     /\ \/ /\ Quit
           /\ Declined
           /\ UNCHANGED <<program, dfa_vars, scan_start, candidate, bill>>
        \/ /\ ~Quit /\ answer # npos
           /\ Located(candidate, answer)
           /\ UNCHANGED <<program, dfa_vars, scan_start, candidate, bill>>
        \/ /\ ~Quit /\ answer = npos
           /\ ~give_way
           /\ candidate' = AfterCandidate /\ stage' = "candidates" /\ bill' = spent
           /\ UNCHANGED <<program, dfa_vars, out, scan_start>>
        \/ /\ ~Quit /\ answer = npos
           /\ give_way /\ candidate = Len(subject)
           /\ Answered(NoMatch)
           /\ UNCHANGED <<program, dfa_vars, scan_start, candidate, bill>>
        \/ /\ ~Quit /\ answer = npos
           /\ give_way /\ candidate < Len(subject)
           /\ scan_start' = AfterCandidate /\ stage' = "pass" /\ bill' = spent
           /\ PassFrom(AfterCandidate)
           /\ UNCHANGED <<out, candidate>>
     /\ UNCHANGED <<rev_vars, search, searches>>

\* The single pass is over: nothing, or an end whose start the reverse DFA finds.
Passed ==
  /\ stage = "pass" /\ Idle
  /\ IF Quit THEN Declined /\ UNCHANGED rev_vars
     ELSE IF answer = npos THEN Answered(NoMatch) /\ UNCHANGED rev_vars
     ELSE /\ Backwards!Begin([text |-> subject, end |-> answer, resume |-> scan_start])
          /\ stage' = "back"
          /\ UNCHANGED out
  /\ UNCHANGED <<program, dfa_vars, search, scan_start, candidate, bill, searches>>

WalkedBack ==
  /\ stage = "back" /\ Idle
  /\ IF rev_answer = quit_pos THEN Declined ELSE Located(rev_answer, answer)
  /\ UNCHANGED <<program, dfa_vars, rev_vars, search, scan_start, candidate, bill, searches>>

-----------------------------------------------------------------------------
RouteInit ==
  /\ Init
  /\ Backwards!Init
  /\ search = no_search /\ stage = "idle"
  /\ scan_start = 0 /\ candidate = 0 /\ bill = [walks |-> 0, read |-> 0]
  /\ out = Undecided /\ searches = 0

Forward == Walk /\ UNCHANGED <<rev_vars, route>>
Backward == Backwards!Walk /\ UNCHANGED <<dfa_vars, route>>

Proceed ==
  \/ Forward \/ Backward
  \/ PrefixWalked \/ NextCandidate \/ Walked \/ Passed \/ WalkedBack

\* The last search is answered.
Rest ==
  /\ stage = "idle" /\ searches = MaxSearches
  /\ UNCHANGED <<vars, rev_vars, route>>

RouteNext == (\E s \in program.searches : StartSearch(s)) \/ Proceed \/ Rest

\* A search in progress proceeds: weak fairness of Proceed, which no deadlock leaves disabled
\* before the answer.
Fairness == []<>(stage = "idle") \/ []<><<Proceed>>_<<vars, rev_vars, route>>

RouteSpec == RouteInit /\ [][RouteNext]_<<vars, rev_vars, route>> /\ Fairness

-----------------------------------------------------------------------------
\* Whatever the route took (walks from candidates, the pass and the walk back, a part or all of
\* it left to the VM) and whatever earlier searches left in the two caches, the answer is the
\* leftmost match by preference, which is not empty before the bound, with its groups.
RouteIsRight ==
  stage = "idle" /\ searches > 0 /\ search.portable => out = search.expected

\* A match has "the number of groups, including group 0 (the whole match)", those its program
\* never enters too, whichever of the DFAs, the table and the VM answers.
GroupsAreCounted ==
  stage = "idle" /\ out.matched => DOMAIN out.slots = 0 .. program.slot_count - 1

\* A walk back from an end the forward pass found reaches a start: the route reads no answer
\* of it but that, or a quit.
BackReachesAStart ==
  stage = "back" /\ Idle => rev_answer # npos

ReverseEdgesAreExact == Backwards!EdgesAreExact

\* A search is answered, by the DFAs or by the VM.
SearchesAreAnswered == stage # "idle" ~> stage = "idle"

=============================================================================
