-------------------------------- MODULE Routes --------------------------------
(***************************************************************************)
(* run_general has two engines for one search: a short subject goes to the *)
(* bounded backtracker, a longer one, or a search whose forward reach is   *)
(* asked for, to the Pike VM.  Here a search the backtracker may take is   *)
(* run by both, the VM first, so that their answers meet in one state; the *)
(* backtracker's marks then begin at their worst, with every byte set.     *)
(***************************************************************************)
EXTENDS PikeVM, BoundedBacktrack

BothInit == Init /\ FrameInit /\ (Taken(search) <=> marks # {})

RunVM == Next /\ UNCHANGED bt_vars
RunBacktracker ==
  /\ Done
  /\ Taken(search)
  /\ Backtrack
  /\ UNCHANGED vars

run_general == RunVM \/ RunBacktracker

BothSpec ==
  BothInit /\ [][run_general]_<<vars, bt_vars>> /\ WF_<<vars, bt_vars>>(run_general)

\* Which engine a search took cannot be told from its answer: matched or not, and every
\* slot, for programs whose loops repeat what may be empty too.
RoutesAgree ==
  Done /\ BacktrackDone => bt_matched = matched /\ bt_out_slots = out_slots

=============================================================================
