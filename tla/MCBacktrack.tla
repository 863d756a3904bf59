------------------------------ MODULE MCBacktrack ------------------------------
(***************************************************************************)
(* The bounded backtracker on the searches the Pike VM is run on.          *)
(***************************************************************************)
EXTENDS BoundedBacktrack, MCPatterns

\* The first match the walk reaches is the general loop's answer, captures included.
FirstMatchIsTheAnswer ==
  BacktrackDone => MCRight(search, [matched |-> bt_matched, slots |-> bt_out_slots])

=============================================================================
