--------------------------- MODULE MCImmutablesLive ---------------------------
(* The instance of Immutables for liveness.                                *)
EXTENDS Immutables, TLC

=============================================================================
