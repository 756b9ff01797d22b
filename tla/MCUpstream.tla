------------------------------ MODULE MCUpstream ------------------------------
(* Sub-requests of one worker thread, as instances for TLC.                *)
EXTENDS CoUpstreamProperties
=============================================================================
