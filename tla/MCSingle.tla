------------------------------- MODULE MCSingle -------------------------------
(* The hooked mutex on two worker threads, as an instance for TLC.         *)
EXTENDS CoSingleProperties, TLC

CONSTANTS t1, t2, c1, c2
HomeOfTwo == (c1 :> t1) @@ (c2 :> t2)
=============================================================================
