---------------------------- MODULE MCDispatcher ----------------------------
(* Instances of the worker thread for TLC.                                 *)
EXTENDS CoDispatcherProperties, TLC

ConnSymmetry == Permutations(Conn)
=============================================================================
