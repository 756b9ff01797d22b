------------------------------ MODULE MCBackend ------------------------------
(* The choice of an upstream server, as an instance for TLC.               *)
EXTENDS CoBackendProperties
=============================================================================
