------------------------------- MODULE MCResume -------------------------------
(* The resume channel of a worker with callers of every kind.              *)
EXTENDS CoResumeProperties

CONSTANTS w, t1, t2
=============================================================================
