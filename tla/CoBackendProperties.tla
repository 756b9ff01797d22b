------------------------- MODULE CoBackendProperties -------------------------
(***************************************************************************)
(* What the choice of an upstream server promises.                         *)
(***************************************************************************)
EXTENDS CoBackend

(* Types of the variables.                                                 *)
TypeOK ==
    /\ conf \in [Server -> 1 .. MaxWeight]
    /\ index \in 0 .. Cardinality(Server) - 1
    /\ current \in [Server -> Int] /\ effective \in [Server -> Nat]
    /\ fail \in [Server -> BOOLEAN] /\ errNum \in [Server -> Nat]
    /\ errFirst \in [Server -> Age] /\ down \in [Server -> Age]
    /\ chosen \in Server \cup {0} /\ inFlight \in [Server -> Nat]
    /\ quiet \in 0 .. MaxQuiet

-----------------------------------------------------------------------------
(* Smooth weighted round robin: what was added to the servers of a choice  *)
(* is taken from the chosen one, and however servers rest and come back    *)
(* meanwhile, no server runs further ahead of its share or behind it than  *)
(* the other servers together could be if each had the largest weight.     *)
Heaviest == conf[CHOOSE b \in Server : \A o \in Server : conf[o] <= conf[b]]
Lead == (Cardinality(Server) - 1) * Heaviest

Proportional ==
    /\ Sum(current, Server) = 0
    /\ \A b \in Server : -Lead <= current[b] /\ current[b] <= Lead

(* A server that went down is not chosen before fail_timeout has passed    *)
(* since its last error, and a choice fails only if every server rests.    *)
Resting(b) == FailCheck /\ fail[b] /\ down[b] < FailTime
DownRests ==
    [][ChooseOne \/ ChooseOneWeight =>
         IF chosen' = 0 THEN \A b \in Server : Resting(b)
         ELSE ~Resting(chosen')]_vars

(* A server that went down is taken back some day, although errors of      *)
(* requests that were in flight when it went down prolong its rest.        *)
TakenBack == \A b \in 1 .. MaxServers :
    (b \in Server /\ fail[b]) ~> (b \in Server /\ ~fail[b])
=============================================================================
