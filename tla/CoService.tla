----------------------------- MODULE CoService -----------------------------
(***************************************************************************)
(* What one worker promises its clients, without loop, epoll, timers or    *)
(* coroutines: a client is admitted while there is room and otherwise      *)
(* waits, its connection carries one request after the other, it is kept   *)
(* only after a whole successful answer, and every request ends.           *)
(***************************************************************************)
EXTENDS Naturals, FiniteSets

CONSTANTS Conn,           \* pooled connections
          MaxConnections  \* max_connections

VARIABLES
    status,   \* what each connection is used for
    answered, \* connections whose current request got its whole answer
    waiting   \* clients that asked to connect and were not admitted yet
svars == <<status, answered, waiting>>

Used == {c \in Conn : status[c] # "free"}
Becomes(c, s) == status' = [status EXCEPT ![c] = s]

Init == /\ status = [c \in Conn |-> "free"]
        /\ answered = {} /\ waiting = 0

Arrive == waiting' = waiting + 1 /\ UNCHANGED <<status, answered>>

(* A client gets a connection of its own, never more than MaxConnections.  *)
Admit(c) ==
    /\ waiting > 0 /\ waiting' = waiting - 1
    /\ status[c] = "free" /\ Cardinality(Used) < MaxConnections
    /\ Becomes(c, "idle") /\ UNCHANGED answered

(* The pool is smaller than MaxConnections and used up: a client is lost.  *)
Lose == /\ waiting > 0 /\ waiting' = waiting - 1
        /\ Used = Conn /\ UNCHANGED <<status, answered>>

Begin(c) ==
    /\ status[c] = "idle" /\ Becomes(c, "busy")
    /\ UNCHANGED <<answered, waiting>>

Answer(c) ==
    /\ status[c] = "busy" /\ c \notin answered
    /\ answered' = answered \cup {c} /\ UNCHANGED <<status, waiting>>

Keep(c) ==
    /\ status[c] = "busy" /\ c \in answered
    /\ answered' = answered \ {c} /\ Becomes(c, "idle") /\ UNCHANGED waiting

Close(c) ==
    /\ status[c] # "free" /\ answered' = answered \ {c}
    /\ Becomes(c, "free") /\ UNCHANGED waiting

Next == \/ Arrive \/ Lose
        \/ \E c \in Conn : Admit(c) \/ Begin(c) \/ Answer(c) \/ Keep(c) \/ Close(c)

(* Safety: every step of the worker is one of these, or is not seen.       *)
Safe == Init /\ [][Next]_svars

(* Liveness: a request is answered or its connection closed, and a client  *)
(* does not wait for ever while connections are left.                      *)
Ends(c) == status[c] = "busy" /\ (Answer(c) \/ Keep(c) \/ Close(c))
Live == /\ \A c \in Conn : WF_svars(Ends(c))
        /\ WF_svars(Lose \/ \E c \in Conn : Admit(c))
=============================================================================
