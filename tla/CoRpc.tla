-------------------------------- MODULE CoRpc --------------------------------
(***************************************************************************)
(* What a connection promises the two sides of a call: the server handles  *)
(* what was asked, once, and the caller gets its reply.  Only a message    *)
(* with a line that does not fit may break the connection.                 *)
(***************************************************************************)
EXTENDS Integers

CONSTANTS Message,    \* requests and replies, with fields body and line
          SafeLine    \* a first line this long is always accepted

VARIABLES stage,      \* idle, asked, served, replied or broken
          asked,      \* the request of the call
          seen,       \* the body the handler was given
          reply,      \* what the handler replied
          got         \* the body the caller was given

vars == <<stage, asked, seen, reply, got>>

Init ==
    /\ stage = "idle" /\ asked \in Message /\ reply \in Message
    /\ seen = <<>> /\ got = <<>>

Ask ==
    /\ stage = "idle" /\ stage' = "asked" /\ asked' \in Message
    /\ UNCHANGED <<seen, reply, got>>

Serve ==
    /\ stage = "asked" /\ stage' = "served" /\ seen' = asked.body
    /\ UNCHANGED <<asked, reply, got>>

Reply ==
    /\ stage = "served" /\ stage' = "replied" /\ reply' \in Message
    /\ UNCHANGED <<asked, seen, got>>

Return ==
    /\ stage = "replied" /\ stage' = "idle" /\ got' = reply.body
    /\ UNCHANGED <<asked, seen, reply>>

Break ==
    /\ \/ stage = "asked" /\ asked.line > SafeLine
       \/ stage = "replied" /\ reply.line > SafeLine
    /\ stage' = "broken" /\ UNCHANGED <<asked, seen, reply, got>>

Next == Ask \/ Serve \/ Reply \/ Return \/ Break

Safe == Init /\ [][Next]_vars

(* A call once asked comes to an end.                                      *)
Spec == Safe /\ WF_vars(Serve \/ Reply \/ Return \/ Break)
=============================================================================
