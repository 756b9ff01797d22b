------------------------------ MODULE CoForkJoin ------------------------------
(***************************************************************************)
(* What add_upstream and run_upstreams promise to a request handler: it    *)
(* forks any number of sub-requests, joins them, and goes on after all of  *)
(* them have ended, each of them once.                                     *)
(***************************************************************************)
EXTENDS Integers

CONSTANT Parent

VARIABLES state,    \* of each handler: away, working or joining
          pending   \* its sub-requests that have not ended

Init == /\ state = [p \in Parent |-> "away"]
        /\ pending = [p \in Parent |-> 0]

Move(p, from, to) == state[p] = from /\ state' = [state EXCEPT ![p] = to]

Arrive(p) == Move(p, "away", "working") /\ UNCHANGED pending
Fork(p) ==
    /\ state[p] = "working" /\ pending' = [pending EXCEPT ![p] = @ + 1]
    /\ UNCHANGED state
Join(p) == Move(p, "working", "joining") /\ UNCHANGED pending
End(p) ==
    /\ pending[p] > 0 /\ pending' = [pending EXCEPT ![p] = @ - 1]
    /\ UNCHANGED state
GoOn(p)   == pending[p] = 0 /\ Move(p, "joining", "working") /\ UNCHANGED pending
Finish(p) == pending[p] = 0 /\ Move(p, "working", "away") /\ UNCHANGED pending

Next == \E p \in Parent :
    Arrive(p) \/ Fork(p) \/ Join(p) \/ End(p) \/ GoOn(p) \/ Finish(p)

Safe == Init /\ [][Next]_<<state, pending>>
=============================================================================
