------------------------------ MODULE CoBackend ------------------------------
(***************************************************************************)
(* The choice of an upstream server by CoBackendStrategyWRR: smooth        *)
(* weighted round robin over the servers that are not resting after a      *)
(* series of errors.                                                       *)
(*                                                                         *)
(* Times are ages in ticks.  The code subtracts 64 bit time stamps and     *)
(* casts the difference to int32_t: an age is kept modulo 2 * Half, the    *)
(* range of the cast, and Signed is what the code compares.                *)
(***************************************************************************)
EXTENDS Integers, FiniteSets

CONSTANTS MaxServers,   \* bound: servers of one upstream block
          MaxWeight,    \* bound: weight of a server in the configuration
          FailTime,     \* fail_timeout of the upstream block
          FailNum,      \* fail_maxnum of the upstream block
          Half,         \* 2^31, half of the range of int32_t
          MaxInFlight,  \* bound: requests in flight, over all servers
          MaxQuiet      \* bound: ticks between two choices

ASSUME BackendAssumption ==
    /\ MaxServers \in Nat \ {0} /\ MaxWeight \in Nat \ {0}
    /\ FailTime \in Nat /\ FailNum \in Nat
    /\ MaxInFlight \in Nat \ {0}
    /\ MaxQuiet \in Nat \ {0}
    /\ Half \in Nat /\ FailTime + MaxQuiet <= Half

VARIABLES
    conf,       \* m_confUpstreamServer->m_weight of every server
    index,      \* m_curBackendsIndex
    current,    \* m_currentWeight
    effective,  \* m_effectiveWeight
    fail,       \* m_fail
    errNum,     \* m_errNum
    errFirst,   \* age of m_errFirstTimestamp
    down,       \* age of m_downTimestamp, which is only read while m_fail
    chosen,     \* result of the last get_backend, 0 for NULL
    inFlight,   \* requests that were given a connection to the server
    quiet       \* ticks since the last choice

weights == <<current, effective>>
health  == <<fail, errNum, errFirst, down>>
vars == <<conf, index, current, effective, fail, errNum, errFirst, down,
          chosen, inFlight, quiet>>

Server == DOMAIN conf
Age == 0 .. 2 * Half - 1
Signed(age) == IF age < Half THEN age ELSE age - 2 * Half
Older(age) == (age + 1) % (2 * Half)

FailCheck == FailTime # 0 /\ FailNum # 0

(* The sum of f over those of the servers 1 .. n that are in S.            *)
Running(n, f, S) ==
    LET upto[i \in 0 .. n] == IF i = 0 THEN 0
                              ELSE upto[i - 1] + IF i \in S THEN f[i] ELSE 0
    IN upto
Sum(f, S) == Running(Cardinality(Server), f, S)[Cardinality(Server)]

(* CoBackendWRR::m_weight keeps the 0 of its declaration.                  *)
BackendWeight == [b \in Server |-> 0]

(* init(): weights are used unless there is one server only or the sum of  *)
(* m_weight is the number of servers.                                      *)
Weighted == /\ Cardinality(Server) # 1
            /\ Sum(BackendWeight, Server) # Cardinality(Server)

(* A connection is sought at least every MaxQuiet ticks; all servers share *)
(* the time stamp 0 of m_errFirstTimestamp, whatever the clock says.       *)
Init ==
    /\ conf \in UNION {[1 .. n -> 1 .. MaxWeight] : n \in 1 .. MaxServers}
    /\ index = 0
    /\ current = [b \in Server |-> 0]
    /\ effective = conf
    /\ fail = [b \in Server |-> FALSE]
    /\ errNum = [b \in Server |-> 0]
    /\ \E age \in Age : errFirst = [b \in Server |-> age]
    /\ down = [b \in Server |-> 0]
    /\ chosen = 0 /\ inFlight = [b \in Server |-> 0]
    /\ quiet = 0

-----------------------------------------------------------------------------
(* avaliable(): a server whose rest is over is taken back with no errors.  *)
(* Variants: it is taken back at once; m_fail is never cleared.            *)
RestsNever(b) == TRUE
NeverCleared(b) == FALSE

RestOver(b) == Signed(down[b]) >= FailTime

Recovers(b) == FailCheck /\ fail[b] /\ RestOver(b)
Available(b) == ~FailCheck \/ ~fail[b] \/ RestOver(b)

TakeBack(asked) ==
    /\ fail'   = [b \in Server |-> fail[b] /\ ~(b \in asked /\ Recovers(b))]
    /\ errNum' = [b \in Server |-> IF b \in asked /\ Recovers(b) THEN 0 ELSE errNum[b]]
    /\ down'   = [b \in Server |-> IF b \in asked /\ Recovers(b) THEN 0 ELSE down[b]]
    /\ UNCHANGED errFirst

(* The caller takes a kept connection to b or opens one, unless the        *)
(* upstream has as many connections as it may have.                        *)
Connect(b) ==
    /\ \/ /\ Sum(inFlight, Server) < MaxInFlight
          /\ inFlight' = [inFlight EXCEPT ![b] = @ + 1]
       \/ UNCHANGED inFlight
    /\ chosen' = b /\ quiet' = 0
    /\ UNCHANGED conf

NoBackend == chosen' = 0 /\ quiet' = 0 /\ UNCHANGED <<conf, inFlight>>

(* choose_one_weight.  Variant: the chosen server pays with its own weight.*)
PaysOwn(best, raised, up) == [raised EXCEPT ![best] = @ - effective[best]]

Pays(best, raised, up) == [raised EXCEPT ![best] = @ - Sum(effective, up)]

(* The first of the servers with the largest current weight.               *)
Leads(raised, up, b) ==
    \A o \in up : raised[o] < raised[b] \/ (raised[o] = raised[b] /\ o >= b)
Best(raised, up) == CHOOSE b \in up : Leads(raised, up, b)

ChooseOneWeight ==
    /\ Weighted
    /\ LET up == {b \in Server : Available(b)}
           raised == [b \in Server |-> IF b \in up THEN current[b] + effective[b]
                                       ELSE current[b]]
       IN /\ effective' = [b \in Server |->
                 IF b \in up /\ effective[b] < BackendWeight[b]
                 THEN effective[b] + 1 ELSE effective[b]]
          /\ \/ up = {} /\ UNCHANGED current /\ NoBackend
             \/ up # {} /\ current' = Pays(Best(raised, up), raised, up)
                        /\ Connect(Best(raised, up))
    /\ TakeBack(Server)
    /\ UNCHANGED index

(* choose_one: the servers in turn, from the one after the last choice.    *)
Turn(i) == ((index + i) % Cardinality(Server)) + 1

(* Variant: the index is not wrapped.                                      *)
AdvanceUnwrapped(n, i) == index + i
Advance(n, i) == (index + i) % n

ChooseOne ==
    /\ ~Weighted
    /\ LET n == Cardinality(Server)
           found == {i \in 1 .. n : Available(Turn(i))}
           first == CHOOSE i \in found : \A j \in found : i <= j
       IN \/ /\ found = {}
             /\ index' = Advance(n, n) /\ TakeBack(Server) /\ NoBackend
          \/ /\ found # {}
             /\ index' = Advance(n, first)
             /\ TakeBack({Turn(i) : i \in 1 .. first})
             /\ Connect(Turn(first))
    /\ UNCHANGED weights

-----------------------------------------------------------------------------
(* comm_failed, for a request that did not end with CO_OK.  The division   *)
(* is that of m_weight, and the window of errors starts anew when the      *)
(* first of them is too old.                                               *)
WindowOver(b) == Signed(errFirst[b]) > FailTime

Lowered(b) == LET e == effective[b] - BackendWeight[b] \div FailNum
              IN IF e < 0 THEN 0 ELSE e

CommFailed(b) ==
    /\ inFlight[b] > 0 /\ inFlight' = [inFlight EXCEPT ![b] = @ - 1]
    /\ LET n == (IF WindowOver(b) THEN 0 ELSE errNum[b]) + 1 IN
       IF ~FailCheck THEN UNCHANGED <<health, effective>>
       ELSE /\ effective' = [effective EXCEPT ![b] = Lowered(b)]
            /\ errFirst' = [errFirst EXCEPT ![b] = IF WindowOver(b) THEN 0 ELSE @]
            /\ errNum' = [errNum EXCEPT ![b] = n]
            /\ fail' = [fail EXCEPT ![b] = @ \/ n >= FailNum]
            /\ down' = [down EXCEPT ![b] = IF n >= FailNum THEN 0 ELSE @]
    /\ UNCHANGED <<conf, index, current, chosen, quiet>>

Succeed(b) ==
    /\ inFlight[b] > 0 /\ inFlight' = [inFlight EXCEPT ![b] = @ - 1]
    /\ UNCHANGED <<conf, index, weights, health, chosen, quiet>>

(* The clock.                                                              *)
Tick ==
    /\ quiet < MaxQuiet /\ quiet' = quiet + 1
    /\ errFirst' = [b \in Server |-> Older(errFirst[b])]
    /\ down' = [b \in Server |-> IF fail[b] THEN Older(down[b]) ELSE down[b]]
    /\ UNCHANGED <<conf, index, weights, fail, errNum, chosen, inFlight>>

Next ==
    \/ ChooseOneWeight \/ ChooseOne
    \/ \E b \in Server : CommFailed(b) \/ Succeed(b)
    \/ Tick

Spec == Init /\ [][Next]_vars

(* Requests keep coming, and time goes on.                                 *)
FairSpec == Spec /\ WF_vars(ChooseOneWeight \/ ChooseOne) /\ SF_vars(Tick)
=============================================================================
