------------------------ MODULE CoUpstreamProperties ------------------------
(***************************************************************************)
(* What parents and sub-requests of CoUpstream promise each other.         *)
(***************************************************************************)
EXTENDS CoUpstream

(* Types of the variables.                                                 *)
TypeOK ==
    /\ phase \in {"wait", "events", "delay", "resume", "timer"}
    /\ needContinue \in BOOLEAN /\ cur \in Conn \cup {None}
    /\ batch \subseteq Conn \X Nat /\ delay \in Seq(Conn \X Nat)
    /\ resumes \subseteq Parent \X Nat /\ tokens \subseteq Parent \X Nat
    /\ version \in [Conn -> Nat]
    /\ \A p \in Parent : pc[p] \in {"idle", "user", "sleep", "join", "yield"}
    /\ \A u \in Sub : pc[u] \in {"idle", "ready", "start", "wait", "run"}
    /\ flags \in [dying : SUBSET Conn, parentDying : SUBSET Sub, third : SUBSET Parent]
    /\ timers \subseteq Conn \X {"main", "sleep"}
    /\ net \in [Conn -> {"quiet", "ready", "closed"}] /\ armed \subseteq Conn
    /\ family \in [Parent -> [subs : SUBSET Sub, count : Int, infos : BOOLEAN]]
    /\ req \in [Sub -> Request \cup {None}]
    /\ pool \in [free : SUBSET Sub, reuse : [Backend -> Seq(Sub)], size : Int,
                 backend : [Sub -> Backend \cup {None}]]
    /\ ops \in [Parent -> Nat] /\ requests \in Nat

-----------------------------------------------------------------------------
Busy == {u \in Sub : req[u] # None}
Kept == UNION {Range(pool.reuse[b]) : b \in Backend}

(* A sub-request that runs has a parent that lives, in the request that    *)
(* added it, and knows it; m_count is what m_upstreamRequests holds and    *)
(* one.  Otherwise upstream_finalize_request would follow m_parent into a  *)
(* deleted request.                                                        *)
ParentOutlivesSubs ==
    /\ \A u \in Busy : LET p == req[u].parent IN
          p # None => version[p] = req[u].pver /\ u \in family[p].subs
    /\ \A p \in Parent :
          /\ family[p].count = 1 + Cardinality(family[p].subs)
          /\ \A u \in family[p].subs : u \in Busy /\ req[u].parent = p
          /\ pc[p] = "idle" => family[p].subs = {}

(* Every upstream connection is free, kept for one backend (once, clean,   *)
(* with a timer for its idle time) or in use, and m_curConnectionSize      *)
(* counts those not free and stays within max_connections.                 *)
ConnectionsCounted ==
    /\ pool.size = Cardinality(Sub \ pool.free) /\ pool.size <= MaxConnections
    /\ pool.free \cap (Busy \cup Kept) = {} /\ Busy \cap Kept = {}
    /\ Sub = pool.free \cup Busy \cup Kept
    /\ \A b \in Backend :
          /\ Len(pool.reuse[b]) = Cardinality(Range(pool.reuse[b]))
          /\ \A u \in Range(pool.reuse[b]) :
                pool.backend[u] = b /\ <<u, "main">> \in timers
    /\ \A u \in Sub \ Busy : pc[u] = "idle" /\ u \notin flags.dying

(* Nobody waits for nothing: a parent in run_upstreams has a sub-request   *)
(* that has not ended, or its wake-up is queued; a sub-request has its     *)
(* entry in the queue, or a timer.                                         *)
Queued(c) == Entry(c) \in Range(delay)
WaiterHasWaker ==
    /\ \A p \in Parent : pc[p] = "join" => family[p].subs # {} \/ Queued(p)
    /\ \A p \in Parent : pc[p] = "sleep" => \/ <<p, "sleep">> \in timers
                                            \/ family[p].subs # {} \/ Queued(p)
    /\ \A u \in Busy : /\ pc[u] = "ready" => Queued(u)
                       /\ pc[u] = "wait" => \/ <<u, "main">> \in timers
                                            \/ Queued(u) /\ u \in flags.dying

(* The comment in process_events_and_timers: the three steps may queue     *)
(* work for each other, and all of it is done before epoll is waited for.  *)
QueuesDrained == phase = "wait" => delay = << >>

(* A sub-request is not tried again once its parent was found dying.       *)
DyingNotRetried ==
    [][\A u \in Sub : req'[u] # req[u] /\ req'[u] # None /\ req'[u].tries > 0 =>
          req'[u].parent \notin flags.dying]_vars

(* The handlers see a fork and a join.                                     *)
HandlerState == [idle |-> "away", user |-> "working", sleep |-> "working",
                 yield |-> "working", join |-> "joining"]
ForkJoin == INSTANCE CoForkJoin WITH
    state   <- [p \in Parent |-> HandlerState[pc[p]]],
    pending <- [p \in Parent |-> Cardinality(family[p].subs)]
Implements == ForkJoin!Safe

(* Every request ends, and every connection to a server is given back.     *)
AllEnded == <>[](/\ \A p \in Parent : pc[p] = "idle"
                 /\ pool.free = Sub /\ pool.size = 0)

(* The comment in run_upstreams: it returns when all sub-requests have     *)
(* been processed, or with an error.                                       *)
JoinComplete ==
    [][\A p \in Parent : pc[p] = "join" /\ pc'[p] = "user" /\ p \notin flags'.dying
          => family[p].subs = {}]_vars
=============================================================================
