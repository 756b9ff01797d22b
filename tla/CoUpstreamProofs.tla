--------------------------- MODULE CoUpstreamProofs ---------------------------
(***************************************************************************)
(* Proofs about sub-requests: for any number of parents, connections,      *)
(* servers, requests and retries.                                          *)
(***************************************************************************)
EXTENDS CoUpstreamProperties, FiniteSetTheorems, TLAPS

-----------------------------------------------------------------------------
(* The states the operators of CoUpstream work on.                         *)
ParentPc == {"idle", "user", "sleep", "join", "yield"}
SubPc == {"idle", "ready", "start", "wait", "run"}
Net == {"quiet", "ready", "closed"}
Flags == [dying : SUBSET Conn, parentDying : SUBSET Sub, third : SUBSET Parent]
Timer == Conn \X {"main", "sleep"}
Family == [subs : SUBSET Sub, count : Int, infos : BOOLEAN]
Pool == [free : SUBSET Sub, reuse : [Backend -> Seq(Sub)], size : Int,
         backend : [Sub -> Backend \cup {None}]]
State == [version : [Conn -> Nat], pc : [Conn -> ParentPc \cup SubPc], flags : Flags,
          timers : SUBSET Timer, net : [Conn -> Net], armed : SUBSET Conn,
          family : [Parent -> Family], req : [Sub -> Request \cup {None}], pool : Pool,
          delay : Seq(Conn \X Nat)]

(* An update of one field is of the same type and keeps the others.        *)
LEMMA SetVersion ==
    ASSUME NEW s \in State, NEW v \in [Conn -> Nat]
    PROVE  LET t == [s EXCEPT !.version = v] IN
           /\ t \in State /\ t.version = v
           /\ t.pc = s.pc /\ t.flags = s.flags /\ t.timers = s.timers /\ t.net = s.net
           /\ t.armed = s.armed /\ t.family = s.family /\ t.req = s.req
           /\ t.pool = s.pool /\ t.delay = s.delay
BY DEF State

LEMMA SetPc ==
    ASSUME NEW s \in State, NEW v \in [Conn -> ParentPc \cup SubPc]
    PROVE  LET t == [s EXCEPT !.pc = v] IN
           /\ t \in State /\ t.pc = v
           /\ t.version = s.version /\ t.flags = s.flags /\ t.timers = s.timers
           /\ t.net = s.net /\ t.armed = s.armed /\ t.family = s.family /\ t.req = s.req
           /\ t.pool = s.pool /\ t.delay = s.delay
BY DEF State

LEMMA SetFlags ==
    ASSUME NEW s \in State, NEW v \in Flags
    PROVE  LET t == [s EXCEPT !.flags = v] IN
           /\ t \in State /\ t.flags = v
           /\ t.version = s.version /\ t.pc = s.pc /\ t.timers = s.timers
           /\ t.net = s.net /\ t.armed = s.armed /\ t.family = s.family /\ t.req = s.req
           /\ t.pool = s.pool /\ t.delay = s.delay
BY DEF State

LEMMA SetTimers ==
    ASSUME NEW s \in State, NEW v \in SUBSET Timer
    PROVE  LET t == [s EXCEPT !.timers = v] IN
           /\ t \in State /\ t.timers = v
           /\ t.version = s.version /\ t.pc = s.pc /\ t.flags = s.flags
           /\ t.net = s.net /\ t.armed = s.armed /\ t.family = s.family /\ t.req = s.req
           /\ t.pool = s.pool /\ t.delay = s.delay
BY DEF State

LEMMA SetNet ==
    ASSUME NEW s \in State, NEW v \in [Conn -> Net]
    PROVE  LET t == [s EXCEPT !.net = v] IN
           /\ t \in State /\ t.net = v
           /\ t.version = s.version /\ t.pc = s.pc /\ t.flags = s.flags
           /\ t.timers = s.timers /\ t.armed = s.armed /\ t.family = s.family
           /\ t.req = s.req /\ t.pool = s.pool /\ t.delay = s.delay
BY DEF State

LEMMA SetArmed ==
    ASSUME NEW s \in State, NEW v \in SUBSET Conn
    PROVE  LET t == [s EXCEPT !.armed = v] IN
           /\ t \in State /\ t.armed = v
           /\ t.version = s.version /\ t.pc = s.pc /\ t.flags = s.flags
           /\ t.timers = s.timers /\ t.net = s.net /\ t.family = s.family
           /\ t.req = s.req /\ t.pool = s.pool /\ t.delay = s.delay
BY DEF State

LEMMA SetFamily ==
    ASSUME NEW s \in State, NEW v \in [Parent -> Family]
    PROVE  LET t == [s EXCEPT !.family = v] IN
           /\ t \in State /\ t.family = v
           /\ t.version = s.version /\ t.pc = s.pc /\ t.flags = s.flags
           /\ t.timers = s.timers /\ t.net = s.net /\ t.armed = s.armed
           /\ t.req = s.req /\ t.pool = s.pool /\ t.delay = s.delay
BY DEF State

LEMMA SetReq ==
    ASSUME NEW s \in State, NEW v \in [Sub -> Request \cup {None}]
    PROVE  LET t == [s EXCEPT !.req = v] IN
           /\ t \in State /\ t.req = v
           /\ t.version = s.version /\ t.pc = s.pc /\ t.flags = s.flags
           /\ t.timers = s.timers /\ t.net = s.net /\ t.armed = s.armed
           /\ t.family = s.family /\ t.pool = s.pool /\ t.delay = s.delay
BY DEF State

LEMMA SetPool ==
    ASSUME NEW s \in State, NEW v \in Pool
    PROVE  LET t == [s EXCEPT !.pool = v] IN
           /\ t \in State /\ t.pool = v
           /\ t.version = s.version /\ t.pc = s.pc /\ t.flags = s.flags
           /\ t.timers = s.timers /\ t.net = s.net /\ t.armed = s.armed
           /\ t.family = s.family /\ t.req = s.req /\ t.delay = s.delay
BY DEF State

LEMMA SetDelay ==
    ASSUME NEW s \in State, NEW v \in Seq(Conn \X Nat)
    PROVE  LET t == [s EXCEPT !.delay = v] IN
           /\ t \in State /\ t.delay = v
           /\ t.version = s.version /\ t.pc = s.pc /\ t.flags = s.flags
           /\ t.timers = s.timers /\ t.net = s.net /\ t.armed = s.armed
           /\ t.family = s.family /\ t.req = s.req /\ t.pool = s.pool
BY DEF State

LEMMA ResetIs ==
    ASSUME NEW s \in State, NEW u \in Sub
    PROVE  LET t == Reset(s, u) IN
           /\ t \in State
           /\ t.version = [s.version EXCEPT ![u] = @ + 1]
           /\ t.pc = [s.pc EXCEPT ![u] = "idle"]
           /\ t.req = [s.req EXCEPT ![u] = None]
           /\ t.flags = CleanFlags(s.flags, u)
           /\ t.timers = s.timers \ Own(u)
           /\ t.net = s.net /\ t.armed = s.armed /\ t.family = s.family
           /\ t.pool = s.pool /\ t.delay = s.delay
<1> DEFINE v1 == [s.version EXCEPT ![u] = @ + 1]
           v2 == [s.pc EXCEPT ![u] = "idle"]
           v3 == [s.req EXCEPT ![u] = None]
           v4 == CleanFlags(s.flags, u)
           v5 == s.timers \ Own(u)
           s1 == [s EXCEPT !.version = v1]
           s2 == [s1 EXCEPT !.pc = v2]
           s3 == [s2 EXCEPT !.req = v3]
           s4 == [s3 EXCEPT !.flags = v4]
           s5 == [s4 EXCEPT !.timers = v5]
<1>1. Reset(s, u) = s5
  BY DEF Reset
<1>2. /\ v1 \in [Conn -> Nat] /\ v2 \in [Conn -> ParentPc \cup SubPc]
      /\ v3 \in [Sub -> Request \cup {None}] /\ v4 \in Flags /\ v5 \in SUBSET Timer
  BY DEF State, Conn, ParentPc, CleanFlags, Flags
<1> HIDE DEF v1, v2, v3, v4, v5
<1>3. s1 \in State /\ s2 \in State /\ s3 \in State /\ s4 \in State /\ s5 \in State
  BY <1>2, SetVersion, SetPc, SetReq, SetFlags, SetTimers
<1> QED BY <1>1, <1>2, <1>3, SetVersion, SetPc, SetReq, SetFlags, SetTimers
  DEF v1, v2, v3, v4, v5

(* Close and Keep after the common reset.                                  *)
IsClose(s, u, t) ==
    /\ t \in State
    /\ t.version = [s.version EXCEPT ![u] = @ + 1]
    /\ t.pc = [s.pc EXCEPT ![u] = "idle"]
    /\ t.req = [s.req EXCEPT ![u] = None]
    /\ t.flags = CleanFlags(s.flags, u)
    /\ t.timers = s.timers \ Own(u)
    /\ t.net = [s.net EXCEPT ![u] = "quiet"]
    /\ t.armed = s.armed \ {u}
    /\ t.family = s.family /\ t.delay = s.delay
    /\ t.pool.free = s.pool.free \cup {u}
    /\ t.pool.reuse = s.pool.reuse
    /\ t.pool.backend = [s.pool.backend EXCEPT ![u] = None]
    /\ t.pool.size = s.pool.size - 1

LEMMA CloseIs ==
    ASSUME NEW s \in State, NEW u \in Sub
    PROVE  IsClose(s, u, Close(s, u))
<1> DEFINE r == Reset(s, u)
           v1 == [r.net EXCEPT ![u] = "quiet"]
           v2 == r.armed \ {u}
           v3 == [r.pool EXCEPT !.free = @ \cup {u}, !.backend[u] = None, !.size = @ - 1]
           s1 == [r EXCEPT !.net = v1]
           s2 == [s1 EXCEPT !.armed = v2]
           s3 == [s2 EXCEPT !.pool = v3]
<1>2. r \in State
  BY ResetIs
<1>1. Close(s, u) = s3
  <2> HIDE DEF r
  <2>1. Close(s, u) = [r EXCEPT !.net[u] = "quiet", !.armed = @ \ {u},
                                !.pool.free = @ \cup {u}, !.pool.backend[u] = None,
                                !.pool.size = @ - 1]
    BY DEF Close, r
  <2> QED BY <2>1
<1> HIDE DEF r
<1>4. /\ v3 \in Pool
      /\ v3.free = r.pool.free \cup {u} /\ v3.reuse = r.pool.reuse
      /\ v3.backend = [r.pool.backend EXCEPT ![u] = None] /\ v3.size = r.pool.size - 1
  <2> DEFINE q1 == [r.pool EXCEPT !.free = r.pool.free \cup {u}]
             q2 == [q1 EXCEPT !.backend = [r.pool.backend EXCEPT ![u] = None]]
             q3 == [q2 EXCEPT !.size = r.pool.size - 1]
  <2>1. /\ q1 \in Pool /\ q1.free = r.pool.free \cup {u} /\ q1.reuse = r.pool.reuse
    BY <1>2 DEF State, Pool
  <2>2. r.pool \in Pool /\ r.pool.size - 1 \in Int
        /\ [r.pool.backend EXCEPT ![u] = None] \in [Sub -> Backend \cup {None}]
    BY <1>2 DEF State, Pool
  <2>3. v3 = q3
    OBVIOUS
  <2> HIDE DEF q1, v3
  <2>4. /\ q2 \in Pool /\ q2.free = q1.free /\ q2.reuse = q1.reuse
        /\ q2.backend = [r.pool.backend EXCEPT ![u] = None]
    BY <2>1, <2>2 DEF Pool
  <2> HIDE DEF q2
  <2>5. /\ q3 \in Pool /\ q3.free = q2.free /\ q3.reuse = q2.reuse
        /\ q3.backend = q2.backend /\ q3.size = r.pool.size - 1
    BY <2>2, <2>4 DEF Pool
  <2> QED BY <2>1, <2>3, <2>4, <2>5
<1>3. v1 \in [Conn -> Net] /\ v2 \in SUBSET Conn /\ v3 \in Pool
  <2>1. v1 \in [Conn -> Net] /\ v2 \in SUBSET Conn
    BY <1>2 DEF State, Conn, Net
  <2>2. v3 \in Pool
    BY <1>4
  <2> QED BY <2>1, <2>2
<1> HIDE DEF v1, v2, v3
<1>5. s1 \in State /\ s2 \in State /\ s3 \in State
  BY <1>2, <1>3, SetNet, SetArmed, SetPool
<1>6. /\ s3.version = r.version /\ s3.pc = r.pc /\ s3.req = r.req /\ s3.flags = r.flags
      /\ s3.timers = r.timers /\ s3.net = v1 /\ s3.armed = v2 /\ s3.family = r.family
      /\ s3.delay = r.delay /\ s3.pool = v3
  BY <1>2, <1>3, <1>5, SetNet, SetArmed, SetPool
<1> HIDE DEF s1, s2, s3
<1>7. /\ r.version = [s.version EXCEPT ![u] = @ + 1] /\ r.pc = [s.pc EXCEPT ![u] = "idle"]
      /\ r.req = [s.req EXCEPT ![u] = None] /\ r.flags = CleanFlags(s.flags, u)
      /\ r.timers = s.timers \ Own(u) /\ r.net = s.net /\ r.armed = s.armed
      /\ r.family = s.family /\ r.delay = s.delay /\ r.pool = s.pool
  BY ResetIs DEF r
<1>8. s3.net = [s.net EXCEPT ![u] = "quiet"] /\ s3.armed = s.armed \ {u}
  BY <1>6, <1>7 DEF v1, v2
<1>9. IsClose(s, u, s3)
  BY <1>4, <1>5, <1>6, <1>7, <1>8 DEF IsClose
<1> QED BY <1>1, <1>9

IsKeep(s, u, t) ==
    LET b == s.pool.backend[u] IN
    /\ t \in State
    /\ t.version = [s.version EXCEPT ![u] = @ + 1]
    /\ t.pc = [s.pc EXCEPT ![u] = "idle"]
    /\ t.req = [s.req EXCEPT ![u] = None]
    /\ t.flags = CleanFlags(s.flags, u)
    /\ t.timers = (s.timers \ Own(u)) \cup {<<u, "main">>}
    /\ t.net = s.net
    /\ t.armed = IF s.net[u] = "closed" THEN s.armed \cup {u} ELSE s.armed
    /\ t.family = s.family /\ t.delay = s.delay
    /\ t.pool.free = s.pool.free /\ t.pool.backend = s.pool.backend
    /\ t.pool.reuse = [s.pool.reuse EXCEPT ![b] = <<u>> \o @]
    /\ t.pool.size = s.pool.size

LEMMA KeepIs ==
    ASSUME NEW s \in State, NEW u \in Sub, s.pool.backend[u] # None
    PROVE  IsKeep(s, u, Keep(s, u))
<1> DEFINE r == Reset(s, u)
           b == s.pool.backend[u]
           v1 == r.timers \cup {<<u, "main">>}
           v2 == IF s.net[u] = "closed" THEN r.armed \cup {u} ELSE r.armed
           v3 == [r.pool EXCEPT !.reuse[b] = <<u>> \o @]
           s1 == [r EXCEPT !.timers = v1]
           s2 == [s1 EXCEPT !.armed = v2]
           s3 == [s2 EXCEPT !.pool = v3]
<1>1. Keep(s, u) = s3
  BY DEF Keep
<1>2. r \in State /\ r.pool = s.pool
  BY ResetIs
<1> HIDE DEF r
<1>3. b \in Backend
  BY DEF State, Pool
<1>4. <<u>> \o r.pool.reuse[b] \in Seq(Sub)
  BY <1>2, <1>3 DEF State, Pool
<1>5. v1 \in SUBSET Timer /\ v2 \in SUBSET Conn
  BY <1>2 DEF State, Conn, Timer
<1>6. v3 \in Pool
  <2> DEFINE q == <<u>> \o r.pool.reuse[b]
  <2>1. v3 = [r.pool EXCEPT !.reuse = [@ EXCEPT ![b] = q]]
    OBVIOUS
  <2> HIDE DEF q
  <2> QED BY <1>2, <1>3, <1>4, <2>1 DEF State, Pool, q
<1>7. /\ v3.free = r.pool.free /\ v3.reuse = [r.pool.reuse EXCEPT ![b] = <<u>> \o @]
      /\ v3.backend = r.pool.backend /\ v3.size = r.pool.size
  BY <1>2 DEF State, Pool
<1> HIDE DEF v1, v2, v3
<1>8. s1 \in State /\ s2 \in State /\ s3 \in State
  BY <1>2, <1>5, <1>6, SetTimers, SetArmed, SetPool
<1>9. /\ s3.version = r.version /\ s3.pc = r.pc /\ s3.req = r.req /\ s3.flags = r.flags
      /\ s3.timers = v1 /\ s3.net = r.net /\ s3.armed = v2 /\ s3.family = r.family
      /\ s3.delay = r.delay /\ s3.pool = v3
  BY <1>2, <1>5, <1>6, <1>8, SetTimers, SetArmed, SetPool
<1> HIDE DEF s1, s2, s3
<1>a. /\ r.version = [s.version EXCEPT ![u] = @ + 1] /\ r.pc = [s.pc EXCEPT ![u] = "idle"]
      /\ r.req = [s.req EXCEPT ![u] = None] /\ r.flags = CleanFlags(s.flags, u)
      /\ r.timers = s.timers \ Own(u) /\ r.net = s.net /\ r.armed = s.armed
      /\ r.family = s.family /\ r.delay = s.delay /\ r.pool = s.pool
  BY ResetIs DEF r
<1>b. /\ s3.timers = (s.timers \ Own(u)) \cup {<<u, "main">>}
      /\ s3.armed = IF s.net[u] = "closed" THEN s.armed \cup {u} ELSE s.armed
  BY <1>9, <1>a DEF v1, v2
<1>c. s3.pool.reuse = [s.pool.reuse EXCEPT ![s.pool.backend[u]] = <<u>> \o @]
  BY <1>7, <1>9, <1>a
<1>d. IsKeep(s, u, s3)
  BY <1>7, <1>8, <1>9, <1>a, <1>b, <1>c DEF IsKeep
<1> QED BY <1>1, <1>d

(* A connection is taken out of the list of its backend.                   *)
LEMMA TakenFrom ==
    ASSUME NEW s \in State, NEW b \in Backend, NEW q \in Seq(Sub)
    PROVE  LET t == [s EXCEPT !.pool.reuse[b] = q] IN
           /\ t \in State
           /\ t.version = s.version /\ t.pc = s.pc /\ t.flags = s.flags
           /\ t.timers = s.timers /\ t.net = s.net /\ t.armed = s.armed
           /\ t.family = s.family /\ t.req = s.req /\ t.delay = s.delay
           /\ t.pool.free = s.pool.free /\ t.pool.backend = s.pool.backend
           /\ t.pool.size = s.pool.size
           /\ t.pool.reuse = [s.pool.reuse EXCEPT ![b] = q]
<1> DEFINE v == [s.pool EXCEPT !.reuse[b] = q]
           t == [s EXCEPT !.pool = v]
<1>1. v \in Pool
  BY DEF State, Pool
<1>2. /\ v.free = s.pool.free /\ v.reuse = [s.pool.reuse EXCEPT ![b] = q]
      /\ v.backend = s.pool.backend /\ v.size = s.pool.size
  BY DEF State, Pool
<1>3. [s EXCEPT !.pool.reuse[b] = q] = t
  OBVIOUS
<1> HIDE DEF v
<1>4. /\ t \in State /\ t.pool = v
      /\ t.version = s.version /\ t.pc = s.pc /\ t.flags = s.flags
      /\ t.timers = s.timers /\ t.net = s.net /\ t.armed = s.armed
      /\ t.family = s.family /\ t.req = s.req /\ t.delay = s.delay
  BY <1>1, SetPool
<1> HIDE DEF t
<1> QED BY <1>2, <1>3, <1>4

IsPush(s, c, t) ==
    /\ t \in State /\ t.delay = Append(s.delay, <<c, s.version[c]>>)
    /\ t.version = s.version /\ t.pc = s.pc /\ t.flags = s.flags
    /\ t.timers = s.timers /\ t.net = s.net /\ t.armed = s.armed
    /\ t.family = s.family /\ t.req = s.req /\ t.pool = s.pool

LEMMA PushIs ==
    ASSUME NEW s \in State, NEW c \in Conn
    PROVE  IsPush(s, c, Push(s, c))
<1> DEFINE v == Append(s.delay, <<c, s.version[c]>>)
<1>1. v \in Seq(Conn \X Nat)
  BY DEF State
<1>2. Push(s, c) = [s EXCEPT !.delay = v]
  BY DEF Push
<1> HIDE DEF v
<1>3. LET t == [s EXCEPT !.delay = v] IN
      /\ t \in State /\ t.delay = v
      /\ t.version = s.version /\ t.pc = s.pc /\ t.flags = s.flags
      /\ t.timers = s.timers /\ t.net = s.net /\ t.armed = s.armed
      /\ t.family = s.family /\ t.req = s.req /\ t.pool = s.pool
  BY <1>1, SetDelay
<1> QED BY <1>2, <1>3 DEF v, IsPush

IsAssign(s, u, r, t) ==
    /\ t \in State /\ t.delay = Append(s.delay, <<u, s.version[u]>>)
    /\ t.req = [s.req EXCEPT ![u] = r] /\ t.pc = [s.pc EXCEPT ![u] = "ready"]
    /\ t.version = s.version /\ t.flags = s.flags
    /\ t.timers = s.timers /\ t.net = s.net /\ t.armed = s.armed
    /\ t.family = s.family /\ t.pool = s.pool

LEMMA AssignIs ==
    ASSUME NEW s \in State, NEW u \in Sub, NEW r \in Request
    PROVE  IsAssign(s, u, r, Assign(s, u, r))
<1> DEFINE v1 == [s.req EXCEPT ![u] = r]
           v2 == [s.pc EXCEPT ![u] = "ready"]
           s1 == [s EXCEPT !.req = v1]
           s2 == [s1 EXCEPT !.pc = v2]
           t == Push(s2, u)
<1>1. Assign(s, u, r) = t
  BY DEF Assign
<1>2. v1 \in [Sub -> Request \cup {None}] /\ v2 \in [Conn -> ParentPc \cup SubPc] /\ u \in Conn
  BY DEF State, Conn, SubPc
<1> HIDE DEF v1, v2
<1>3. s1 \in State /\ s2 \in State
  BY <1>2, SetReq, SetPc
<1>4. /\ s2.req = v1 /\ s2.pc = v2 /\ s2.delay = s.delay
      /\ s2.version = s.version /\ s2.flags = s.flags
      /\ s2.timers = s.timers /\ s2.net = s.net /\ s2.armed = s.armed
      /\ s2.family = s.family /\ s2.pool = s.pool
  BY <1>2, <1>3, SetReq, SetPc
<1> HIDE DEF s1, s2
<1>5. /\ t \in State /\ t.delay = Append(s2.delay, <<u, s2.version[u]>>)
      /\ t.version = s2.version /\ t.pc = s2.pc /\ t.flags = s2.flags
      /\ t.timers = s2.timers /\ t.net = s2.net /\ t.armed = s2.armed
      /\ t.family = s2.family /\ t.req = s2.req /\ t.pool = s2.pool
  BY <1>2, <1>3, PushIs DEF IsPush
<1> HIDE DEF t
<1> QED BY <1>1, <1>4, <1>5 DEF v1, v2, IsAssign

(* get_connection.                                                         *)
GivenKept(s, g) == \E b \in Backend :
    /\ s.pool.reuse[b] # << >> /\ g.u = Head(s.pool.reuse[b])
    /\ g.s.pool.reuse = [s.pool.reuse EXCEPT ![b] = Tail(@)]
    /\ g.s.pool.free = s.pool.free /\ g.s.pool.size = s.pool.size
    /\ g.s.pool.backend = s.pool.backend
GivenNew(s, g) == \E b \in Backend :
    /\ s.pool.size < MaxConnections /\ g.u \in s.pool.free
    /\ g.s.pool.free = s.pool.free \ {g.u} /\ g.s.pool.size = s.pool.size + 1
    /\ g.s.pool.backend = [s.pool.backend EXCEPT ![g.u] = b]
    /\ g.s.pool.reuse = s.pool.reuse

LEMMA GivenIs ==
    ASSUME NEW s \in State, NEW g \in GetConnection(s)
    PROVE  /\ g.u \in Sub /\ g.s \in State
           /\ GivenKept(s, g) \/ GivenNew(s, g)
           /\ g.s.version = s.version /\ g.s.pc = s.pc /\ g.s.flags = s.flags
           /\ g.s.timers = s.timers /\ g.s.net = s.net /\ g.s.armed = s.armed
           /\ g.s.family = s.family /\ g.s.req = s.req /\ g.s.delay = s.delay
<1>1. PICK b \in Backend :
        \/ /\ s.pool.reuse[b] # << >>
           /\ g = [u |-> Head(s.pool.reuse[b]), s |-> [s EXCEPT !.pool.reuse[b] = Tail(@)]]
        \/ \E u \in s.pool.free :
             /\ Room(s)
             /\ g = [u |-> u, s |-> [s EXCEPT !.pool.free = @ \ {u}, !.pool.size = @ + 1,
                                              !.pool.backend[u] = b]]
  <2> DEFINE K(b) == [u |-> Head(s.pool.reuse[b]),
                      s |-> [s EXCEPT !.pool.reuse[b] = Tail(@)]]
             N(b, u) == [u |-> u, s |-> [s EXCEPT !.pool.free = @ \ {u}, !.pool.size = @ + 1,
                                                  !.pool.backend[u] = b]]
  <2>1. GetConnection(s) =
          UNION {IF s.pool.reuse[b] # << >> THEN {K(b)}
                 ELSE {N(b, u) : u \in IF Room(s) THEN s.pool.free ELSE {}} : b \in Backend}
    BY DEF GetConnection
  <2>2. \E b \in Backend : \/ s.pool.reuse[b] # << >> /\ g = K(b)
                           \/ \E u \in s.pool.free : Room(s) /\ g = N(b, u)
    <3> HIDE DEF K, N
    <3> QED BY <2>1
  <2> QED BY <2>2
<1>2. CASE /\ s.pool.reuse[b] # << >>
           /\ g = [u |-> Head(s.pool.reuse[b]), s |-> [s EXCEPT !.pool.reuse[b] = Tail(@)]]
  <2> DEFINE q == Tail(s.pool.reuse[b])
             t == [s EXCEPT !.pool.reuse[b] = q]
  <2>1. q \in Seq(Sub) /\ Head(s.pool.reuse[b]) \in Sub
    BY <1>2 DEF State, Pool
  <2>2. g.u = Head(s.pool.reuse[b]) /\ g.s = t
    BY <1>2
  <2> HIDE DEF q
  <2>3. /\ t \in State
        /\ t.version = s.version /\ t.pc = s.pc /\ t.flags = s.flags
        /\ t.timers = s.timers /\ t.net = s.net /\ t.armed = s.armed
        /\ t.family = s.family /\ t.req = s.req /\ t.delay = s.delay
        /\ t.pool.free = s.pool.free /\ t.pool.backend = s.pool.backend
        /\ t.pool.size = s.pool.size
        /\ t.pool.reuse = [s.pool.reuse EXCEPT ![b] = q]
    BY <2>1, TakenFrom
  <2> HIDE DEF t
  <2>4. GivenKept(s, g)
    BY <1>2, <2>2, <2>3 DEF GivenKept, q
  <2> QED BY <2>1, <2>2, <2>3, <2>4
<1>3. CASE \E u \in s.pool.free :
             /\ Room(s)
             /\ g = [u |-> u, s |-> [s EXCEPT !.pool.free = @ \ {u}, !.pool.size = @ + 1,
                                              !.pool.backend[u] = b]]
  <2>1. PICK u \in s.pool.free :
             /\ Room(s)
             /\ g = [u |-> u, s |-> [s EXCEPT !.pool.free = @ \ {u}, !.pool.size = @ + 1,
                                              !.pool.backend[u] = b]]
    BY <1>3
  <2> DEFINE v == [s.pool EXCEPT !.free = s.pool.free \ {u}, !.size = s.pool.size + 1,
                                 !.backend = [s.pool.backend EXCEPT ![u] = b]]
             t == [s EXCEPT !.pool = v]
             q1 == [s.pool EXCEPT !.free = s.pool.free \ {u}]
             q2 == [q1 EXCEPT !.size = s.pool.size + 1]
             q3 == [q2 EXCEPT !.backend = [s.pool.backend EXCEPT ![u] = b]]
  <2>2. g.u = u /\ g.s = t
    BY <2>1
  <2>3. u \in Sub /\ s.pool \in Pool /\ s.pool.size + 1 \in Int
        /\ [s.pool.backend EXCEPT ![u] = b] \in [Sub -> Backend \cup {None}]
    BY DEF State, Pool
  <2>4. /\ q1 \in Pool /\ q1.free = s.pool.free \ {u} /\ q1.reuse = s.pool.reuse
    BY DEF State, Pool
  <2>5. v = q3
    OBVIOUS
  <2> HIDE DEF q1, v
  <2>6. /\ q2 \in Pool /\ q2.free = q1.free /\ q2.reuse = q1.reuse
        /\ q2.size = s.pool.size + 1
    BY <2>3, <2>4 DEF Pool
  <2> HIDE DEF q2
  <2>7. /\ q3 \in Pool /\ q3.free = q2.free /\ q3.reuse = q2.reuse /\ q3.size = q2.size
        /\ q3.backend = [s.pool.backend EXCEPT ![u] = b]
    BY <2>3, <2>6 DEF Pool
  <2> HIDE DEF q3
  <2>8. /\ t \in State /\ t.pool = v
        /\ t.version = s.version /\ t.pc = s.pc /\ t.flags = s.flags
        /\ t.timers = s.timers /\ t.net = s.net /\ t.armed = s.armed
        /\ t.family = s.family /\ t.req = s.req /\ t.delay = s.delay
    BY <2>5, <2>7, SetPool
  <2> HIDE DEF t
  <2>9. GivenNew(s, g)
    <3>1. v.free = s.pool.free \ {u} /\ v.reuse = s.pool.reuse /\ v.size = s.pool.size + 1
      BY <2>4, <2>5, <2>6, <2>7
    <3>2. v.backend = [s.pool.backend EXCEPT ![u] = b] /\ s.pool.size < MaxConnections
      BY <2>1, <2>5, <2>7 DEF Room
    <3>3. g.u = u /\ g.s.pool = v
      BY <2>2, <2>8
    <3> QED BY <3>1, <3>2, <3>3 DEF GivenNew
  <2> QED BY <2>2, <2>3, <2>8, <2>9
<1> QED BY <1>1, <1>2, <1>3

(* The family of one parent changes.                                       *)
LEMMA FamilyIs ==
    ASSUME NEW s \in State, NEW p \in Parent, NEW f \in Family
    PROVE  LET t == [s EXCEPT !.family = [s.family EXCEPT ![p] = f]] IN
           /\ t \in State /\ t.family = [s.family EXCEPT ![p] = f]
           /\ t.version = s.version /\ t.pc = s.pc /\ t.flags = s.flags
           /\ t.timers = s.timers /\ t.net = s.net /\ t.armed = s.armed
           /\ t.req = s.req /\ t.pool = s.pool /\ t.delay = s.delay
<1> DEFINE v == [s.family EXCEPT ![p] = f]
<1>1. v \in [Parent -> Family]
  BY DEF State
<1> HIDE DEF v
<1>2. LET t == [s EXCEPT !.family = v] IN
      /\ t \in State /\ t.family = v
      /\ t.version = s.version /\ t.pc = s.pc /\ t.flags = s.flags
      /\ t.timers = s.timers /\ t.net = s.net /\ t.armed = s.armed
      /\ t.req = s.req /\ t.pool = s.pool /\ t.delay = s.delay
  BY <1>1, SetFamily
<1> QED BY <1>2 DEF v

LEMMA SetSubs ==
    ASSUME NEW x \in Family, NEW a \in SUBSET Sub
    PROVE  LET f == [x EXCEPT !.subs = a] IN
           f \in Family /\ f.subs = a /\ f.count = x.count /\ f.infos = x.infos
BY DEF Family

LEMMA SetCount ==
    ASSUME NEW x \in Family, NEW n \in Int
    PROVE  LET f == [x EXCEPT !.count = n] IN
           f \in Family /\ f.subs = x.subs /\ f.count = n /\ f.infos = x.infos
BY DEF Family

LEMMA SetInfos ==
    ASSUME NEW x \in Family, NEW i \in BOOLEAN
    PROVE  LET f == [x EXCEPT !.infos = i] IN
           f \in Family /\ f.subs = x.subs /\ f.count = x.count /\ f.infos = i
BY DEF Family

IsFinalize(s, u, r, t) ==
    LET p == r.parent
        n == s.family[p].count - 1 IN
    /\ t \in State
    /\ p = None => t.family = s.family /\ t.delay = s.delay
    /\ p # None =>
          /\ p \in Parent /\ n \in Int
          /\ \A q \in Parent \ {p} : t.family[q] = s.family[q]
          /\ t.family[p].subs = s.family[p].subs \ {u} /\ t.family[p].count = n
          /\ t.family[p].infos = s.family[p].infos
          /\ t.delay = IF n = 1 THEN Append(s.delay, <<p, s.version[p]>>) ELSE s.delay
    /\ t.version = s.version /\ t.pc = s.pc /\ t.flags = s.flags
    /\ t.timers = s.timers /\ t.net = s.net /\ t.armed = s.armed
    /\ t.req = s.req /\ t.pool = s.pool

LEMMA FinalizeIs ==
    ASSUME NEW s \in State, NEW u \in Sub, NEW r \in Request
    PROVE  IsFinalize(s, u, r, FinalizeRequest(s, u, r))
<1> DEFINE t == FinalizeRequest(s, u, r)
           p == r.parent
           n == s.family[p].count - 1
           a == s.family[p].subs \ {u}
           f1 == [s.family[p] EXCEPT !.subs = a]
           f == [f1 EXCEPT !.count = n]
           w == [s EXCEPT !.family = [s.family EXCEPT ![p] = f]]
<1>1. CASE p = None
  <2>1. t = s
    BY <1>1 DEF FinalizeRequest
  <2> HIDE DEF t
  <2> QED BY <1>1, <2>1 DEF t, IsFinalize
<1>2. CASE p # None
  <2>1. p \in Parent
    BY <1>2 DEF Request
  <2>a. s.family[p] \in Family /\ n \in Int /\ a \in SUBSET Sub
    BY <2>1 DEF State, Family
  <2>2. f \in Family /\ f.subs = a /\ f.count = n /\ f.infos = s.family[p].infos
    <3> HIDE DEF a, n
    <3>1. f1 \in Family /\ f1.subs = a /\ f1.infos = s.family[p].infos
      BY <2>a, SetSubs
    <3> HIDE DEF f1
    <3> QED BY <2>a, <3>1, SetCount
  <2>3. [s EXCEPT !.family[p].subs = @ \ {u}, !.family[p].count = n] = w
    <3>1. s.family \in [Parent -> Family]
      BY DEF State
    <3> QED BY <2>1, <3>1
  <2>4. t = IF n = 1 THEN Push(w, p) ELSE w
    <3> DEFINE e == [s EXCEPT !.family[p].subs = @ \ {u}, !.family[p].count = n]
    <3>1. t = IF n = 1 THEN Push(e, p) ELSE e
      BY <1>2 DEF FinalizeRequest, LastOne
    <3>2. e = w
      BY <2>3
    <3> HIDE DEF w, e, t
    <3> QED BY <3>1, <3>2
  <2>5. /\ w \in State /\ w.family[p] = f /\ \A q \in Parent \ {p} : w.family[q] = s.family[q]
        /\ w.version = s.version /\ w.pc = s.pc /\ w.flags = s.flags
        /\ w.timers = s.timers /\ w.net = s.net /\ w.armed = s.armed
        /\ w.req = s.req /\ w.pool = s.pool /\ w.delay = s.delay
    <3>1. p \in Parent /\ f \in Family /\ s.family \in [Parent -> Family]
      BY <2>1, <2>2 DEF State
    <3> HIDE DEF f
    <3>2. LET o == w IN
          /\ o \in State /\ o.family = [s.family EXCEPT ![p] = f]
          /\ o.version = s.version /\ o.pc = s.pc /\ o.flags = s.flags
          /\ o.timers = s.timers /\ o.net = s.net /\ o.armed = s.armed
          /\ o.req = s.req /\ o.pool = s.pool /\ o.delay = s.delay
      BY <3>1, FamilyIs
    <3> HIDE DEF w
    <3> QED BY <3>1, <3>2
  <2> DEFINE x == Push(w, p)
  <2>6. /\ x \in State /\ x.delay = Append(w.delay, <<p, w.version[p]>>)
        /\ x.version = w.version /\ x.pc = w.pc /\ x.flags = w.flags
        /\ x.timers = w.timers /\ x.net = w.net /\ x.armed = w.armed
        /\ x.family = w.family /\ x.req = w.req /\ x.pool = w.pool
    <3> HIDE DEF w
    <3> QED BY <2>1, <2>5, PushIs DEF Conn, IsPush
  <2> HIDE DEF t, w, x, f
  <2>7. CASE n = 1
    <3>1. t = x
      BY <2>4, <2>7 DEF x
    <3> QED BY <1>2, <2>1, <2>2, <2>a, <2>5, <2>6, <2>7, <3>1
      DEF t, IsFinalize
  <2>8. CASE n # 1
    <3>1. t = w
      BY <2>4, <2>8
    <3> QED BY <1>2, <2>1, <2>2, <2>a, <2>5, <2>8, <3>1 DEF t, IsFinalize
  <2> QED BY <2>7, <2>8
<1> QED BY <1>1, <1>2 DEF IsFinalize

(* add_upstream has one more of them.                                      *)
IsAdded(s, p, u, t) ==
    /\ t \in State
    /\ \A q \in Parent \ {p} : t.family[q] = s.family[q]
    /\ t.family[p].subs = s.family[p].subs \cup {u}
    /\ t.family[p].count = s.family[p].count + 1
    /\ t.version = s.version /\ t.pc = s.pc /\ t.flags = s.flags
    /\ t.timers = s.timers /\ t.net = s.net /\ t.armed = s.armed
    /\ t.req = s.req /\ t.pool = s.pool /\ t.delay = s.delay

LEMMA AddedIs ==
    ASSUME NEW s \in State, NEW p \in Parent, NEW u \in Sub
    PROVE  IsAdded(s, p, u, 
              [s EXCEPT !.family[p].subs = @ \cup {u}, !.family[p].count = @ + 1, !.family[p].infos = TRUE])
<1> DEFINE a == s.family[p].subs \cup {u}
           n == s.family[p].count + 1
           f1 == [s.family[p] EXCEPT !.subs = a]
           f2 == [f1 EXCEPT !.count = n]
           f == [f2 EXCEPT !.infos = TRUE]
           w == [s EXCEPT !.family = [s.family EXCEPT ![p] = f]]
<1>1. s.family[p] \in Family /\ n \in Int /\ a \in SUBSET Sub
      /\ s.family \in [Parent -> Family]
  BY DEF State, Family
<1>2. [s EXCEPT !.family[p].subs = @ \cup {u}, !.family[p].count = @ + 1,
                !.family[p].infos = TRUE] = w
  BY <1>1
<1> HIDE DEF a, n
<1>3. f1 \in Family /\ f1.subs = a
  BY <1>1, SetSubs
<1> HIDE DEF f1
<1>4. f2 \in Family /\ f2.subs = a /\ f2.count = n
  BY <1>1, <1>3, SetCount
<1> HIDE DEF f2
<1>5. f \in Family /\ f.subs = a /\ f.count = n
  BY <1>1, <1>4, SetInfos
<1> HIDE DEF f
<1>6. LET t == w IN
      /\ t \in State /\ t.family = [s.family EXCEPT ![p] = f]
      /\ t.version = s.version /\ t.pc = s.pc /\ t.flags = s.flags
      /\ t.timers = s.timers /\ t.net = s.net /\ t.armed = s.armed
      /\ t.req = s.req /\ t.pool = s.pool /\ t.delay = s.delay
  BY <1>5, FamilyIs
<1> HIDE DEF w
<1>7. /\ \A q \in Parent \ {p} : w.family[q] = s.family[q]
      /\ w.family[p].subs = s.family[p].subs \cup {u}
      /\ w.family[p].count = s.family[p].count + 1
  <2>1. w.family[p] = f /\ \A q \in Parent \ {p} : w.family[q] = s.family[q]
    BY <1>1, <1>6
  <2> QED BY <1>5, <2>1 DEF a, n
<1>8. IsAdded(s, p, u, w)
  BY <1>6, <1>7 DEF IsAdded
<1> QED BY <1>2, <1>8

IsMoved(s, u, r, g, t) ==
    LET p == r.parent
        m == [r EXCEPT !.tries = @ + 1] IN
    /\ t \in State /\ m \in Request /\ m.parent = r.parent /\ m.pver = r.pver
    /\ m.tries = r.tries + 1
    /\ p = None => t.family = g.s.family
    /\ p # None =>
          /\ p \in Parent
          /\ \A q \in Parent \ {p} : t.family[q] = g.s.family[q]
          /\ t.family[p].subs = (g.s.family[p].subs \ {u}) \cup {g.u}
          /\ t.family[p].count = g.s.family[p].count
    /\ t.delay = Append(g.s.delay, <<g.u, g.s.version[g.u]>>)
    /\ t.req = [g.s.req EXCEPT ![g.u] = m] /\ t.pc = [g.s.pc EXCEPT ![g.u] = "ready"]
    /\ t.version = g.s.version /\ t.flags = g.s.flags
    /\ t.timers = g.s.timers /\ t.net = g.s.net /\ t.armed = g.s.armed
    /\ t.pool = g.s.pool

LEMMA MovedIs ==
    ASSUME NEW s \in State, NEW u \in Sub, NEW r \in Request, NEW g \in GetConnection(s)
    PROVE  IsMoved(s, u, r, g, Moved(s, u, r, g))
<1> DEFINE p == r.parent
           m == [r EXCEPT !.tries = @ + 1]
           a == (g.s.family[p].subs \ {u}) \cup {g.u}
           f == [g.s.family[p] EXCEPT !.subs = a]
           w == [g.s EXCEPT !.family = [g.s.family EXCEPT ![p] = f]]
           x == IF p = None THEN g.s ELSE w
           k == g.u
           t == Assign(x, k, m)
<1>1. k \in Sub /\ g.s \in State
  BY GivenIs
<1>2. m \in Request /\ m.parent = r.parent /\ m.pver = r.pver /\ m.tries = r.tries + 1
  BY DEF Request
<1> HIDE DEF m
<1>3. /\ x \in State
      /\ p = None => x.family = g.s.family
      /\ p # None =>
            /\ p \in Parent
            /\ \A q \in Parent \ {p} : x.family[q] = g.s.family[q]
            /\ x.family[p].subs = (g.s.family[p].subs \ {u}) \cup {g.u}
            /\ x.family[p].count = g.s.family[p].count
      /\ x.delay = g.s.delay /\ x.req = g.s.req /\ x.pc = g.s.pc
      /\ x.version = g.s.version /\ x.flags = g.s.flags
      /\ x.timers = g.s.timers /\ x.net = g.s.net /\ x.armed = g.s.armed
      /\ x.pool = g.s.pool
  <2>1. CASE p = None
    <3>1. x = g.s
      BY <2>1
    <3> HIDE DEF x
    <3> QED BY <1>1, <2>1, <3>1
  <2>2. CASE p # None
    <3>1. p \in Parent
      BY <2>2 DEF Request
    <3>2. g.s.family[p] \in Family /\ a \in SUBSET Sub /\ g.s.family \in [Parent -> Family]
      BY <1>1, <3>1 DEF State, Family
    <3> HIDE DEF a
    <3>3. f \in Family /\ f.subs = a /\ f.count = g.s.family[p].count
      BY <3>2, SetSubs
    <3> HIDE DEF f
    <3>4. LET y == w IN
          /\ y \in State /\ y.family = [g.s.family EXCEPT ![p] = f]
          /\ y.version = g.s.version /\ y.pc = g.s.pc /\ y.flags = g.s.flags
          /\ y.timers = g.s.timers /\ y.net = g.s.net /\ y.armed = g.s.armed
          /\ y.req = g.s.req /\ y.pool = g.s.pool /\ y.delay = g.s.delay
      BY <1>1, <3>1, <3>3, FamilyIs
    <3>5. x = w
      BY <2>2
    <3> HIDE DEF w, x
    <3> QED BY <2>2, <3>1, <3>2, <3>3, <3>4, <3>5 DEF a
  <2> QED BY <2>1, <2>2
<1>4. Moved(s, u, r, g) = t
  <2>1. p # None => [g.s EXCEPT !.family[p].subs = (@ \ {u}) \cup {g.u}] = w
    OBVIOUS
  <2> HIDE DEF w
  <2> QED BY <2>1 DEF Moved, m
<1> HIDE DEF x, k
<1>5. IsAssign(x, k, m, t)
  BY <1>1, <1>2, <1>3, AssignIs
<1> HIDE DEF t
<1> QED BY <1>2, <1>3, <1>4, <1>5 DEF m, k, IsAssign, IsMoved

IsDying(s, c, t) ==
    /\ t \in State
    /\ t.flags.dying = s.flags.dying \cup {c}
    /\ t.flags.parentDying = s.flags.parentDying /\ t.flags.third = s.flags.third
    /\ t.version = s.version /\ t.pc = s.pc /\ t.timers = s.timers
    /\ t.net = s.net /\ t.armed = s.armed /\ t.family = s.family
    /\ t.req = s.req /\ t.pool = s.pool /\ t.delay = s.delay

LEMMA DyingIs ==
    ASSUME NEW s \in State, NEW c \in Conn
    PROVE  IsDying(s, c, Dying(s, c))
<1> DEFINE v == [s.flags EXCEPT !.dying = @ \cup {c}]
           w == [s EXCEPT !.flags = v]
<1>1. v \in Flags /\ v.dying = s.flags.dying \cup {c}
      /\ v.parentDying = s.flags.parentDying /\ v.third = s.flags.third
  BY DEF State, Flags
<1>2. Dying(s, c) = w
  BY DEF Dying
<1> HIDE DEF v
<1>3. /\ w \in State /\ w.flags = v
      /\ w.version = s.version /\ w.pc = s.pc /\ w.timers = s.timers
      /\ w.net = s.net /\ w.armed = s.armed /\ w.family = s.family
      /\ w.req = s.req /\ w.pool = s.pool /\ w.delay = s.delay
  BY <1>1, SetFlags
<1> HIDE DEF w
<1> QED BY <1>1, <1>2, <1>3 DEF IsDying

-----------------------------------------------------------------------------
(* What queues and lists contain.                                          *)
Single(q) == \A i, j \in DOMAIN q : q[i] = q[j] => i = j

LEMMA RangeAppend ==
    ASSUME NEW S, NEW q \in Seq(S), NEW e \in S
    PROVE  Range(Append(q, e)) = Range(q) \cup {e}
<1> DEFINE r == Append(q, e)
<1>1. Len(r) = Len(q) + 1 /\ r[Len(q) + 1] = e /\ Len(q) \in Nat
      /\ DOMAIN r = 1 .. Len(q) + 1 /\ DOMAIN q = 1 .. Len(q)
  OBVIOUS
<1>2. \A i \in 1 .. Len(q) : r[i] = q[i]
  OBVIOUS
<1> HIDE DEF r
<1>3. ASSUME NEW x \in Range(r) PROVE x \in Range(q) \cup {e}
  <2>1. PICK i \in DOMAIN r : x = r[i]
    BY DEF Range
  <2>2. CASE i = Len(q) + 1
    BY <1>1, <2>1, <2>2
  <2>3. CASE i \in 1 .. Len(q)
    BY <1>1, <1>2, <2>1, <2>3 DEF Range
  <2> QED BY <1>1, <2>2, <2>3
<1>4. ASSUME NEW x \in Range(q) PROVE x \in Range(r)
  <2>1. PICK i \in DOMAIN q : x = q[i]
    BY DEF Range
  <2>2. i \in DOMAIN r /\ r[i] = x
    BY <1>1, <1>2, <2>1
  <2> QED BY <2>2 DEF Range
<1>5. e \in Range(r)
  <2>1. Len(q) + 1 \in DOMAIN r
    BY <1>1
  <2> QED BY <1>1, <2>1 DEF Range
<1> QED BY <1>3, <1>4, <1>5 DEF r

LEMMA RangeConcat ==
    ASSUME NEW S, NEW q \in Seq(S), NEW r \in Seq(S)
    PROVE  Range(q \o r) = Range(q) \cup Range(r)
<1> DEFINE t == q \o r
<1>1. Len(q) \in Nat /\ Len(r) \in Nat /\ DOMAIN q = 1 .. Len(q) /\ DOMAIN r = 1 .. Len(r)
      /\ DOMAIN t = 1 .. Len(q) + Len(r)
  OBVIOUS
<1>2. \A i \in 1 .. Len(q) + Len(r) : t[i] = IF i <= Len(q) THEN q[i] ELSE r[i - Len(q)]
  OBVIOUS
<1> HIDE DEF t
<1>3. ASSUME NEW x \in Range(t) PROVE x \in Range(q) \cup Range(r)
  <2>1. PICK i \in DOMAIN t : x = t[i]
    BY DEF Range
  <2>2. CASE i <= Len(q)
    BY <1>1, <1>2, <2>1, <2>2 DEF Range
  <2>3. CASE ~(i <= Len(q))
    <3>1. i - Len(q) \in DOMAIN r /\ x = r[i - Len(q)]
      BY <1>1, <1>2, <2>1, <2>3
    <3> QED BY <3>1 DEF Range
  <2> QED BY <2>2, <2>3
<1>4. ASSUME NEW x \in Range(q) PROVE x \in Range(t)
  <2>1. PICK i \in DOMAIN q : x = q[i]
    BY DEF Range
  <2>2. i \in DOMAIN t /\ t[i] = x
    BY <1>1, <1>2, <2>1
  <2> QED BY <2>2 DEF Range
<1>5. ASSUME NEW x \in Range(r) PROVE x \in Range(t)
  <2>1. PICK i \in DOMAIN r : x = r[i]
    BY DEF Range
  <2>2. i + Len(q) \in DOMAIN t /\ t[i + Len(q)] = x
    BY <1>1, <1>2, <2>1
  <2> QED BY <2>2 DEF Range
<1> QED BY <1>3, <1>4, <1>5 DEF t

LEMMA RangeTail ==
    ASSUME NEW S, NEW q \in Seq(S), q # << >>
    PROVE  /\ Tail(q) \in Seq(S) /\ Head(q) \in S
           /\ Range(q) = Range(Tail(q)) \cup {Head(q)}
           /\ Single(q) => Single(Tail(q)) /\ Head(q) \notin Range(Tail(q))
<1> DEFINE r == Tail(q)
           h == Head(q)
<1>1. Len(q) \in Nat /\ Len(q) >= 1 /\ DOMAIN q = 1 .. Len(q) /\ DOMAIN r = 1 .. Len(q) - 1
      /\ q[1] = h /\ r \in Seq(S) /\ h \in S
  OBVIOUS
<1>2. \A i \in 1 .. Len(q) - 1 : r[i] = q[i + 1]
  OBVIOUS
<1> HIDE DEF r, h
<1>3. ASSUME NEW x \in Range(q) PROVE x \in Range(r) \cup {h}
  <2>1. PICK i \in DOMAIN q : x = q[i]
    BY DEF Range
  <2>2. CASE i # 1
    <3>1. i - 1 \in DOMAIN r /\ r[i - 1] = x
      BY <1>1, <1>2, <2>1, <2>2
    <3> QED BY <3>1 DEF Range
  <2> QED BY <1>1, <2>1, <2>2
<1>4. ASSUME NEW i \in DOMAIN r PROVE i + 1 \in DOMAIN q /\ q[i + 1] = r[i]
  BY <1>1, <1>2
<1>5. Range(r) \cup {h} \subseteq Range(q)
  BY <1>1, <1>4 DEF Range
<1>6. ASSUME Single(q) PROVE Single(r) /\ h \notin Range(r)
  BY <1>1, <1>4, <1>6 DEF Single, Range
<1> QED BY <1>1, <1>3, <1>5, <1>6 DEF r, h

LEMMA RangeCons ==
    ASSUME NEW S, NEW q \in Seq(S), NEW e \in S
    PROVE  /\ <<e>> \o q \in Seq(S) /\ Range(<<e>> \o q) = Range(q) \cup {e}
           /\ Single(q) /\ e \notin Range(q) => Single(<<e>> \o q)
<1> DEFINE r == <<e>> \o q
<1>1. Len(q) \in Nat /\ DOMAIN q = 1 .. Len(q) /\ DOMAIN r = 1 .. Len(q) + 1 /\ r[1] = e
      /\ r \in Seq(S)
  OBVIOUS
<1>2. \A i \in 2 .. Len(q) + 1 : r[i] = q[i - 1]
  OBVIOUS
<1>3. <<e>> \in Seq(S) /\ Range(<<e>>) = {e}
  BY DEF Range
<1>4. Range(r) = Range(q) \cup {e}
  <2> DEFINE d == <<e>>
  <2>1. d \in Seq(S) /\ Range(d) = {e} /\ r = d \o q
    BY <1>3
  <2> HIDE DEF d, r
  <2> QED BY <2>1, RangeConcat
<1> HIDE DEF r
<1>5. ASSUME Single(q), e \notin Range(q), NEW i \in DOMAIN r, NEW j \in DOMAIN r, r[i] = r[j]
      PROVE  i = j
  <2>1. \A k \in DOMAIN r : k # 1 => k - 1 \in DOMAIN q /\ r[k] = q[k - 1] /\ r[k] \in Range(q)
    BY <1>1, <1>2 DEF Range
  <2>2. i = 1 <=> j = 1
    BY <1>1, <1>5, <2>1
  <2>3. CASE i # 1
    <3>1. i - 1 = j - 1
      BY <1>5, <2>1, <2>2, <2>3 DEF Single
    <3> QED BY <1>1, <3>1
  <2> QED BY <2>2, <2>3
<1> QED BY <1>1, <1>4, <1>5 DEF Single, r

LEMMA SubSeqIs ==
    ASSUME NEW S, NEW q \in Seq(S), NEW k \in 1 .. Len(q)
    PROVE  SubSeq(q, k + 1, Len(q)) = [i \in 1 .. Len(q) - k |-> q[i + k]]
BY Z3

(* An entry taken out of the middle of a list.                             *)
LEMMA WithoutIs ==
    ASSUME NEW S, NEW q \in Seq(S), Single(q), NEW u \in Range(q)
    PROVE  LET r == Without(q, u) IN
           r \in Seq(S) /\ Single(r) /\ Range(r) = Range(q) \ {u}
<1> DEFINE k == CHOOSE i \in DOMAIN q : q[i] = u
           n == Len(q)
           a == SubSeq(q, 1, k - 1)
           b == SubSeq(q, k + 1, n)
           r == a \o b
<1>1. n \in Nat /\ DOMAIN q = 1 .. n /\ k \in 1 .. n /\ q[k] = u
  BY DEF Range
<1>2. Without(q, u) = r
  BY DEF Without, RemoveAt
<1> HIDE DEF k
<1>3. a \in Seq(S) /\ Len(a) = k - 1 /\ \A i \in 1 .. k - 1 : a[i] = q[i]
  BY <1>1
<1>4. b \in Seq(S) /\ Len(b) = n - k /\ \A i \in 1 .. n - k : b[i] = q[k + i]
  <2>1. \A i \in k + 1 .. n : q[i] \in S
    BY <1>1
  <2>2. b = [i \in 1 .. n - k |-> q[i + k]]
    BY <1>1, SubSeqIs
  <2> HIDE DEF b, n
  <2>3. \A i \in 1 .. n - k : i + k \in k + 1 .. n /\ i + k = k + i
    BY <1>1
  <2>4. \A i \in 1 .. n - k : b[i] = q[k + i] /\ q[k + i] \in S
    BY <2>1, <2>2, <2>3
  <2>5. n - k \in Nat
    BY <1>1
  <2>6. b \in Seq(S)
    BY <2>2, <2>4, <2>5
  <2> QED BY <2>2, <2>4, <2>5, <2>6
<1> HIDE DEF a, b, n
<1>a. Len(r) = n - 1 /\ r \in Seq(S)
  BY <1>1, <1>3, <1>4
<1>5. r \in Seq(S) /\ DOMAIN r = 1 .. n - 1
  <2> HIDE DEF r
  <2> QED BY <1>a
<1>6. \A i \in 1 .. n - 1 : r[i] = IF i < k THEN q[i] ELSE q[i + 1]
  <2>1. SUFFICES ASSUME NEW i \in 1 .. n - 1 PROVE r[i] = IF i < k THEN q[i] ELSE q[i + 1]
    OBVIOUS
  <2>2. r[i] = IF i <= k - 1 THEN a[i] ELSE b[i - (k - 1)]
    BY <1>1, <1>3, <1>4
  <2>3. CASE i < k
    BY <1>1, <1>3, <2>2, <2>3
  <2>4. CASE ~(i < k)
    <3>1. i - (k - 1) \in 1 .. n - k /\ k + (i - (k - 1)) = i + 1 /\ ~(i <= k - 1)
      BY <1>1, <2>4
    <3> QED BY <1>4, <2>2, <2>4, <3>1
  <2> QED BY <2>3, <2>4
<1> HIDE DEF r
<1>7. Single(r)
  <2>1. SUFFICES ASSUME NEW i \in DOMAIN r, NEW j \in DOMAIN r, r[i] = r[j] PROVE i = j
    BY DEF Single
  <2> DEFINE f(x) == IF x < k THEN x ELSE x + 1
  <2>2. \A x \in 1 .. n - 1 : f(x) \in 1 .. n /\ r[x] = q[f(x)]
    BY <1>1, <1>6
  <2>3. f(i) = f(j)
    BY <1>1, <1>5, <2>1, <2>2 DEF Single
  <2> QED BY <1>1, <1>5, <2>3
<1>8. Range(r) \subseteq Range(q) \ {u}
  <2>1. SUFFICES ASSUME NEW i \in DOMAIN r PROVE r[i] \in Range(q) /\ r[i] # u
    BY DEF Range
  <2> DEFINE m == IF i < k THEN i ELSE i + 1
  <2>2. m \in DOMAIN q /\ r[i] = q[m] /\ m # k
    BY <1>1, <1>5, <1>6
  <2> HIDE DEF m
  <2> QED BY <1>1, <2>2 DEF Single, Range
<1>9. Range(q) \ {u} \subseteq Range(r)
  <2>1. SUFFICES ASSUME NEW i \in DOMAIN q, q[i] # u PROVE q[i] \in Range(r)
    BY DEF Range
  <2>2. i # k
    BY <1>1, <2>1
  <2>3. CASE i < k
    <3>1. i \in DOMAIN r /\ r[i] = q[i]
      BY <1>1, <1>5, <1>6, <2>3
    <3> QED BY <3>1 DEF Range
  <2>4. CASE i > k
    <3>1. i - 1 \in DOMAIN r /\ r[i - 1] = q[i]
      BY <1>1, <1>5, <1>6, <2>4
    <3> QED BY <3>1 DEF Range
  <2> QED BY <1>1, <2>2, <2>3, <2>4
<1> QED BY <1>2, <1>5, <1>7, <1>8, <1>9

-----------------------------------------------------------------------------
(* The steps of the exception handler.                                     *)
IsFreeIdle(s, u, t) ==
    LET b == s.pool.backend[u] IN
    /\ t \in State /\ b \in Backend
    /\ t.version = [s.version EXCEPT ![u] = @ + 1]
    /\ t.pc = [s.pc EXCEPT ![u] = "idle"]
    /\ t.req = [s.req EXCEPT ![u] = None]
    /\ t.flags = CleanFlags(s.flags, u)
    /\ t.timers = s.timers \ Own(u)
    /\ t.net = [s.net EXCEPT ![u] = "quiet"]
    /\ t.armed = s.armed \ {u}
    /\ t.family = s.family /\ t.delay = s.delay
    /\ t.pool.free = s.pool.free \cup {u}
    /\ \A o \in Backend \ {b} : t.pool.reuse[o] = s.pool.reuse[o]
    /\ Single(t.pool.reuse[b])
    /\ Range(t.pool.reuse[b]) = Range(s.pool.reuse[b]) \ {u}
    /\ t.pool.backend = [s.pool.backend EXCEPT ![u] = None]
    /\ t.pool.size = s.pool.size - 1

LEMMA FreeIdleIs ==
    ASSUME NEW s \in State, NEW u \in Sub, s.pool.backend[u] # None,
           Single(s.pool.reuse[s.pool.backend[u]]),
           u \in Range(s.pool.reuse[s.pool.backend[u]])
    PROVE  IsFreeIdle(s, u, FreeIdle(s, u))
<1> DEFINE b == s.pool.backend[u]
           q == Without(s.pool.reuse[b], u)
           w == [s EXCEPT !.pool.reuse[b] = q]
           t == Close(w, u)
<1>1. b \in Backend /\ s.pool.reuse[b] \in Seq(Sub)
      /\ s.pool.reuse \in [Backend -> Seq(Sub)]
  BY DEF State, Pool
<1>2. q \in Seq(Sub) /\ Single(q) /\ Range(q) = Range(s.pool.reuse[b]) \ {u}
  BY <1>1, WithoutIs
<1>3. FreeIdle(s, u) = t
  BY DEF FreeIdle
<1> HIDE DEF q, b
<1>4. /\ w \in State
      /\ w.version = s.version /\ w.pc = s.pc /\ w.flags = s.flags
      /\ w.timers = s.timers /\ w.net = s.net /\ w.armed = s.armed
      /\ w.family = s.family /\ w.req = s.req /\ w.delay = s.delay
      /\ w.pool.free = s.pool.free /\ w.pool.backend = s.pool.backend
      /\ w.pool.size = s.pool.size
      /\ w.pool.reuse = [s.pool.reuse EXCEPT ![b] = q]
  <2>1. b \in Backend /\ q \in Seq(Sub)
    BY <1>1, <1>2
  <2> QED BY <2>1, TakenFrom
<1> HIDE DEF w
<1>5. IsClose(w, u, t)
  BY <1>4, CloseIs
<1> HIDE DEF t
<1>6. t.pool.reuse[b] = q /\ \A o \in Backend \ {b} : t.pool.reuse[o] = s.pool.reuse[o]
  BY <1>1, <1>4, <1>5 DEF IsClose
<1> QED BY <1>1, <1>2, <1>3, <1>4, <1>5, <1>6 DEF b, IsClose, IsFreeIdle

IsQuick(s, p, t) ==
    LET d == s.family[p].subs IN
    /\ t \in State
    /\ t.flags.dying = s.flags.dying \cup d
    /\ t.flags.parentDying = s.flags.parentDying \cup d
    /\ t.flags.third = s.flags.third
    /\ \E q \in Seq(Conn \X Nat) : /\ t.delay = s.delay \o q
                                 /\ \A e \in Range(q) : \E u \in d : e = <<u, s.version[u]>>
    /\ t.version = s.version /\ t.pc = s.pc /\ t.timers = s.timers
    /\ t.net = s.net /\ t.armed = s.armed /\ t.family = s.family
    /\ t.req = s.req /\ t.pool = s.pool

LEMMA QuickFinishIs ==
    ASSUME NEW s \in State, NEW p \in Parent, NEW t \in QuickFinish(s, p)
    PROVE  IsQuick(s, p, t)
<1> DEFINE d == s.family[p].subs
<1>1. PICK q \in SetToSeqs(d) :
        t = [s EXCEPT !.flags.dying = @ \cup d, !.flags.parentDying = @ \cup d,
                      !.delay = @ \o [i \in DOMAIN q |-> <<q[i], s.version[q[i]]>>]]
  BY DEF QuickFinish
<1>2. d \in SUBSET Sub
  BY DEF State, Family
<1>3. Cardinality(d) \in Nat
  BY <1>2, UpstreamAssumption, FS_Subset, FS_CardinalityType
<1> HIDE DEF d
<1>4. q \in [1 .. Cardinality(d) -> d]
  BY DEF SetToSeqs
<1> DEFINE n == Cardinality(d)
           m == [i \in DOMAIN q |-> <<q[i], s.version[q[i]]>>]
           f1 == [s.flags EXCEPT !.dying = @ \cup d]
           f == [f1 EXCEPT !.parentDying = s.flags.parentDying \cup d]
           v == s.delay \o m
           s1 == [s EXCEPT !.flags = f]
           s2 == [s1 EXCEPT !.delay = v]
<1>5. m \in Seq(Conn \X Nat) /\ \A e \in Range(m) : \E u \in d : e = <<u, s.version[u]>>
  <2>1. m = [i \in 1 .. n |-> <<q[i], s.version[q[i]]>>]
    BY <1>4
  <2>2. \A i \in 1 .. n : q[i] \in d /\ <<q[i], s.version[q[i]]>> \in Conn \X Nat
    BY <1>2, <1>4 DEF State, Conn
  <2> HIDE DEF m
  <2>3. m \in Seq(Conn \X Nat)
    BY <1>3, <2>1, <2>2
  <2>4. \A e \in Range(m) : \E u \in d : e = <<u, s.version[u]>>
    BY <2>1, <2>2 DEF Range
  <2> QED BY <2>3, <2>4
<1>6. f1 \in Flags /\ f1.dying = s.flags.dying \cup d
      /\ f1.parentDying = s.flags.parentDying /\ f1.third = s.flags.third
  BY <1>2 DEF State, Flags, Conn
<1>7. t = s2
  BY <1>1
<1> HIDE DEF f1, m
<1>8. s.flags.parentDying \cup d \in SUBSET Sub
  BY <1>2 DEF State, Flags
<1>9. f \in Flags /\ f.dying = f1.dying /\ f.third = f1.third
      /\ f.parentDying = s.flags.parentDying \cup d
  BY <1>6, <1>8 DEF Flags
<1> HIDE DEF f
<1>a. v \in Seq(Conn \X Nat) /\ v = s.delay \o m
  <2>1. s.delay \in Seq(Conn \X Nat)
    BY DEF State
  <2> QED BY <1>5, <2>1, RangeConcat
<1> HIDE DEF v
<1>b. s1 \in State /\ s2 \in State
  BY <1>9, <1>a, SetFlags, SetDelay
<1>c. /\ s2.flags = f /\ s2.delay = v
      /\ s2.version = s.version /\ s2.pc = s.pc /\ s2.timers = s.timers
      /\ s2.net = s.net /\ s2.armed = s.armed /\ s2.family = s.family
      /\ s2.req = s.req /\ s2.pool = s.pool
  BY <1>9, <1>a, <1>b, SetFlags, SetDelay
<1> HIDE DEF s1, s2
<1> QED BY <1>5, <1>6, <1>7, <1>9, <1>a, <1>b, <1>c DEF d, IsQuick

IsEntered(s, c, t) ==
    /\ t \in State
    /\ t.pc = [s.pc EXCEPT ![c] = Awake[@]]
    /\ t.flags.third = s.flags.third \ {c} /\ t.flags.dying = s.flags.dying
    /\ t.flags.parentDying = s.flags.parentDying
    /\ t.timers = IF s.pc[c] = "idle" THEN s.timers \cup {<<c, "main">>}
                  ELSE s.timers \ {<<c, "sleep">>}
    /\ t.version = s.version /\ t.net = s.net /\ t.armed = s.armed
    /\ t.family = s.family /\ t.req = s.req /\ t.pool = s.pool /\ t.delay = s.delay

LEMMA EnteredIs ==
    ASSUME NEW s \in State, NEW c \in Conn, s.pc[c] \in DOMAIN Awake
    PROVE  IsEntered(s, c, Entered(s, c))
<1> DEFINE v1 == [s.pc EXCEPT ![c] = Awake[@]]
           v2 == [s.flags EXCEPT !.third = @ \ {c}]
           v3 == IF s.pc[c] = "idle" THEN s.timers \cup {<<c, "main">>}
                 ELSE s.timers \ {<<c, "sleep">>}
           s1 == [s EXCEPT !.pc = v1]
           s2 == [s1 EXCEPT !.flags = v2]
           s3 == [s2 EXCEPT !.timers = v3]
<1>1. Entered(s, c) = s3
  BY DEF Entered
<1>2. v1 \in [Conn -> ParentPc \cup SubPc]
  <2>1. Awake[s.pc[c]] \in ParentPc \cup SubPc
    BY DEF Awake, ParentPc, SubPc
  <2> QED BY <2>1 DEF State
<1>3. v2 \in Flags /\ v2.third = s.flags.third \ {c} /\ v2.dying = s.flags.dying
      /\ v2.parentDying = s.flags.parentDying
  BY DEF State, Flags
<1>4. v3 \in SUBSET Timer
  BY DEF State, Timer
<1> HIDE DEF v1, v2, v3
<1>5. s1 \in State /\ s2 \in State /\ s3 \in State
  BY <1>2, <1>3, <1>4, SetPc, SetFlags, SetTimers
<1>6. /\ s3.pc = v1 /\ s3.flags = v2 /\ s3.timers = v3
      /\ s3.version = s.version /\ s3.net = s.net /\ s3.armed = s.armed
      /\ s3.family = s.family /\ s3.req = s.req /\ s3.pool = s.pool /\ s3.delay = s.delay
  BY <1>2, <1>3, <1>4, <1>5, SetPc, SetFlags, SetTimers
<1> HIDE DEF s1, s2, s3
<1> QED BY <1>1, <1>3, <1>5, <1>6 DEF v1, v3, IsEntered

IsClosed(s, p, t) ==
    /\ t \in State
    /\ t.version = [s.version EXCEPT ![p] = @ + 1]
    /\ t.flags = CleanFlags(s.flags, p)
    /\ t.net = [s.net EXCEPT ![p] = "quiet"] /\ t.armed = s.armed \ {p}
    /\ t.pc = s.pc /\ t.timers = s.timers
    /\ t.family = s.family /\ t.req = s.req /\ t.pool = s.pool /\ t.delay = s.delay

LEMMA ClosedIs ==
    ASSUME NEW s \in State, NEW p \in Parent
    PROVE  IsClosed(s, p, Closed(s, p))
<1> DEFINE v1 == [s.version EXCEPT ![p] = @ + 1]
           v2 == CleanFlags(s.flags, p)
           v3 == [s.net EXCEPT ![p] = "quiet"]
           v4 == s.armed \ {p}
           s1 == [s EXCEPT !.version = v1]
           s2 == [s1 EXCEPT !.flags = v2]
           s3 == [s2 EXCEPT !.net = v3]
           s4 == [s3 EXCEPT !.armed = v4]
<1>1. Closed(s, p) = s4
  BY DEF Closed
<1>2. v1 \in [Conn -> Nat] /\ v2 \in Flags /\ v3 \in [Conn -> Net] /\ v4 \in SUBSET Conn
  BY DEF State, Conn, CleanFlags, Flags, Net
<1> HIDE DEF v1, v2, v3, v4
<1>3. s1 \in State /\ s2 \in State /\ s3 \in State /\ s4 \in State
  BY <1>2, SetVersion, SetFlags, SetNet, SetArmed
<1>4. /\ s4.version = v1 /\ s4.flags = v2 /\ s4.net = v3 /\ s4.armed = v4
      /\ s4.pc = s.pc /\ s4.timers = s.timers
      /\ s4.family = s.family /\ s4.req = s.req /\ s4.pool = s.pool /\ s4.delay = s.delay
  BY <1>2, <1>3, SetVersion, SetFlags, SetNet, SetArmed
<1> HIDE DEF s1, s2, s3, s4
<1> QED BY <1>1, <1>3, <1>4 DEF v1, v2, v3, v4, IsClosed

(* UserReturn.                                                             *)
IsReturned(s, p, t) ==
    /\ t \in State
    /\ t.version = [s.version EXCEPT ![p] = @ + 1]
    /\ t.flags = CleanFlags(s.flags, p)
    /\ t.net = [s.net EXCEPT ![p] = "quiet"] /\ t.armed = s.armed \ {p}
    /\ t.pc = [s.pc EXCEPT ![p] = "idle"] /\ t.timers = s.timers \ Own(p)
    /\ t.family = [s.family EXCEPT ![p] = NoFamily]
    /\ t.req = s.req /\ t.pool = s.pool /\ t.delay = s.delay

LEMMA ReturnedIs ==
    ASSUME NEW s \in State, NEW p \in Parent
    PROVE  IsReturned(s, p, 
              [Closed(s, p) EXCEPT !.pc[p] = "idle", !.timers = @ \ Own(p), !.family[p] = NoFamily])
<1> DEFINE w == Closed(s, p)
           v1 == [w.pc EXCEPT ![p] = "idle"]
           v2 == w.timers \ Own(p)
           v3 == [w.family EXCEPT ![p] = NoFamily]
           s1 == [w EXCEPT !.pc = v1]
           s2 == [s1 EXCEPT !.timers = v2]
           s3 == [s2 EXCEPT !.family = v3]
<1>1. [w EXCEPT !.pc[p] = "idle", !.timers = @ \ Own(p), !.family[p] = NoFamily] = s3
  <2> HIDE DEF w
  <2> QED OBVIOUS
<1>2. /\ w \in State
      /\ w.version = [s.version EXCEPT ![p] = @ + 1]
      /\ w.flags = CleanFlags(s.flags, p)
      /\ w.net = [s.net EXCEPT ![p] = "quiet"] /\ w.armed = s.armed \ {p}
      /\ w.pc = s.pc /\ w.timers = s.timers
      /\ w.family = s.family /\ w.req = s.req /\ w.pool = s.pool /\ w.delay = s.delay
  BY ClosedIs DEF IsClosed
<1> HIDE DEF w
<1>3. v1 \in [Conn -> ParentPc \cup SubPc] /\ v2 \in SUBSET Timer
      /\ v3 \in [Parent -> Family]
  BY <1>2 DEF State, Conn, ParentPc, NoFamily, Family
<1> HIDE DEF v1, v2, v3
<1>4. s1 \in State /\ s2 \in State /\ s3 \in State
  BY <1>2, <1>3, SetPc, SetTimers, SetFamily
<1>5. /\ s3.pc = v1 /\ s3.timers = v2 /\ s3.family = v3
      /\ s3.version = w.version /\ s3.flags = w.flags /\ s3.net = w.net
      /\ s3.armed = w.armed /\ s3.req = w.req /\ s3.pool = w.pool /\ s3.delay = w.delay
  BY <1>2, <1>3, <1>4, SetPc, SetTimers, SetFamily
<1> HIDE DEF s1, s2, s3
<1> QED BY <1>1, <1>2, <1>4, <1>5 DEF v1, v2, v3, w, IsReturned

(* The data of a socket have been read.                                    *)
IsRead(s, u, t) ==
    /\ t \in State
    /\ t.net = [s.net EXCEPT ![u] = IF @ = "ready" THEN "quiet" ELSE @]
    /\ t.version = s.version /\ t.pc = s.pc /\ t.flags = s.flags
    /\ t.timers = s.timers /\ t.armed = s.armed /\ t.family = s.family
    /\ t.req = s.req /\ t.pool = s.pool /\ t.delay = s.delay

LEMMA ReadIs ==
    ASSUME NEW s \in State, NEW u \in Sub
    PROVE  IsRead(s, u, [s EXCEPT !.net[u] = IF @ = "ready" THEN "quiet" ELSE @])
<1> DEFINE v == [s.net EXCEPT ![u] = IF @ = "ready" THEN "quiet" ELSE @]
           w == [s EXCEPT !.net = v]
<1>1. v \in [Conn -> Net]
  BY DEF State, Net
<1>2. [s EXCEPT !.net[u] = IF @ = "ready" THEN "quiet" ELSE @] = w
  OBVIOUS
<1> HIDE DEF v
<1>3. /\ w \in State /\ w.net = v
      /\ w.version = s.version /\ w.pc = s.pc /\ w.flags = s.flags
      /\ w.timers = s.timers /\ w.armed = s.armed /\ w.family = s.family
      /\ w.req = s.req /\ w.pool = s.pool /\ w.delay = s.delay
  BY <1>1, SetNet
<1> HIDE DEF w
<1> QED BY <1>2, <1>3 DEF v, IsRead

-----------------------------------------------------------------------------
(* The inductive invariant, of the state s of the connections.             *)
ListOf(s, b) == Range(s.pool.reuse[b])
KeptIn(s) == UNION {ListOf(s, b) : b \in Backend}
Valid(s, c) == <<c, s.version[c]>>
QueuedIn(s, c) == Valid(s, c) \in Range(s.delay)

(* The coroutine of r, and no other, has the CPU.                          *)
Placed(s, r) ==
    /\ \A p \in Parent : s.pc[p] \in ParentPc
    /\ \A u \in Sub : s.pc[u] \in SubPc
    /\ \A c \in Conn : s.pc[c] \in {"user", "start", "run"} <=> c = r

(* Parents and sub-requests know each other; y is the sub-request that is  *)
(* just changing hands.                                                    *)
ParentOf(s, u) == LET p == s.req[u].parent IN
    s.req[u] # None /\ p # None => s.version[p] = s.req[u].pver /\ u \in s.family[p].subs
ChildrenOf(s, p, y) ==
    /\ s.family[p].count = 1 + Cardinality(s.family[p].subs)
    /\ \A u \in s.family[p].subs \ {y} : s.req[u] # None /\ s.req[u].parent = p
    /\ s.pc[p] = "idle" => s.family[p].subs = {}
Related(s, y) == /\ \A u \in Sub \ {y} : ParentOf(s, u)
                 /\ \A p \in Parent : ChildrenOf(s, p, y)

(* Every connection but x, which is just being given out, is free, kept or *)
(* in use.                                                                 *)
Counted(s) ==
    s.pool.size = Cardinality(Sub \ s.pool.free) /\ s.pool.size <= MaxConnections
Listed(s, x, b) ==
    /\ Single(s.pool.reuse[b])
    /\ \A u \in ListOf(s, b) : /\ u # x /\ s.pool.backend[u] = b
                               /\ u \notin s.pool.free /\ s.req[u] = None
Known(s, x, u) ==
    /\ u \in s.pool.free => u # x /\ s.req[u] = None
    /\ u \notin s.pool.free => s.pool.backend[u] # None
    /\ s.req[u] # None <=> s.pc[u] # "idle"
    /\ u # x => u \in s.pool.free \cup KeptIn(s) \/ s.req[u] # None
Pooled(s, x) ==
    Counted(s) /\ (\A b \in Backend : Listed(s, x, b)) /\ (\A u \in Sub : Known(s, x, u))

(* Nothing is under way on a connection that is free, and on a kept one    *)
(* nothing but the end of the stream; h are the entries that epoll and     *)
(* other threads hold.                                                     *)
Clean(s, h) ==
    /\ \A u \in s.pool.free :
          /\ s.timers \cap Own(u) = {} /\ u \notin s.armed /\ s.net[u] = "quiet"
          /\ Valid(s, u) \notin h /\ ~QueuedIn(s, u)
    /\ \A u \in KeptIn(s) :
          /\ s.net[u] # "ready" /\ ~QueuedIn(s, u)
          /\ Valid(s, u) \in h => s.net[u] = "closed" /\ u \notin s.armed

(* An idle connection is not dying, and a kept one has its timer; z is the *)
(* connection being dispatched.                                            *)
Idle(s, z) == \A u \in Sub \ {z} :
    /\ s.req[u] = None => u \notin s.flags.dying
    /\ u \in KeptIn(s) => <<u, "main">> \in s.timers

(* Entries are of this use of a connection or of an earlier one.           *)
Stamped(s, h) == \A e \in h \cup Range(s.delay) : e[2] <= s.version[e[1]]

(* A sleep has its timer, and only a sleep has one.                        *)
Blocking(s) ==
    /\ \A p \in s.flags.third : s.pc[p] = "sleep" /\ <<p, "sleep">> \in s.timers
    /\ \A c \in Conn : <<c, "sleep">> \in s.timers => c \in Parent /\ s.pc[c] = "sleep"

Core(s, h, r, y, x) ==
    /\ s \in State /\ h \subseteq Conn \X Nat
    /\ Placed(s, r) /\ Related(s, y) /\ Pooled(s, x) /\ Clean(s, h)
    /\ Stamped(s, h) /\ Blocking(s)

LEMMA NowIs == ASSUME NEW t \in State, Becomes(t) PROVE Now' = t
<1>1. t = [version |-> t.version, pc |-> t.pc, flags |-> t.flags, timers |-> t.timers,
           net |-> t.net, armed |-> t.armed, family |-> t.family, req |-> t.req,
           pool |-> t.pool, delay |-> t.delay]
  BY DEF State
<1> QED BY <1>1 DEF Becomes, Now

LEMMA TypesOf ==
    ASSUME NEW s \in State
    PROVE  /\ Sub \cap Parent = {} /\ None \notin Sub /\ None \notin Parent
           /\ None \notin Backend /\ Conn = Parent \cup Sub
           /\ s.version \in [Conn -> Nat] /\ s.pc \in [Conn -> ParentPc \cup SubPc]
           /\ s.req \in [Sub -> Request \cup {None}] /\ s.net \in [Conn -> Net]
           /\ s.pool.backend \in [Sub -> Backend \cup {None}]
           /\ s.pool.reuse \in [Backend -> Seq(Sub)]
           /\ \A b \in Backend : ListOf(s, b) \subseteq Sub
           /\ s.pool.size \in Int /\ s.pool.free \subseteq Sub
           /\ s.family \in [Parent -> Family]
           /\ \A p \in Parent : s.family[p].subs \subseteq Sub /\ s.family[p].count \in Int
           /\ \A u \in Sub : s.req[u] # None =>
                 s.req[u].parent \in Parent \cup {None} /\ s.req[u] \in Request
           /\ s.delay \in Seq(Conn \X Nat) /\ Range(s.delay) \subseteq Conn \X Nat
           /\ s.flags.third \subseteq Parent /\ s.flags.dying \subseteq Conn
           /\ s.timers \subseteq Timer /\ s.armed \subseteq Conn
<1>1. /\ Sub \cap Parent = {} /\ None \notin Sub /\ None \notin Parent
      /\ None \notin Backend /\ Conn = Parent \cup Sub
  BY UpstreamAssumption DEF Conn
<1>2. \A b \in Backend : ListOf(s, b) \subseteq Sub
  BY DEF State, Pool, ListOf, Range
<1>3. Range(s.delay) \subseteq Conn \X Nat
  BY DEF State, Range
<1> QED BY <1>1, <1>2, <1>3 DEF State, Pool, Flags, Family, Request

(* What passes a sub-request's connection on leaves the others alone.      *)
Passed(s, u, t) ==
    /\ t.version[u] = s.version[u] + 1 /\ t.pc[u] = "idle" /\ t.req[u] = None
    /\ \A c \in Conn \ {u} : t.version[c] = s.version[c] /\ t.pc[c] = s.pc[c]
    /\ \A v \in Sub \ {u} : t.req[v] = s.req[v]
    /\ t.flags = CleanFlags(s.flags, u) /\ t.family = s.family /\ t.delay = s.delay

LEMMA ResetPasses ==
    ASSUME NEW s \in State, NEW u \in Sub, NEW t,
           t.version = [s.version EXCEPT ![u] = @ + 1], t.pc = [s.pc EXCEPT ![u] = "idle"],
           t.req = [s.req EXCEPT ![u] = None], t.flags = CleanFlags(s.flags, u),
           t.family = s.family, t.delay = s.delay
    PROVE  Passed(s, u, t)
<1>1. /\ u \in Conn /\ s.version \in [Conn -> Nat] /\ s.req \in [Sub -> Request \cup {None}]
      /\ DOMAIN s.pc = Conn
  BY DEF State, Conn
<1> QED BY <1>1 DEF Passed

LEMMA KeepPasses ==
    ASSUME NEW s \in State, NEW u \in Sub, NEW t, IsKeep(s, u, t)
    PROVE  /\ Passed(s, u, t) /\ t.net = s.net
           /\ t.pool.free = s.pool.free /\ t.pool.backend = s.pool.backend
           /\ t.pool.size = s.pool.size
<1>1. Passed(s, u, t)
  BY ResetPasses DEF IsKeep
<1> QED BY <1>1 DEF IsKeep

LEMMA FreeIdlePasses ==
    ASSUME NEW s \in State, NEW u \in Sub, NEW t, IsFreeIdle(s, u, t)
    PROVE  Passed(s, u, t) /\ \A c \in Conn \ {u} : t.net[c] = s.net[c]
<1>1. Passed(s, u, t)
  BY ResetPasses DEF IsFreeIdle
<1>2. DOMAIN s.net = Conn /\ t.net = [s.net EXCEPT ![u] = "quiet"]
  BY DEF State, IsFreeIdle
<1> QED BY <1>1, <1>2

(* What does not touch what they speak of keeps these.                     *)
LEMMA SameBlocking ==
    ASSUME NEW s, NEW t, Blocking(s), t.pc = s.pc, t.timers = s.timers,
           t.flags.third = s.flags.third
    PROVE  Blocking(t)
BY DEF Blocking

SameFamily(s, t) ==
    /\ t.version = s.version /\ t.req = s.req /\ t.family = s.family
    /\ \A p \in Parent : t.pc[p] = "idle" => s.pc[p] = "idle"

LEMMA SameRelated ==
    ASSUME NEW s, NEW t, NEW y, Related(s, y), SameFamily(s, t) PROVE Related(t, y)
<1>1. ASSUME NEW u \in Sub \ {y} PROVE ParentOf(t, u)
  BY DEF Related, ParentOf, SameFamily
<1>2. ASSUME NEW p \in Parent PROVE ChildrenOf(t, p, y)
  BY DEF Related, ChildrenOf, SameFamily
<1> QED BY <1>1, <1>2 DEF Related

(* The size of the pool follows its free list.                             *)
LEMMA CountedLess ==
    ASSUME NEW s, NEW t, NEW u \in Sub \ s.pool.free, Counted(s),
           t.pool.free = s.pool.free \cup {u}, t.pool.size = s.pool.size - 1
    PROVE  Counted(t)
<1> DEFINE A == Sub \ s.pool.free
           n == Cardinality(A)
<1>1. IsFiniteSet(A) /\ u \in A /\ Sub \ t.pool.free = A \ {u}
  BY UpstreamAssumption, FS_Subset
<1>2. s.pool.size = n /\ n <= MaxConnections /\ MaxConnections \in Nat
  BY UpstreamAssumption DEF Counted
<1> HIDE DEF A
<1>3. Cardinality(A \ {u}) = n - 1 /\ n \in Nat
  BY <1>1, FS_RemoveElement, FS_CardinalityType
<1>4. Cardinality(Sub \ t.pool.free) = n - 1
  BY <1>1, <1>3
<1> HIDE DEF n
<1> QED BY <1>2, <1>3, <1>4 DEF Counted

LEMMA CountedMore ==
    ASSUME NEW s, NEW t, NEW u \in Sub, u \in s.pool.free, Counted(s),
           s.pool.size < MaxConnections,
           t.pool.free = s.pool.free \ {u}, t.pool.size = s.pool.size + 1
    PROVE  Counted(t)
<1> DEFINE A == Sub \ s.pool.free
           n == Cardinality(A)
<1>1. IsFiniteSet(A) /\ u \notin A /\ Sub \ t.pool.free = A \cup {u}
  BY UpstreamAssumption, FS_Subset
<1>2. s.pool.size = n /\ n < MaxConnections /\ MaxConnections \in Nat
  BY UpstreamAssumption DEF Counted
<1> HIDE DEF A
<1>3. Cardinality(A \cup {u}) = n + 1 /\ n \in Nat
  BY <1>1, FS_AddElement, FS_CardinalityType
<1>4. Cardinality(Sub \ t.pool.free) = n + 1
  BY <1>1, <1>3
<1> HIDE DEF n
<1> QED BY <1>2, <1>3, <1>4 DEF Counted

(* One entry more in the queue, and one connection more or less in a list. *)
LEMMA QueuedMore ==
    ASSUME NEW s \in State, NEW q, NEW c \in Conn, q = Append(s.delay, Valid(s, c))
    PROVE  Range(q) = Range(s.delay) \cup {Valid(s, c)}
<1> DEFINE v == Valid(s, c)
           d == s.delay
<1>1. v \in Conn \X Nat /\ d \in Seq(Conn \X Nat) /\ q = Append(d, v)
  BY DEF State, Valid
<1> HIDE DEF v, d
<1>2. Range(q) = Range(d) \cup {v}
  BY <1>1, RangeAppend
<1> QED BY <1>2 DEF v, d

LEMMA KeptMore ==
    ASSUME NEW s, NEW t, NEW c \in Backend, NEW u, ListOf(t, c) = ListOf(s, c) \cup {u},
           \A b \in Backend \ {c} : ListOf(t, b) = ListOf(s, b)
    PROVE  KeptIn(t) = KeptIn(s) \cup {u}
BY DEF KeptIn

(* The operators keep the invariant, or what of it is to be kept while a   *)
(* connection changes hands.                                               *)
Rests(r, u) == IF r = u THEN None ELSE r
NotRunning(s, r, u) == r # u => s.pc[u] \notin {"start", "run"}

LEMMA CloseCore ==
    ASSUME NEW s, NEW t, NEW h, NEW r, NEW y, NEW x, Core(s, h, r, y, x), NEW u \in Sub,
           y \in {None, u}, x \in {None, u}, u \notin s.pool.free, u \notin KeptIn(s),
           NotRunning(s, r, u), IsClose(s, u, t)
    PROVE  Core(t, h, Rests(r, u), u, None)
<1>1. s \in State /\ h \subseteq Conn \X Nat
  BY DEF Core
<1> USE <1>1, TypesOf DEF IsClose
<1>4. Placed(t, Rests(r, u))
  BY DEF Core, Placed, SubPc, Rests, NotRunning
<1>5. Related(t, u)
  <2>1. ASSUME NEW v \in Sub \ {u} PROVE ParentOf(t, v)
    <3>1. ParentOf(s, v)
      BY DEF Core, Related
    <3> QED BY <3>1 DEF ParentOf
  <2>2. ASSUME NEW p \in Parent PROVE ChildrenOf(t, p, u)
    <3>1. ChildrenOf(s, p, y)
      BY DEF Core, Related
    <3> QED BY <3>1 DEF ChildrenOf
  <2> QED BY <2>1, <2>2 DEF Related
<1>6. Pooled(t, None)
  <2>1. Counted(t)
    BY CountedLess DEF Core, Pooled
  <2>2. ASSUME NEW b \in Backend PROVE Listed(t, None, b)
    <3>1. Listed(s, x, b) /\ u \notin ListOf(s, b)
      BY DEF Core, Pooled, KeptIn
    <3> QED BY <3>1 DEF Listed, ListOf
  <2>3. ASSUME NEW v \in Sub PROVE Known(t, None, v)
    <3>1. Known(s, x, v) /\ KeptIn(t) = KeptIn(s)
      BY DEF Core, Pooled, KeptIn, ListOf
    <3> QED BY <3>1 DEF Known
  <2> QED BY <2>1, <2>2, <2>3 DEF Pooled
<1>7. Clean(t, h)
  BY DEF Core, Clean, KeptIn, ListOf, Valid, QueuedIn, Own, Stamped
<1>8. Stamped(t, h)
  BY DEF Core, Stamped
<1>9. Blocking(t)
  BY DEF Core, Blocking, CleanFlags, Own
<1> QED BY <1>4, <1>5, <1>6, <1>7, <1>8, <1>9 DEF Core

LEMMA KeepCore ==
    ASSUME NEW s, NEW t, NEW h, NEW r, NEW y, Core(s, h, r, y, None), NEW u \in Sub,
           y \in {None, u}, s.req[u] # None, s.net[u] # "ready",
           NotRunning(s, r, u), IsKeep(s, u, t)
    PROVE  Core(t, h, Rests(r, u), u, None)
<1>1. s \in State /\ h \subseteq Conn \X Nat
  BY DEF Core
<1> DEFINE c == s.pool.backend[u]
<1>2. c \in Backend /\ u \notin s.pool.free /\ u \notin KeptIn(s)
  BY <1>1, TypesOf DEF Core, Pooled, Known, Listed, KeptIn, ListOf
<1>3. /\ \A b \in Backend \ {c} : t.pool.reuse[b] = s.pool.reuse[b]
      /\ ListOf(t, c) = ListOf(s, c) \cup {u} /\ Single(t.pool.reuse[c])
  <2> DEFINE q == s.pool.reuse[c]
  <2>1. q \in Seq(Sub) /\ Single(q) /\ u \notin Range(q)
    BY <1>1, <1>2, TypesOf DEF Core, Pooled, Listed, KeptIn, ListOf
  <2> DEFINE w == <<u>> \o q
  <2>2. /\ t.pool.reuse[c] = w /\ ListOf(s, c) = Range(q)
        /\ \A b \in Backend \ {c} : t.pool.reuse[b] = s.pool.reuse[b]
    <3>1. t.pool.reuse = [s.pool.reuse EXCEPT ![c] = <<u>> \o @]
      BY DEF IsKeep
    <3>2. s.pool.reuse \in [Backend -> Seq(Sub)]
      BY <1>1, TypesOf
    <3>3. ListOf(s, c) = Range(q)
      BY DEF ListOf
    <3> HIDE DEF c
    <3> QED BY <1>2, <3>1, <3>2, <3>3
  <2> HIDE DEF q
  <2>3. Range(w) = Range(q) \cup {u} /\ Single(w)
    BY <2>1, RangeCons
  <2> HIDE DEF w, c
  <2>4. ListOf(t, c) = Range(w)
    BY <2>2 DEF ListOf
  <2> QED BY <2>2, <2>3, <2>4
<1> HIDE DEF c
<1>4. KeptIn(t) = KeptIn(s) \cup {u} /\ \A b \in Backend \ {c} : ListOf(t, b) = ListOf(s, b)
  <2>1. \A b \in Backend \ {c} : ListOf(t, b) = ListOf(s, b)
    BY <1>3 DEF ListOf
  <2> QED BY <1>2, <1>3, <2>1, KeptMore
<1>b. /\ Passed(s, u, t) /\ t.net = s.net /\ t.pool.free = s.pool.free
      /\ t.pool.backend = s.pool.backend /\ t.pool.size = s.pool.size
  BY <1>1, KeepPasses
<1>c. /\ t \in State /\ t.timers = (s.timers \ Own(u)) \cup {<<u, "main">>}
      /\ t.armed = IF s.net[u] = "closed" THEN s.armed \cup {u} ELSE s.armed
  BY DEF IsKeep
<1>d. /\ Sub \cap Parent = {} /\ Conn = Parent \cup Sub /\ None \notin Sub
      /\ \A v \in Conn : s.version[v] \in Nat
      /\ Range(s.delay) \subseteq Conn \X Nat
  BY <1>1, TypesOf
<1>5. Placed(t, Rests(r, u))
  <2>2. /\ t.pc[u] = "idle" /\ \A v \in Conn \ {u} : t.pc[v] = s.pc[v]
    BY <1>b DEF Passed
  <2>3. /\ Placed(s, r) /\ "idle" \in SubPc /\ u \in Conn /\ u \notin Parent
    BY <1>d DEF Core, SubPc
  <2>4. \A v \in Parent : t.pc[v] \in ParentPc
    BY <1>d, <2>2, <2>3 DEF Placed
  <2>5. \A v \in Sub : t.pc[v] \in SubPc
    BY <1>d, <2>2, <2>3 DEF Placed
  <2>6. \A v \in Conn : t.pc[v] \in {"user", "start", "run"} <=> v = Rests(r, u)
    <3>2. \A v \in Conn \ {u} : t.pc[v] \in {"user", "start", "run"} <=> v = r
      BY <2>2, <2>3 DEF Placed
    <3>3. u # None /\ None \notin Conn
      BY <1>1, TypesOf
    <3> QED BY <2>2, <3>2, <3>3 DEF Rests
  <2> QED BY <2>4, <2>5, <2>6 DEF Placed
<1>6. Related(t, u)
  <2>1. ASSUME NEW v \in Sub \ {u} PROVE ParentOf(t, v)
    <3>1. ParentOf(s, v)
      BY <1>d DEF Core, Related
    <3>2. t.req[v] = s.req[v] /\ t.family = s.family
      BY <1>b DEF Passed
    <3>3. \A p \in Parent : t.version[p] = s.version[p]
      BY <1>b, <1>d DEF Passed
    <3>4. s.req[v] # None => s.req[v].parent \in Parent \cup {None}
      BY <1>1, TypesOf
    <3> QED BY <3>1, <3>2, <3>3, <3>4 DEF ParentOf
  <2>2. ASSUME NEW p \in Parent PROVE ChildrenOf(t, p, u)
    <3>1. ChildrenOf(s, p, y)
      BY DEF Core, Related
    <3>2. t.family = s.family /\ t.pc[p] = s.pc[p]
      BY <1>b, <1>d DEF Passed
    <3>3. \A v \in s.family[p].subs \ {u} : t.req[v] = s.req[v]
      BY <1>1, <1>b, TypesOf DEF Passed
    <3>4. s.family[p].subs \ {u} \subseteq s.family[p].subs \ {y}
      BY <1>1, <1>d, TypesOf
    <3> QED BY <3>1, <3>2, <3>3, <3>4 DEF ChildrenOf
  <2> QED BY <2>1, <2>2 DEF Related
<1>7. Pooled(t, None)
  <2>1. Counted(t)
    BY <1>b DEF Core, Pooled, Counted
  <2>2. ASSUME NEW b \in Backend PROVE Listed(t, None, b)
    <3>1. Listed(s, None, b)
      BY DEF Core, Pooled
    <3>2. CASE b # c
      <4>1. t.pool.reuse[b] = s.pool.reuse[b] /\ ListOf(t, b) = ListOf(s, b)
        BY <1>3, <1>4, <3>2
      <4>2. \A v \in ListOf(s, b) : v \in Sub \ {u}
        BY <1>1, <1>2, TypesOf DEF KeptIn
      <4> QED BY <1>b, <3>1, <4>1, <4>2 DEF Listed, Passed
    <3>3. CASE b = c
      <4>1. Single(t.pool.reuse[b]) /\ ListOf(t, b) = ListOf(s, b) \cup {u}
        BY <1>3, <3>3
      <4>2. \A v \in ListOf(s, b) : v \in Sub
        BY <1>1, TypesOf
      <4>3. s.pool.backend[u] = b /\ u # None
        BY <1>1, <3>3, TypesOf DEF c
      <4> QED BY <1>2, <1>b, <3>1, <4>1, <4>2, <4>3 DEF Listed, Passed
    <3> QED BY <3>2, <3>3
  <2>3. ASSUME NEW v \in Sub PROVE Known(t, None, v)
    <3>1. Known(s, None, v)
      BY DEF Core, Pooled
    <3>2. CASE v = u
      <4>1. s.pool.backend[u] # None
        BY <1>2, <1>1, TypesOf DEF c
      <4> QED BY <1>2, <1>4, <1>b, <1>d, <3>2, <4>1 DEF Known, Passed
    <3>3. CASE v # u
      <4>1. t.req[v] = s.req[v] /\ t.pc[v] = s.pc[v]
        BY <1>b, <1>d, <3>3 DEF Passed
      <4> QED BY <1>4, <1>b, <3>1, <4>1 DEF Known
    <3> QED BY <3>2, <3>3
  <2> QED BY <2>1, <2>2, <2>3 DEF Pooled
<1>8. Clean(t, h)
  <2>1. ASSUME NEW v \in s.pool.free
        PROVE  t.timers \cap Own(v) = {} /\ v \notin t.armed /\ t.net[v] = "quiet"
               /\ Valid(t, v) \notin h /\ ~QueuedIn(t, v)
    <3>1. v \in Sub \ {u}
      BY <1>1, <1>2, TypesOf
    <3>2. t.version[v] = s.version[v] /\ t.delay = s.delay
      BY <1>b, <1>d, <3>1 DEF Passed
    <3>3. <<u, "main">> \notin Own(v)
      BY <3>1 DEF Own
    <3> QED BY <1>b, <1>c, <3>1, <3>2, <3>3 DEF Core, Clean, Valid, QueuedIn
  <2>2. ASSUME NEW v \in KeptIn(s)
        PROVE  t.net[v] # "ready" /\ ~QueuedIn(t, v)
               /\ (Valid(t, v) \in h => t.net[v] = "closed" /\ v \notin t.armed)
    <3>1. v \in Sub /\ v # u
      BY <1>1, <1>2, TypesOf DEF KeptIn
    <3>2. t.version[v] = s.version[v] /\ t.delay = s.delay
      BY <1>b, <1>d, <3>1 DEF Passed
    <3> QED BY <1>b, <1>c, <3>1, <3>2 DEF Core, Clean, Valid, QueuedIn
  <2>3. Valid(t, u) \notin h /\ ~QueuedIn(t, u)
    <3>1. t.version[u] = s.version[u] + 1 /\ s.version[u] \in Nat /\ t.delay = s.delay
      BY <1>b, <1>d DEF Passed
    <3> QED BY <3>1 DEF Core, Stamped, Valid, QueuedIn
  <2>4. t.net[u] # "ready" /\ (Valid(t, u) \in h => FALSE)
    BY <1>b, <2>3
  <2> QED BY <1>4, <1>b, <2>1, <2>2, <2>3, <2>4 DEF Clean
<1>9. Stamped(t, h)
  <2>1. \A v \in Conn : s.version[v] <= t.version[v] /\ t.version[v] \in Nat
    BY <1>b, <1>d DEF Passed
  <2>2. \A e \in h \cup Range(s.delay) : e[1] \in Conn /\ e[2] \in Nat /\ e[2] <= s.version[e[1]]
    BY <1>1, <1>d DEF Core, Stamped
  <2> QED BY <1>b, <1>d, <2>1, <2>2 DEF Passed, Stamped
<1>a. Blocking(t)
  <2>1. \A p \in t.flags.third : p \in s.flags.third /\ p \in Parent
    BY <1>1, <1>b, TypesOf DEF Passed, CleanFlags
  <2>2. \A v \in Conn : <<v, "sleep">> \in t.timers => <<v, "sleep">> \in s.timers /\ v # u
    BY <1>c DEF Own
  <2>3. \A p \in Parent : t.pc[p] = s.pc[p] /\ (<<p, "sleep">> \in s.timers => <<p, "sleep">> \in t.timers)
    BY <1>b, <1>c, <1>d DEF Passed, Own
  <2> QED BY <1>d, <2>1, <2>2, <2>3 DEF Core, Blocking
<1> QED BY <1>1, <1>5, <1>6, <1>7, <1>8, <1>9, <1>a, <1>c DEF Core

(* The end of a sub-request is told to its parent.                         *)
LEMMA FinalizeCore ==
    ASSUME NEW s, NEW t, NEW h, NEW r, NEW y, NEW x, Core(s, h, r, y, x), NEW u \in Sub,
           y \in {None, u}, NEW k \in Request,
           \A p \in Parent : u \in s.family[p].subs <=> p = k.parent,
           IsFinalize(s, u, k, t)
    PROVE  Core(t, h, r, u, x) /\ \A p \in Parent : u \notin t.family[p].subs
<1>1. s \in State /\ h \subseteq Conn \X Nat
  BY DEF Core
<1> DEFINE p == k.parent
<1>2. p \in Parent \cup {None} /\ None \notin Parent
  BY UpstreamAssumption DEF Request
<1> HIDE DEF p
<1>3. \A e \in Range(t.delay) :
        e \in Range(s.delay) \/ (p # None /\ e = <<p, s.version[p]>>)
  <2>1. \/ t.delay = s.delay
        \/ p # None /\ t.delay = Append(s.delay, Valid(s, p))
    <3>1. CASE p = None
      BY <3>1 DEF p, IsFinalize
    <3>2. CASE p # None /\ s.family[p].count - 1 = 1
      BY <3>2 DEF p, Valid, IsFinalize
    <3>3. CASE p # None /\ s.family[p].count - 1 # 1
      BY <3>3 DEF p, IsFinalize
    <3> QED BY <3>1, <3>2, <3>3
  <2>2. p # None => p \in Conn
    BY <1>2 DEF Conn
  <2> HIDE DEF p
  <2>3. CASE p # None /\ t.delay = Append(s.delay, Valid(s, p))
    <3>1. Range(t.delay) = Range(s.delay) \cup {Valid(s, p)}
      BY <1>1, <2>2, <2>3, QueuedMore
    <3>2. \A e \in Range(t.delay) : e \in Range(s.delay) \/ e = Valid(s, p)
      BY <3>1
    <3> QED BY <2>3, <3>2 DEF Valid
  <2> QED BY <2>1, <2>3
<1> USE <1>1, TypesOf DEF IsFinalize
<1>4. \A q \in Parent : /\ q # p => t.family[q] = s.family[q]
                        /\ t.family[q].subs = s.family[q].subs \ {u}
  BY DEF p
<1>5. Placed(t, r)
  BY DEF Core, Placed
<1>6. Related(t, u)
  <2>1. ASSUME NEW v \in Sub \ {u} PROVE ParentOf(t, v)
    <3>1. ParentOf(s, v)
      BY DEF Core, Related
    <3> QED BY <1>4, <3>1 DEF ParentOf
  <2>2. ASSUME NEW q \in Parent PROVE ChildrenOf(t, q, u)
    <3>1. ChildrenOf(s, q, y) /\ IsFiniteSet(s.family[q].subs)
      BY UpstreamAssumption, FS_Subset DEF Core, Related
    <3>2. CASE q # p
      BY <1>4, <3>1, <3>2 DEF ChildrenOf
    <3>3. CASE q = p
      <4>1. /\ t.family[q].count = s.family[q].count - 1 /\ u \in s.family[q].subs
            /\ t.family[q].subs = s.family[q].subs \ {u}
        BY <3>3 DEF p, IsFinalize
      <4> DEFINE A == s.family[q].subs
      <4>2. Cardinality(A \ {u}) = Cardinality(A) - 1 /\ Cardinality(A) \in Nat
        <5> HIDE DEF A
        <5>1. IsFiniteSet(A) /\ u \in A
          BY <3>1, <4>1 DEF A
        <5> QED BY <5>1, FS_RemoveElement, FS_CardinalityType
      <4>3. s.family[q].count = 1 + Cardinality(A)
        BY <3>1 DEF ChildrenOf
      <4>4. t.family[q].count = 1 + Cardinality(t.family[q].subs)
        <5> HIDE DEF A
        <5>1. t.family[q].count = s.family[q].count - 1 /\ t.family[q].subs = A \ {u}
          BY <4>1 DEF A
        <5> QED BY <4>2, <4>3, <5>1
      <4> QED BY <3>1, <4>1, <4>4 DEF ChildrenOf
    <3> QED BY <3>2, <3>3
  <2> QED BY <2>1, <2>2 DEF Related
<1>7. Pooled(t, x)
  BY DEF Core, Pooled, Counted, Listed, ListOf, Known, KeptIn
<1>8. Clean(t, h)
  <2>1. \A v \in Sub : QueuedIn(t, v) => QueuedIn(s, v)
    BY <1>2, <1>3 DEF QueuedIn, Valid
  <2>2. KeptIn(t) = KeptIn(s) /\ KeptIn(s) \subseteq Sub
    BY DEF KeptIn, ListOf
  <2> QED BY <2>1, <2>2 DEF Core, Clean, Valid
<1>9. Stamped(t, h)
  BY <1>2, <1>3 DEF Core, Stamped
<1>a. Blocking(t)
  BY DEF Core, Blocking
<1> QED BY <1>4, <1>5, <1>6, <1>7, <1>8, <1>9, <1>a DEF Core

(* Who has no request any more and is in no family has changed hands.      *)
LEMMA Settled ==
    ASSUME NEW s, NEW h, NEW r, NEW u \in Sub, NEW x, Core(s, h, r, u, x),
           s.req[u] = None, \A p \in Parent : u \notin s.family[p].subs
    PROVE  Core(s, h, r, None, x)
<1>1. ParentOf(s, u) /\ \A p \in Parent : ChildrenOf(s, p, None)
  BY TypesOf DEF Core, Related, ParentOf, ChildrenOf
<1> QED BY <1>1 DEF Core, Related

(* get_connection: connection k is given out of the lists and not in use   *)
(* yet.                                                                    *)
IsGiven(s, k, w) ==
    /\ w \in State /\ k \in Sub
    /\ w.version = s.version /\ w.pc = s.pc /\ w.flags = s.flags
    /\ w.timers = s.timers /\ w.net = s.net /\ w.armed = s.armed
    /\ w.family = s.family /\ w.req = s.req /\ w.delay = s.delay
    /\ \E b \in Backend :
          \/ /\ s.pool.reuse[b] # << >> /\ k = Head(s.pool.reuse[b])
             /\ w.pool.reuse = [s.pool.reuse EXCEPT ![b] = Tail(@)]
             /\ w.pool.free = s.pool.free /\ w.pool.size = s.pool.size
             /\ w.pool.backend = s.pool.backend
          \/ /\ s.pool.size < MaxConnections /\ k \in s.pool.free
             /\ w.pool.free = s.pool.free \ {k} /\ w.pool.size = s.pool.size + 1
             /\ w.pool.backend = [s.pool.backend EXCEPT ![k] = b]
             /\ w.pool.reuse = s.pool.reuse

LEMMA GivenOne ==
    ASSUME NEW s \in State, NEW g \in GetConnection(s)
    PROVE  IsGiven(s, g.u, g.s)
<1>1. g.s \in State /\ g.u \in Sub /\ (GivenKept(s, g) \/ GivenNew(s, g))
  BY GivenIs
<1>2. /\ g.s.version = s.version /\ g.s.pc = s.pc /\ g.s.flags = s.flags
      /\ g.s.timers = s.timers /\ g.s.net = s.net /\ g.s.armed = s.armed
      /\ g.s.family = s.family /\ g.s.req = s.req /\ g.s.delay = s.delay
  BY GivenIs
<1>3. CASE GivenKept(s, g)
  BY <1>1, <1>2, <1>3 DEF GivenKept, IsGiven
<1>4. CASE GivenNew(s, g)
  BY <1>1, <1>2, <1>4 DEF GivenNew, IsGiven
<1> QED BY <1>1, <1>3, <1>4

Loose(s, k) == /\ k \notin s.pool.free /\ k \notin KeptIn(s) /\ s.req[k] = None
               /\ s.pc[k] = "idle"

LEMMA GivenCore ==
    ASSUME NEW s, NEW w, NEW h, NEW r, NEW y, Core(s, h, r, y, None), NEW k,
           IsGiven(s, k, w)
    PROVE  Core(w, h, r, y, k) /\ Loose(w, k) /\ KeptIn(w) \subseteq KeptIn(s)
<1>1. s \in State /\ h \subseteq Conn \X Nat /\ w \in State /\ k \in Sub
  BY DEF Core, IsGiven
<1>a. /\ w.version = s.version /\ w.pc = s.pc /\ w.flags = s.flags
      /\ w.timers = s.timers /\ w.net = s.net /\ w.armed = s.armed
      /\ w.family = s.family /\ w.req = s.req /\ w.delay = s.delay
  BY DEF IsGiven
<1>b. /\ Counted(s) /\ (\A b \in Backend : Listed(s, None, b))
      /\ \A v \in Sub : Known(s, None, v)
  BY DEF Core, Pooled
<1>2. /\ w.pool.free \subseteq s.pool.free
      /\ k \notin w.pool.free /\ Counted(w)
      /\ \A v \in Sub : v # k => w.pool.backend[v] = s.pool.backend[v]
      /\ \A v \in Sub \ {k} : v \in s.pool.free => v \in w.pool.free
      /\ w.pool.backend[k] # None /\ s.req[k] = None
      /\ \A b \in Backend : ListOf(w, b) = ListOf(s, b) \ {k} /\ Single(w.pool.reuse[b])
  <2>1. PICK b \in Backend :
          \/ /\ s.pool.reuse[b] # << >> /\ k = Head(s.pool.reuse[b])
             /\ w.pool.reuse = [s.pool.reuse EXCEPT ![b] = Tail(@)]
             /\ w.pool.free = s.pool.free /\ w.pool.size = s.pool.size
             /\ w.pool.backend = s.pool.backend
          \/ /\ s.pool.size < MaxConnections /\ k \in s.pool.free
             /\ w.pool.free = s.pool.free \ {k} /\ w.pool.size = s.pool.size + 1
             /\ w.pool.backend = [s.pool.backend EXCEPT ![k] = b]
             /\ w.pool.reuse = s.pool.reuse
    BY DEF IsGiven
  <2>2. CASE /\ s.pool.reuse[b] # << >> /\ k = Head(s.pool.reuse[b])
             /\ w.pool.reuse = [s.pool.reuse EXCEPT ![b] = Tail(@)]
             /\ w.pool.free = s.pool.free /\ w.pool.size = s.pool.size
             /\ w.pool.backend = s.pool.backend
    <3> DEFINE q == s.pool.reuse[b]
    <3>1. q \in Seq(Sub) /\ q # << >> /\ s.pool.reuse \in [Backend -> Seq(Sub)]
      BY <1>1, <2>2, TypesOf
    <3>2. Single(q) /\ w.pool.reuse[b] = Tail(q) /\ k = Head(q) /\ ListOf(s, b) = Range(q)
          /\ \A o \in Backend \ {b} : w.pool.reuse[o] = s.pool.reuse[o]
      BY <1>b, <2>2, <3>1 DEF Listed, ListOf
    <3> HIDE DEF q
    <3>3. /\ Range(q) = Range(Tail(q)) \cup {k} /\ Single(Tail(q)) /\ k \notin Range(Tail(q))
      BY <3>1, <3>2, RangeTail
    <3>4. ListOf(w, b) = Range(Tail(q))
      BY <3>2 DEF ListOf
    <3>5. k \in ListOf(s, b) /\ ListOf(w, b) = ListOf(s, b) \ {k} /\ Single(w.pool.reuse[b])
      BY <3>2, <3>3, <3>4
    <3>6. k \notin s.pool.free /\ s.req[k] = None /\ s.pool.backend[k] = b /\ b # None
      BY <1>b, <3>5, UpstreamAssumption DEF Listed
    <3>7. ASSUME NEW o \in Backend \ {b}
          PROVE  ListOf(w, o) = ListOf(s, o) \ {k} /\ Single(w.pool.reuse[o])
      <4>1. Listed(s, None, o) /\ k \notin ListOf(s, o)
        BY <1>b, <3>6 DEF Listed
      <4> QED BY <3>2, <4>1 DEF Listed, ListOf
    <3> QED BY <1>b, <2>2, <3>5, <3>6, <3>7 DEF Counted
  <2>3. CASE /\ s.pool.size < MaxConnections /\ k \in s.pool.free
             /\ w.pool.free = s.pool.free \ {k} /\ w.pool.size = s.pool.size + 1
             /\ w.pool.backend = [s.pool.backend EXCEPT ![k] = b]
             /\ w.pool.reuse = s.pool.reuse
    <3>1. Counted(w)
      BY <1>1, <1>b, <2>3, CountedMore
    <3>2. k \in Sub /\ s.req[k] = None /\ b # None /\ s.pool.backend \in [Sub -> Backend \cup {None}]
      BY <1>1, <1>b, <2>3, TypesOf DEF Known
    <3>3. \A o \in Backend : k \notin ListOf(s, o) /\ Single(s.pool.reuse[o])
      BY <1>b, <2>3 DEF Listed
    <3> QED BY <2>3, <3>1, <3>2, <3>3 DEF ListOf
  <2> QED BY <2>1, <2>2, <2>3
<1>3. KeptIn(w) = KeptIn(s) \ {k}
  BY <1>2 DEF KeptIn
<1>4. Pooled(w, k)
  <2>1. ASSUME NEW b \in Backend PROVE Listed(w, k, b)
    <3>1. Listed(s, None, b) /\ ListOf(s, b) \subseteq Sub
      BY <1>1, <1>b, TypesOf
    <3> QED BY <1>2, <1>a, <3>1 DEF Listed
  <2>2. ASSUME NEW v \in Sub PROVE Known(w, k, v)
    <3>1. Known(s, None, v)
      BY <1>b
    <3>2. CASE v = k
      BY <1>2, <1>a, <3>1, <3>2 DEF Known
    <3>3. CASE v # k
      <4>1. /\ w.req[v] = s.req[v] /\ w.pc[v] = s.pc[v]
            /\ v \in w.pool.free <=> v \in s.pool.free
            /\ w.pool.backend[v] = s.pool.backend[v]
            /\ v \in KeptIn(w) <=> v \in KeptIn(s)
        BY <1>2, <1>3, <1>a, <3>3
      <4>2. v # None
        BY UpstreamAssumption
      <4> QED BY <3>1, <3>3, <4>1, <4>2 DEF Known
    <3> QED BY <3>2, <3>3
  <2> QED BY <1>2, <2>1, <2>2 DEF Pooled
<1>5. Clean(w, h)
  BY <1>2, <1>3, <1>a DEF Core, Clean, Valid, QueuedIn
<1>6. Placed(w, r) /\ Related(w, y) /\ Stamped(w, h) /\ Blocking(w)
  BY <1>a DEF Core, Placed, Related, ParentOf, ChildrenOf, Stamped, Blocking
<1>7. Loose(w, k)
  BY <1>1, <1>2, <1>3, <1>a, <1>b DEF Loose, Known
<1> QED BY <1>1, <1>3, <1>4, <1>5, <1>6, <1>7 DEF Core

(* A request is handed to a connection that was given out.                 *)
IsHanded(s, k, m, t) ==
    /\ t \in State /\ k \in Sub /\ m \in Request
    /\ t.delay = Append(s.delay, Valid(s, k))
    /\ t.req = [s.req EXCEPT ![k] = m] /\ t.pc = [s.pc EXCEPT ![k] = "ready"]
    /\ t.version = s.version /\ t.flags = s.flags
    /\ t.timers = s.timers /\ t.net = s.net /\ t.armed = s.armed /\ t.pool = s.pool

LEMMA HandedCore ==
    ASSUME NEW s, NEW t, NEW h, NEW r, NEW y, NEW k, Core(s, h, r, y, k), Loose(s, k),
           NEW m, IsHanded(s, k, m, t), Related(t, None)
    PROVE  Core(t, h, r, None, None)
<1>1. s \in State /\ h \subseteq Conn \X Nat /\ t \in State /\ k \in Sub
      /\ k # None /\ m # None /\ k \in Conn
  <2>1. m # None
    BY UpstreamAssumption DEF IsHanded
  <2> QED BY <2>1, UpstreamAssumption DEF Core, IsHanded, Conn
<1>2. Range(t.delay) = Range(s.delay) \cup {Valid(s, k)}
  BY <1>1, QueuedMore DEF IsHanded
<1>3. /\ t.version = s.version /\ t.flags = s.flags
      /\ t.timers = s.timers /\ t.net = s.net /\ t.armed = s.armed /\ t.pool = s.pool
      /\ \A v \in Sub \ {k} : t.req[v] = s.req[v] 
      /\ \A v \in Conn \ {k} : t.pc[v] = s.pc[v]
      /\ t.req[k] = m /\ t.pc[k] = "ready"
  BY <1>1, TypesOf DEF IsHanded
<1>4. KeptIn(t) = KeptIn(s) /\ \A b \in Backend : ListOf(t, b) = ListOf(s, b)
  BY <1>3 DEF KeptIn, ListOf
<1>5. Placed(t, r)
  <2>1. \A c \in Conn : s.pc[c] \in {"user", "start", "run"} <=> c = r
    BY DEF Core, Placed
  <2>2. k # r /\ k \notin Parent
    BY <1>1, <2>1, TypesOf DEF Loose
  <2> QED BY <1>1, <1>3, <2>1, <2>2 DEF Core, Placed, SubPc, Conn
<1>6. Pooled(t, None)
  <2>1. Counted(t)
    BY <1>3 DEF Core, Pooled, Counted
  <2>2. ASSUME NEW b \in Backend PROVE Listed(t, None, b)
    <3>1. Listed(s, k, b) /\ ListOf(s, b) \subseteq Sub /\ None \notin Sub
      BY <1>1, TypesOf DEF Core, Pooled
    <3> QED BY <1>3, <1>4, <3>1 DEF Listed
  <2>3. ASSUME NEW v \in Sub PROVE Known(t, None, v)
    <3>1. Known(s, k, v) /\ v # None /\ v \in Conn
      BY <1>1, TypesOf DEF Core, Pooled
    <3>2. CASE v = k
      BY <1>1, <1>3, <3>1, <3>2 DEF Known, Loose
    <3>3. CASE v # k
      BY <1>3, <1>4, <3>1, <3>3 DEF Known
    <3> QED BY <3>2, <3>3
  <2> QED BY <2>1, <2>2, <2>3 DEF Pooled
<1>7. Clean(t, h)
  BY <1>2, <1>3, <1>4 DEF Core, Clean, Loose, Valid, QueuedIn
<1>8. Stamped(t, h)
  <2>1. Valid(s, k)[2] <= s.version[Valid(s, k)[1]]
    BY <1>1, TypesOf DEF Valid
  <2> QED BY <1>2, <1>3, <2>1 DEF Core, Stamped
<1>9. Blocking(t)
  <2>1. k \notin Parent
    BY <1>1, TypesOf
  <2>2. s.flags.third \subseteq Conn
    BY <1>1, TypesOf
  <2> QED BY <1>3, <2>1, <2>2 DEF Core, Blocking
<1> QED BY <1>1, <1>5, <1>6, <1>7, <1>8, <1>9 DEF Core

(* retry_upstream: in the family of the parent the new connection takes    *)
(* the place of u.                                                         *)
LEMMA Swap ==
    ASSUME NEW A \in SUBSET Sub, NEW u \in A, NEW k \in Sub, k \notin A \ {u}
    PROVE  Cardinality((A \ {u}) \cup {k}) = Cardinality(A)
<1> DEFINE B == A \ {u}
<1>1. IsFiniteSet(A) /\ IsFiniteSet(B)
  BY UpstreamAssumption, FS_Subset
<1>2. Cardinality(B) = Cardinality(A) - 1 /\ Cardinality(A) \in Nat
  BY <1>1, FS_RemoveElement, FS_CardinalityType
<1>3. k \notin B
  OBVIOUS
<1> HIDE DEF B
<1>4. Cardinality(B \cup {k}) = Cardinality(B) + 1
  BY <1>1, <1>3, FS_AddElement
<1> QED BY <1>2, <1>4 DEF B

LEMMA MovedCore ==
    ASSUME NEW s, NEW h, NEW r, NEW u \in Sub, NEW q \in Request,
           Core(s, h, r, u, None), s.req[u] = None,
           \A p \in Parent : u \in s.family[p].subs <=> p = q.parent,
           q.parent # None => s.version[q.parent] = q.pver,
           NEW g \in GetConnection(s), NEW t, IsMoved(s, u, q, g, t)
    PROVE  Core(t, h, r, None, None) /\ KeptIn(t) \subseteq KeptIn(s)
<1> DEFINE k == g.u
           w == g.s
           m == [q EXCEPT !.tries = @ + 1]
           p == q.parent
<1>1. s \in State /\ h \subseteq Conn \X Nat
  BY DEF Core
<1>2. IsGiven(s, k, w)
  BY <1>1, GivenOne
<1>3. /\ t \in State /\ m \in Request /\ m.parent = p /\ m.pver = q.pver
      /\ p = None => t.family = w.family
      /\ p # None =>
            /\ p \in Parent
            /\ \A o \in Parent \ {p} : t.family[o] = w.family[o]
            /\ t.family[p].subs = (w.family[p].subs \ {u}) \cup {k}
            /\ t.family[p].count = w.family[p].count
      /\ t.delay = Append(w.delay, <<k, w.version[k]>>)
      /\ t.req = [w.req EXCEPT ![k] = m] /\ t.pc = [w.pc EXCEPT ![k] = "ready"]
      /\ t.version = w.version /\ t.flags = w.flags
      /\ t.timers = w.timers /\ t.net = w.net /\ t.armed = w.armed
      /\ t.pool = w.pool
  BY DEF IsMoved
<1> HIDE DEF k, w, m, p
<1>4. Core(w, h, r, u, k) /\ Loose(w, k) /\ KeptIn(w) \subseteq KeptIn(s)
  BY <1>2, GivenCore
<1>5. k \in Sub /\ w \in State /\ w.req = s.req /\ w.family = s.family
      /\ w.version = s.version /\ w.pc = s.pc
  BY <1>2 DEF IsGiven
<1>6. IsHanded(w, k, m, t)
  BY <1>3, <1>5 DEF IsHanded, Valid
<1>7. Related(t, None)
  <2>0. p \in Parent \cup {None} /\ None \notin Parent /\ None \notin Sub
    BY UpstreamAssumption DEF p, Request
  <2>1. /\ \A v \in Sub \ {k} : t.req[v] = s.req[v]
        /\ t.req[k] = m /\ \A o \in Parent : t.pc[o] = s.pc[o]
        /\ \A o \in Parent : s.family[o].subs \in SUBSET Sub
    BY <1>1, <1>3, <1>5, TypesOf
  <2>2. s.req[k] = None /\ s.req[u] = None
    BY <1>4, <1>5 DEF Loose
  <2>3. \A o \in Parent : ChildrenOf(s, o, u)
    BY DEF Core, Related
  <2>4. \A o \in Parent : u \in s.family[o].subs <=> o = p
    BY DEF p
  <2>5. \A o \in Parent : k \notin s.family[o].subs \ {u}
    BY <2>2, <2>3 DEF ChildrenOf
  <2>6. ASSUME NEW v \in Sub \ {None} PROVE ParentOf(t, v)
    <3>1. CASE v = k
      <4>1. p # None => s.version[p] = q.pver
        BY DEF p
      <4> QED BY <1>3, <1>5, <2>1, <3>1, <4>1 DEF ParentOf
    <3>2. CASE v # k /\ v = u
      BY <2>1, <2>2, <3>2 DEF ParentOf
    <3>3. CASE v # k /\ v # u
      <4>1. ParentOf(s, v) /\ t.req[v] = s.req[v] /\ t.version = s.version
        BY <1>3, <1>5, <2>1, <3>3 DEF Core, Related
      <4>2. CASE s.req[v] = None \/ s.req[v].parent = None
        BY <4>1, <4>2 DEF ParentOf
      <4>3. CASE s.req[v] # None /\ s.req[v].parent # None
        <5> DEFINE o == s.req[v].parent
        <5>1. o \in Parent
          BY <1>1, <4>3, TypesOf
        <5>2. v \in s.family[o].subs /\ s.version[o] = s.req[v].pver
          BY <4>1, <4>3 DEF ParentOf
        <5> HIDE DEF o
        <5>3. v \in t.family[o].subs
          BY <1>3, <1>5, <2>0, <3>3, <5>1, <5>2
        <5> QED BY <4>1, <4>3, <5>2, <5>3 DEF ParentOf, o
      <4> QED BY <4>2, <4>3
    <3> QED BY <3>1, <3>2, <3>3
  <2>7. ASSUME NEW o \in Parent PROVE ChildrenOf(t, o, None)
    <3>1. ChildrenOf(s, o, u) /\ s.family[o].subs \in SUBSET Sub /\ t.pc[o] = s.pc[o]
      BY <2>1, <2>3
    <3>2. CASE o # p
      <4>1. t.family[o] = s.family[o] /\ u \notin s.family[o].subs
        BY <1>3, <1>5, <2>0, <2>4, <3>2
      <4>2. k \notin s.family[o].subs
        BY <2>5, <4>1
      <4> QED BY <2>1, <3>1, <4>1, <4>2 DEF ChildrenOf
    <3>3. CASE o = p
      <4> DEFINE A == s.family[o].subs
      <4>1. /\ u \in A /\ t.family[o].subs = (A \ {u}) \cup {k}
            /\ t.family[o].count = s.family[o].count
        BY <1>3, <1>5, <2>0, <2>4, <3>3
      <4>2. s.pc[o] # "idle" /\ s.family[o].count = 1 + Cardinality(A)
            /\ \A v \in A \ {u} : s.req[v] # None /\ s.req[v].parent = o
        BY <3>1, <4>1 DEF ChildrenOf
      <4>3. A \in SUBSET Sub /\ k \notin A \ {u}
        BY <2>5, <3>1
      <4> HIDE DEF A
      <4>4. Cardinality((A \ {u}) \cup {k}) = Cardinality(A)
        BY <1>5, <4>1, <4>3, Swap
      <4>5. t.family[o].count = 1 + Cardinality(t.family[o].subs) /\ t.pc[o] # "idle"
        BY <3>1, <4>1, <4>2, <4>4
      <4>6. m # None /\ m.parent = o
        BY <1>3, <3>3, UpstreamAssumption
      <4>7. \A v \in t.family[o].subs : t.req[v] # None /\ t.req[v].parent = o
        BY <2>1, <4>1, <4>2, <4>3, <4>6
      <4> QED BY <4>5, <4>7 DEF ChildrenOf
    <3> QED BY <3>2, <3>3
  <2> QED BY <2>6, <2>7 DEF Related
<1>8. KeptIn(t) = KeptIn(w)
  BY <1>3 DEF KeptIn, ListOf
<1> QED BY <1>4, <1>6, <1>7, <1>8, HandedCore

(* add_upstream and add_upstream_detach hand out what get_connection gave, *)
(* or free it with an error.                                               *)
LEMMA AddedCore ==
    ASSUME NEW s, NEW h, NEW r, Core(s, h, r, None, None), NEW p \in Parent,
           s.pc[p] = "user", NEW k, NEW w, IsGiven(s, k, w),
           NEW a, IsAdded(w, p, k, a),
           NEW t, IsAssign(a, k, [parent |-> p, pver |-> s.version[p], tries |-> 0], t)
    PROVE  Core(t, h, r, None, None) /\ KeptIn(t) \subseteq KeptIn(s)
<1> DEFINE m == [parent |-> p, pver |-> s.version[p], tries |-> 0]
<1>1. s \in State /\ h \subseteq Conn \X Nat /\ None \notin Sub /\ None # p
  BY UpstreamAssumption DEF Core
<1>2. Core(w, h, r, None, k) /\ Loose(w, k) /\ KeptIn(w) \subseteq KeptIn(s)
  BY GivenCore
<1>3. k \in Sub /\ w \in State /\ w.req = s.req /\ w.family = s.family
      /\ w.version = s.version /\ w.pc = s.pc
  BY DEF IsGiven
<1>4. m \in Request /\ m.parent = p /\ m.pver = s.version[p] /\ m # None
  <2>1. m \in Request
    BY <1>1, TypesOf DEF Request, Conn
  <2> QED BY <2>1, UpstreamAssumption
<1>5. IsAssign(a, k, m, t)
  OBVIOUS
<1> HIDE DEF m
<1>6. /\ IsHanded(w, k, m, t)
      /\ t.family = a.family
  BY <1>3, <1>4, <1>5 DEF IsHanded, IsAdded, IsAssign, Valid
<1>7. Related(t, None)
  <2>1. /\ \A v \in Sub \ {k} : t.req[v] = s.req[v]
        /\ t.req[k] = m /\ \A o \in Parent : t.pc[o] = s.pc[o]
        /\ t.version = s.version
    BY <1>3, <1>6, TypesOf DEF IsHanded
  <2>2. /\ s.req[k] = None
        /\ \A o \in Parent : ChildrenOf(s, o, None) /\ s.family[o].subs \in SUBSET Sub
    BY <1>1, <1>2, <1>3, TypesOf DEF Loose, Core, Related
  <2>3. \A o \in Parent : k \notin s.family[o].subs
    BY <1>1, <1>3, <2>2 DEF ChildrenOf
  <2>4. /\ \A o \in Parent \ {p} : t.family[o] = s.family[o]
        /\ t.family[p].subs = s.family[p].subs \cup {k}
        /\ t.family[p].count = s.family[p].count + 1
    BY <1>3, <1>6 DEF IsAdded
  <2>5. ASSUME NEW v \in Sub \ {None} PROVE ParentOf(t, v)
    <3>1. CASE v = k
      BY <1>4, <2>1, <2>4, <3>1 DEF ParentOf
    <3>2. CASE v # k
      <4>1. ParentOf(s, v) /\ t.req[v] = s.req[v]
        BY <2>1, <3>2 DEF Core, Related
      <4>2. CASE s.req[v] = None \/ s.req[v].parent = None
        BY <4>1, <4>2 DEF ParentOf
      <4>3. CASE s.req[v] # None /\ s.req[v].parent # None
        <5> DEFINE o == s.req[v].parent
        <5>1. o \in Parent
          BY <1>1, <4>3, TypesOf
        <5>2. v \in s.family[o].subs /\ s.version[o] = s.req[v].pver
          BY <4>1, <4>3 DEF ParentOf
        <5> HIDE DEF o
        <5>3. v \in t.family[o].subs
          BY <2>4, <5>1, <5>2
        <5> QED BY <2>1, <4>1, <4>3, <5>2, <5>3 DEF ParentOf, o
      <4> QED BY <4>2, <4>3
    <3> QED BY <3>1, <3>2
  <2>6. ASSUME NEW o \in Parent PROVE ChildrenOf(t, o, None)
    <3>1. ChildrenOf(s, o, None) /\ s.family[o].subs \in SUBSET Sub /\ t.pc[o] = s.pc[o]
      BY <2>1, <2>2
    <3>2. CASE o # p
      <4>1. t.family[o] = s.family[o] /\ k \notin s.family[o].subs
        BY <2>3, <2>4, <3>2
      <4> QED BY <2>1, <3>1, <4>1 DEF ChildrenOf
    <3>3. CASE o = p
      <4> DEFINE A == s.family[o].subs
      <4>1. t.family[o].subs = A \cup {k} /\ t.family[o].count = s.family[o].count + 1
            /\ k \notin A
        BY <2>3, <2>4, <3>3
      <4>2. s.family[o].count = 1 + Cardinality(A)
            /\ \A v \in A : v # None => s.req[v] # None /\ s.req[v].parent = o
        BY <3>1 DEF ChildrenOf
      <4>3. A \in SUBSET Sub
        BY <3>1
      <4> HIDE DEF A
      <4>4. Cardinality(A \cup {k}) = Cardinality(A) + 1 /\ Cardinality(A) \in Nat
        BY <4>1, <4>3, UpstreamAssumption, FS_Subset, FS_AddElement, FS_CardinalityType
      <4>5. t.family[o].count = 1 + Cardinality(t.family[o].subs) /\ t.pc[o] # "idle"
        BY <3>1, <3>3, <4>1, <4>2, <4>4
      <4>6. \A v \in t.family[o].subs : t.req[v] # None /\ t.req[v].parent = o
        BY <1>1, <1>3, <1>4, <2>1, <3>3, <4>1, <4>2, <4>3
      <4> QED BY <4>5, <4>6 DEF ChildrenOf
    <3> QED BY <3>2, <3>3
  <2> QED BY <2>5, <2>6 DEF Related
<1>8. KeptIn(t) = KeptIn(w)
  BY <1>6 DEF KeptIn, ListOf, IsHanded
<1> QED BY <1>2, <1>6, <1>7, <1>8, HandedCore

LEMMA DetachedCore ==
    ASSUME NEW s, NEW h, NEW r, Core(s, h, r, None, None), NEW k, NEW w, IsGiven(s, k, w),
           NEW t, IsAssign(w, k, [parent |-> None, pver |-> 0, tries |-> 0], t)
    PROVE  Core(t, h, r, None, None) /\ KeptIn(t) \subseteq KeptIn(s)
<1> DEFINE m == [parent |-> None, pver |-> 0, tries |-> 0]
<1>1. s \in State /\ h \subseteq Conn \X Nat /\ None \notin Sub
  BY UpstreamAssumption DEF Core
<1>2. Core(w, h, r, None, k) /\ Loose(w, k) /\ KeptIn(w) \subseteq KeptIn(s)
  BY GivenCore
<1>3. k \in Sub /\ w \in State /\ w.req = s.req /\ w.family = s.family
      /\ w.version = s.version /\ w.pc = s.pc
  BY DEF IsGiven
<1>4. m \in Request /\ m.parent = None
  BY DEF Request
<1>5. IsAssign(w, k, m, t)
  OBVIOUS
<1> HIDE DEF m
<1>6. IsHanded(w, k, m, t) /\ t.family = s.family
  BY <1>3, <1>4, <1>5 DEF IsHanded, IsAssign, Valid
<1>7. Related(t, None)
  <2>1. /\ \A v \in Sub \ {k} : t.req[v] = s.req[v]
        /\ t.req[k] = m /\ \A o \in Parent : t.pc[o] = s.pc[o]
        /\ t.version = s.version
    BY <1>3, <1>6, TypesOf DEF IsHanded
  <2>2. /\ s.req[k] = None
        /\ \A o \in Parent : ChildrenOf(s, o, None) /\ s.family[o].subs \in SUBSET Sub
    BY <1>1, <1>2, <1>3, TypesOf DEF Loose, Core, Related
  <2>3. \A o \in Parent : k \notin s.family[o].subs
    BY <1>1, <1>3, <2>2 DEF ChildrenOf
  <2>4. ASSUME NEW v \in Sub PROVE ParentOf(t, v)
    <3>1. CASE v = k
      BY <1>4, <2>1, <3>1 DEF ParentOf
    <3>2. CASE v # k
      BY <1>1, <1>6, <2>1, <3>2 DEF ParentOf, Core, Related
    <3> QED BY <3>1, <3>2
  <2>5. ASSUME NEW o \in Parent PROVE ChildrenOf(t, o, None)
    BY <1>6, <2>1, <2>2, <2>3 DEF ChildrenOf
  <2> QED BY <2>4, <2>5 DEF Related
<1>8. KeptIn(t) = KeptIn(w)
  BY <1>6 DEF KeptIn, ListOf, IsHanded
<1> QED BY <1>2, <1>6, <1>7, <1>8, HandedCore

LEMMA BrokenCore ==
    ASSUME NEW s, NEW h, NEW r, Core(s, h, r, None, None), NEW k, NEW w, IsGiven(s, k, w),
           r \notin Sub, NEW t, IsClose(w, k, t)
    PROVE  Core(t, h, r, None, None) /\ KeptIn(t) \subseteq KeptIn(s)
<1>1. k \in Sub /\ s \in State /\ w.req = s.req /\ w.family = s.family /\ None \notin Sub
  BY UpstreamAssumption DEF Core, IsGiven
<1>2. Core(w, h, r, None, k) /\ Loose(w, k) /\ KeptIn(w) \subseteq KeptIn(s)
  BY GivenCore
<1>3. Core(t, h, Rests(r, k), k, None)
  BY <1>1, <1>2, CloseCore DEF Loose, NotRunning
<1>4. Rests(r, k) = r
  BY <1>1 DEF Rests
<1>5. t.req[k] = None /\ \A p \in Parent : k \notin t.family[p].subs
  <2>1. \A p \in Parent : ChildrenOf(s, p, None)
    BY DEF Core, Related
  <2>2. s.req[k] = None /\ t.family = s.family /\ t.req[k] = None
    BY <1>1, <1>2, TypesOf DEF Loose, IsClose
  <2> QED BY <1>1, <2>1, <2>2 DEF ChildrenOf
<1>6. KeptIn(t) = KeptIn(w)
  BY DEF IsClose, KeptIn, ListOf
<1> QED BY <1>1, <1>2, <1>3, <1>4, <1>5, <1>6, Settled

-----------------------------------------------------------------------------
(* The exception handler.                                                  *)
LEMMA DyingCore ==
    ASSUME NEW s, NEW h, NEW r, Core(s, h, r, None, None), NEW c \in Conn, Idle(s, c),
           NEW t, IsDying(s, c, t)
    PROVE  Core(t, h, r, None, None) /\ Idle(t, c)
<1>1. s \in State /\ h \subseteq Conn \X Nat
  BY DEF Core
<1> USE DEF IsDying
<1>2. Pooled(t, None)
  BY DEF Core, Pooled, Counted, Listed, ListOf, Known, KeptIn
<1>3. KeptIn(t) = KeptIn(s)
  BY DEF KeptIn, ListOf
<1>4. Placed(t, r) /\ Related(t, None) /\ Stamped(t, h) /\ Blocking(t)
  BY SameRelated, SameBlocking DEF Core, Placed, Stamped, SameFamily
<1>5. Clean(t, h)
  BY <1>3 DEF Core, Clean, Valid, QueuedIn
<1>6. Idle(t, c)
  BY <1>3 DEF Idle
<1> QED BY <1>1, <1>2, <1>4, <1>5, <1>6 DEF Core

LEMMA QuickFinishCore ==
    ASSUME NEW s, NEW h, NEW r, Core(s, h, r, None, None), NEW p \in Parent, Idle(s, p),
           NEW t, IsQuick(s, p, t)
    PROVE  Core(t, h, r, None, None) /\ Idle(t, None)
<1> DEFINE d == s.family[p].subs
<1>1. s \in State /\ h \subseteq Conn \X Nat /\ p \notin Sub /\ None \notin Sub
  BY UpstreamAssumption DEF Core
<1>2. /\ t \in State
      /\ t.flags.dying = s.flags.dying \cup d
      /\ t.flags.third = s.flags.third
      /\ \A e \in Range(t.delay) : e \in Range(s.delay) \/ \E u \in d : e = <<u, s.version[u]>>
      /\ t.version = s.version /\ t.pc = s.pc /\ t.timers = s.timers
      /\ t.net = s.net /\ t.armed = s.armed /\ t.family = s.family
      /\ t.req = s.req /\ t.pool = s.pool
  <2>1. PICK q \in Seq(Conn \X Nat) : /\ t.delay = s.delay \o q
                                      /\ \A e \in Range(q) : \E u \in d : e = <<u, s.version[u]>>
    BY DEF IsQuick
  <2>2. Range(t.delay) = Range(s.delay) \cup Range(q)
    <3>1. s.delay \in Seq(Conn \X Nat)
      BY <1>1, TypesOf
    <3> QED BY <2>1, <3>1, RangeConcat
  <2> QED BY <2>1, <2>2 DEF IsQuick
<1>3. d \subseteq Sub /\ \A u \in d : s.req[u] # None
  BY <1>1, TypesOf DEF Core, Related, ChildrenOf
<1> HIDE DEF d
<1>4. KeptIn(t) = KeptIn(s) /\ \A u \in KeptIn(s) : s.req[u] = None
  BY <1>2 DEF KeptIn, ListOf, Core, Pooled, Listed
<1>5. Pooled(t, None)
  BY <1>2 DEF Core, Pooled, Counted, Listed, ListOf, Known, KeptIn
<1>6. Placed(t, r) /\ Related(t, None) /\ Blocking(t)
  BY <1>2, SameRelated, SameBlocking DEF Core, Placed, SameFamily
<1>7. Stamped(t, h)
  <2>1. \A u \in d : s.version[u] <= s.version[u]
    BY <1>1, <1>3, TypesOf
  <2> QED BY <1>2, <2>1 DEF Core, Stamped
<1>8. Clean(t, h)
  <2>1. \A v \in s.pool.free : s.req[v] = None
    BY <1>1, TypesOf DEF Core, Pooled, Known
  <2>2. \A v : QueuedIn(t, v) => QueuedIn(s, v) \/ v \in d
    BY <1>2 DEF QueuedIn, Valid
  <2> QED BY <1>2, <1>3, <1>4, <2>1, <2>2 DEF Core, Clean, Valid
<1>9. Idle(t, None)
  BY <1>1, <1>2, <1>3, <1>4 DEF Idle
<1> QED BY <1>1, <1>2, <1>5, <1>6, <1>7, <1>8, <1>9 DEF Core

LEMMA FreeIdleCore ==
    ASSUME NEW s, NEW h, NEW r, Core(s, h, r, None, None), NEW u \in Sub, Idle(s, u),
           u \in KeptIn(s), NEW t, IsFreeIdle(s, u, t)
    PROVE  Core(t, h, r, None, None) /\ Idle(t, None)
<1> DEFINE b == s.pool.backend[u]
<1>1. s \in State /\ h \subseteq Conn \X Nat /\ t \in State
      /\ None \notin Sub /\ None \notin Backend /\ b \in Backend
  BY UpstreamAssumption DEF Core, IsFreeIdle
<1>2. /\ u \notin s.pool.free /\ s.req[u] = None /\ s.pc[u] = "idle" /\ r # u
      /\ \A o \in Backend : u \in ListOf(s, o) => o = b
  BY <1>1 DEF Core, Pooled, Listed, Known, KeptIn, Placed, Conn
<1>3. /\ t.version = [s.version EXCEPT ![u] = @ + 1]
      /\ t.pc = s.pc /\ t.req = s.req /\ t.flags = CleanFlags(s.flags, u)
      /\ t.timers = s.timers \ Own(u)
      /\ t.net = [s.net EXCEPT ![u] = "quiet"]
      /\ t.armed = s.armed \ {u} /\ t.family = s.family /\ t.delay = s.delay
      /\ t.pool.free = s.pool.free \cup {u}
      /\ \A o \in Backend \ {b} : t.pool.reuse[o] = s.pool.reuse[o]
      /\ Single(t.pool.reuse[b])
      /\ Range(t.pool.reuse[b]) = Range(s.pool.reuse[b]) \ {u}
      /\ t.pool.backend = [s.pool.backend EXCEPT ![u] = None]
      /\ t.pool.size = s.pool.size - 1
  <2>1. [s.pc EXCEPT ![u] = "idle"] = s.pc /\ [s.req EXCEPT ![u] = None] = s.req
    <3>1. s.pc \in [Conn -> ParentPc \cup SubPc] /\ s.req \in [Sub -> Request \cup {None}]
      BY <1>1, TypesOf
    <3> QED BY <1>2, <3>1
  <2> QED BY <2>1 DEF IsFreeIdle
<1> HIDE DEF b
<1>4. \A o \in Backend : ListOf(t, o) = ListOf(s, o) \ {u} /\ Single(t.pool.reuse[o])
  <2>1. ASSUME NEW o \in Backend PROVE ListOf(t, o) = ListOf(s, o) \ {u} /\ Single(t.pool.reuse[o])
    <3>1. CASE o = b
      BY <1>3, <3>1 DEF ListOf
    <3>2. CASE o # b
      <4>1. u \notin ListOf(s, o) /\ Single(s.pool.reuse[o])
        BY <1>2, <3>2 DEF Core, Pooled, Listed
      <4> QED BY <1>3, <3>2, <4>1 DEF ListOf
    <3> QED BY <3>1, <3>2
  <2> QED BY <2>1
<1>5. KeptIn(t) = KeptIn(s) \ {u}
  BY <1>4 DEF KeptIn
<1>6. Placed(t, r)
  BY <1>3 DEF Core, Placed
<1>7. Related(t, None)
  <2>1. \A p \in Parent : t.version[p] = s.version[p] 
    BY <1>1, <1>3, TypesOf
  <2>2. \A v \in Sub : s.req[v] # None => s.req[v].parent \in Parent \cup {None}
    BY <1>1, TypesOf
  <2>3. ASSUME NEW v \in Sub PROVE ParentOf(t, v)
    <3>1. ParentOf(s, v)
      BY <1>1 DEF Core, Related
    <3> QED BY <1>3, <2>1, <2>2, <3>1 DEF ParentOf
  <2>4. ASSUME NEW p \in Parent PROVE ChildrenOf(t, p, None)
    <3>1. ChildrenOf(s, p, None)
      BY DEF Core, Related
    <3> QED BY <1>3, <3>1 DEF ChildrenOf
  <2> QED BY <2>3, <2>4 DEF Related
<1>8. Pooled(t, None)
  <2>1. Counted(t)
    BY <1>2, <1>3, CountedLess DEF Core, Pooled
  <2>2. ASSUME NEW o \in Backend PROVE Listed(t, None, o)
    <3>1. Listed(s, None, o) /\ ListOf(s, o) \subseteq Sub
      BY <1>1, TypesOf DEF Core, Pooled
    <3>2. \A v \in ListOf(t, o) : t.pool.backend[v] = s.pool.backend[v]
      BY <1>1, <1>3, <1>4, <3>1, TypesOf
    <3> QED BY <1>1, <1>3, <1>4, <3>1, <3>2 DEF Listed
  <2>3. ASSUME NEW v \in Sub PROVE Known(t, None, v)
    <3>1. Known(s, None, v) /\ v # None
      BY <1>1 DEF Core, Pooled
    <3>2. CASE v = u
      BY <1>1, <1>2, <1>3, <3>1, <3>2 DEF Known
    <3>3. CASE v # u
      <4>1. t.pool.backend[v] = s.pool.backend[v]
        BY <1>1, <1>3, <3>3, TypesOf
      <4> QED BY <1>1, <1>3, <1>5, <3>1, <3>3, <4>1 DEF Known
    <3> QED BY <3>2, <3>3
  <2> QED BY <2>1, <2>2, <2>3 DEF Pooled
<1>9. Clean(t, h)
  <2>1. \A e \in h \cup Range(s.delay) : e # Valid(t, u)
    <3>1. Valid(t, u) = <<u, s.version[u] + 1>> /\ s.version[u] \in Nat
      BY <1>1, <1>3, TypesOf DEF Valid
    <3> QED BY <3>1 DEF Core, Stamped
  <2>2. ASSUME NEW v \in Sub \ {u}
        PROVE  /\ t.timers \cap Own(v) = s.timers \cap Own(v) /\ t.net[v] = s.net[v]
               /\ v \in t.armed <=> v \in s.armed
               /\ Valid(t, v) = Valid(s, v)
               /\ QueuedIn(t, v) <=> QueuedIn(s, v)
    <3>1. t.net[v] = s.net[v] /\ t.version[v] = s.version[v] /\ t.delay = s.delay
      BY <1>1, <1>3, TypesOf
    <3>2. t.timers \cap Own(v) = s.timers \cap Own(v) /\ (v \in t.armed <=> v \in s.armed)
      BY <1>3 DEF Own
    <3> QED BY <3>1, <3>2 DEF Valid, QueuedIn
  <2>3. t.timers \cap Own(u) = {} /\ u \notin t.armed /\ t.net[u] = "quiet"
        /\ ~QueuedIn(t, u) /\ Valid(t, u) \notin h
    BY <1>1, <1>3, <2>1, TypesOf DEF QueuedIn
  <2>4. KeptIn(s) \subseteq Sub /\ s.pool.free \subseteq Sub
    BY <1>1, TypesOf DEF KeptIn
  <2> QED BY <1>3, <1>5, <2>2, <2>3, <2>4 DEF Core, Clean
<1>a. Stamped(t, h)
  <2>1. \A c \in Conn : s.version[c] \in Nat /\ t.version[c] >= s.version[c] /\ t.version[c] \in Nat
    BY <1>1, <1>3, TypesOf
  <2>2. \A e \in h \cup Range(s.delay) : e \in Conn \X Nat
    BY <1>1, TypesOf
  <2> QED BY <1>3, <2>1, <2>2 DEF Core, Stamped
<1>b. Blocking(t)
  BY <1>1, <1>2, <1>3, TypesOf DEF Core, Blocking, CleanFlags, Own
<1>c. Idle(t, None)
  <2>1. u \notin t.flags.dying /\ t.flags.dying \subseteq s.flags.dying
    BY <1>3 DEF CleanFlags
  <2>2. \A v : v # u /\ <<v, "main">> \in s.timers => <<v, "main">> \in t.timers
    BY <1>3 DEF Own
  <2>3. t.req = s.req
    BY <1>3
  <2> QED BY <1>1, <1>5, <2>1, <2>2, <2>3 DEF Idle
<1> QED BY <1>1, <1>6, <1>7, <1>8, <1>9, <1>a, <1>b, <1>c DEF Core

LEMMA ClosedCore ==
    ASSUME NEW s, NEW h, NEW r, Core(s, h, r, None, None), NEW p \in Parent, Idle(s, p),
           s.pc[p] = "idle", NEW t, IsClosed(s, p, t)
    PROVE  Core(t, h, r, None, None) /\ Idle(t, None)
<1>1. s \in State /\ h \subseteq Conn \X Nat /\ t \in State
      /\ None \notin Sub /\ p \notin Sub /\ p \in Conn
  BY UpstreamAssumption DEF Core, IsClosed, Conn
<1>2. /\ t.pc = s.pc /\ t.timers = s.timers /\ t.family = s.family /\ t.req = s.req
      /\ t.pool = s.pool /\ t.delay = s.delay /\ t.flags = CleanFlags(s.flags, p)
      /\ t.version[p] = s.version[p] + 1 /\ s.version[p] \in Nat
      /\ \A c \in Conn \ {p} : t.version[c] = s.version[c] /\ t.net[c] = s.net[c]
      /\ t.armed = s.armed \ {p}
  BY <1>1, TypesOf DEF IsClosed
<1>3. KeptIn(t) = KeptIn(s) /\ KeptIn(s) \subseteq Sub /\ s.pool.free \subseteq Sub
  BY <1>1, <1>2, TypesOf DEF KeptIn, ListOf
<1>4. Pooled(t, None)
  BY <1>2, <1>3 DEF Core, Pooled, Counted, Listed, ListOf, Known
<1>5. Placed(t, r)
  BY <1>2 DEF Core, Placed
<1>6. Related(t, None)
  <2>1. s.family[p].subs = {}
    BY DEF Core, Related, ChildrenOf
  <2>2. ASSUME NEW v \in Sub PROVE ParentOf(t, v)
    <3>1. ParentOf(s, v) /\ (s.req[v] # None => s.req[v].parent \in Parent \cup {None})
      BY <1>1, TypesOf DEF Core, Related
    <3> QED BY <1>2, <2>1, <3>1 DEF ParentOf, Conn
  <2> QED BY <1>2, <2>2 DEF Core, Related, ChildrenOf
<1>7. Clean(t, h)
  <2>1. \A v \in Sub : v \in Conn /\ v # p
    BY <1>1 DEF Conn
  <2> QED BY <1>2, <1>3, <2>1 DEF Core, Clean, Valid, QueuedIn
<1>8. Stamped(t, h)
  <2>1. \A c \in Conn : s.version[c] \in Nat /\ t.version[c] >= s.version[c] /\ t.version[c] \in Nat
    <3>1. \A c \in Conn : s.version[c] \in Nat
      BY <1>1, TypesOf
    <3> QED BY <1>2, <3>1
  <2>2. \A e \in h \cup Range(s.delay) : e \in Conn \X Nat
    BY <1>1, TypesOf
  <2> QED BY <1>2, <2>1, <2>2 DEF Core, Stamped
<1>9. Blocking(t)
  BY <1>2 DEF Core, Blocking, CleanFlags
<1>a. Idle(t, None)
  <2>1. t.flags.dying \subseteq s.flags.dying
    BY <1>2 DEF CleanFlags
  <2> QED BY <1>1, <1>2, <1>3, <2>1 DEF Idle
<1> QED BY <1>1, <1>4, <1>5, <1>6, <1>7, <1>8, <1>9, <1>a DEF Core

LEMMA EnteredCore ==
    ASSUME NEW s, NEW h, Core(s, h, None, None, None), NEW c \in Conn, Idle(s, c),
           c \in Sub => s.pc[c] # "idle", NEW t, IsEntered(s, c, t)
    PROVE  Core(t, h, c, None, None) /\ Idle(t, None)
<1>1. /\ s \in State /\ h \subseteq Conn \X Nat /\ t \in State
      /\ None \notin Sub /\ None \notin Parent /\ Parent \cap Sub = {}
      /\ Conn = Parent \cup Sub
  BY UpstreamAssumption DEF Core, IsEntered, Conn
<1>2. /\ t.version = s.version /\ t.net = s.net /\ t.armed = s.armed
      /\ t.family = s.family /\ t.req = s.req /\ t.pool = s.pool /\ t.delay = s.delay
      /\ \A d \in Conn \ {c} : t.pc[d] = s.pc[d]
      /\ t.pc[c] = Awake[s.pc[c]]
      /\ t.flags.third = s.flags.third \ {c} /\ t.flags.dying = s.flags.dying
      /\ t.timers = IF s.pc[c] = "idle" THEN s.timers \cup {<<c, "main">>}
                    ELSE s.timers \ {<<c, "sleep">>}
  BY <1>1, TypesOf DEF IsEntered
<1>3. KeptIn(t) = KeptIn(s) /\ KeptIn(s) \subseteq Sub /\ s.pool.free \subseteq Sub
      /\ \A b \in Backend : ListOf(t, b) = ListOf(s, b)
  BY <1>1, <1>2, TypesOf DEF KeptIn, ListOf
<1>4. /\ c \in Parent => t.pc[c] = "user"
      /\ c \in Sub => t.pc[c] \in {"start", "run"}
      /\ \A d \in Conn : s.pc[d] \notin {"user", "start", "run"}
  <2>1. \A d \in Conn : s.pc[d] \notin {"user", "start", "run"}
    BY <1>1 DEF Core, Placed
  <2>2. c \in Parent => s.pc[c] \in {"idle", "sleep", "join", "yield"}
    BY <1>1, <2>1 DEF Core, Placed, ParentPc
  <2>3. c \in Sub => s.pc[c] \in {"ready", "wait"}
    BY <1>1, <2>1 DEF Core, Placed, SubPc
  <2>4. /\ Awake["idle"] = "user" /\ Awake["sleep"] = "user" /\ Awake["join"] = "user"
        /\ Awake["yield"] = "user" /\ Awake["ready"] = "start" /\ Awake["wait"] = "run"
    BY DEF Awake
  <2> QED BY <1>2, <2>1, <2>2, <2>3, <2>4
<1>5. Placed(t, c)
  BY <1>1, <1>2, <1>4 DEF Core, Placed, ParentPc, SubPc
<1>6. Related(t, None)
  <2>1. \A p \in Parent : t.pc[p] = "idle" => s.pc[p] = "idle"
    BY <1>1, <1>2, <1>4
  <2>2. SameFamily(s, t)
    BY <1>2, <2>1 DEF SameFamily
  <2> QED BY <2>2, SameRelated DEF Core
<1>7. Pooled(t, None)
  <2>1. Counted(t) /\ \A b \in Backend : Listed(t, None, b)
    BY <1>2, <1>3 DEF Core, Pooled, Counted, Listed
  <2>2. ASSUME NEW v \in Sub PROVE Known(t, None, v)
    <3>1. Known(s, None, v) /\ (t.pc[v] = "idle" <=> s.pc[v] = "idle")
      BY <1>1, <1>2, <1>4 DEF Core, Pooled
    <3> QED BY <1>2, <1>3, <3>1 DEF Known
  <2> QED BY <2>1, <2>2 DEF Pooled
<1>8. Clean(t, h)
  <2>1. ASSUME NEW v \in s.pool.free PROVE t.timers \cap Own(v) = {}
    <3>1. s.timers \cap Own(v) = {} /\ s.pc[v] = "idle" /\ v \in Sub
      BY <1>1, <1>3 DEF Core, Clean, Pooled, Known
    <3>2. s.pc[c] = "idle" => v # c
      BY <3>1
    <3>3. <<c, "main">> \notin Own(v) \/ s.pc[c] # "idle"
      BY <3>2 DEF Own
    <3> QED BY <1>2, <3>1, <3>3
  <2> QED BY <1>2, <1>3, <2>1 DEF Core, Clean, Valid, QueuedIn
<1>9. Stamped(t, h)
  BY <1>2 DEF Core, Stamped
<1>a. Blocking(t)
  <2>1. Blocking(s) /\ s.flags.third \subseteq Conn
    BY <1>1, TypesOf DEF Core
  <2>2. <<c, "sleep">> \notin t.timers
    <3>1. CASE s.pc[c] = "idle"
      BY <1>2, <2>1, <3>1 DEF Blocking
    <3>2. CASE s.pc[c] # "idle"
      BY <1>2, <3>2
    <3> QED BY <3>1, <3>2
  <2>3. \A d \in Conn : d # c => (<<d, "sleep">> \in t.timers <=> <<d, "sleep">> \in s.timers)
    BY <1>2
  <2> QED BY <1>2, <2>1, <2>2, <2>3 DEF Blocking
<1>b. Idle(t, None)
  <2>1. \A v \in Sub : <<v, "main">> \in s.timers => <<v, "main">> \in t.timers
    BY <1>2
  <2>2. c \in Sub => s.req[c] # None
    BY DEF Core, Pooled, Known
  <2>3. \A v \in KeptIn(s) : s.req[v] = None
    BY DEF Core, Pooled, Listed, KeptIn
  <2> QED BY <1>1, <1>2, <1>3, <2>1, <2>2, <2>3 DEF Idle
<1> QED BY <1>1, <1>5, <1>6, <1>7, <1>8, <1>9, <1>a, <1>b DEF Core

(* func_dispatcher, when no coroutine runs: an idle connection is entered  *)
(* only by a new client, and freed only if it is kept.                     *)
(* func_dispatcher of connection c in state s: c is a connection in use,   *)
(* or one of a client, or a kept one that is dying.                        *)
Ready(s, h, c) ==
    /\ Core(s, h, None, None, None) /\ Idle(s, c)
    /\ c \in Sub /\ s.pc[c] = "idle" => c \in s.flags.dying /\ c \in KeptIn(s)

(* What it comes to, with r the connection that has the CPU then.          *)
Dispatches(s, c, t, r) ==
    \/ /\ c \in s.flags.dying /\ c \in s.flags.third /\ t = s /\ r = None
    \/ /\ c \in s.flags.dying /\ c \in Parent /\ s.family[c].subs # {}
       /\ IsQuick(s, c, t) /\ r = None
    \/ /\ c \in Sub /\ s.pc[c] = "idle" /\ IsFreeIdle(s, c, t) /\ r = None
    \/ /\ c \in Parent /\ s.pc[c] = "idle" /\ IsClosed(s, c, t) /\ r = None
    \/ /\ c \in s.flags.dying /\ c \in Parent => s.family[c].subs = {}
       /\ s.pc[c] = "idle" => c \notin Sub \cup s.flags.dying
       /\ IsEntered(s, c, t) /\ r = c

LEMMA DispatchIs ==
    ASSUME NEW s, NEW h, NEW c \in Conn, Ready(s, h, c), Dispatch(s, c), cur = None
    PROVE  \E t : Becomes(t) /\ Dispatches(s, c, t, cur')
<1>1. /\ s \in State /\ None \notin Sub /\ None \notin Parent /\ Parent \cap Sub = {}
      /\ Conn = Parent \cup Sub /\ s.flags.third \subseteq Parent
  BY TypesOf, UpstreamAssumption DEF Ready, Core, Conn
<1>2. CASE c \in s.flags.dying /\ c \in s.flags.third
  <2>1. Becomes(s) /\ UNCHANGED cur
    BY <1>2 DEF Dispatch
  <2> QED BY <1>2, <2>1 DEF Dispatches
<1>3. CASE c \in s.flags.dying /\ c \notin s.flags.third /\ WaitsForSubs(s, c)
  <2>1. PICK t \in QuickFinish(s, c) : Becomes(t)
    BY <1>3 DEF Dispatch
  <2>2. UNCHANGED cur /\ c \in Parent /\ s.family[c].subs # {}
    BY <1>3 DEF Dispatch, WaitsForSubs
  <2>3. IsQuick(s, c, t)
    BY <1>1, <2>2, QuickFinishIs
  <2> QED BY <1>3, <2>1, <2>2, <2>3 DEF Dispatches
<1>4. CASE /\ c \in s.flags.dying /\ c \notin s.flags.third /\ ~WaitsForSubs(s, c)
           /\ s.pc[c] = "idle"
  <2>1. UNCHANGED cur /\ Becomes(IF c \in Sub THEN FreeIdle(s, c) ELSE Closed(s, c))
    BY <1>4 DEF Dispatch
  <2>2. CASE c \in Sub
    <3> DEFINE t == FreeIdle(s, c)
               b == s.pool.backend[c]
    <3>1. Becomes(t) /\ c \in KeptIn(s)
      BY <1>4, <2>1, <2>2 DEF Ready
    <3>2. b # None /\ c \in Range(s.pool.reuse[b]) /\ Single(s.pool.reuse[b])
      BY <1>1, <2>2, <3>1, UpstreamAssumption DEF Ready, Core, Pooled, Listed, KeptIn, ListOf
    <3>3. IsFreeIdle(s, c, t)
      BY <1>1, <2>2, <3>2, FreeIdleIs
    <3> HIDE DEF t
    <3> QED BY <1>4, <2>1, <2>2, <3>1, <3>3 DEF Dispatches
  <2>3. CASE c \notin Sub
    <3> DEFINE t == Closed(s, c)
    <3>1. Becomes(t) /\ c \in Parent
      BY <1>1, <2>1, <2>3
    <3>2. IsClosed(s, c, t)
      BY <1>1, <3>1, ClosedIs
    <3> HIDE DEF t
    <3> QED BY <1>4, <2>1, <3>1, <3>2 DEF Dispatches
  <2> QED BY <2>2, <2>3
<1>5. CASE /\ ~(c \in s.flags.dying /\ c \in s.flags.third)
           /\ ~(c \in s.flags.dying /\ WaitsForSubs(s, c))
           /\ ~(c \in s.flags.dying /\ s.pc[c] = "idle")
  <2> DEFINE t == Entered(s, c)
  <2>1. Becomes(t) /\ cur' = c
    BY <1>5 DEF Dispatch
  <2>2. s.pc[c] \in DOMAIN Awake
    <3>1. s.pc[c] \notin {"user", "start", "run"} /\ s.pc[c] \in ParentPc \cup SubPc
      BY <1>1 DEF Ready, Core, Placed
    <3> QED BY <3>1 DEF Awake, ParentPc, SubPc
  <2>3. IsEntered(s, c, t)
    BY <1>1, <2>2, EnteredIs
  <2> HIDE DEF t
  <2>4. c \in Sub => s.pc[c] # "idle"
    BY <1>5 DEF Ready
  <2> QED BY <1>5, <2>1, <2>3, <2>4 DEF Dispatches, WaitsForSubs
<1> QED BY <1>2, <1>3, <1>4, <1>5

LEMMA DispatchesCore ==
    ASSUME NEW s, NEW h, NEW c \in Conn, Ready(s, h, c), NEW t, NEW r, Dispatches(s, c, t, r)
    PROVE  Core(t, h, r, None, None) /\ Idle(t, None)
<1>1. /\ s \in State /\ None \notin Sub /\ s.flags.third \cap Sub = {}
      /\ Core(s, h, None, None, None) /\ Idle(s, c)
      /\ c \in Sub /\ s.pc[c] = "idle" => c \in KeptIn(s)
  BY TypesOf, UpstreamAssumption DEF Ready, Core
<1>2. CASE c \in s.flags.third /\ t = s /\ r = None
  <2>1. c \notin Sub
    BY <1>1, <1>2
  <2>2. Idle(s, None)
    BY <1>1, <2>1 DEF Idle
  <2> QED BY <1>1, <1>2, <2>2
<1>3. CASE c \in Parent /\ s.family[c].subs # {} /\ IsQuick(s, c, t) /\ r = None
  BY <1>1, <1>3, QuickFinishCore
<1>4. CASE c \in Sub /\ s.pc[c] = "idle" /\ IsFreeIdle(s, c, t) /\ r = None
  BY <1>1, <1>4, FreeIdleCore
<1>5. CASE c \in Parent /\ s.pc[c] = "idle" /\ IsClosed(s, c, t) /\ r = None
  BY <1>1, <1>5, ClosedCore
<1>6. CASE (c \in Sub => s.pc[c] # "idle") /\ IsEntered(s, c, t) /\ r = c
  BY <1>1, <1>6, EnteredCore
<1> QED BY <1>2, <1>3, <1>4, <1>5, <1>6 DEF Dispatches

LEMMA Dispatched ==
    ASSUME NEW s, NEW h, NEW c \in Conn, Ready(s, h, c), Dispatch(s, c), cur = None
    PROVE  /\ Dispatches(s, c, Now', cur')
           /\ Core(Now', h, cur', None, None) /\ Idle(Now', None)
<1>1. \E t : Becomes(t) /\ Dispatches(s, c, t, cur')
  BY DispatchIs
<1>2. \A t : Dispatches(s, c, t, cur') => Core(t, h, cur', None, None) /\ Idle(t, None)
  BY DispatchesCore
<1>3. \A t : Becomes(t) /\ Core(t, h, cur', None, None) => Now' = t
  BY NowIs DEF Core
<1> QED BY <1>1, <1>2, <1>3

-----------------------------------------------------------------------------
(* The ends of handlers and sub-requests.                                  *)
LEMMA ReturnedCore ==
    ASSUME NEW s, NEW h, NEW p \in Parent, Core(s, h, p, None, None), Idle(s, None),
           s.family[p].subs = {}, NEW t, IsReturned(s, p, t)
    PROVE  Core(t, h, None, None, None) /\ Idle(t, None)
<1>1. s \in State /\ h \subseteq Conn \X Nat /\ t \in State
      /\ None \notin Sub /\ p \notin Sub /\ p \in Conn /\ p # None /\ None \notin Conn
  BY UpstreamAssumption DEF Core, IsReturned, Conn
<1>2. /\ t.req = s.req /\ t.pool = s.pool /\ t.delay = s.delay
      /\ t.flags = CleanFlags(s.flags, p)
      /\ t.version[p] = s.version[p] + 1 /\ s.version[p] \in Nat
      /\ \A c \in Conn \ {p} : /\ t.version[c] = s.version[c] /\ t.net[c] = s.net[c]
                               /\ t.pc[c] = s.pc[c]
      /\ t.armed = s.armed \ {p} /\ t.pc[p] = "idle" /\ t.timers = s.timers \ Own(p)
      /\ \A q \in Parent \ {p} : t.family[q] = s.family[q]
      /\ t.family[p] = NoFamily
  BY <1>1, TypesOf DEF IsReturned
<1>3. KeptIn(t) = KeptIn(s) /\ KeptIn(s) \subseteq Sub /\ s.pool.free \subseteq Sub
      /\ \A v \in Sub : v \in Conn /\ v # p
  BY <1>1, <1>2, TypesOf DEF KeptIn, ListOf, Conn
<1>4. Pooled(t, None)
  <2>1. \A v \in Sub : t.pc[v] = s.pc[v]
    BY <1>2, <1>3
  <2> QED BY <1>2, <1>3, <2>1 DEF Core, Pooled, Counted, Listed, ListOf, Known
<1>5. Placed(t, None)
  <2>1. ASSUME NEW c \in Conn PROVE t.pc[c] \in {"user", "start", "run"} <=> c = None
    BY <1>1, <1>2 DEF Core, Placed
  <2>2. \A v \in Sub : t.pc[v] \in SubPc
    BY <1>2, <1>3 DEF Core, Placed
  <2>3. \A q \in Parent : t.pc[q] \in ParentPc
    BY <1>1, <1>2 DEF Core, Placed, ParentPc, Conn
  <2> QED BY <2>1, <2>2, <2>3 DEF Placed
<1>6. Related(t, None)
  <2>1. \A q \in Parent : q # None /\ q \in Conn
    BY <1>1, UpstreamAssumption DEF Conn
  <2>2. ASSUME NEW v \in Sub \ {None} PROVE ParentOf(t, v)
    <3>1. ParentOf(s, v) /\ (s.req[v] # None => s.req[v].parent \in Parent \cup {None})
      BY <1>1, TypesOf DEF Core, Related
    <3> QED BY <1>2, <2>1, <3>1 DEF ParentOf
  <2>3. ASSUME NEW q \in Parent PROVE ChildrenOf(t, q, None)
    <3>1. CASE q = p
      <4>1. NoFamily.subs = {} /\ NoFamily.count = 1 /\ Cardinality({}) = 0
        BY FS_EmptySet DEF NoFamily
      <4>2. t.family[q].subs = {} /\ t.family[q].count = 1
        BY <1>2, <3>1, <4>1
      <4>3. Cardinality(t.family[q].subs) = 0
        BY <4>1, <4>2
      <4> QED BY <4>2, <4>3 DEF ChildrenOf
    <3>2. CASE q # p
      BY <1>2, <2>1, <3>2 DEF Core, Related, ChildrenOf
    <3> QED BY <3>1, <3>2
  <2> QED BY <2>2, <2>3 DEF Related
<1>7. Clean(t, h)
  <2>1. \A v \in Sub : t.timers \cap Own(v) \subseteq s.timers \cap Own(v)
    BY <1>2
  <2> QED BY <1>2, <1>3, <2>1 DEF Core, Clean, Valid, QueuedIn
<1>8. Stamped(t, h)
  <2>1. \A c \in Conn : s.version[c] \in Nat /\ t.version[c] >= s.version[c] /\ t.version[c] \in Nat
    <3>1. \A c \in Conn : s.version[c] \in Nat
      BY <1>1, TypesOf
    <3> QED BY <1>2, <3>1
  <2>2. \A e \in h \cup Range(s.delay) : e \in Conn \X Nat
    BY <1>1, TypesOf
  <2> QED BY <1>2, <2>1, <2>2 DEF Core, Stamped
<1>9. Blocking(t)
  <2>1. t.flags.third = s.flags.third \ {p} /\ s.flags.third \subseteq Parent
    BY <1>1, <1>2, TypesOf DEF CleanFlags
  <2>2. \A c \in Conn : /\ c # p => (<<c, "sleep">> \in t.timers <=> <<c, "sleep">> \in s.timers)
                        /\ <<p, "sleep">> \notin t.timers
    BY <1>2 DEF Own
  <2> QED BY <1>1, <1>2, <2>1, <2>2 DEF Core, Blocking, Conn
<1>a. Idle(t, None)
  <2>1. t.flags.dying \subseteq s.flags.dying
    BY <1>2 DEF CleanFlags
  <2>2. \A v \in Sub : <<v, "main">> \in s.timers => <<v, "main">> \in t.timers
    BY <1>2, <1>3 DEF Own
  <2> QED BY <1>1, <1>2, <1>3, <2>1, <2>2 DEF Idle
<1> QED BY <1>1, <1>4, <1>5, <1>6, <1>7, <1>8, <1>9, <1>a DEF Core

(* A connection that is in use.                                            *)
LEMMA InUse ==
    ASSUME NEW s, NEW h, NEW r, Core(s, h, r, None, None), NEW u \in Sub,
           s.pc[u] # "idle"
    PROVE  /\ s.req[u] # None /\ s.req[u] \in Request
           /\ u \notin s.pool.free /\ u \notin KeptIn(s) /\ s.pool.backend[u] # None
           /\ \A p \in Parent : u \in s.family[p].subs <=> p = s.req[u].parent
           /\ s.req[u].parent # None => s.version[s.req[u].parent] = s.req[u].pver
<1>1. s \in State /\ None \notin Sub /\ None \notin Parent /\ Known(s, None, u)
  BY UpstreamAssumption DEF Core, Pooled
<1>2. s.req[u] # None /\ s.req[u] \in Request /\ s.req[u].parent \in Parent \cup {None}
  BY <1>1, TypesOf DEF Known
<1>3. u \notin s.pool.free /\ u \notin KeptIn(s) /\ s.pool.backend[u] # None
  <2>1. \A b \in Backend : u \notin ListOf(s, b)
    BY <1>2 DEF Core, Pooled, Listed
  <2> QED BY <1>1, <1>2, <2>1 DEF Known, KeptIn
<1>4. ParentOf(s, u) /\ \A p \in Parent : ChildrenOf(s, p, None)
  BY <1>1 DEF Core, Related
<1>5. ASSUME NEW p \in Parent PROVE u \in s.family[p].subs <=> p = s.req[u].parent
  BY <1>1, <1>2, <1>4 DEF ParentOf, ChildrenOf
<1> QED BY <1>2, <1>3, <1>4, <1>5 DEF ParentOf

LEMMA ReadCore ==
    ASSUME NEW s, NEW h, NEW r, NEW u \in Sub, NEW y, Core(s, h, r, y, None),
           u \notin s.pool.free, NEW t, IsRead(s, u, t)
    PROVE  Core(t, h, r, y, None)
<1>1. s \in State /\ h \subseteq Conn \X Nat /\ t \in State
  BY DEF Core, IsRead
<1>2. /\ t.version = s.version /\ t.pc = s.pc /\ t.flags = s.flags
      /\ t.timers = s.timers /\ t.armed = s.armed /\ t.family = s.family
      /\ t.req = s.req /\ t.pool = s.pool /\ t.delay = s.delay
      /\ \A v \in Conn \ {u} : t.net[v] = s.net[v]
      /\ s.net[u] # "ready" => t.net[u] = s.net[u]
  BY <1>1, TypesOf DEF IsRead
<1>3. KeptIn(t) = KeptIn(s) /\ KeptIn(s) \subseteq Sub /\ s.pool.free \subseteq Sub
  BY <1>1, <1>2, TypesOf DEF KeptIn, ListOf
<1>4. Pooled(t, None)
  BY <1>2, <1>3 DEF Core, Pooled, Counted, Listed, ListOf, Known
<1>5. Placed(t, r) /\ Related(t, y) /\ Stamped(t, h) /\ Blocking(t)
  BY <1>2, SameRelated, SameBlocking DEF Core, Placed, Stamped, SameFamily
<1>6. Clean(t, h)
  <2>1. \A v \in KeptIn(s) : t.net[v] = s.net[v]
    BY <1>2, <1>3 DEF Core, Clean, Conn
  <2>2. \A v \in s.pool.free : t.net[v] = s.net[v]
    BY <1>2, <1>3 DEF Conn
  <2> QED BY <1>2, <1>3, <2>1, <2>2 DEF Core, Clean, Valid, QueuedIn
<1> QED BY <1>1, <1>4, <1>5, <1>6 DEF Core

(* What an upstream connection may do to the others: nothing that makes    *)
(* an idle one dying or takes a timer from a kept one.                     *)
Spares(s, t, u) ==
    /\ t.flags.dying \subseteq s.flags.dying
    /\ \A v \in Sub \ {u} : <<v, "main">> \in s.timers => <<v, "main">> \in t.timers
    /\ \A v \in Sub \ {u} : t.req[v] = None => s.req[v] = None
    /\ KeptIn(t) \ {u} \subseteq KeptIn(s)

LEMMA SparesIdle ==
    ASSUME NEW s, NEW t, NEW u, Idle(s, None), Spares(s, t, u),
           u \in Sub => /\ t.req[u] = None => u \notin t.flags.dying
                        /\ u \in KeptIn(t) => <<u, "main">> \in t.timers
    PROVE  Idle(t, None)
<1>1. None \notin Sub
  BY UpstreamAssumption
<1>2. ASSUME NEW v \in Sub
      PROVE  /\ t.req[v] = None => v \notin t.flags.dying
             /\ v \in KeptIn(t) => <<v, "main">> \in t.timers
  <2>1. CASE v = u
    BY <2>1
  <2>2. CASE v # u
    BY <1>1, <2>2 DEF Idle, Spares
  <2> QED BY <2>1, <2>2
<1> QED BY <1>2 DEF Idle

LEMMA CloseIdle ==
    ASSUME NEW s, NEW t, NEW u \in Sub, s \in State, Idle(s, None), u \notin KeptIn(s),
           IsClose(s, u, t)
    PROVE  Idle(t, None)
<1>1. t.flags.dying = s.flags.dying \ {u}
  BY DEF IsClose, CleanFlags
<1>2. \A v : v # u /\ <<v, "main">> \in s.timers => <<v, "main">> \in t.timers
  BY DEF IsClose, Own
<1>3. \A v \in Sub \ {u} : t.req[v] = s.req[v]
  BY TypesOf DEF IsClose
<1>4. KeptIn(t) = KeptIn(s)
  BY DEF IsClose, KeptIn, ListOf
<1>5. Spares(s, t, u)
  BY <1>1, <1>2, <1>3, <1>4 DEF Spares
<1> QED BY <1>1, <1>4, <1>5, SparesIdle

LEMMA KeepIdle ==
    ASSUME NEW s, NEW t, NEW u \in Sub, s \in State, Idle(s, None),
           s.pool.backend[u] # None, IsKeep(s, u, t)
    PROVE  Idle(t, None)
<1>1. t.flags.dying = s.flags.dying \ {u}
  <2>1. t.flags = CleanFlags(s.flags, u)
    BY KeepPasses DEF Passed
  <2> QED BY <2>1 DEF CleanFlags
<1>2. /\ \A v : v # u /\ <<v, "main">> \in s.timers => <<v, "main">> \in t.timers
      /\ <<u, "main">> \in t.timers
  BY DEF IsKeep, Own
<1>3. \A v \in Sub \ {u} : t.req[v] = s.req[v]
  BY KeepPasses DEF Passed
<1>4. KeptIn(t) \subseteq KeptIn(s) \cup {u}
  <2> DEFINE c == s.pool.backend[u]
             q == s.pool.reuse[c]
             w == <<u>> \o q
  <2>1. c \in Backend /\ q \in Seq(Sub) /\ s.pool.reuse \in [Backend -> Seq(Sub)]
    BY TypesOf
  <2>2. /\ \A b \in Backend \ {c} : t.pool.reuse[b] = s.pool.reuse[b]
        /\ t.pool.reuse[c] = w /\ ListOf(s, c) = Range(q)
    BY <2>1 DEF IsKeep, ListOf
  <2> HIDE DEF q
  <2>3. Range(w) = Range(q) \cup {u}
    BY <2>1, RangeCons
  <2> HIDE DEF w, c
  <2>4. ListOf(t, c) = ListOf(s, c) \cup {u} /\ \A b \in Backend \ {c} : ListOf(t, b) = ListOf(s, b)
    BY <2>2, <2>3 DEF ListOf
  <2>5. c \in Backend
    BY <2>1
  <2>6. KeptIn(t) = KeptIn(s) \cup {u}
    BY <2>4, <2>5 DEF KeptIn
  <2> QED BY <2>6
<1>5. Spares(s, t, u)
  BY <1>1, <1>2, <1>3, <1>4 DEF Spares
<1> QED BY <1>1, <1>2, <1>5, SparesIdle

(* A sub-request ends before its connection is freed.                      *)
LEMMA EndedCore ==
    ASSUME NEW s, NEW h, NEW u \in Sub, Core(s, h, u, None, None), Idle(s, None),
           NEW f, IsFinalize(s, u, s.req[u], f)
    PROVE  /\ Core(f, h, u, u, None) /\ Idle(f, None) /\ f \in State
           /\ \A p \in Parent : u \notin f.family[p].subs
           /\ f.req = s.req /\ f.pool = s.pool /\ f.net = s.net /\ KeptIn(f) = KeptIn(s)
<1>1. s \in State /\ s.pc[u] # "idle"
  BY DEF Core, Placed, Conn
<1>2. /\ s.req[u] \in Request
      /\ \A p \in Parent : u \in s.family[p].subs <=> p = s.req[u].parent
  BY <1>1, InUse
<1> DEFINE q == s.req[u]
<1>3. IsFinalize(s, u, q, f) /\ q \in Request
      /\ \A p \in Parent : u \in s.family[p].subs <=> p = q.parent
  BY <1>2
<1> HIDE DEF q
<1>4. Core(f, h, u, u, None) /\ \A p \in Parent : u \notin f.family[p].subs
  BY <1>3, FinalizeCore
<1>5. f.req = s.req /\ f.pool = s.pool /\ f.flags = s.flags /\ f.timers = s.timers
      /\ f \in State /\ f.net = s.net
  BY <1>3 DEF IsFinalize
<1>6. KeptIn(f) = KeptIn(s)
  BY <1>5 DEF KeptIn, ListOf
<1> QED BY <1>4, <1>5, <1>6 DEF Idle

LEMMA DoneCore ==
    ASSUME NEW s, NEW h, NEW u \in Sub, Core(s, h, u, None, None), Idle(s, None),
           NEW f, IsFinalize(s, u, s.req[u], f), NEW x, IsRead(f, u, x), NEW t,
           IsKeep(x, u, t) \/ IsClose(x, u, t)
    PROVE  Core(t, h, None, None, None) /\ Idle(t, None)
<1>1. s \in State /\ s.pc[u] # "idle"
  BY DEF Core, Placed, Conn
<1>2. s.req[u] # None /\ u \notin s.pool.free /\ u \notin KeptIn(s) /\ s.pool.backend[u] # None
  BY <1>1, InUse
<1>3. /\ Core(f, h, u, u, None) /\ Idle(f, None) /\ f \in State
      /\ \A p \in Parent : u \notin f.family[p].subs
      /\ f.req = s.req /\ f.pool = s.pool /\ KeptIn(f) = KeptIn(s)
  BY EndedCore
<1>4. Core(x, h, u, u, None)
  BY <1>2, <1>3, ReadCore
<1>5. /\ x \in State /\ x.family = f.family /\ x.req = s.req /\ x.pool = s.pool
      /\ x.flags = f.flags /\ x.timers = f.timers /\ x.net[u] # "ready"
  BY <1>3, TypesOf DEF IsRead, Conn
<1>6. KeptIn(x) = KeptIn(s) /\ Idle(x, None)
  <2>1. KeptIn(x) = KeptIn(s)
    BY <1>5 DEF KeptIn, ListOf
  <2> QED BY <1>3, <1>5, <2>1 DEF Idle
<1>7. NotRunning(x, u, u) /\ Rests(u, u) = None
  BY DEF NotRunning, Rests
<1>8. Core(t, h, None, u, None) /\ Idle(t, None)
  <2>1. CASE IsKeep(x, u, t)
    <3>1. Core(t, h, Rests(u, u), u, None)
      BY <1>2, <1>4, <1>5, <1>7, <2>1, KeepCore
    <3> QED BY <1>2, <1>5, <1>6, <1>7, <2>1, <3>1, KeepIdle
  <2>2. CASE IsClose(x, u, t)
    <3>1. Core(t, h, Rests(u, u), u, None)
      BY <1>2, <1>4, <1>5, <1>6, <1>7, <2>2, CloseCore
    <3> QED BY <1>2, <1>5, <1>6, <1>7, <2>2, <3>1, CloseIdle
  <2> QED BY <2>1, <2>2
<1>9. t.req[u] = None /\ t.family = f.family
  <2>1. CASE IsKeep(x, u, t)
    BY <1>5, <2>1, KeepPasses DEF Passed
  <2>2. CASE IsClose(x, u, t)
    <3>1. t.req = [x.req EXCEPT ![u] = None] /\ t.family = x.family
      BY <2>2 DEF IsClose
    <3>2. DOMAIN x.req = Sub
      BY <1>5, TypesOf
    <3> QED BY <1>5, <3>1, <3>2
  <2> QED BY <1>2, <2>1, <2>2
<1> QED BY <1>3, <1>8, <1>9, Settled

LEMMA FailedCore ==
    ASSUME NEW s, NEW h, NEW u \in Sub, Core(s, h, u, None, None), Idle(s, None),
           NEW f, IsFinalize(s, u, s.req[u], f), NEW t, IsClose(f, u, t)
    PROVE  Core(t, h, None, None, None) /\ Idle(t, None)
<1>1. s \in State /\ s.pc[u] # "idle"
  BY DEF Core, Placed, Conn
<1>2. s.req[u] # None /\ u \notin s.pool.free /\ u \notin KeptIn(s)
  BY <1>1, InUse
<1>3. /\ Core(f, h, u, u, None) /\ Idle(f, None) /\ f \in State
      /\ \A p \in Parent : u \notin f.family[p].subs
      /\ f.req = s.req /\ f.pool = s.pool /\ KeptIn(f) = KeptIn(s)
  BY EndedCore
<1>4. NotRunning(f, u, u) /\ Rests(u, u) = None
  BY DEF NotRunning, Rests
<1>5. Core(t, h, Rests(u, u), u, None)
  BY <1>2, <1>3, <1>4, CloseCore
<1>6. Idle(t, None)
  BY <1>2, <1>3, CloseIdle
<1>7. t.req[u] = None /\ t.family = f.family
  BY <1>3, TypesOf DEF IsClose
<1> QED BY <1>3, <1>4, <1>5, <1>6, <1>7, Settled

(* ... and a failed one is tried again on another connection, or ends if   *)
(* there is none.                                                          *)
LEMMA FinalizeAgain ==
    ASSUME NEW s, NEW t, NEW h, NEW r, NEW u \in Sub, Core(s, h, r, u, None),
           NEW k \in Request, \A p \in Parent : u \in s.family[p].subs <=> p = k.parent,
           IsFinalize(s, u, k, t)
    PROVE  Core(t, h, r, u, None) /\ \A p \in Parent : u \notin t.family[p].subs
<1>1. u \in {None, u}
  OBVIOUS
<1> QED BY <1>1, FinalizeCore

LEMMA RetriedCore ==
    ASSUME NEW s, NEW h, NEW u \in Sub, Core(s, h, u, None, None), Idle(s, None),
           NEW c, IsClose(s, u, c), NEW t,
           \/ IsFinalize(c, u, s.req[u], t)
           \/ \E g \in GetConnection(c) : IsMoved(c, u, s.req[u], g, t)
    PROVE  Core(t, h, None, None, None) /\ Idle(t, None)
<1> DEFINE q == s.req[u]
<1>1. s \in State /\ s.pc[u] # "idle" /\ c \in State
  BY DEF Core, Placed, Conn, IsClose
<1>2. /\ q \in Request
      /\ u \notin s.pool.free /\ u \notin KeptIn(s)
      /\ \A p \in Parent : u \in s.family[p].subs <=> p = q.parent
      /\ q.parent # None => s.version[q.parent] = q.pver
  BY <1>1, InUse
<1>3. NotRunning(s, u, u) /\ Rests(u, u) = None
  BY DEF NotRunning, Rests
<1>4. Core(c, h, Rests(u, u), u, None)
  BY <1>2, <1>3, CloseCore
<1>5. Idle(c, None)
  BY <1>1, <1>2, CloseIdle
<1>6. \/ IsFinalize(c, u, q, t)
      \/ \E g \in GetConnection(c) : IsMoved(c, u, q, g, t)
  OBVIOUS
<1> HIDE DEF q
<1>7. /\ c.family = s.family /\ c.req[u] = None
      /\ \A v \in Conn \ {u} : c.version[v] = s.version[v]
  BY <1>1, TypesOf DEF IsClose
<1>8. q.parent # None => c.version[q.parent] = q.pver
  BY <1>2, <1>7, UpstreamAssumption DEF Request, Conn
<1>9. \A p \in Parent : u \in c.family[p].subs <=> p = q.parent
  BY <1>2, <1>7
<1>a. Core(c, h, None, u, None)
  BY <1>3, <1>4
<1>b. CASE IsFinalize(c, u, q, t)
  <2>1. Core(t, h, None, u, None) /\ \A p \in Parent : u \notin t.family[p].subs
    <3>1. q \in Request /\ u \in {None, u}
      BY <1>2
    <3>2. Core(c, h, None, u, None) /\ IsFinalize(c, u, q, t) /\ u \in {None, u}
          /\ q \in Request /\ \A p \in Parent : u \in c.family[p].subs <=> p = q.parent
      BY <1>9, <1>a, <1>b, <3>1
    <3> QED BY <3>2, FinalizeAgain
  <2>2. t.req = c.req /\ t.pool = c.pool /\ t.flags = c.flags /\ t.timers = c.timers
    BY <1>b DEF IsFinalize
  <2>3. Core(t, h, None, None, None)
    BY <1>7, <2>1, <2>2, Settled
  <2> QED BY <1>5, <2>2, <2>3 DEF Idle, KeptIn, ListOf
<1>c. CASE \E g \in GetConnection(c) : IsMoved(c, u, q, g, t)
  <2>1. PICK g \in GetConnection(c) : IsMoved(c, u, q, g, t)
    BY <1>c
  <2>2. Core(t, h, None, None, None) /\ KeptIn(t) \subseteq KeptIn(c)
    BY <1>2, <1>7, <1>8, <1>9, <1>a, <2>1, MovedCore
  <2> DEFINE k == g.u
             w == g.s
  <2>3. IsGiven(c, k, w)
    BY <1>1, GivenOne
  <2>4. /\ t.flags = w.flags /\ t.timers = w.timers
        /\ \A v \in Sub \ {k} : t.req[v] = w.req[v]
    <3>1. t.flags = w.flags /\ t.timers = w.timers
          /\ \E m : t.req = [w.req EXCEPT ![k] = m]
      BY <2>1 DEF IsMoved
    <3>2. w.req \in [Sub -> Request \cup {None}]
      BY <2>3, TypesOf DEF IsGiven
    <3> HIDE DEF w, k
    <3> QED BY <3>1, <3>2
  <2>5. w.flags = c.flags /\ w.timers = c.timers /\ w.req = c.req /\ k \in Sub
    BY <2>3 DEF IsGiven
  <2> HIDE DEF k, w
  <2>6. c.req[k] = None
    <3>1. Loose(w, k)
      BY <1>a, <2>3, GivenCore
    <3> QED BY <2>5, <3>1 DEF Loose
  <2>7. Spares(c, t, k)
    BY <2>2, <2>4, <2>5 DEF Spares
  <2>8. /\ k \notin t.flags.dying
        /\ k \in KeptIn(t) => <<k, "main">> \in t.timers
    BY <1>5, <2>2, <2>4, <2>5, <2>6, UpstreamAssumption DEF Idle
  <2> QED BY <1>5, <2>2, <2>7, <2>8, SparesIdle
<1> QED BY <1>6, <1>b, <1>c

-----------------------------------------------------------------------------
(* The steps.                                                              *)
Held == batch \cup tokens \cup resumes
Loops ==
    /\ phase \in {"wait", "events", "delay", "resume", "timer"}
    /\ needContinue \in BOOLEAN /\ cur \in Conn \cup {None}
    /\ batch \subseteq Conn \X Nat
    /\ resumes \subseteq Parent \X Nat /\ tokens \subseteq Parent \X Nat
    /\ ops \in [Parent -> Nat] /\ requests \in Nat
Sound(s, h, r) == Core(s, h, r, None, None) /\ Idle(s, None)
Inv == Loops /\ Sound(Now, Held, cur)

LEMMA NowFields ==
    /\ Now.version = version /\ Now.pc = pc /\ Now.flags = flags /\ Now.timers = timers
    /\ Now.net = net /\ Now.armed = armed /\ Now.family = family /\ Now.req = req
    /\ Now.pool = pool /\ Now.delay = delay
    /\ Now'.version = version' /\ Now'.pc = pc' /\ Now'.flags = flags'
    /\ Now'.timers = timers' /\ Now'.net = net' /\ Now'.armed = armed'
    /\ Now'.family = family' /\ Now'.req = req' /\ Now'.pool = pool' /\ Now'.delay = delay'
BY DEF Now

(* Entries may be dropped, and entries of parents added.                   *)
LEMMA HeldCore ==
    ASSUME NEW s, NEW h, NEW r, Core(s, h, r, None, None), NEW g,
           \A e \in g : \/ e \in h
                        \/ e \in Parent \X Nat /\ e[2] <= s.version[e[1]]
    PROVE  Core(s, g, r, None, None)
<1>1. s \in State /\ Parent \cap Sub = {} /\ Conn = Parent \cup Sub /\ h \subseteq Conn \X Nat
      /\ s.pool.free \subseteq Sub /\ KeptIn(s) \subseteq Sub
  <2>1. s \in State
    BY DEF Core
  <2> QED BY <2>1, TypesOf DEF Core, KeptIn
<1>2. g \subseteq Conn \X Nat
  BY <1>1
<1>3. \A v \in Sub : Valid(s, v) \in g => Valid(s, v) \in h
  <2>1. \A v \in Sub : Valid(s, v) \notin Parent \X Nat
    BY <1>1 DEF Valid
  <2> QED BY <2>1
<1>4. Clean(s, g)
  BY <1>1, <1>3 DEF Core, Clean
<1>5. Stamped(s, g)
  BY DEF Core, Stamped
<1> QED BY <1>2, <1>4, <1>5 DEF Core

LEMMA TailCore ==
    ASSUME NEW s, NEW h, NEW r, Sound(s, h, r), s.delay # << >>
    PROVE  LET t == [s EXCEPT !.delay = Tail(@)] IN
           /\ Sound(t, h, r)
           /\ t.version = s.version /\ t.pc = s.pc /\ t.flags = s.flags
           /\ t.timers = s.timers /\ t.net = s.net /\ t.armed = s.armed
           /\ t.family = s.family /\ t.req = s.req /\ t.pool = s.pool
           /\ t.delay = Tail(s.delay)
           /\ Head(s.delay) \in Conn \X Nat /\ Head(s.delay) \in Range(s.delay)
<1> DEFINE v == Tail(s.delay)
           t == [s EXCEPT !.delay = v]
<1>1. s \in State /\ s.delay \in Seq(Conn \X Nat)
  <2>1. s \in State
    BY DEF Sound, Core
  <2> QED BY <2>1, TypesOf
<1>2. /\ v \in Seq(Conn \X Nat) /\ Head(s.delay) \in Conn \X Nat
      /\ Range(s.delay) = Range(v) \cup {Head(s.delay)}
  BY <1>1, RangeTail
<1> HIDE DEF v
<1>3. /\ t \in State /\ t.delay = v
      /\ t.version = s.version /\ t.pc = s.pc /\ t.flags = s.flags
      /\ t.timers = s.timers /\ t.net = s.net /\ t.armed = s.armed
      /\ t.family = s.family /\ t.req = s.req /\ t.pool = s.pool
  BY <1>1, <1>2, SetDelay
<1>4. [s EXCEPT !.delay = Tail(@)] = t
  BY DEF v
<1> HIDE DEF t
<1>5. KeptIn(t) = KeptIn(s)
  BY <1>3 DEF KeptIn, ListOf
<1>6. Pooled(t, None)
  BY <1>3 DEF Sound, Core, Pooled, Counted, Listed, ListOf, Known, KeptIn
<1>7. Placed(t, r) /\ Related(t, None) /\ Blocking(t)
  BY <1>3 DEF Sound, Core, Placed, Related, ParentOf, ChildrenOf, Blocking
<1>8. Clean(t, h) /\ Stamped(t, h)
  BY <1>2, <1>3, <1>5 DEF Sound, Core, Clean, Valid, QueuedIn, Stamped
<1>9. Idle(t, None)
  BY <1>3, <1>5 DEF Sound, Idle
<1>a. Sound(t, h, r)
  BY <1>3, <1>6, <1>7, <1>8, <1>9 DEF Sound, Core
<1> QED BY <1>2, <1>3, <1>4, <1>a DEF v

LEMMA IdleBut ==
    ASSUME NEW s, NEW c, Idle(s, None) PROVE Idle(s, c)
BY UpstreamAssumption DEF Idle

(* An entry that is not stale belongs to a connection in use, unless it    *)
(* is of an event: the end of the stream of a kept one.                    *)
LEMMA EventIs ==
    ASSUME Inv, NEW e \in batch, TakeEvent(e), e = Entry(e[1])
    PROVE  LET c == e[1] IN
           /\ c \in Conn
           /\ \E s : /\ Ready(s, Held, c) /\ Dispatches(s, c, Now', cur')
                    /\ Sound(Now', Held, cur')
                    /\ \/ IsDying(Now, c, s) /\ net[c] = "closed" /\ c \notin armed
                       \/ s = Now /\ ~(net[c] = "closed" /\ c \notin armed)
<1> DEFINE c == e[1]
<1>1. /\ Core(Now, Held, cur, None, None) /\ Idle(Now, None) /\ e \in Conn \X Nat
      /\ c \in Conn /\ cur = None /\ Now \in State
  BY DEF Inv, Sound, Loops, TakeEvent, WorkerFree, Core
<1> DEFINE closed == net[c] = "closed" /\ c \notin armed
           d == Dying(Now, c)
           s == IF closed THEN d ELSE Now
<1>5. Dispatch(s, c)
  BY DEF TakeEvent
<1>6. Core(d, Held, cur, None, None) /\ Idle(d, c) /\ IsDying(Now, c, d)
  <2>1. IsDying(Now, c, d)
    BY <1>1, DyingIs
  <2>2. Idle(Now, c)
    BY <1>1, IdleBut
  <2> HIDE DEF d
  <2> QED BY <1>1, <2>1, <2>2, DyingCore
<1>7. Core(s, Held, cur, None, None) /\ Idle(s, c)
  <2>1. Idle(Now, c)
    BY <1>1, IdleBut
  <2> QED BY <1>1, <1>6, <2>1
<1>8. c \in Sub /\ s.pc[c] = "idle" => c \in s.flags.dying /\ c \in KeptIn(s)
  <2>1. SUFFICES ASSUME c \in Sub, s.pc[c] = "idle"
                 PROVE  c \in s.flags.dying /\ c \in KeptIn(s)
    OBVIOUS
  <2>2. Now.pc[c] = "idle"
    BY <1>6, <2>1 DEF IsDying
  <2>3. Known(Now, None, c) /\ Valid(Now, c) \in Held
    <3>1. Valid(Now, c) = e
      BY NowFields DEF Entry, Valid
    <3> QED BY <1>1, <2>1, <3>1 DEF Core, Pooled, Held
  <2>4. c \notin Now.pool.free
    BY <1>1, <2>3 DEF Core, Clean
  <2>5. c \in KeptIn(Now)
    BY <2>1, <2>2, <2>3, <2>4, UpstreamAssumption DEF Known
  <2>6. closed
    BY <1>1, <2>3, <2>5, NowFields DEF Core, Clean
  <2>7. KeptIn(d) = KeptIn(Now) /\ c \in d.flags.dying
    BY <1>6 DEF IsDying, KeptIn, ListOf
  <2> QED BY <2>5, <2>6, <2>7
<1> HIDE DEF s, d
<1>9. Ready(s, Held, c) /\ cur = None
  BY <1>1, <1>7, <1>8 DEF Ready
<1>a. Dispatches(s, c, Now', cur') /\ Sound(Now', Held, cur')
  BY <1>1, <1>5, <1>9, Dispatched DEF Sound
<1>b. \/ IsDying(Now, c, s) /\ net[c] = "closed" /\ c \notin armed
      \/ s = Now /\ ~(net[c] = "closed" /\ c \notin armed)
  BY <1>6 DEF s, d
<1> QED BY <1>1, <1>9, <1>a, <1>b

LEMMA EventSound ==
    ASSUME Inv, NEW e \in batch, TakeEvent(e) PROVE Sound(Now', Held', cur')
<1> DEFINE c == e[1]
<1>1. /\ Core(Now, Held, cur, None, None) /\ Idle(Now, None) /\ e \in Conn \X Nat
      /\ c \in Conn /\ cur = None /\ batch' = batch \ {e}
      /\ tokens' = tokens /\ resumes' = resumes /\ Now \in State
  BY DEF Inv, Sound, Loops, TakeEvent, WorkerFree, Core
<1>2. Held' \subseteq Held
  BY <1>1 DEF Held
<1>3. CASE e # Entry(c)
  <2>1. Becomes(Now) /\ UNCHANGED cur
    BY <1>3 DEF TakeEvent
  <2>2. Now' = Now
    BY <1>1, <2>1, NowIs
  <2> DEFINE h == Held'
             s == Now
  <2>3. Core(s, h, cur, None, None)
    <3> HIDE DEF h, s
    <3>1. \A x \in h : x \in Held
      BY <1>2 DEF h
    <3> QED BY <1>1, <3>1, HeldCore DEF s
  <2> HIDE DEF h
  <2> QED BY <1>1, <2>1, <2>2, <2>3 DEF Sound, h
<1>4. CASE e = Entry(c)
  <2>5. Core(Now', Held, cur', None, None) /\ Idle(Now', None)
    BY <1>4, EventIs DEF Sound
  <2> DEFINE h == Held'
             n == Now'
             r == cur'
  <2>6. \A x \in h : x \in Held
    BY <1>2
  <2>7. Core(n, Held, r, None, None)
    BY <2>5
  <2> HIDE DEF h, n, r
  <2>8. Core(n, h, r, None, None)
    BY <2>6, <2>7, HeldCore
  <2> QED BY <2>5, <2>8 DEF Sound, h, n, r
<1> QED BY <1>3, <1>4

LEMMA HeldSound ==
    ASSUME NEW s, NEW h, NEW r, Sound(s, h, r), NEW g,
           \A e \in g : \/ e \in h
                        \/ e \in Parent \X Nat /\ e[2] <= s.version[e[1]]
    PROVE  Sound(s, g, r)
BY HeldCore DEF Sound

LEMMA ResumeIs ==
    ASSUME NEW s, NEW h, Sound(s, h, None), cur = None, NEW e \in Conn \X Nat,
           s.version = version, e = Valid(s, e[1]) /\ e[1] \in Sub => s.pc[e[1]] # "idle",
           ResumeProcess(s, e)
    PROVE  /\ Sound(Now', h, cur')
           /\ e # Valid(s, e[1]) => Now' = s /\ cur' = None
           /\ e = Valid(s, e[1]) => Ready(s, h, e[1]) /\ Dispatches(s, e[1], Now', cur')
<1> DEFINE c == e[1]
<1>1. /\ c \in Conn /\ Core(s, h, None, None, None) /\ Idle(s, c)
      /\ Entry(c) = Valid(s, c)
  BY IdleBut DEF Sound, Entry, Valid
<1>2. CASE e # Entry(c)
  <2>1. Becomes(s) /\ UNCHANGED cur
    BY <1>2 DEF ResumeProcess
  <2>2. Now' = s
    BY <1>1, <2>1, NowIs DEF Core
  <2> QED BY <1>1, <1>2, <2>1, <2>2
<1>3. CASE e = Entry(c)
  <2>1. Dispatch(s, c)
    BY <1>3 DEF ResumeProcess
  <2>2. c \in Sub => s.pc[c] # "idle"
    BY <1>3 DEF Entry, Valid
  <2> HIDE DEF c
  <2>3. Ready(s, h, c)
    BY <1>1, <2>2 DEF Ready
  <2>4. Dispatches(s, c, Now', cur') /\ Core(Now', h, cur', None, None) /\ Idle(Now', None)
    BY <1>1, <2>1, <2>3, Dispatched
  <2> QED BY <1>1, <1>3, <2>3, <2>4 DEF Sound, c
<1> QED BY <1>2, <1>3

LEMMA DelayIs ==
    ASSUME Inv, TakeDelay
    PROVE  LET s == [Now EXCEPT !.delay = Tail(@)]
               e == Head(delay) IN
           /\ Sound(Now', Held', cur') /\ Held' = Held /\ e \in Conn \X Nat
           /\ e # Valid(Now, e[1]) => Now' = s /\ cur' = None
           /\ e = Valid(Now, e[1]) => Ready(s, Held, e[1]) /\ Dispatches(s, e[1], Now', cur')
<1> DEFINE s == [Now EXCEPT !.delay = Tail(@)]
           e == Head(delay)
           h == Held
<1>1. /\ Sound(Now, h, None) /\ cur = None /\ Now.delay # << >> /\ Held' = h
  BY NowFields DEF Inv, TakeDelay, WorkerFree, Held
<1>2. ResumeProcess(s, e)
  BY DEF TakeDelay
<1>3. /\ Sound(s, h, None) /\ s.version = Now.version /\ s.pc = Now.pc
      /\ e \in Conn \X Nat /\ e \in Range(Now.delay)
  <2> HIDE DEF h
  <2> QED BY <1>1, TailCore, NowFields
<1>4. e = Valid(s, e[1]) /\ e[1] \in Sub => s.pc[e[1]] # "idle"
  <2>1. SUFFICES ASSUME e = Valid(s, e[1]), e[1] \in Sub PROVE s.pc[e[1]] # "idle"
    OBVIOUS
  <2> DEFINE c == e[1]
  <2>2. QueuedIn(Now, c) /\ Known(Now, None, c) /\ c # None
    BY <1>1, <1>3, <2>1, UpstreamAssumption DEF QueuedIn, Valid, Sound, Core, Pooled
  <2>3. c \notin Now.pool.free /\ c \notin KeptIn(Now)
    BY <1>1, <2>2 DEF Sound, Core, Clean
  <2> QED BY <1>3, <2>2, <2>3 DEF Known
<1>5. Valid(s, e[1]) = Valid(Now, e[1])
  BY <1>3 DEF Valid
<1> HIDE DEF s, e, h
<1>6. /\ Sound(Now', h, cur')
      /\ e # Valid(s, e[1]) => Now' = s /\ cur' = None
      /\ e = Valid(s, e[1]) => Ready(s, h, e[1]) /\ Dispatches(s, e[1], Now', cur')
  BY <1>1, <1>2, <1>3, <1>4, NowFields, ResumeIs
<1> QED BY <1>1, <1>3, <1>5, <1>6 DEF s, e, h

LEMMA WakeIs ==
    ASSUME Inv, NEW e \in resumes, TakeResume(e)
    PROVE  /\ Sound(Now', Held', cur') /\ e \in Parent \X Nat
           /\ e # Valid(Now, e[1]) => Now' = Now /\ cur' = None
           /\ e = Valid(Now, e[1]) =>
                 Ready(Now, Held, e[1]) /\ Dispatches(Now, e[1], Now', cur')
<1> DEFINE s == Now
           h == Held
<1>1. /\ Sound(s, h, None) /\ cur = None /\ e \in Parent \X Nat /\ e \in Conn \X Nat
      /\ e[1] \notin Sub /\ ResumeProcess(s, e) /\ s.version = version
      /\ tokens' = tokens /\ batch' = batch /\ resumes' \subseteq resumes
  BY NowFields, UpstreamAssumption DEF Inv, TakeResume, WorkerFree, Loops, Conn
<1>2. \A x \in Held' : x \in h
  BY <1>1 DEF Held
<1> HIDE DEF s, h
<1>3. /\ Sound(Now', h, cur')
      /\ e # Valid(s, e[1]) => Now' = s /\ cur' = None
      /\ e = Valid(s, e[1]) => Ready(s, h, e[1]) /\ Dispatches(s, e[1], Now', cur')
  BY <1>1, ResumeIs
<1> DEFINE n == Now'
           g == Held'
           r == cur'
<1>4. Sound(n, h, r) /\ \A x \in g : x \in h
  BY <1>2, <1>3
<1> HIDE DEF n, g, r
<1>5. Sound(n, g, r)
  BY <1>4, HeldSound
<1> QED BY <1>1, <1>3, <1>5 DEF n, g, r, s, h

(* A timer that came due is gone before its handler runs.                  *)
LEMMA FiredCore ==
    ASSUME NEW s, NEW h, NEW r, Sound(s, h, r), NEW c \in Conn, NEW w,
           NEW t, t \in State, t.timers = s.timers \ {<<c, w>>},
           \A d \in t.flags.third : d \in s.flags.third /\ (w = "sleep" => d # c),
           t.flags.dying = s.flags.dying, w \in {"main", "sleep"},
           t.version = s.version, t.pc = s.pc, t.net = s.net, t.armed = s.armed,
           t.family = s.family, t.req = s.req, t.pool = s.pool, t.delay = s.delay
    PROVE  Core(t, h, r, None, None) /\ Idle(t, c)
<1>1. KeptIn(t) = KeptIn(s)
  BY DEF KeptIn, ListOf
<1>2. Pooled(t, None)
  BY DEF Sound, Core, Pooled, Counted, Listed, ListOf, Known, KeptIn
<1>3. Placed(t, r) /\ Related(t, None) /\ Stamped(t, h)
  BY DEF Sound, Core, Placed, Related, ParentOf, ChildrenOf, Stamped
<1>4. Clean(t, h)
  BY <1>1 DEF Sound, Core, Clean, Valid, QueuedIn
<1>5. Blocking(t)
  <2>1. \A d \in Conn : /\ <<d, "sleep">> \in t.timers => <<d, "sleep">> \in s.timers
                        /\ ~(w = "sleep" /\ d = c) /\ <<d, "sleep">> \in s.timers
                              => <<d, "sleep">> \in t.timers
    OBVIOUS
  <2>2. t.flags.third \subseteq Conn
    BY TypesOf
  <2> QED BY <2>1, <2>2 DEF Sound, Core, Blocking
<1>6. Idle(t, c)
  BY <1>1, UpstreamAssumption DEF Sound, Idle
<1> QED BY <1>2, <1>3, <1>4, <1>5, <1>6 DEF Sound, Core

IsFired(s, m, t) ==
    /\ t \in State /\ t.timers = s.timers \ {m}
    /\ IF m[2] = "sleep"
       THEN t.flags.third = s.flags.third \ {m[1]} /\ t.flags.dying = s.flags.dying
       ELSE t.flags.third = s.flags.third /\ t.flags.dying = s.flags.dying \cup {m[1]}
    /\ t.flags.parentDying = s.flags.parentDying
    /\ t.version = s.version /\ t.pc = s.pc /\ t.net = s.net /\ t.armed = s.armed
    /\ t.family = s.family /\ t.req = s.req /\ t.pool = s.pool /\ t.delay = s.delay

LEMMA TimerIs ==
    ASSUME Inv, NEW m \in timers, ProcessTimer(m)
    PROVE  /\ Sound(Now', Held', cur') /\ Held' = Held /\ m \in Timer
           /\ \E s : /\ IsFired(Now, m, s) /\ Ready(s, Held, m[1])
                    /\ Dispatches(s, m[1], Now', cur')
<1> DEFINE c == m[1]
           w == m[2]
           v == timers \ {m}
           s == [Now EXCEPT !.timers = @ \ {m}]
           s1 == [Now EXCEPT !.timers = v]
           h == Held
<1>1. /\ Sound(Now, h, None) /\ cur = None /\ Held' = h /\ Now \in State
      /\ m \in Timer
  <2>1. Now \in State
    BY DEF Inv, Sound, Core
  <2> QED BY <2>1, TypesOf, NowFields DEF Inv, ProcessTimer, WorkerFree, Held
<1>2. m = <<c, w>> /\ c \in Conn /\ w \in {"main", "sleep"}
  BY <1>1 DEF Timer
<1>3. s = s1 /\ v \in SUBSET Timer
  BY <1>1, NowFields, TypesOf
<1>4. IF w = "sleep" THEN Dispatch([s EXCEPT !.flags.third = @ \ {c}], c)
      ELSE Dispatch(Dying(s, c), c)
  BY DEF ProcessTimer
<1> HIDE DEF s, v, h
<1>5. /\ s \in State /\ s.timers = v
      /\ s.version = Now.version /\ s.pc = Now.pc /\ s.flags = Now.flags
      /\ s.net = Now.net /\ s.armed = Now.armed /\ s.family = Now.family
      /\ s.req = Now.req /\ s.pool = Now.pool /\ s.delay = Now.delay
  BY <1>1, <1>3, SetTimers
<1>6. v = Now.timers \ {<<c, w>>}
  BY <1>2, NowFields DEF v
<1>7. CASE w = "sleep"
  <2> DEFINE f == [s.flags EXCEPT !.third = @ \ {c}]
             t == [s EXCEPT !.flags = f]
  <2>1. Dispatch(t, c)
    <3>1. [s EXCEPT !.flags.third = @ \ {c}] = t
      OBVIOUS
    <3> HIDE DEF t
    <3> QED BY <1>4, <1>7, <3>1
  <2>2. f \in Flags /\ f.third = s.flags.third \ {c} /\ f.dying = s.flags.dying
        /\ f.parentDying = s.flags.parentDying
    BY <1>5 DEF State, Flags
  <2> HIDE DEF f
  <2>3. /\ t \in State /\ t.flags = f
        /\ t.version = s.version /\ t.pc = s.pc /\ t.timers = s.timers
        /\ t.net = s.net /\ t.armed = s.armed /\ t.family = s.family
        /\ t.req = s.req /\ t.pool = s.pool /\ t.delay = s.delay
    BY <1>5, <2>2, SetFlags
  <2> HIDE DEF t
  <2>4. Core(t, h, None, None, None) /\ Idle(t, c)
    BY <1>1, <1>2, <1>5, <1>6, <1>7, <2>2, <2>3, FiredCore
  <2>5. c \in Sub => FALSE
    <3>1. <<c, "sleep">> \in Now.timers
      BY <1>2, <1>7, NowFields
    <3> QED BY <1>1, <1>2, <3>1, UpstreamAssumption DEF Sound, Core, Blocking
  <2>6. Ready(t, h, c) /\ cur = None
    BY <1>1, <2>4, <2>5 DEF Ready
  <2>7. /\ Dispatches(t, c, Now', cur')
        /\ Core(Now', h, cur', None, None) /\ Idle(Now', None)
    BY <1>2, <2>1, <2>6, Dispatched
  <2>8. IsFired(Now, m, t)
    BY <1>2, <1>5, <1>6, <1>7, <2>2, <2>3 DEF IsFired
  <2> QED BY <1>1, <2>6, <2>7, <2>8 DEF Sound, h
<1>8. CASE w # "sleep"
  <2> DEFINE t == Dying(s, c)
  <2>1. Dispatch(t, c) /\ w = "main"
    BY <1>2, <1>4, <1>8
  <2>2. Core(s, h, None, None, None) /\ Idle(s, c)
    BY <1>1, <1>2, <1>5, <1>6, <2>1, FiredCore
  <2>3. IsDying(s, c, t)
    BY <1>2, <1>5, DyingIs
  <2> HIDE DEF t
  <2>4. Core(t, h, None, None, None) /\ Idle(t, c)
    BY <1>2, <2>2, <2>3, DyingCore
  <2>5. c \in Sub /\ t.pc[c] = "idle" => c \in t.flags.dying /\ c \in KeptIn(t)
    <3>1. SUFFICES ASSUME c \in Sub, t.pc[c] = "idle"
                   PROVE  c \in t.flags.dying /\ c \in KeptIn(t)
      OBVIOUS
    <3>2. <<c, "main">> \in Now.timers /\ <<c, "main">> \in Own(c)
      BY <1>2, <2>1, NowFields DEF Own
    <3>3. c \notin Now.pool.free
      BY <1>1, <3>2 DEF Sound, Core, Clean
    <3>4. Known(t, None, c) /\ c \notin t.pool.free
      BY <1>5, <2>3, <2>4, <3>1, <3>3 DEF IsDying, Core, Pooled
    <3> QED BY <2>3, <3>1, <3>4, UpstreamAssumption DEF Known, IsDying
  <2>6. Ready(t, h, c) /\ cur = None
    BY <1>1, <2>4, <2>5 DEF Ready
  <2>7. /\ Dispatches(t, c, Now', cur')
        /\ Core(Now', h, cur', None, None) /\ Idle(Now', None)
    BY <1>2, <2>1, <2>6, Dispatched
  <2>8. IsFired(Now, m, t)
    BY <1>2, <1>5, <1>6, <1>8, <2>3 DEF IsFired, IsDying
  <2> QED BY <1>1, <2>6, <2>7, <2>8 DEF Sound, h
<1> QED BY <1>7, <1>8

LEMMA EpollSound ==
    ASSUME Inv, EpollWait PROVE Sound(Now', Held', cur')
<1> DEFINE s == Now
           t == Now'
           h == Held
           g == Held'
<1>1. /\ Core(s, h, cur, None, None) /\ Idle(s, None) /\ s \in State
      /\ h \subseteq Conn \X Nat /\ cur' = cur
  BY DEF Inv, Sound, Core, EpollWait
<1>2. /\ t.version = s.version /\ t.pc = s.pc /\ t.flags = s.flags
      /\ t.timers = s.timers /\ t.net = s.net /\ t.armed = {} /\ t.family = s.family
      /\ t.req = s.req /\ t.pool = s.pool /\ t.delay = s.delay
      /\ s.version = version /\ s.armed = armed /\ s.net = net
  BY NowFields DEF EpollWait
<1>3. t = [s EXCEPT !.armed = {}]
  <2>1. s = [version |-> version, pc |-> pc, flags |-> flags, timers |-> timers,
             net |-> net, armed |-> armed, family |-> family, req |-> req,
             pool |-> pool, delay |-> delay]
    BY DEF Now
  <2>2. t = [version |-> version', pc |-> pc', flags |-> flags', timers |-> timers',
             net |-> net', armed |-> armed', family |-> family', req |-> req',
             pool |-> pool', delay |-> delay']
    BY DEF Now
  <2> QED BY <2>1, <2>2 DEF EpollWait
<1>4. \A e \in g : \/ e \in h
                   \/ e = Valid(s, e[1]) /\ e[1] \in armed /\ net[e[1]] # "quiet"
  BY <1>2 DEF Held, EpollWait, Entry, Valid
<1> HIDE DEF s, t, h, g
<1>5. t \in State /\ armed \subseteq Conn
  BY <1>1, <1>2, <1>3, SetArmed, TypesOf
<1>6. KeptIn(t) = KeptIn(s) /\ KeptIn(s) \subseteq Sub /\ s.pool.free \subseteq Sub
  BY <1>1, <1>2, TypesOf DEF KeptIn, ListOf
<1>7. Pooled(t, None)
  BY <1>1, <1>2 DEF Core, Pooled, Counted, Listed, ListOf, Known, KeptIn
<1>8. Placed(t, cur) /\ Related(t, None) /\ Blocking(t)
  BY <1>1, <1>2, SameRelated, SameBlocking DEF Core, Placed, SameFamily
<1>9. \A c \in Conn : /\ Valid(s, c)[1] = c /\ Valid(s, c)[2] <= s.version[c]
                      /\ Valid(s, c) \in Conn \X Nat
  BY <1>1, TypesOf DEF Valid
<1>a. g \subseteq Conn \X Nat /\ Stamped(t, g)
  <2>1. \A e \in g : e \in Conn \X Nat /\ (e \in h \/ e[2] <= s.version[e[1]])
    BY <1>1, <1>4, <1>5, <1>9
  <2> QED BY <1>1, <1>2, <2>1 DEF Core, Stamped
<1>b. Clean(t, g)
  <2>1. ASSUME NEW v \in s.pool.free
        PROVE  /\ t.timers \cap Own(v) = {} /\ v \notin t.armed /\ t.net[v] = "quiet"
               /\ Valid(t, v) \notin g /\ ~QueuedIn(t, v)
    <3>1. Valid(s, v) \notin g
      BY <1>1, <1>2, <1>4, <1>6, <1>9 DEF Core, Clean, Conn
    <3> QED BY <1>1, <1>2, <3>1 DEF Core, Clean, Valid, QueuedIn
  <2>2. ASSUME NEW v \in KeptIn(s)
        PROVE  /\ t.net[v] # "ready" /\ ~QueuedIn(t, v)
               /\ Valid(t, v) \in g => t.net[v] = "closed" /\ v \notin t.armed
    <3>1. s.net[v] # "ready" /\ ~QueuedIn(s, v) /\ (Valid(s, v) \in h => s.net[v] = "closed")
      BY <1>1 DEF Core, Clean
    <3>2. v \in Conn /\ s.net[v] \in {"quiet", "ready", "closed"}
      <4>1. v \in Conn
        BY <1>6 DEF Conn
      <4> QED BY <1>1, <4>1, TypesOf DEF Net
    <3>3. Valid(s, v) \in g => s.net[v] = "closed"
      BY <1>2, <1>4, <1>9, <3>1, <3>2
    <3> QED BY <1>2, <3>1, <3>3 DEF Valid, QueuedIn
  <2> QED BY <1>2, <1>6, <2>1, <2>2 DEF Clean
<1>c. Idle(t, None)
  BY <1>1, <1>2, <1>6 DEF Idle
<1>d. Sound(t, g, cur)
  BY <1>5, <1>7, <1>8, <1>a, <1>b, <1>c DEF Sound, Core
<1> QED BY <1>1, <1>d DEF t, g

(* The calls of a handler.                                                 *)
LEMMA GivenIdle ==
    ASSUME NEW s, NEW h, NEW r, Sound(s, h, r), NEW k, NEW w, IsGiven(s, k, w)
    PROVE  Idle(w, None) /\ k \notin KeptIn(w) /\ k \notin w.flags.dying /\ k \in Sub
           /\ w \in State
<1>1. Loose(w, k) /\ KeptIn(w) \subseteq KeptIn(s)
  BY GivenCore DEF Sound
<1>2. w.req = s.req /\ w.flags = s.flags /\ w.timers = s.timers /\ k \in Sub /\ w \in State
  BY DEF IsGiven
<1>3. Idle(w, None)
  BY <1>1, <1>2 DEF Sound, Idle
<1> QED BY <1>1, <1>2, <1>3, UpstreamAssumption DEF Loose, Idle

LEMMA HandedIdle ==
    ASSUME NEW w, NEW k \in Sub, w \in State, Idle(w, None), k \notin KeptIn(w),
           NEW m, m # None, NEW t, t.req = [w.req EXCEPT ![k] = m], t.pool = w.pool,
           t.flags = w.flags, t.timers = w.timers
    PROVE  Idle(t, None)
<1>1. t.req[k] # None /\ \A v \in Sub \ {k} : t.req[v] = w.req[v]
  BY TypesOf
<1>2. KeptIn(t) = KeptIn(w)
  BY DEF KeptIn, ListOf
<1> QED BY <1>1, <1>2 DEF Idle

(* What the calls and the ends of sub-requests do: a connection was given  *)
(* out and could not be used; one more sub-request; a request of its own;  *)
(* the end of a sub-request, with success or without; another try.         *)
Breaks(s, t) == \E k, w : IsGiven(s, k, w) /\ IsClose(w, k, t)
Forks(s, p, t) ==
    \E k, w, a : /\ IsGiven(s, k, w) /\ IsAdded(w, p, k, a)
                 /\ IsAssign(a, k, [parent |-> p, pver |-> s.version[p], tries |-> 0], t)
Detaches(s, t) ==
    \E k, w : /\ IsGiven(s, k, w)
              /\ IsAssign(w, k, [parent |-> None, pver |-> 0, tries |-> 0], t)
Succeeds(s, u, t) ==
    \E f, x : /\ IsFinalize(s, u, s.req[u], f) /\ IsRead(f, u, x)
              /\ IsKeep(x, u, t) \/ IsClose(x, u, t)
GivesUp(s, u, t) == \E f : IsFinalize(s, u, s.req[u], f) /\ IsClose(f, u, t)
Retries(s, u, t) ==
    \E c : /\ IsClose(s, u, c)
           /\ \/ IsFinalize(c, u, s.req[u], t)
              \/ \E g \in GetConnection(c) : IsMoved(c, u, s.req[u], g, t)

LEMMA AddIs ==
    ASSUME Inv, NEW p \in Parent, AddUpstream(p)
    PROVE  /\ Sound(Now', Held', cur') /\ Held' = Held /\ cur = p /\ cur' = p
           /\ Now' = Now \/ Breaks(Now, Now') \/ Forks(Now, p, Now')
<1> DEFINE s == Now
           h == Held
           m == [parent |-> p, pver |-> version[p], tries |-> 0]
<1>1. /\ Sound(s, h, p) /\ cur = p /\ cur' = p /\ Held' = h /\ s.pc[p] = "user" /\ p \notin Sub
      /\ s \in State /\ s.version = version
  <2>1. cur = p /\ cur' = p /\ pc[p] = "user" /\ Held' = h
    BY DEF AddUpstream, Calls, At, InHandler, Held
  <2>2. Sound(s, h, cur) /\ s \in State
    BY DEF Inv, Sound, Core
  <2> QED BY <2>1, <2>2, NowFields, UpstreamAssumption
<1>2. \/ Becomes(s)
      \/ \E g \in GetConnection(s) :
            \/ Becomes(Close(g.s, g.u))
            \/ Becomes(Assign([g.s EXCEPT !.family[p].subs = @ \cup {g.u},
                                          !.family[p].count = @ + 1,
                                          !.family[p].infos = TRUE], g.u, m))
  BY DEF AddUpstream
<1>3. m = [parent |-> p, pver |-> s.version[p], tries |-> 0] /\ m # None /\ m \in Request
  <2>1. m \in Request
    BY <1>1, TypesOf DEF Request
  <2> QED BY <1>1, <2>1, UpstreamAssumption
<1> HIDE DEF s, h, m
<1>4. CASE Becomes(s)
  <2>1. s' = s /\ s' = Now'
    BY <1>1, <1>4, NowIs DEF s
  <2> QED BY <1>1, <2>1 DEF s, h
<1>5. ASSUME NEW g \in GetConnection(s), Becomes(Close(g.s, g.u))
      PROVE  Sound(Now', Held', cur') /\ (Breaks(s, Now') \/ Forks(s, p, Now'))
  <2> DEFINE k == g.u
             w == g.s
             t == Close(w, k)
  <2>1. IsGiven(s, k, w)
    BY <1>1, GivenOne
  <2>2. Becomes(t)
    BY <1>5
  <2> HIDE DEF k, w
  <2>3. Idle(w, None) /\ k \notin KeptIn(w) /\ k \in Sub /\ w \in State
    BY <1>1, <2>1, GivenIdle
  <2>4. IsClose(w, k, t)
    BY <2>3, CloseIs
  <2> HIDE DEF t
  <2>5. Core(t, h, p, None, None) /\ t \in State
    <3>1. Core(s, h, p, None, None)
      BY <1>1 DEF Sound
    <3>2. Core(t, h, p, None, None)
      BY <1>1, <2>1, <2>4, <3>1, BrokenCore
    <3>3. t \in State
      BY <2>4 DEF IsClose
    <3> QED BY <3>2, <3>3
  <2>6. Idle(t, None)
    BY <2>3, <2>4, CloseIdle
  <2>7. Now' = t
    BY <2>2, <2>5, NowIs
  <2> QED BY <1>1, <2>1, <2>4, <2>5, <2>6, <2>7 DEF Sound, Breaks
<1>6. ASSUME NEW g \in GetConnection(s),
             Becomes(Assign([g.s EXCEPT !.family[p].subs = @ \cup {g.u},
                                        !.family[p].count = @ + 1,
                                        !.family[p].infos = TRUE], g.u, m))
      PROVE  Sound(Now', Held', cur') /\ (Breaks(s, Now') \/ Forks(s, p, Now'))
  <2> DEFINE k == g.u
             w == g.s
             a == [w EXCEPT !.family[p].subs = @ \cup {k}, !.family[p].count = @ + 1,
                            !.family[p].infos = TRUE]
             t == Assign(a, k, m)
  <2>1. IsGiven(s, k, w)
    BY <1>1, GivenOne
  <2>2. Becomes(t)
    BY <1>6
  <2> HIDE DEF k, w
  <2>3. Idle(w, None) /\ k \notin KeptIn(w) /\ k \in Sub /\ w \in State
    BY <1>1, <2>1, GivenIdle
  <2>4. IsAdded(w, p, k, a)
    BY <2>3, AddedIs
  <2> HIDE DEF a
  <2>5. IsAssign(a, k, m, t)
    BY <1>3, <2>3, <2>4, AssignIs DEF IsAdded
  <2> HIDE DEF t
  <2>6. Core(t, h, p, None, None) /\ t \in State
    <3>1. Core(s, h, p, None, None)
      BY <1>1 DEF Sound
    <3>2. Core(t, h, p, None, None)
      BY <1>1, <1>3, <2>1, <2>4, <2>5, <3>1, AddedCore
    <3>3. t \in State
      BY <2>5 DEF IsAssign
    <3> QED BY <3>2, <3>3
  <2>7. Idle(t, None)
    <3>1. t.req = [w.req EXCEPT ![k] = m] /\ t.pool = w.pool /\ t.flags = w.flags
          /\ t.timers = w.timers
      BY <2>4, <2>5 DEF IsAssign, IsAdded
    <3> QED BY <1>3, <2>3, <3>1, HandedIdle
  <2>8. Now' = t
    BY <2>2, <2>6, NowIs
  <2>9. Forks(s, p, Now')
    BY <1>3, <2>1, <2>4, <2>5, <2>8 DEF Forks
  <2> QED BY <1>1, <2>6, <2>7, <2>8, <2>9 DEF Sound
<1> QED BY <1>1, <1>2, <1>4, <1>5, <1>6 DEF s, h

LEMMA DetachIs ==
    ASSUME Inv, NEW p \in Parent, AddUpstreamDetach(p)
    PROVE  /\ Sound(Now', Held', cur') /\ Held' = Held /\ cur = p /\ cur' = p
           /\ Breaks(Now, Now') \/ Detaches(Now, Now')
<1> DEFINE s == Now
           h == Held
           m == [parent |-> None, pver |-> 0, tries |-> 0]
<1>1. /\ Sound(s, h, p) /\ cur = p /\ cur' = p /\ Held' = h /\ p \notin Sub /\ s \in State
  <2>1. cur = p /\ cur' = p /\ Held' = h
    BY DEF AddUpstreamDetach, Calls, At, InHandler, Held
  <2>2. Sound(s, h, cur) /\ s \in State
    BY DEF Inv, Sound, Core
  <2> QED BY <2>1, <2>2, UpstreamAssumption
<1>2. \E g \in GetConnection(s) :
            \/ Becomes(Close(g.s, g.u))
            \/ Becomes(Assign(g.s, g.u, m))
  BY DEF AddUpstreamDetach
<1>3. m = [parent |-> None, pver |-> 0, tries |-> 0] /\ m # None /\ m \in Request
  <2>1. m \in Request
    BY DEF Request
  <2> QED BY <2>1, UpstreamAssumption
<1> HIDE DEF s, h, m
<1>4. PICK g \in GetConnection(s) : \/ Becomes(Close(g.s, g.u))
                                    \/ Becomes(Assign(g.s, g.u, m))
  BY <1>2
<1> DEFINE k == g.u
           w == g.s
<1>5. IsGiven(s, k, w) /\ (Becomes(Close(w, k)) \/ Becomes(Assign(w, k, m)))
  BY <1>1, <1>4, GivenOne
<1> HIDE DEF k, w
<1>6. Idle(w, None) /\ k \notin KeptIn(w) /\ k \in Sub /\ w \in State
  BY <1>1, <1>5, GivenIdle
<1>7. CASE Becomes(Close(w, k))
  <2> DEFINE t == Close(w, k)
  <2>1. IsClose(w, k, t) /\ Becomes(t)
    BY <1>6, <1>7, CloseIs
  <2> HIDE DEF t
  <2>2. Core(t, h, p, None, None) /\ t \in State
    <3>1. Core(s, h, p, None, None)
      BY <1>1 DEF Sound
    <3>2. Core(t, h, p, None, None)
      BY <1>1, <1>5, <2>1, <3>1, BrokenCore
    <3>3. t \in State
      BY <2>1 DEF IsClose
    <3> QED BY <3>2, <3>3
  <2>3. Idle(t, None)
    BY <1>6, <2>1, CloseIdle
  <2>4. Now' = t
    BY <2>1, <2>2, NowIs
  <2> QED BY <1>1, <1>5, <2>1, <2>2, <2>3, <2>4 DEF Sound, Breaks, s, h
<1>8. CASE Becomes(Assign(w, k, m))
  <2> DEFINE t == Assign(w, k, m)
  <2>1. IsAssign(w, k, m, t) /\ Becomes(t)
    BY <1>3, <1>6, <1>8, AssignIs
  <2> HIDE DEF t
  <2>2. Core(t, h, p, None, None) /\ t \in State
    <3>1. Core(s, h, p, None, None)
      BY <1>1 DEF Sound
    <3>2. Core(t, h, p, None, None)
      BY <1>1, <1>3, <1>5, <2>1, <3>1, DetachedCore
    <3>3. t \in State
      BY <2>1 DEF IsAssign
    <3> QED BY <3>2, <3>3
  <2>3. Idle(t, None)
    <3>1. t.req = [w.req EXCEPT ![k] = m] /\ t.pool = w.pool /\ t.flags = w.flags
          /\ t.timers = w.timers
      BY <2>1 DEF IsAssign
    <3> QED BY <1>3, <1>6, <3>1, HandedIdle
  <2>4. Now' = t
    BY <2>1, <2>2, NowIs
  <2>5. Detaches(s, Now')
    BY <1>3, <1>5, <2>1, <2>4 DEF Detaches
  <2> QED BY <1>1, <2>2, <2>3, <2>4, <2>5 DEF Sound, s, h
<1> QED BY <1>5, <1>7, <1>8

LEMMA ReturnIs ==
    ASSUME Inv, NEW p \in Parent, UserReturn(p)
    PROVE  /\ Sound(Now', Held', cur') /\ Held' = Held /\ cur = p /\ cur' = None
           /\ IsReturned(Now, p, Now') /\ family[p].subs = {}
<1> DEFINE s == Now
           h == Held
           t == [Closed(s, p) EXCEPT !.pc[p] = "idle", !.timers = @ \ Own(p),
                                     !.family[p] = NoFamily]
<1>1. /\ Core(s, h, p, None, None) /\ Idle(s, None) /\ cur = p /\ cur' = None /\ Held' = h
      /\ s \in State /\ s.family[p].subs = {} /\ Becomes(t)
  <2>1. cur = p /\ cur' = None /\ family[p].subs = {} /\ Held' = h /\ Becomes(t)
    BY DEF UserReturn, At, InHandler, Held
  <2>2. Sound(s, h, cur) /\ s \in State
    BY DEF Inv, Sound, Core
  <2> QED BY <2>1, <2>2, NowFields DEF Sound
<1>2. IsReturned(s, p, t)
  BY <1>1, ReturnedIs
<1> HIDE DEF s, h, t
<1>3. Core(t, h, None, None, None) /\ Idle(t, None)
  BY <1>1, <1>2, ReturnedCore
<1>4. Now' = t
  BY <1>1, <1>2, NowIs DEF IsReturned
<1> QED BY <1>1, <1>2, <1>3, <1>4, NowFields DEF Sound, s, h

LEMMA NowTyped ==
    ASSUME version' \in [Conn -> Nat], pc' \in [Conn -> ParentPc \cup SubPc],
           flags' \in Flags, timers' \in SUBSET Timer, net' \in [Conn -> Net],
           armed' \in SUBSET Conn, family' \in [Parent -> Family],
           req' \in [Sub -> Request \cup {None}], pool' \in Pool,
           delay' \in Seq(Conn \X Nat)
    PROVE  Now' \in State
BY DEF Now, State

LEMMA NowIn ==
    ASSUME Now \in State
    PROVE  /\ version \in [Conn -> Nat] /\ pc \in [Conn -> ParentPc \cup SubPc]
           /\ flags \in Flags /\ timers \in SUBSET Timer /\ net \in [Conn -> Net]
           /\ armed \in SUBSET Conn /\ family \in [Parent -> Family]
           /\ req \in [Sub -> Request \cup {None}] /\ pool \in Pool
           /\ delay \in Seq(Conn \X Nat)
BY NowFields DEF State

LEMMA BlockedSound ==
    ASSUME NEW s, NEW h, NEW p \in Parent, Sound(s, h, p), NEW w \in {"join", "sleep", "yield"},
           NEW t \in State, t.pc = [s.pc EXCEPT ![p] = w],
           \/ t.timers = s.timers /\ t.flags = s.flags /\ w # "sleep"
           \/ /\ w = "sleep" /\ t.timers = s.timers \cup {<<p, "sleep">>}
              /\ t.flags.third = s.flags.third \cup {p} /\ t.flags.dying = s.flags.dying,
           t.version = s.version, t.net = s.net, t.armed = s.armed, t.family = s.family,
           t.req = s.req, t.pool = s.pool, t.delay = s.delay
    PROVE  Sound(t, h, None)
<1>1. s \in State /\ p \notin Sub /\ p # None /\ None \notin Conn /\ p \in Conn
      /\ Parent \cup Sub = Conn
  BY UpstreamAssumption DEF Sound, Core, Conn
<1>2. t.pc[p] = w /\ \A c \in Conn : c # p => t.pc[c] = s.pc[c]
  BY <1>1, TypesOf
<1>3. KeptIn(t) = KeptIn(s)
  BY DEF KeptIn, ListOf
<1>4. Placed(t, None)
  <2>1. Placed(s, p)
    BY DEF Sound, Core
  <2>2. \A c \in Parent : c \in Conn
    BY <1>1
  <2>3. \A c \in Sub : c \in Conn /\ c # p
    BY <1>1
  <2>4. \A c \in Parent : t.pc[c] \in ParentPc
    BY <1>2, <2>1, <2>2 DEF Placed, ParentPc
  <2>5. \A c \in Sub : t.pc[c] \in SubPc
    BY <1>2, <2>1, <2>3 DEF Placed
  <2>6. \A c \in Conn : t.pc[c] \in {"user", "start", "run"} <=> c = None
    BY <1>1, <1>2, <2>1 DEF Placed
  <2> QED BY <2>4, <2>5, <2>6 DEF Placed
<1>5. Related(t, None)
  <2>1. \A q \in Parent : t.pc[q] = "idle" => s.pc[q] = "idle"
    BY <1>1, <1>2
  <2>2. Related(s, None)
    BY DEF Sound, Core
  <2>3. SameFamily(s, t)
    BY <2>1 DEF SameFamily
  <2> QED BY <2>2, <2>3, SameRelated
<1>6. Pooled(t, None)
  <2>1. \A v \in Sub : t.pc[v] = s.pc[v]
    BY <1>1, <1>2
  <2> QED BY <2>1 DEF Sound, Core, Pooled, Counted, Listed, ListOf, Known, KeptIn
<1>7. Clean(t, h)
  <2>1. \A v \in s.pool.free : t.timers \cap Own(v) \subseteq s.timers \cap Own(v)
    <3>1. \A v \in s.pool.free : v # p
      BY <1>1, TypesOf
    <3> QED BY <3>1 DEF Own
  <2> QED BY <1>3, <2>1 DEF Sound, Core, Clean, Valid, QueuedIn
<1>8. Stamped(t, h)
  BY DEF Sound, Core, Stamped
<1>9. Blocking(t)
  <2>1. Blocking(s) /\ s.flags.third \subseteq Conn /\ s.pc[p] \in {"user", "start", "run"}
    BY <1>1, TypesOf DEF Sound, Core, Placed
  <2>2. p \notin s.flags.third /\ <<p, "sleep">> \notin s.timers
    BY <1>1, <2>1 DEF Blocking
  <2> QED BY <1>1, <1>2, <2>1, <2>2 DEF Blocking
<1>a. Idle(t, None)
  <2>1. t.flags.dying = s.flags.dying /\ s.timers \subseteq t.timers
    OBVIOUS
  <2> QED BY <1>3, <2>1 DEF Sound, Idle
<1> QED BY <1>4, <1>5, <1>6, <1>7, <1>8, <1>9, <1>a DEF Sound, Core

LEMMA RunSound ==
    ASSUME Inv, NEW p \in Parent, RunUpstreams(p) PROVE Sound(Now', Held', cur')
<1> DEFINE s == Now
           t == Now'
           h == Held
<1>1. Sound(s, h, p) /\ cur = p /\ Held' = h /\ s \in State
      /\ version' = version /\ flags' = flags /\ timers' = timers /\ net' = net
      /\ armed' = armed /\ family' = family /\ req' = req /\ pool' = pool /\ delay' = delay
  BY DEF Inv, Sound, Core, RunUpstreams, At, InHandler, Held, Waits
<1>2. \/ pc' = [pc EXCEPT ![p] = "join"] /\ cur' = None
      \/ pc' = pc /\ cur' = cur
  BY DEF RunUpstreams, Wait
<1>3. t \in State
  <2>1. pc' \in [Conn -> ParentPc \cup SubPc]
    BY <1>1, <1>2, NowIn DEF ParentPc
  <2> QED BY <1>1, <2>1, NowIn, NowTyped
<1>4. /\ s.pc = pc /\ t.pc = pc' /\ t.version = s.version /\ t.flags = s.flags
      /\ t.timers = s.timers /\ t.net = s.net /\ t.armed = s.armed /\ t.family = s.family
      /\ t.req = s.req /\ t.pool = s.pool /\ t.delay = s.delay
  BY <1>1, NowFields
<1>5. CASE pc' = pc /\ cur' = cur
  <2>1. t = s
    BY <1>1, <1>5 DEF Now
  <2> QED BY <1>1, <1>5, <2>1
<1> HIDE DEF s, t, h
<1>6. CASE pc' = [pc EXCEPT ![p] = "join"] /\ cur' = None
  <2>1. Sound(t, h, None)
    BY <1>1, <1>3, <1>4, <1>6, BlockedSound
  <2> QED BY <1>1, <1>6, <2>1 DEF t
<1> QED BY <1>2, <1>5, <1>6

LEMMA SleepSound ==
    ASSUME Inv, NEW p \in Parent, UserSleep(p) PROVE Sound(Now', Held', cur')
<1> DEFINE s == Now
           t == Now'
           h == Held
           f == [flags EXCEPT !.third = @ \cup {p}]
<1>1. Sound(s, h, p) /\ cur' = None /\ Held' = h /\ s \in State
      /\ version' = version /\ net' = net /\ pc' = [pc EXCEPT ![p] = "sleep"]
      /\ flags' = f /\ timers' = timers \cup {<<p, "sleep">>}
      /\ armed' = armed /\ family' = family /\ req' = req /\ pool' = pool /\ delay' = delay
  BY DEF Inv, Sound, Core, UserSleep, Blocks, Calls, At, InHandler, Held, Waits, Wait
<1>2. f \in Flags /\ f.third = flags.third \cup {p} /\ f.dying = flags.dying
  BY <1>1, NowIn DEF Flags
<1> HIDE DEF f
<1>3. t \in State
  <2>1. pc' \in [Conn -> ParentPc \cup SubPc]
    BY <1>1, NowIn DEF ParentPc
  <2>2. timers' \in SUBSET Timer
    BY <1>1, NowIn DEF Timer, Conn
  <2> QED BY <1>1, <1>2, <2>1, <2>2, NowIn, NowTyped
<1>4. /\ t.pc = [s.pc EXCEPT ![p] = "sleep"] /\ t.version = s.version
      /\ t.flags.third = s.flags.third \cup {p} /\ t.flags.dying = s.flags.dying
      /\ t.timers = s.timers \cup {<<p, "sleep">>}
      /\ t.net = s.net /\ t.armed = s.armed /\ t.family = s.family
      /\ t.req = s.req /\ t.pool = s.pool /\ t.delay = s.delay
  BY <1>1, <1>2, NowFields
<1> HIDE DEF s, t, h
<1>5. Sound(t, h, None)
  BY <1>1, <1>3, <1>4, BlockedSound
<1> QED BY <1>1, <1>5 DEF t

LEMMA YieldSound ==
    ASSUME Inv, NEW p \in Parent, UserYield(p) PROVE Sound(Now', Held', cur')
<1> DEFINE s == Now
           t == Now'
           h == Held
           g == Held'
<1>1. Sound(s, h, p) /\ cur' = None /\ s \in State
      /\ version' = version /\ net' = net /\ pc' = [pc EXCEPT ![p] = "yield"]
      /\ flags' = flags /\ timers' = timers
      /\ armed' = armed /\ family' = family /\ req' = req /\ pool' = pool /\ delay' = delay
      /\ tokens' = tokens \cup {Entry(p)} /\ batch' = batch /\ resumes' = resumes
  BY DEF Inv, Sound, Core, UserYield, Blocks, Calls, At, InHandler, Held, Waits, Wait
<1>2. \A e \in g : e \in h \/ e = Valid(s, p)
  BY <1>1, NowFields DEF Held, Entry, Valid
<1>3. t \in State
  <2>1. pc' \in [Conn -> ParentPc \cup SubPc]
    BY <1>1, NowIn DEF ParentPc
  <2> QED BY <1>1, <2>1, NowIn, NowTyped
<1>4. /\ t.pc = [s.pc EXCEPT ![p] = "yield"] /\ t.version = s.version
      /\ t.flags = s.flags /\ t.timers = s.timers
      /\ t.net = s.net /\ t.armed = s.armed /\ t.family = s.family
      /\ t.req = s.req /\ t.pool = s.pool /\ t.delay = s.delay
  BY <1>1, NowFields
<1> HIDE DEF s, t, h, g
<1>5. Sound(t, h, None)
  BY <1>1, <1>3, <1>4, BlockedSound
<1>6. Valid(s, p) \in Parent \X Nat /\ Valid(s, p)[1] = p /\ Valid(s, p)[2] <= t.version[p]
  BY <1>1, <1>4, TypesOf DEF Valid, Conn
<1>7. Sound(t, g, None)
  BY <1>2, <1>5, <1>6, HeldSound
<1> QED BY <1>1, <1>7 DEF t, g

(* The steps of a sub-request.                                             *)
LEMMA WaitingSound ==
    ASSUME NEW s, NEW h, NEW u \in Sub, Sound(s, h, u), NEW t \in State,
           t.pc = [s.pc EXCEPT ![u] = "wait"],
           t.timers = s.timers \cup {<<u, "main">>},
           t.net = [s.net EXCEPT ![u] = IF @ = "ready" THEN "quiet" ELSE @],
           t.version = s.version, t.flags = s.flags, t.armed = s.armed,
           t.family = s.family, t.req = s.req, t.pool = s.pool, t.delay = s.delay
    PROVE  Sound(t, h, None)
<1>1. /\ s \in State /\ Core(s, h, u, None, None) /\ u \in Conn /\ None \notin Conn
      /\ Parent \cup Sub = Conn /\ u \notin Parent /\ s.pc[u] \in {"user", "start", "run"}
  BY UpstreamAssumption DEF Sound, Core, Conn, Placed
<1>2. /\ s.req[u] # None /\ u \notin s.pool.free /\ u \notin KeptIn(s)
      /\ s.pool.free \subseteq Sub /\ KeptIn(s) \subseteq Sub
  BY <1>1, InUse, TypesOf DEF KeptIn
<1>3. /\ t.pc[u] = "wait" /\ \A c \in Conn : c # u => t.pc[c] = s.pc[c]
      /\ \A c \in Conn : c # u => t.net[c] = s.net[c]
  BY <1>1, TypesOf
<1>4. KeptIn(t) = KeptIn(s)
  BY DEF KeptIn, ListOf
<1>5. Placed(t, None)
  <2>1. \A p \in Parent : t.pc[p] \in ParentPc
    BY <1>1, <1>3 DEF Core, Placed
  <2>2. \A v \in Sub : t.pc[v] \in SubPc
    BY <1>1, <1>3 DEF Core, Placed, SubPc
  <2>3. \A c \in Conn : t.pc[c] \in {"user", "start", "run"} <=> c = None
    BY <1>1, <1>3 DEF Core, Placed
  <2> QED BY <2>1, <2>2, <2>3 DEF Placed
<1>6. Related(t, None)
  <2>1. \A q \in Parent : t.pc[q] = "idle" => s.pc[q] = "idle"
    BY <1>1, <1>3
  <2>2. Related(s, None)
    BY <1>1 DEF Core
  <2>3. SameFamily(s, t)
    BY <2>1 DEF SameFamily
  <2> QED BY <2>2, <2>3, SameRelated
<1>7. Pooled(t, None)
  <2>1. \A v \in Sub : t.pc[v] = "idle" <=> s.pc[v] = "idle"
    BY <1>1, <1>3
  <2> QED BY <1>1, <2>1 DEF Core, Pooled, Counted, Listed, ListOf, Known, KeptIn
<1>8. Clean(t, h)
  <2>1. \A v \in s.pool.free : /\ t.timers \cap Own(v) = s.timers \cap Own(v)
                               /\ t.net[v] = s.net[v]
    BY <1>1, <1>2, <1>3 DEF Own
  <2>2. \A v \in KeptIn(s) : t.net[v] = s.net[v]
    BY <1>1, <1>2, <1>3
  <2> QED BY <1>1, <1>4, <2>1, <2>2 DEF Core, Clean, Valid, QueuedIn
<1>9. Stamped(t, h)
  BY <1>1 DEF Core, Stamped
<1>a. Blocking(t)
  <2>1. s.flags.third \subseteq Parent /\ \A c \in Conn : <<c, "sleep">> \in t.timers
                                                     <=> <<c, "sleep">> \in s.timers
    BY <1>1, TypesOf
  <2>2. \A p \in Parent : p \in Conn /\ t.pc[p] = s.pc[p]
    BY <1>1, <1>3
  <2> QED BY <1>1, <2>1, <2>2 DEF Core, Blocking
<1>b. Idle(t, None)
  BY <1>4 DEF Sound, Idle
<1> QED BY <1>1, <1>5, <1>6, <1>7, <1>8, <1>9, <1>a, <1>b DEF Sound, Core

LEMMA SubBlocksSound ==
    ASSUME Inv, NEW u \in Sub, SubBlocks(u) PROVE Sound(Now', Held', cur')
<1> DEFINE s == Now
           t == Now'
           h == Held
<1>1. Sound(s, h, u) /\ cur' = None /\ Held' = h /\ s \in State
      /\ version' = version /\ pc' = [pc EXCEPT ![u] = "wait"]
      /\ timers' = timers \cup {<<u, "main">>}
      /\ net' = [net EXCEPT ![u] = IF @ = "ready" THEN "quiet" ELSE @]
      /\ flags' = flags /\ armed' = armed /\ family' = family /\ req' = req
      /\ pool' = pool /\ delay' = delay
  <2>1. cur = u /\ Sound(s, h, cur) /\ s \in State
    BY DEF Inv, Sound, Core, SubBlocks, Running, At
  <2> QED BY <2>1 DEF SubBlocks, InSub, Held
<1>2. t \in State
  <2>1. pc' \in [Conn -> ParentPc \cup SubPc]
    BY <1>1, NowIn DEF SubPc
  <2>2. timers' \in SUBSET Timer
    BY <1>1, NowIn DEF Timer, Conn
  <2>3. net' \in [Conn -> Net]
    BY <1>1, NowIn DEF Net
  <2> QED BY <1>1, <2>1, <2>2, <2>3, NowIn, NowTyped
<1>3. /\ t.pc = [s.pc EXCEPT ![u] = "wait"] /\ t.version = s.version
      /\ t.flags = s.flags /\ t.timers = s.timers \cup {<<u, "main">>}
      /\ t.net = [s.net EXCEPT ![u] = IF @ = "ready" THEN "quiet" ELSE @]
      /\ t.armed = s.armed /\ t.family = s.family
      /\ t.req = s.req /\ t.pool = s.pool /\ t.delay = s.delay
  BY <1>1, NowFields
<1> HIDE DEF s, t, h
<1>4. Sound(t, h, None)
  BY <1>1, <1>2, <1>3, WaitingSound
<1> QED BY <1>1, <1>4 DEF t

LEMMA DoneIs ==
    ASSUME Inv, NEW u \in Sub, SubDone(u)
    PROVE  /\ Sound(Now', Held', cur') /\ Held' = Held /\ cur = u /\ cur' = None
           /\ Succeeds(Now, u, Now')
<1> DEFINE s == Now
           h == Held
           f == FinalizeRequest(s, u, s.req[u])
           x == [f EXCEPT !.net[u] = IF @ = "ready" THEN "quiet" ELSE @]
<1>1. /\ Core(s, h, u, None, None) /\ Idle(s, None) /\ s \in State
      /\ cur = u /\ cur' = None /\ Held' = h
      /\ Becomes(Keep(x, u)) \/ Becomes(Close(x, u))
  <2>1. cur = u /\ Core(s, h, cur, None, None) /\ Idle(s, None) /\ s \in State
    BY DEF Inv, Sound, Core, SubDone, Running, At
  <2>2. s.req = req
    BY NowFields
  <2> QED BY <2>1, <2>2 DEF SubDone, InSub, Held
<1> HIDE DEF s, h
<1>2. s.req[u] \in Request /\ s.pool.backend[u] # None
  <2>1. s.pc[u] # "idle"
    BY <1>1 DEF Core, Placed, Conn
  <2> QED BY <1>1, <2>1, InUse
<1>3. IsFinalize(s, u, s.req[u], f) /\ f \in State
  <2>1. IsFinalize(s, u, s.req[u], f)
    BY <1>1, <1>2, FinalizeIs
  <2> HIDE DEF f
  <2> QED BY <2>1 DEF IsFinalize
<1> HIDE DEF f
<1>4. IsRead(f, u, x) /\ x \in State
  BY <1>3, ReadIs DEF IsRead
<1>5. x.pool.backend[u] # None
  BY <1>2, <1>3, <1>4 DEF IsRead, IsFinalize
<1> HIDE DEF x
<1> SUFFICES \E t : /\ Becomes(t) /\ Core(t, h, None, None, None) /\ Idle(t, None)
                    /\ Succeeds(s, u, t)
  BY <1>1, NowIs DEF Sound, Core, s, h
<1>6. PICK t : Becomes(t) /\ (IsKeep(x, u, t) \/ IsClose(x, u, t))
  BY <1>1, <1>4, <1>5, KeepIs, CloseIs
<1>7. Core(t, h, None, None, None) /\ Idle(t, None)
  BY <1>1, <1>3, <1>4, <1>6, DoneCore
<1> QED BY <1>3, <1>4, <1>6, <1>7 DEF Succeeds

LEMMA FailsIs ==
    ASSUME Inv, NEW u \in Sub, SubFails(u)
    PROVE  /\ Sound(Now', Held', cur') /\ Held' = Held /\ cur = u /\ cur' = None
           /\ GivesUp(Now, u, Now') \/ (NeedRetry(u) /\ Retries(Now, u, Now'))
<1> DEFINE s == Now
           h == Held
           q == s.req[u]
           c == Close(s, u)
           f == FinalizeRequest(s, u, q)
<1>1. /\ Core(s, h, u, None, None) /\ Idle(s, None) /\ s \in State
      /\ cur = u /\ cur' = None /\ Held' = h
      /\ \/ NeedRetry(u) /\ \E t \in Retried(c, u, q) : Becomes(t)
         \/ Becomes(Close(f, u))
  <2>1. cur = u /\ Core(s, h, cur, None, None) /\ Idle(s, None) /\ s \in State
    BY DEF Inv, Sound, Core, SubFails, Running, At
  <2>2. s.req = req
    BY NowFields
  <2> QED BY <2>1, <2>2 DEF SubFails, InSub, Held
<1> HIDE DEF s, h
<1>2. q \in Request
  <2>1. s.pc[u] # "idle"
    BY <1>1 DEF Core, Placed, Conn
  <2> QED BY <1>1, <2>1, InUse
<1>3. IsFinalize(s, u, q, f) /\ f \in State
  <2>1. IsFinalize(s, u, q, f)
    BY <1>1, <1>2, FinalizeIs
  <2> HIDE DEF f
  <2> QED BY <2>1 DEF IsFinalize
<1>4. IsClose(s, u, c) /\ c \in State
  BY <1>1, CloseIs DEF IsClose
<1> HIDE DEF f, c
<1>5. SUFFICES \E t : /\ Becomes(t) /\ Core(t, h, None, None, None) /\ Idle(t, None)
                      /\ GivesUp(s, u, t) \/ (NeedRetry(u) /\ Retries(s, u, t))
  BY <1>1, NowIs DEF Sound, Core, s, h
<1>6. CASE Becomes(Close(f, u))
  <2> DEFINE t == Close(f, u)
  <2>1. IsClose(f, u, t) /\ Becomes(t)
    BY <1>3, <1>6, CloseIs
  <2> HIDE DEF t
  <2>2. Core(t, h, None, None, None) /\ Idle(t, None)
    BY <1>1, <1>3, <2>1, FailedCore
  <2>3. GivesUp(s, u, t)
    <3>1. IsFinalize(s, u, s.req[u], f) /\ IsClose(f, u, t)
      BY <1>3, <2>1
    <3> HIDE DEF q
    <3> QED BY <3>1 DEF GivesUp
  <2> QED BY <2>1, <2>2, <2>3
<1>7. CASE NeedRetry(u) /\ \E t \in Retried(c, u, q) : Becomes(t)
  <2>1. PICK t \in Retried(c, u, q) : Becomes(t)
    BY <1>7
  <2>2. \/ IsFinalize(c, u, q, t)
        \/ \E g \in GetConnection(c) : IsMoved(c, u, q, g, t)
    <3>1. \/ t = FinalizeRequest(c, u, q)
          \/ \E g \in GetConnection(c) : t = Moved(c, u, q, g)
      BY <2>1 DEF Retried
    <3>2. IsFinalize(c, u, q, FinalizeRequest(c, u, q))
      BY <1>2, <1>4, FinalizeIs
    <3>3. \A g \in GetConnection(c) : IsMoved(c, u, q, g, Moved(c, u, q, g))
      BY <1>2, <1>4, MovedIs
    <3> QED BY <3>1, <3>2, <3>3
  <2>3. Core(t, h, None, None, None) /\ Idle(t, None)
    BY <1>1, <1>4, <2>2, RetriedCore
  <2>4. Retries(s, u, t)
    BY <1>4, <2>2 DEF Retries
  <2> QED BY <1>7, <2>1, <2>3, <2>4
<1> QED BY <1>1, <1>6, <1>7

(* What peers do.                                                          *)
LEMMA PeerSound ==
    ASSUME NEW s, NEW h, NEW r, Sound(s, h, r), NEW c \in Conn, NEW v \in Net,
           NEW t \in State, c \notin s.pool.free,
           c \in KeptIn(s) => v = "closed" /\ s.net[c] # "closed",
           t.net = [s.net EXCEPT ![c] = v], t.armed = s.armed \cup {c},
           t.version = s.version, t.pc = s.pc, t.flags = s.flags, t.timers = s.timers,
           t.family = s.family, t.req = s.req, t.pool = s.pool, t.delay = s.delay
    PROVE  Sound(t, h, r)
<1>1. s \in State /\ Core(s, h, r, None, None)
  BY DEF Sound, Core
<1>2. /\ KeptIn(t) = KeptIn(s) /\ KeptIn(s) \subseteq Conn /\ s.pool.free \subseteq Conn
      /\ t.net[c] = v /\ \A d \in Conn \ {c} : t.net[d] = s.net[d]
  BY <1>1, TypesOf DEF KeptIn, ListOf
<1>3. Pooled(t, None)
  BY <1>1 DEF Core, Pooled, Counted, Listed, ListOf, Known, KeptIn
<1>4. Placed(t, r) /\ Related(t, None) /\ Stamped(t, h) /\ Blocking(t)
  BY <1>1, SameRelated, SameBlocking DEF Core, Placed, Stamped, SameFamily
<1>5. Clean(t, h)
  BY <1>1, <1>2 DEF Core, Clean, Valid, QueuedIn
<1>6. Idle(t, None)
  BY <1>2 DEF Sound, Idle
<1> QED BY <1>1, <1>3, <1>4, <1>5, <1>6 DEF Sound, Core

LEMMA WorldSound ==
    ASSUME Inv, World PROVE Sound(Now', Held', cur')
<1> DEFINE s == Now
           t == Now'
           h == Held
           r == cur
<1>1. Sound(s, h, r) /\ Core(s, h, r, None, None) /\ s \in State
  BY DEF Inv, Sound, Core
<1>2. PICK c \in Conn, v \in Net :
        /\ net' = [net EXCEPT ![c] = v] /\ armed' = armed \cup {c}
        /\ Outside /\ resumes' = resumes /\ tokens' = tokens
        /\ \/ c \in Parent
           \/ c \in Sub /\ pc[c] = "wait"
           \/ \E b \in Backend : c \in Range(pool.reuse[b]) /\ v = "closed" /\ net[c] # "closed"
  BY DEF World, RequestArrives, PeerAnswers, PeerCloses, Open, Conn, Net
<1>3. /\ version' = version /\ pc' = pc /\ flags' = flags /\ timers' = timers
      /\ family' = family /\ req' = req /\ pool' = pool /\ delay' = delay
      /\ Held' = h /\ cur' = r
  BY <1>2 DEF Outside, Held
<1>4. t \in State
  <2>1. net' \in [Conn -> Net] /\ armed' \in SUBSET Conn
    BY <1>1, <1>2, NowIn
  <2> QED BY <1>1, <1>3, <2>1, NowIn, NowTyped
<1>5. /\ t.net = [s.net EXCEPT ![c] = v] /\ t.armed = s.armed \cup {c}
      /\ t.version = s.version /\ t.pc = s.pc /\ t.flags = s.flags /\ t.timers = s.timers
      /\ t.family = s.family /\ t.req = s.req /\ t.pool = s.pool /\ t.delay = s.delay
      /\ \/ c \in Parent
         \/ c \in Sub /\ s.pc[c] = "wait"
         \/ c \in KeptIn(s) /\ v = "closed" /\ s.net[c] # "closed"
  BY <1>2, <1>3, NowFields DEF KeptIn, ListOf
<1> HIDE DEF s, t, h, r
<1>6. c \notin s.pool.free /\ (c \in KeptIn(s) => v = "closed" /\ s.net[c] # "closed")
  <2>1. s.pool.free \subseteq Sub /\ KeptIn(s) \subseteq Sub /\ Sub \cap Parent = {}
    BY <1>1, TypesOf DEF KeptIn
  <2>2. CASE c \in Parent
    BY <2>1, <2>2
  <2>3. CASE c \in Sub /\ s.pc[c] = "wait"
    BY <1>1, <2>3, InUse
  <2>4. CASE c \in KeptIn(s) /\ v = "closed" /\ s.net[c] # "closed"
    BY <1>1, <2>4, UpstreamAssumption DEF Core, Pooled, Listed, KeptIn
  <2> QED BY <1>5, <2>2, <2>3, <2>4
<1>7. Sound(t, h, r)
  BY <1>1, <1>4, <1>5, <1>6, PeerSound
<1> QED BY <1>3, <1>7 DEF t

(* A wake-up that is on its way is still held, and steps of the loop that  *)
(* run nothing change nothing of the connections.                          *)
LEMMA SameSound ==
    ASSUME Inv, UNCHANGED <<cur, version, pc, flags, timers, net, armed, family, req, pool, delay>>,
           batch' \cup tokens' \cup resumes' = batch \cup tokens \cup resumes
    PROVE  Sound(Now', Held', cur')
<1>1. Now' = Now /\ Held' = Held /\ cur' = cur
  BY DEF Now, Held
<1> QED BY <1>1 DEF Inv

LEMMA IdleStepSound ==
    ASSUME Inv,
           \/ EventsDone \/ DelayDone \/ LookAtTimers \/ TimersDone \/ LoopAgain \/ LoopEnd
           \/ Resumer \/ UNCHANGED vars
    PROVE  Sound(Now', Held', cur')
<1>1. CASE \/ EventsDone \/ DelayDone \/ LookAtTimers \/ TimersDone \/ LoopAgain \/ LoopEnd
           \/ UNCHANGED vars
  <2>1. UNCHANGED <<cur, version, pc, flags, timers, net, armed, family, req, pool, delay,
                    batch, tokens, resumes>>
    BY <1>1 DEF EventsDone, DelayDone, LookAtTimers, TimersDone, LoopAgain, LoopEnd,
                NextPhase, LoopOnly, queues, conns, vars
  <2> QED BY <2>1, SameSound
<1>2. CASE Resumer
  <2>1. PICK m \in tokens : ResumeAsync(m)
    BY <1>2 DEF Resumer
  <2>2. UNCHANGED <<cur, version, pc, flags, timers, net, armed, family, req, pool, delay, batch>>
        /\ tokens' = tokens \ {m} /\ resumes' = resumes \cup {m}
    BY <2>1 DEF ResumeAsync, Outside
  <2>3. batch' \cup tokens' \cup resumes' = batch \cup tokens \cup resumes
    BY <2>2
  <2> QED BY <2>2, <2>3, SameSound
<1> QED BY <1>1, <1>2

(* The variables of the loop.                                              *)
LEMMA DispatchCur ==
    ASSUME NEW s, NEW c, Dispatch(s, c) PROVE cur' = cur \/ cur' = c
BY DEF Dispatch

LEMMA ResumeCur ==
    ASSUME NEW s, NEW e, ResumeProcess(s, e)
    PROVE  \/ cur' = cur /\ needContinue' = needContinue
           \/ /\ cur' = cur \/ cur' = e[1]
              /\ needContinue' = (needContinue \/ FirstWorker)
<1>1. CASE e # Entry(e[1])
  BY <1>1 DEF ResumeProcess
<1>2. CASE e = Entry(e[1])
  BY <1>2, DispatchCur DEF ResumeProcess
<1> QED BY <1>1, <1>2

LEMMA LoopLoops == ASSUME Inv, Loop \/ Timers PROVE Loops'
<1>1. Loops /\ version \in [Conn -> Nat] /\ delay \in Seq(Conn \X Nat)
      /\ armed \in SUBSET Conn /\ timers \in SUBSET Timer
  <2>1. Now \in State
    BY DEF Inv, Sound, Core
  <2> QED BY <2>1, NowIn DEF Inv
<1> USE DEF Loops
<1>2. CASE EpollWait
  <2>1. batch' \subseteq Conn \X Nat
    BY <1>1, <1>2 DEF EpollWait, Entry
  <2> QED BY <1>1, <1>2, <2>1 DEF EpollWait
<1>3. ASSUME NEW e \in batch, TakeEvent(e) PROVE Loops'
  <2>1. cur' = cur \/ cur' = e[1]
    BY <1>3, DispatchCur DEF TakeEvent
  <2>2. UNCHANGED <<phase, needContinue, tokens, resumes, ops, requests>>
        /\ batch' \subseteq batch /\ e[1] \in Conn
    BY <1>1, <1>3 DEF TakeEvent, loop
  <2> QED BY <1>1, <2>1, <2>2
<1>4. CASE TakeDelay
  <2>1. ResumeProcess([Now EXCEPT !.delay = Tail(@)], Head(delay)) /\ Head(delay)[1] \in Conn
    BY <1>1, <1>4 DEF TakeDelay
  <2>2. \/ cur' = cur /\ needContinue' = needContinue
        \/ /\ cur' = cur \/ cur' = Head(delay)[1]
           /\ needContinue' = (needContinue \/ FirstWorker)
    BY <2>1, ResumeCur
  <2>3. UNCHANGED <<phase, batch, tokens, resumes, ops, requests>>
    BY <1>4 DEF TakeDelay
  <2> QED BY <1>1, <2>1, <2>2, <2>3, UpstreamAssumption
<1>5. ASSUME NEW e \in resumes, TakeResume(e) PROVE Loops'
  <2>1. ResumeProcess(Now, e) /\ e[1] \in Conn
    BY <1>1, <1>5 DEF TakeResume, Conn
  <2>2. \/ cur' = cur /\ needContinue' = needContinue
        \/ /\ cur' = cur \/ cur' = e[1]
           /\ needContinue' = (needContinue \/ FirstWorker)
    BY <2>1, ResumeCur
  <2>3. UNCHANGED <<phase, batch, tokens, ops, requests>> /\ resumes' \subseteq resumes
    BY <1>5 DEF TakeResume
  <2> QED BY <1>1, <2>1, <2>2, <2>3, UpstreamAssumption
<1>6. CASE EventsDone \/ DelayDone \/ LookAtTimers \/ TimersDone \/ LoopAgain \/ LoopEnd
  BY <1>1, <1>6 DEF EventsDone, DelayDone, LookAtTimers, TimersDone, LoopAgain, LoopEnd,
                    NextPhase, LoopOnly, queues
<1>7. ASSUME NEW m \in timers, ProcessTimer(m) PROVE Loops'
  <2>1. m[1] \in Conn
    BY <1>1 DEF Timer
  <2>2. cur' = cur \/ cur' = m[1]
    BY <1>7, DispatchCur DEF ProcessTimer
  <2>3. UNCHANGED <<phase, needContinue, batch, tokens, resumes, ops, requests>>
    BY <1>7 DEF ProcessTimer, loop
  <2> QED BY <1>1, <2>1, <2>2, <2>3
<1> QED BY <1>2, <1>3, <1>4, <1>5, <1>6, <1>7 DEF Loop, Timers

LEMMA OtherLoops == ASSUME Inv, Handler \/ Resumer \/ World \/ UNCHANGED vars PROVE Loops'
<1>1. Loops /\ version \in [Conn -> Nat]
  <2>1. Now \in State
    BY DEF Inv, Sound, Core
  <2> QED BY <2>1, NowIn DEF Inv
<1> USE DEF Loops
<1>2. ASSUME NEW p \in Parent,
             \/ AddUpstream(p) \/ AddUpstreamDetach(p) \/ RunUpstreams(p)
             \/ UserSleep(p) \/ UserYield(p) \/ UserReturn(p)
      PROVE  Loops'
  <2>1. UNCHANGED <<phase, needContinue, batch, resumes, requests>>
    BY <1>2 DEF AddUpstream, AddUpstreamDetach, RunUpstreams, UserSleep, UserYield,
                UserReturn, InHandler, loop
  <2>2. cur' = cur \/ cur' = None
    BY <1>2 DEF AddUpstream, AddUpstreamDetach, RunUpstreams, UserSleep, UserYield,
                UserReturn, Blocks
  <2>3. ops' = ops \/ (ops[p] > 0 /\ ops' = [ops EXCEPT ![p] = @ - 1])
    BY <1>2 DEF AddUpstream, AddUpstreamDetach, RunUpstreams, UserSleep, UserYield,
                UserReturn, Blocks, Calls
  <2>4. tokens' = tokens \/ tokens' = tokens \cup {<<p, version[p]>>}
    BY <1>2 DEF AddUpstream, AddUpstreamDetach, RunUpstreams, UserSleep, UserYield,
                UserReturn, Entry
  <2>5. tokens' \subseteq Parent \X Nat
    BY <1>1, <2>4 DEF Conn
  <2>6. ops' \in [Parent -> Nat]
    BY <1>1, <2>3
  <2> QED BY <1>1, <2>1, <2>2, <2>5, <2>6
<1>3. ASSUME NEW u \in Sub, SubBlocks(u) \/ SubDone(u) \/ SubFails(u) PROVE Loops'
  BY <1>1, <1>3 DEF SubBlocks, SubDone, SubFails, InSub, loop
<1>4. CASE Resumer
  BY <1>1, <1>4 DEF Resumer, ResumeAsync, Outside, loop
<1>5. CASE World
  <2>1. UNCHANGED <<phase, needContinue, cur, batch, resumes, tokens, ops>>
    BY <1>5 DEF World, RequestArrives, PeerAnswers, PeerCloses, Outside, loop
  <2>2. requests' = requests \/ (requests > 0 /\ requests' = requests - 1)
    BY <1>5 DEF World, RequestArrives, PeerAnswers, PeerCloses
  <2> QED BY <1>1, <2>1, <2>2
<1>6. CASE UNCHANGED vars
  BY <1>1, <1>6 DEF vars
<1> QED BY <1>2, <1>3, <1>4, <1>5, <1>6 DEF Handler

(* The connections before the first step.                                  *)
LEMMA InitInv == Init => Inv
<1> SUFFICES ASSUME Init PROVE Inv
  OBVIOUS
<1>1. Loops
  BY UpstreamAssumption DEF Init, Loops
<1> DEFINE s == Now
           h == Held
<1>2. /\ s.version = [c \in Conn |-> 0] /\ s.pc = [c \in Conn |-> "idle"]
      /\ s.flags = [dying |-> {}, parentDying |-> {}, third |-> {}] /\ s.timers = {}
      /\ s.net = [c \in Conn |-> "quiet"] /\ s.armed = {}
      /\ s.family = [p \in Parent |-> NoFamily] /\ s.req = [u \in Sub |-> None]
      /\ s.pool = [free |-> Sub, reuse |-> [b \in Backend |-> << >>], size |-> 0,
                   backend |-> [u \in Sub |-> None]]
      /\ s.delay = << >> /\ h = {} /\ cur = None
  BY NowFields DEF Init, Held
<1>3. s \in State
  <2>1. << >> \in Seq(Sub) /\ << >> \in Seq(Conn \X Nat) /\ NoFamily \in Family
    BY DEF NoFamily, Family
  <2> HIDE DEF Family
  <2>2. /\ version \in [Conn -> Nat] /\ pc \in [Conn -> ParentPc \cup SubPc]
        /\ flags \in Flags /\ timers \in SUBSET Timer /\ net \in [Conn -> Net]
        /\ armed \in SUBSET Conn
    BY DEF Init, ParentPc, Net, Flags
  <2>3. /\ family \in [Parent -> Family]
        /\ req \in [Sub -> Request \cup {None}] /\ pool \in Pool
        /\ delay \in Seq(Conn \X Nat)
    BY <2>1 DEF Init, Pool
  <2> QED BY <2>2, <2>3 DEF Now, State
<1> HIDE DEF s, h
<1>4. Range(s.delay) = {} /\ KeptIn(s) = {} /\ \A b \in Backend : ListOf(s, b) = {}
  BY <1>2 DEF Range, KeptIn, ListOf
<1>5. Placed(s, None)
  BY <1>2, UpstreamAssumption DEF Placed, ParentPc, SubPc, Conn
<1>6. Related(s, None)
  <2>1. \A p \in Parent : s.family[p].subs = {} /\ s.family[p].count = 1
    BY <1>2 DEF NoFamily
  <2>2. Cardinality({}) = 0
    BY FS_EmptySet
  <2>3. \A u \in Sub : s.req[u] = None
    BY <1>2
  <2>4. ASSUME NEW p \in Parent PROVE ChildrenOf(s, p, None)
    <3>1. s.family[p].subs = {} /\ s.family[p].count = 1
      BY <2>1
    <3>2. s.family[p].count = 1 + Cardinality(s.family[p].subs)
      BY <2>2, <3>1
    <3> QED BY <3>1, <3>2 DEF ChildrenOf
  <2>5. ASSUME NEW u \in Sub PROVE ParentOf(s, u)
    BY <2>3 DEF ParentOf
  <2> QED BY <2>4, <2>5 DEF Related
<1>7. Pooled(s, None)
  <2>1. Counted(s)
    <3>1. Sub \ s.pool.free = {} /\ s.pool.size = 0
      BY <1>2
    <3>2. Cardinality({}) = 0
      BY FS_EmptySet
    <3> QED BY <3>1, <3>2, UpstreamAssumption DEF Counted
  <2>2. \A b \in Backend : Listed(s, None, b)
    BY <1>2, <1>4 DEF Listed, Single
  <2>3. \A u \in Sub : Known(s, None, u)
    BY <1>2, UpstreamAssumption DEF Known, Conn
  <2> QED BY <2>1, <2>2, <2>3 DEF Pooled
<1>8. Clean(s, h)
  BY <1>2, <1>4 DEF Clean, QueuedIn, Conn
<1>9. Stamped(s, h) /\ Blocking(s) /\ Idle(s, None)
  BY <1>2, <1>4 DEF Stamped, Blocking, Idle
<1> QED BY <1>1, <1>2, <1>3, <1>5, <1>6, <1>7, <1>8, <1>9 DEF Inv, Sound, Core, s, h

LEMMA InvStep == Inv /\ [Next]_vars => Inv'
<1> SUFFICES ASSUME Inv, [Next]_vars PROVE Inv'
  OBVIOUS
<1>1. Loops'
  BY LoopLoops, OtherLoops DEF Next
<1>2. Sound(Now', Held', cur')
  <2>1. CASE Loop \/ Timers
    BY <2>1, EpollSound, EventSound, DelayIs, WakeIs, TimerIs, IdleStepSound
    DEF Loop, Timers
  <2>2. CASE Handler
    BY <2>2, AddIs, DetachIs, RunSound, SleepSound, YieldSound, ReturnIs,
       SubBlocksSound, DoneIs, FailsIs DEF Handler
  <2>3. CASE Resumer \/ UNCHANGED vars
    BY <2>3, IdleStepSound
  <2>4. CASE World
    BY <2>4, WorldSound
  <2> QED BY <2>1, <2>2, <2>3, <2>4 DEF Next
<1> QED BY <1>1, <1>2 DEF Inv

LEMMA InvHolds == Spec => []Inv
BY InitInv, InvStep, PTL DEF Spec

-----------------------------------------------------------------------------
(* The theorems.                                                           *)
LEMMA SingleLen ==
    ASSUME NEW S, NEW q \in Seq(S), Single(q)
    PROVE  Len(q) = Cardinality(Range(q))
<1>1. q \in [1 .. Len(q) -> Range(q)] /\ Len(q) \in Nat /\ DOMAIN q = 1 .. Len(q)
  BY DEF Range
<1>2. q \in Bijection(1 .. Len(q), Range(q))
  BY <1>1 DEF Single, Range, Bijection, Injection, Surjection, IsInjective
<1>3. ExistsBijection(1 .. Len(q), Range(q))
  BY <1>2 DEF ExistsBijection
<1> QED BY <1>1, <1>3, FS_CountingElements

LEMMA InvNow == ASSUME Inv PROVE Core(Now, Held, cur, None, None) /\ Idle(Now, None) /\ Now \in State
BY DEF Inv, Sound, Core

(* The variables keep their types: the coroutine of a parent stands in its *)
(* handler and that of a sub-request in CoCallbackUpstream, m_timers holds *)
(* timers of connections, and only parents sleep or yield.                 *)
THEOREM UpstreamTyped == Spec => []TypeOK
<1>1. Inv => TypeOK
  <2> SUFFICES ASSUME Inv PROVE TypeOK
    OBVIOUS
  <2>1. /\ Loops /\ Placed(Now, cur) /\ Now \in State
    BY InvNow DEF Core, Inv
  <2>2. /\ \A p \in Parent : pc[p] \in ParentPc
        /\ \A u \in Sub : pc[u] \in SubPc
    BY <2>1, NowFields DEF Placed
  <2>3. /\ version \in [Conn -> Nat]
        /\ flags \in Flags /\ timers \in SUBSET Timer /\ net \in [Conn -> Net]
        /\ armed \in SUBSET Conn /\ family \in [Parent -> Family]
        /\ req \in [Sub -> Request \cup {None}] /\ pool \in Pool
        /\ delay \in Seq(Conn \X Nat)
    BY <2>1, NowIn
  <2> QED BY <2>1, <2>2, <2>3 DEF TypeOK, Loops, ParentPc, SubPc, Flags, Timer, Net, Family, Pool
<1> QED BY <1>1, InvHolds, PTL

(* Whatever order wake-ups, timeouts, closed connections and retries come  *)
(* in, upstream_finalize_request finds through m_parent the request that   *)
(* added the sub-request, and m_count is what is left of it.               *)
THEOREM ParentsOutliveSubs == Spec => []ParentOutlivesSubs
<1>1. Inv => ParentOutlivesSubs
  <2> SUFFICES ASSUME Inv PROVE ParentOutlivesSubs
    OBVIOUS
  <2>1. Related(Now, None) /\ None \notin Sub
    BY InvNow, UpstreamAssumption DEF Core
  <2>2. ASSUME NEW u \in Sub, req[u] # None, req[u].parent # None
        PROVE  version[req[u].parent] = req[u].pver /\ u \in family[req[u].parent].subs
    BY <2>1, <2>2, NowFields DEF Related, ParentOf
  <2>3. ASSUME NEW p \in Parent
        PROVE  /\ family[p].count = 1 + Cardinality(family[p].subs)
               /\ \A u \in family[p].subs : u \in Busy /\ req[u].parent = p
               /\ pc[p] = "idle" => family[p].subs = {}
    <3>1. ChildrenOf(Now, p, None) /\ family[p].subs \subseteq Sub
      BY <2>1, InvNow, TypesOf, NowFields DEF Related
    <3> QED BY <2>1, <3>1, NowFields DEF ChildrenOf, Busy
  <2> QED BY <2>2, <2>3 DEF ParentOutlivesSubs, Busy
<1> QED BY <1>1, InvHolds, PTL

(* However connections are given out, kept, closed by a server or timed    *)
(* out, m_curConnectionSize counts those that are not free, no connection  *)
(* is in two places or in none, and a kept one still has its timer.        *)
THEOREM ConnectionsAreCounted == Spec => []ConnectionsCounted
<1>1. Inv => ConnectionsCounted
  <2> SUFFICES ASSUME Inv PROVE ConnectionsCounted
    OBVIOUS
  <2>1. /\ Pooled(Now, None) /\ Idle(Now, None) /\ None \notin Sub
        /\ Now.pool = pool /\ Now.req = req /\ Now.pc = pc /\ Now.flags = flags
        /\ Now.timers = timers
    BY InvNow, UpstreamAssumption, NowFields DEF Core
  <2>2. Kept = KeptIn(Now) /\ Kept \subseteq Sub /\ pool.free \subseteq Sub
    BY <2>1, InvNow, TypesOf DEF Kept, KeptIn, ListOf
  <2>3. pool.size = Cardinality(Sub \ pool.free) /\ pool.size <= MaxConnections
    BY <2>1 DEF Pooled, Counted
  <2>4. \A u \in Kept : u \notin pool.free /\ req[u] = None
    BY <2>1, <2>2 DEF Pooled, Listed, KeptIn
  <2>5. \A u \in Sub : /\ u \in pool.free => req[u] = None
                       /\ u \in pool.free \cup Kept \/ req[u] # None
                       /\ req[u] # None <=> pc[u] # "idle"
    BY <2>1, <2>2 DEF Pooled, Known
  <2>6. \A u \in Sub : /\ req[u] = None => u \notin flags.dying
                       /\ u \in Kept => <<u, "main">> \in timers
    BY <2>1, <2>2 DEF Idle
  <2>7. ASSUME NEW b \in Backend
        PROVE  /\ Len(pool.reuse[b]) = Cardinality(Range(pool.reuse[b]))
               /\ \A u \in Range(pool.reuse[b]) :
                     pool.backend[u] = b /\ <<u, "main">> \in timers
    <3>1. Listed(Now, None, b) /\ pool.reuse[b] \in Seq(Sub)
      BY <2>1, InvNow, TypesOf DEF Pooled
    <3>2. Len(pool.reuse[b]) = Cardinality(Range(pool.reuse[b]))
      BY <2>1, <3>1, SingleLen DEF Listed
    <3>3. \A u \in Range(pool.reuse[b]) : u \in Kept /\ pool.backend[u] = b
      BY <2>1, <3>1 DEF Listed, ListOf, Kept
    <3> QED BY <2>2, <2>6, <3>2, <3>3
  <2>8. pool.free \cap (Busy \cup Kept) = {} /\ Busy \cap Kept = {}
        /\ Sub = pool.free \cup Busy \cup Kept
    BY <2>2, <2>4, <2>5 DEF Busy
  <2>9. \A u \in Sub \ Busy : pc[u] = "idle" /\ u \notin flags.dying
    BY <2>5, <2>6 DEF Busy
  <2> QED BY <2>3, <2>7, <2>8, <2>9 DEF ConnectionsCounted
<1> QED BY <1>1, InvHolds, PTL

(* What has to be done before epoll is waited for.                         *)
Drained ==
    /\ phase = "wait" => delay = << >> /\ cur = None
    /\ phase = "resume" /\ (delay # << >> \/ cur # None) => needContinue

(* On the worker that ran the loop first, whose flag is the one that       *)
(* funcResumeProcess sets, no entry is left in m_delayConnections when     *)
(* process_events_and_timers gets to epoll.                                *)
THEOREM QueuesAreDrained ==
    ASSUME FirstWorker PROVE Spec => []QueuesDrained
<1>1. Init => Drained
  BY DEF Init, Drained
<1>2. ASSUME Inv, Drained, [Next]_vars PROVE Drained'
  <2> USE <1>2 DEF Drained
  <2>1. ASSUME NEW p \in Parent,
               \/ AddUpstream(p) \/ AddUpstreamDetach(p) \/ RunUpstreams(p)
               \/ UserSleep(p) \/ UserYield(p) \/ UserReturn(p)
        PROVE  Drained'
    <3>1. cur = p /\ phase' = phase /\ needContinue' = needContinue
      BY <2>1 DEF AddUpstream, AddUpstreamDetach, RunUpstreams, UserSleep, UserYield,
                  UserReturn, Blocks, Calls, At, InHandler, loop
    <3> QED BY <3>1, UpstreamAssumption
  <2>2. ASSUME NEW u \in Sub, SubBlocks(u) \/ SubDone(u) \/ SubFails(u) PROVE Drained'
    <3>1. cur = u /\ phase' = phase /\ needContinue' = needContinue
      BY <2>2 DEF SubBlocks, SubDone, SubFails, Running, At, InSub, loop
    <3> QED BY <3>1, UpstreamAssumption
  <2>3. CASE EpollWait \/ TakeDelay \/ Timers \/ \E e \in batch : TakeEvent(e)
    BY <2>3 DEF EpollWait, TakeDelay, Timers, ProcessTimer, TakeEvent, loop
  <2>4. ASSUME NEW e \in resumes, TakeResume(e) PROVE Drained'
    <3>1. phase = "resume" /\ phase' = phase /\ ResumeProcess(Now, e) /\ cur = None
      BY <2>4 DEF TakeResume, WorkerFree
    <3>2. CASE e # Entry(e[1])
      BY <3>1, <3>2, NowFields DEF ResumeProcess, Becomes
    <3>3. CASE e = Entry(e[1])
      BY <3>1, <3>3 DEF ResumeProcess
    <3> QED BY <3>2, <3>3
  <2>5. CASE EventsDone \/ DelayDone \/ LookAtTimers \/ TimersDone \/ LoopAgain \/ LoopEnd
    BY <2>5 DEF EventsDone, DelayDone, LookAtTimers, TimersDone, LoopAgain, LoopEnd,
                GoesRound, NextPhase, WorkerFree, LoopOnly, queues
  <2>6. CASE Resumer \/ World \/ UNCHANGED vars
    BY <2>6 DEF Resumer, ResumeAsync, World, RequestArrives, PeerAnswers, PeerCloses,
                Outside, loop, vars
  <2> QED BY <2>1, <2>2, <2>3, <2>4, <2>5, <2>6 DEF Next, Loop, Handler
<1>3. Drained => QueuesDrained
  BY DEF Drained, QueuesDrained
<1> QED BY <1>1, <1>2, <1>3, InvHolds, PTL DEF Spec

-----------------------------------------------------------------------------
(* The steps once more, by what they do to a connection that they are not  *)
(* about.                                                                  *)
Keeps(s, t, c) ==
    /\ t.version[c] = s.version[c] /\ t.pc[c] = s.pc[c] /\ t.net[c] = s.net[c]
    /\ c \in t.armed <=> c \in s.armed
    /\ \A w \in {"main", "sleep"} : <<c, w>> \in t.timers <=> <<c, w>> \in s.timers
    /\ c \in t.flags.dying <=> c \in s.flags.dying
    /\ c \in t.flags.third <=> c \in s.flags.third
    /\ c \in t.flags.parentDying <=> c \in s.flags.parentDying

SameFamilies(s, t) == \A q \in Parent : t.family[q].subs = s.family[q].subs

(* Sub-request of p (None if detached) on a connection k that was idle.    *)
Starts(s, p, k, t) ==
    /\ k \in Sub /\ s.req[k] = None /\ s.pc[k] = "idle"
    /\ \A c \in Conn \ {k} : Keeps(s, t, c)
    /\ t.pc[k] = "ready" /\ t.delay = Append(s.delay, Valid(t, k))
    /\ t.req[k] # None /\ t.req[k].tries = 0 /\ \A v \in Sub \ {k} : t.req[v] = s.req[v]
    /\ \A q \in Parent : t.family[q].subs = IF q = p THEN s.family[q].subs \cup {k}
                                            ELSE s.family[q].subs

(* Connection k was idle and is so again.                                  *)
Rebounds(s, k, t) ==
    /\ k \in Sub /\ t.pc[k] = "idle" /\ t.delay = s.delay
    /\ \A c \in Conn \ {k} : Keeps(s, t, c)
    /\ t.req[k] = None /\ \A v \in Sub \ {k} : t.req[v] = s.req[v]
    /\ SameFamilies(s, t)

(* The sub-request on u ends.                                              *)
Ends(s, u, t) ==
    LET p == s.req[u].parent IN
    /\ t.pc[u] = "idle" /\ t.req[u] = None
    /\ \A c \in Conn \ {u} : Keeps(s, t, c)
    /\ \A v \in Sub \ {u} : t.req[v] = s.req[v]
    /\ p = None => t.delay = s.delay /\ SameFamilies(s, t)
    /\ p # None =>
          /\ p \in Parent /\ u \in s.family[p].subs
          /\ \A q \in Parent : t.family[q].subs = IF q = p THEN s.family[q].subs \ {u}
                                                  ELSE s.family[q].subs
          /\ t.delay = IF t.family[p].subs = {} THEN Append(s.delay, Valid(s, p)) ELSE s.delay

(* ... or moves to k, which may be the same connection once more.          *)
Moves(s, u, k, t) ==
    LET p == s.req[u].parent IN
    /\ k \in Sub /\ t.pc[k] = "ready" /\ t.delay = Append(s.delay, Valid(t, k))
    /\ k # u => t.pc[u] = "idle" /\ t.req[u] = None /\ s.req[k] = None
    /\ \A c \in Conn \ {u, k} : Keeps(s, t, c)
    /\ \A v \in Sub \ {u, k} : t.req[v] = s.req[v]
    /\ t.req[k].parent = p
    /\ p = None => SameFamilies(s, t)
    /\ p # None =>
          /\ p \in Parent /\ u \in s.family[p].subs
          /\ \A q \in Parent : t.family[q].subs = IF q = p THEN (s.family[q].subs \ {u}) \cup {k}
                                                  ELSE s.family[q].subs

LEMMA KeepsTrans ==
    ASSUME NEW s, NEW w, NEW t, NEW c, Keeps(s, w, c), Keeps(w, t, c) PROVE Keeps(s, t, c)
BY DEF Keeps

LEMMA CloseKeeps ==
    ASSUME NEW s \in State, NEW u \in Sub, NEW t, IsClose(s, u, t), NEW c \in Conn \ {u}
    PROVE  Keeps(s, t, c)
<1>1. t.flags = CleanFlags(s.flags, u) /\ t.timers = s.timers \ Own(u)
      /\ t.armed = s.armed \ {u}
  BY DEF IsClose
<1>2. t.version[c] = s.version[c] /\ t.pc[c] = s.pc[c] /\ t.net[c] = s.net[c]
  BY TypesOf DEF IsClose
<1>3. \A w \in {"main", "sleep"} : <<c, w>> \notin Own(u)
  BY DEF Own
<1> QED BY <1>1, <1>2, <1>3 DEF Keeps, CleanFlags

LEMMA KeepKeeps ==
    ASSUME NEW s \in State, NEW u \in Sub, NEW t, IsKeep(s, u, t), NEW c \in Conn \ {u}
    PROVE  Keeps(s, t, c)
<1>1. t.flags = CleanFlags(s.flags, u) /\ t.timers = (s.timers \ Own(u)) \cup {<<u, "main">>}
      /\ t.armed = IF s.net[u] = "closed" THEN s.armed \cup {u} ELSE s.armed
  BY DEF IsKeep
<1>2. t.version[c] = s.version[c] /\ t.pc[c] = s.pc[c] /\ t.net[c] = s.net[c]
  BY KeepPasses DEF Passed
<1>3. \A w \in {"main", "sleep"} : <<c, w>> \notin Own(u) /\ <<c, w>> # <<u, "main">>
  BY DEF Own
<1> QED BY <1>1, <1>2, <1>3 DEF Keeps, CleanFlags

LEMMA FreeIdleKeeps ==
    ASSUME NEW s \in State, NEW u \in Sub, NEW t, IsFreeIdle(s, u, t), NEW c \in Conn \ {u}
    PROVE  Keeps(s, t, c)
<1>1. t.flags = CleanFlags(s.flags, u) /\ t.timers = s.timers \ Own(u)
      /\ t.armed = s.armed \ {u}
  BY DEF IsFreeIdle
<1>2. t.version[c] = s.version[c] /\ t.pc[c] = s.pc[c] /\ t.net[c] = s.net[c]
  BY FreeIdlePasses DEF Passed
<1>3. \A w \in {"main", "sleep"} : <<c, w>> \notin Own(u)
  BY DEF Own
<1> QED BY <1>1, <1>2, <1>3 DEF Keeps, CleanFlags

LEMMA EnteredKeeps ==
    ASSUME NEW s \in State, NEW u \in Conn, NEW t, IsEntered(s, u, t), NEW c \in Conn \ {u}
    PROVE  Keeps(s, t, c)
<1>1. t.pc[c] = s.pc[c]
  BY TypesOf DEF IsEntered
<1>2. \A w \in {"main", "sleep"} : <<c, w>> \in t.timers <=> <<c, w>> \in s.timers
  BY DEF IsEntered
<1> QED BY <1>1, <1>2 DEF Keeps, IsEntered

LEMMA ClosedKeeps ==
    ASSUME NEW s \in State, NEW u \in Parent, NEW t, IsClosed(s, u, t), NEW c \in Conn \ {u}
    PROVE  Keeps(s, t, c)
<1>1. t.version[c] = s.version[c] /\ t.pc[c] = s.pc[c] /\ t.net[c] = s.net[c]
  BY TypesOf DEF IsClosed
<1> QED BY <1>1 DEF Keeps, IsClosed, CleanFlags

LEMMA ReturnedKeeps ==
    ASSUME NEW s \in State, NEW u \in Parent, NEW t, IsReturned(s, u, t), NEW c \in Conn \ {u}
    PROVE  Keeps(s, t, c)
<1>1. t.flags = CleanFlags(s.flags, u) /\ t.timers = s.timers \ Own(u)
      /\ t.armed = s.armed \ {u}
  BY DEF IsReturned
<1>2. t.version[c] = s.version[c] /\ t.pc[c] = s.pc[c] /\ t.net[c] = s.net[c]
  BY TypesOf DEF IsReturned
<1>3. \A w \in {"main", "sleep"} : <<c, w>> \notin Own(u)
  BY DEF Own
<1> QED BY <1>1, <1>2, <1>3 DEF Keeps, CleanFlags

LEMMA GivenKeeps ==
    ASSUME NEW s, NEW k, NEW w, IsGiven(s, k, w), NEW c PROVE Keeps(s, w, c)
BY DEF IsGiven, Keeps

LEMMA BreaksIs ==
    ASSUME NEW s, NEW h, NEW r, Core(s, h, r, None, None), NEW t, Breaks(s, t)
    PROVE  \E k \in Sub : Rebounds(s, k, t)
<1>1. PICK k, w : IsGiven(s, k, w) /\ IsClose(w, k, t)
  BY DEF Breaks
<1>2. w \in State /\ k \in Sub /\ w.family = s.family /\ w.req = s.req /\ w.delay = s.delay
  BY <1>1 DEF IsGiven
<1>3. \A c \in Conn \ {k} : Keeps(s, t, c)
  BY <1>1, <1>2, CloseKeeps, GivenKeeps, KeepsTrans
<1>4. t.pc[k] = "idle" /\ t.req[k] = None /\ \A v \in Sub \ {k} : t.req[v] = w.req[v]
  BY <1>1, <1>2, TypesOf DEF IsClose, Conn
<1> QED BY <1>1, <1>2, <1>3, <1>4 DEF IsClose, Rebounds, SameFamilies

LEMMA ForksIs ==
    ASSUME NEW s, NEW h, NEW r, Core(s, h, r, None, None), NEW p \in Parent, NEW t, Forks(s, p, t)
    PROVE  \E k \in Sub : Starts(s, p, k, t)
<1> DEFINE m == [parent |-> p, pver |-> s.version[p], tries |-> 0]
<1>1. PICK k, w, a : IsGiven(s, k, w) /\ IsAdded(w, p, k, a) /\ IsAssign(a, k, m, t)
  BY DEF Forks
<1>2. /\ w \in State /\ k \in Sub /\ w.family = s.family /\ w.req = s.req /\ w.delay = s.delay
      /\ w.pc = s.pc
  BY <1>1 DEF IsGiven
<1>3. m.tries = 0 /\ m # None
  <2>1. m \in Request
    BY TypesOf DEF Core, Request, Conn
  <2> QED BY <2>1, UpstreamAssumption
<1> HIDE DEF m
<1>4. s.req[k] = None /\ s.pc[k] = "idle"
  <2>1. Loose(w, k)
    BY <1>1, GivenCore
  <2> QED BY <1>2, <2>1 DEF Loose
<1>5. /\ a \in State /\ a.pc = s.pc /\ a.req = s.req /\ a.delay = s.delay
      /\ \A c \in Conn : Keeps(w, a, c)
      /\ \A q \in Parent : a.family[q].subs = IF q = p THEN s.family[q].subs \cup {k}
                                              ELSE s.family[q].subs
  BY <1>1, <1>2 DEF IsAdded, Keeps
<1>6. /\ \A c \in Conn \ {k} : Keeps(a, t, c)
      /\ t.pc[k] = "ready" /\ t.delay = Append(s.delay, Valid(t, k))
      /\ t.req[k] = m /\ \A v \in Sub \ {k} : t.req[v] = s.req[v]
      /\ t.family = a.family
  BY <1>1, <1>2, <1>5, TypesOf DEF IsAssign, Keeps, Valid, Conn
<1>7. \A c \in Conn \ {k} : Keeps(s, t, c)
  BY <1>1, <1>5, <1>6, GivenKeeps, KeepsTrans
<1> QED BY <1>2, <1>3, <1>4, <1>5, <1>6, <1>7 DEF Starts

LEMMA DetachesIs ==
    ASSUME NEW s, NEW h, NEW r, Core(s, h, r, None, None), NEW t, Detaches(s, t)
    PROVE  \E k \in Sub : Starts(s, None, k, t)
<1> DEFINE m == [parent |-> None, pver |-> 0, tries |-> 0]
<1>1. PICK k, w : IsGiven(s, k, w) /\ IsAssign(w, k, m, t)
  BY DEF Detaches
<1>2. /\ w \in State /\ k \in Sub /\ w.family = s.family /\ w.req = s.req /\ w.delay = s.delay
      /\ w.pc = s.pc
  BY <1>1 DEF IsGiven
<1>3. m.tries = 0 /\ m # None
  <2>1. m \in Request
    BY DEF Request
  <2> QED BY <2>1, UpstreamAssumption
<1> HIDE DEF m
<1>4. s.req[k] = None /\ s.pc[k] = "idle"
  <2>1. Loose(w, k)
    BY <1>1, GivenCore
  <2> QED BY <1>2, <2>1 DEF Loose
<1>6. /\ \A c \in Conn \ {k} : Keeps(w, t, c)
      /\ t.pc[k] = "ready" /\ t.delay = Append(s.delay, Valid(t, k))
      /\ t.req[k] = m /\ \A v \in Sub \ {k} : t.req[v] = s.req[v]
      /\ t.family = s.family
  BY <1>1, <1>2, TypesOf DEF IsAssign, Keeps, Valid, Conn
<1>7. \A c \in Conn \ {k} : Keeps(s, t, c)
  BY <1>1, <1>6, GivenKeeps, KeepsTrans
<1>8. \A q \in Parent : q # None
  BY UpstreamAssumption
<1> QED BY <1>2, <1>3, <1>4, <1>6, <1>7, <1>8 DEF Starts

(* The parent has one less, and is woken if that was the last.             *)
Leaves(s, u, q, f) ==
    LET p == q.parent IN
    /\ f \in State /\ f.req = s.req
    /\ \A c \in Conn : Keeps(s, f, c)
    /\ p = None => f.delay = s.delay /\ SameFamilies(s, f)
    /\ p # None =>
          /\ p \in Parent /\ u \in s.family[p].subs
          /\ \A o \in Parent : f.family[o].subs = IF o = p THEN s.family[o].subs \ {u}
                                                  ELSE s.family[o].subs
          /\ f.delay = IF f.family[p].subs = {} THEN Append(s.delay, Valid(s, p)) ELSE s.delay

LEMMA LastIsLast ==
    ASSUME NEW s \in State, NEW u \in Sub, NEW q \in Request, NEW f, IsFinalize(s, u, q, f),
           q.parent # None => /\ u \in s.family[q.parent].subs
                              /\ s.family[q.parent].count
                                    = 1 + Cardinality(s.family[q.parent].subs)
    PROVE  Leaves(s, u, q, f)
<1> DEFINE p == q.parent
<1>1. /\ f \in State /\ f.req = s.req /\ \A c \in Conn : Keeps(s, f, c)
      /\ p = None => f.delay = s.delay /\ SameFamilies(s, f)
  BY DEF IsFinalize, Keeps, SameFamilies
<1>2. ASSUME p # None
      PROVE  /\ p \in Parent /\ u \in s.family[p].subs
             /\ \A o \in Parent : f.family[o].subs = IF o = p THEN s.family[o].subs \ {u}
                                                     ELSE s.family[o].subs
             /\ f.delay = IF f.family[p].subs = {} THEN Append(s.delay, Valid(s, p))
                          ELSE s.delay
  <2> DEFINE a == s.family[p].subs
             n == s.family[p].count - 1
  <2>1. /\ p \in Parent /\ u \in a /\ s.family[p].count = 1 + Cardinality(a)
        /\ \A o \in Parent \ {p} : f.family[o] = s.family[o]
        /\ f.family[p].subs = a \ {u}
        /\ f.delay = IF n = 1 THEN Append(s.delay, Valid(s, p)) ELSE s.delay
    BY <1>2 DEF IsFinalize, Valid
  <2>2. IsFiniteSet(a) /\ a \subseteq Sub
    BY <2>1, TypesOf, UpstreamAssumption, FS_Subset
  <2> HIDE DEF a
  <2>3. Cardinality(a \ {u}) = Cardinality(a) - 1 /\ Cardinality(a) \in Nat
        /\ IsFiniteSet(a \ {u})
    BY <2>1, <2>2, FS_RemoveElement, FS_CardinalityType
  <2>4. n = 1 <=> Cardinality(a \ {u}) = 0
    BY <2>1, <2>3
  <2>5. Cardinality(a \ {u}) = 0 <=> a \ {u} = {}
    BY <2>3, FS_EmptySet
  <2> QED BY <2>1, <2>4, <2>5 DEF a
<1> QED BY <1>1, <1>2 DEF Leaves

LEMMA Vacates ==
    ASSUME NEW s \in State, NEW u \in Sub, NEW t, IsClose(s, u, t) \/ IsKeep(s, u, t)
    PROVE  /\ t \in State /\ \A c \in Conn \ {u} : Keeps(s, t, c)
           /\ t.family = s.family /\ t.delay = s.delay
           /\ t.pc[u] = "idle" /\ t.req[u] = None /\ \A v \in Sub \ {u} : t.req[v] = s.req[v]
<1>1. \A c \in Conn \ {u} : Keeps(s, t, c)
  BY CloseKeeps, KeepKeeps
<1>2. /\ t \in State /\ t.family = s.family /\ t.delay = s.delay
      /\ t.pc = [s.pc EXCEPT ![u] = "idle"] /\ t.req = [s.req EXCEPT ![u] = None]
  BY DEF IsClose, IsKeep
<1> QED BY <1>1, <1>2, TypesOf DEF Conn

(* A sub-request that runs, and its parent.                                *)
LEMMA Runs ==
    ASSUME NEW s, NEW h, NEW u \in Sub, Core(s, h, u, None, None)
    PROVE  /\ s \in State /\ s.req[u] \in Request /\ s.req[u] # None
           /\ s.pool.backend[u] # None
           /\ s.req[u].parent # None =>
                 /\ s.req[u].parent \in Parent
                 /\ u \in s.family[s.req[u].parent].subs
                 /\ s.family[s.req[u].parent].count
                       = 1 + Cardinality(s.family[s.req[u].parent].subs)
<1>1. s \in State /\ s.pc[u] # "idle"
  BY DEF Core, Placed, Conn
<1>2. /\ s.req[u] \in Request /\ s.req[u] # None /\ s.pool.backend[u] # None
      /\ \A p \in Parent : u \in s.family[p].subs <=> p = s.req[u].parent
  BY <1>1, InUse
<1>3. \A p \in Parent : ChildrenOf(s, p, None)
  BY DEF Core, Related
<1>4. s.req[u].parent # None => s.req[u].parent \in Parent
  BY <1>2 DEF Request
<1> QED BY <1>1, <1>2, <1>3, <1>4 DEF ChildrenOf

LEMMA SucceedsIs ==
    ASSUME NEW s, NEW h, NEW u \in Sub, Core(s, h, u, None, None), NEW t, Succeeds(s, u, t)
    PROVE  Ends(s, u, t)
<1> DEFINE q == s.req[u]
<1>1. PICK f, x : /\ IsFinalize(s, u, q, f) /\ IsRead(f, u, x)
                  /\ IsKeep(x, u, t) \/ IsClose(x, u, t)
  BY DEF Succeeds
<1>2. /\ s \in State /\ q \in Request
      /\ q.parent # None => /\ u \in s.family[q.parent].subs
                            /\ s.family[q.parent].count
                                  = 1 + Cardinality(s.family[q.parent].subs)
  BY Runs
<1>a. q = s.req[u]
  OBVIOUS
<1> DEFINE p == q.parent
<1> HIDE DEF q
<1>3. /\ f \in State
      /\ \A c \in Conn : Keeps(s, f, c)
      /\ f.req = s.req
      /\ p = None => f.delay = s.delay /\ SameFamilies(s, f)
      /\ p # None =>
            /\ p \in Parent /\ u \in s.family[p].subs
            /\ \A o \in Parent : f.family[o].subs = IF o = p THEN s.family[o].subs \ {u}
                                                    ELSE s.family[o].subs
            /\ f.delay = IF f.family[p].subs = {} THEN Append(s.delay, Valid(s, p))
                         ELSE s.delay
  <2> HIDE DEF p
  <2>1. Leaves(s, u, q, f)
    BY <1>1, <1>2, LastIsLast
  <2> QED BY <2>1 DEF Leaves, p
<1>4. /\ x \in State /\ x.req = s.req /\ x.family = f.family /\ x.delay = f.delay
      /\ \A c \in Conn \ {u} : Keeps(f, x, c)
  <2>1. x \in State /\ \A c \in Conn \ {u} : x.net[c] = f.net[c]
    BY <1>1, <1>3, TypesOf DEF IsRead
  <2> QED BY <1>1, <1>3, <2>1 DEF IsRead, Keeps
<1>5. /\ \A c \in Conn \ {u} : Keeps(x, t, c)
      /\ t.family = x.family /\ t.delay = x.delay
      /\ t.pc[u] = "idle" /\ t.req[u] = None /\ \A v \in Sub \ {u} : t.req[v] = x.req[v]
  BY <1>1, <1>4, Vacates
<1>6. \A c \in Conn \ {u} : Keeps(s, t, c)
  BY <1>3, <1>4, <1>5, KeepsTrans
<1>7. SameFamilies(s, f) => SameFamilies(s, t)
  BY <1>4, <1>5 DEF SameFamilies
<1> QED BY <1>a, <1>3, <1>4, <1>5, <1>6, <1>7 DEF Ends

LEMMA GivesUpIs ==
    ASSUME NEW s, NEW h, NEW u \in Sub, Core(s, h, u, None, None), NEW t, GivesUp(s, u, t)
    PROVE  Ends(s, u, t)
<1> DEFINE q == s.req[u]
<1>1. PICK f : IsFinalize(s, u, q, f) /\ IsClose(f, u, t)
  BY DEF GivesUp
<1>2. /\ s \in State /\ q \in Request
      /\ q.parent # None => /\ u \in s.family[q.parent].subs
                            /\ s.family[q.parent].count
                                  = 1 + Cardinality(s.family[q.parent].subs)
  BY Runs
<1>a. q = s.req[u]
  OBVIOUS
<1> DEFINE p == q.parent
<1> HIDE DEF q
<1>3. /\ f \in State
      /\ \A c \in Conn : Keeps(s, f, c)
      /\ f.req = s.req
      /\ p = None => f.delay = s.delay /\ SameFamilies(s, f)
      /\ p # None =>
            /\ p \in Parent /\ u \in s.family[p].subs
            /\ \A o \in Parent : f.family[o].subs = IF o = p THEN s.family[o].subs \ {u}
                                                    ELSE s.family[o].subs
            /\ f.delay = IF f.family[p].subs = {} THEN Append(s.delay, Valid(s, p))
                         ELSE s.delay
  <2> HIDE DEF p
  <2>1. Leaves(s, u, q, f)
    BY <1>1, <1>2, LastIsLast
  <2> QED BY <2>1 DEF Leaves, p
<1>5. /\ \A c \in Conn \ {u} : Keeps(f, t, c)
      /\ t.family = f.family /\ t.delay = f.delay
      /\ t.pc[u] = "idle" /\ t.req[u] = None /\ \A v \in Sub \ {u} : t.req[v] = f.req[v]
  BY <1>1, <1>3, Vacates
<1>6. \A c \in Conn \ {u} : Keeps(s, t, c)
  BY <1>3, <1>5, KeepsTrans
<1>7. SameFamilies(s, f) => SameFamilies(s, t)
  BY <1>5 DEF SameFamilies
<1> QED BY <1>a, <1>3, <1>5, <1>6, <1>7 DEF Ends

LEMMA RetriesIs ==
    ASSUME NEW s, NEW h, NEW u \in Sub, Core(s, h, u, None, None), NEW t, Retries(s, u, t)
    PROVE  Ends(s, u, t) \/ \E k \in Sub : Moves(s, u, k, t)
<1> DEFINE q == s.req[u]
<1>1. PICK c : /\ IsClose(s, u, c)
               /\ \/ IsFinalize(c, u, q, t)
                  \/ \E g \in GetConnection(c) : IsMoved(c, u, q, g, t)
  BY DEF Retries
<1>2. /\ s \in State /\ q \in Request
      /\ q.parent # None => /\ q.parent \in Parent /\ u \in s.family[q.parent].subs
                            /\ s.family[q.parent].count
                                  = 1 + Cardinality(s.family[q.parent].subs)
  BY Runs
<1>a. q = s.req[u]
  OBVIOUS
<1> DEFINE p == q.parent
<1> HIDE DEF q
<1>3. /\ c \in State /\ c.family = s.family /\ c.delay = s.delay
      /\ \A d \in Conn \ {u} : Keeps(s, c, d)
      /\ c.pc[u] = "idle" /\ c.req[u] = None /\ \A v \in Sub \ {u} : c.req[v] = s.req[v]
  BY <1>1, <1>2, Vacates
<1>4. CASE IsFinalize(c, u, q, t)
  <2>1. /\ t \in State
        /\ \A d \in Conn : Keeps(c, t, d)
        /\ t.req = c.req
        /\ p = None => t.delay = c.delay /\ SameFamilies(c, t)
        /\ p # None =>
              /\ p \in Parent /\ u \in c.family[p].subs
              /\ \A o \in Parent : t.family[o].subs = IF o = p THEN c.family[o].subs \ {u}
                                                      ELSE c.family[o].subs
              /\ t.delay = IF t.family[p].subs = {} THEN Append(c.delay, Valid(c, p))
                           ELSE c.delay
    <3>1. Leaves(c, u, q, t)
      BY <1>2, <1>3, <1>4, LastIsLast
    <3> QED BY <3>1 DEF Leaves
  <2>2. \A d \in Conn \ {u} : Keeps(s, t, d)
    BY <1>3, <2>1, KeepsTrans
  <2>3. p # None => Valid(c, p) = Valid(s, p)
    BY <1>2, <1>3, UpstreamAssumption DEF Valid, Keeps, Conn
  <2>4. t.pc[u] = "idle"
    BY <1>3, <2>1 DEF Keeps, Conn
  <2>5. SameFamilies(c, t) => SameFamilies(s, t)
    BY <1>3 DEF SameFamilies
  <2> QED BY <1>a, <1>3, <2>1, <2>2, <2>3, <2>4, <2>5 DEF Ends
<1>5. CASE \E g \in GetConnection(c) : IsMoved(c, u, q, g, t)
  <2>1. PICK g \in GetConnection(c) : IsMoved(c, u, q, g, t)
    BY <1>5
  <2> DEFINE k == g.u
             w == g.s
             m == [q EXCEPT !.tries = @ + 1]
  <2>2. IsGiven(c, k, w)
    BY <1>3, <2>1, GivenOne
  <2>3. /\ m.parent = q.parent
        /\ p = None => t.family = w.family
        /\ p # None =>
              /\ \A o \in Parent \ {p} : t.family[o] = w.family[o]
              /\ t.family[p].subs = (w.family[p].subs \ {u}) \cup {k}
        /\ t.delay = Append(w.delay, Valid(w, k))
        /\ t.req = [w.req EXCEPT ![k] = m] /\ t.pc = [w.pc EXCEPT ![k] = "ready"]
        /\ t.version = w.version /\ t.flags = w.flags
        /\ t.timers = w.timers /\ t.net = w.net /\ t.armed = w.armed
    BY <2>1 DEF IsMoved, Valid
  <2> HIDE DEF k, w, m
  <2>4. w \in State /\ k \in Sub /\ w.family = s.family /\ w.delay = s.delay
        /\ w.req = c.req /\ w.pc = c.pc
    BY <1>3, <2>2 DEF IsGiven
  <2>5. \A d \in Conn \ {k} : Keeps(w, t, d)
    <3>1. \A d \in Conn \ {k} : t.pc[d] = w.pc[d]
      BY <2>3, <2>4, TypesOf
    <3> QED BY <2>3, <3>1 DEF Keeps
  <2>6. \A d \in Conn \ {u, k} : Keeps(s, t, d)
    BY <1>3, <2>2, <2>5, GivenKeeps, KeepsTrans
  <2>7. t.pc[k] = "ready" /\ t.req[k] = m
        /\ \A v \in Sub \ {k} : t.req[v] = w.req[v] /\ t.pc[v] = w.pc[v]
    BY <2>3, <2>4, TypesOf DEF Conn
  <2>8. k # u => s.req[k] = None
    <3>1. CASE k # u
      <4>1. Core(c, h, None, u, None)
        <5>1. u \notin s.pool.free /\ u \notin KeptIn(s)
          <6>1. s.pc[u] # "idle"
            BY <1>2 DEF Core, Placed, Conn
          <6> QED BY <6>1, InUse
        <5>2. NotRunning(s, u, u) /\ Rests(u, u) = None
          BY DEF NotRunning, Rests
        <5>3. Core(c, h, Rests(u, u), u, None)
          BY <1>1, <5>1, <5>2, CloseCore
        <5> QED BY <5>2, <5>3
      <4>2. Loose(w, k)
        BY <2>2, <4>1, GivenCore
      <4> QED BY <1>3, <2>4, <3>1, <4>2 DEF Loose
    <3> QED BY <3>1
  <2>9. Valid(w, k) = Valid(t, k)
    BY <2>3 DEF Valid
  <2>b. p = None => SameFamilies(s, t)
    BY <2>3, <2>4 DEF SameFamilies
  <2>a. k # u => t.pc[u] = "idle" /\ t.req[u] = None /\ s.req[k] = None
    BY <1>3, <2>4, <2>7, <2>8
  <2>c. \A v \in Sub \ {u, k} : t.req[v] = s.req[v]
    BY <1>3, <2>4, <2>7
  <2>d. p # None =>
          /\ p \in Parent /\ u \in s.family[p].subs
          /\ \A o \in Parent : t.family[o].subs = IF o = p THEN (s.family[o].subs \ {u}) \cup {k}
                                                  ELSE s.family[o].subs
    BY <1>2, <2>3, <2>4
  <2>e. t.req[k].parent = p /\ t.delay = Append(s.delay, Valid(t, k)) /\ t.pc[k] = "ready"
    BY <2>3, <2>4, <2>7, <2>9
  <2>f. Moves(s, u, k, t)
    <3> HIDE DEF p
    <3>1. p = s.req[u].parent
      BY <1>a DEF p
    <3> QED BY <2>4, <2>6, <2>a, <2>b, <2>c, <2>d, <2>e, <3>1 DEF Moves
  <2> QED BY <2>4, <2>f
<1> QED BY <1>1, <1>4, <1>5

-----------------------------------------------------------------------------
(* Who waits has what wakes it; x is the connection that is dispatched.    *)
Woken(s, c) ==
    /\ c \in Parent /\ s.pc[c] = "join" => s.family[c].subs # {} \/ QueuedIn(s, c)
    /\ c \in Parent /\ s.pc[c] = "sleep" =>
          <<c, "sleep">> \in s.timers \/ s.family[c].subs # {} \/ QueuedIn(s, c)
    /\ c \in Sub /\ s.pc[c] = "ready" => QueuedIn(s, c)
    /\ c \in Sub /\ s.pc[c] = "wait" => <<c, "main">> \in s.timers
Waking(s, x) == \A c \in Conn \ {x} : Woken(s, c)

LEMMA StaysWoken ==
    ASSUME NEW s, NEW t, NEW c \in Conn, Woken(s, c), t.pc[c] = s.pc[c],
           \A w \in {"main", "sleep"} : <<c, w>> \in s.timers => <<c, w>> \in t.timers,
           QueuedIn(s, c) => QueuedIn(t, c),
           c \in Parent /\ s.family[c].subs # {} => t.family[c].subs # {} \/ QueuedIn(t, c)
    PROVE  Woken(t, c)
BY DEF Woken

Enqueues(s, t, e) == s \in State /\ e \in Conn \X Nat /\ t.delay = Append(s.delay, e)

LEMMA QueuedToo ==
    ASSUME NEW s, NEW t, NEW e, Enqueues(s, t, e), NEW c, t.version[c] = s.version[c]
    PROVE  QueuedIn(t, c) <=> QueuedIn(s, c) \/ e = Valid(s, c)
<1>1. s.delay \in Seq(Conn \X Nat) /\ e \in Conn \X Nat /\ t.delay = Append(s.delay, e)
  BY TypesOf DEF Enqueues
<1>2. Range(t.delay) = Range(s.delay) \cup {e}
  BY <1>1, RangeAppend
<1> QED BY <1>2 DEF QueuedIn, Valid

LEMMA DispatchWakes ==
    ASSUME NEW s, NEW h, NEW c \in Conn, Ready(s, h, c), Waking(s, c),
           NEW t, NEW r, Dispatches(s, c, t, r)
    PROVE  Waking(t, None)
<1>1. /\ s \in State /\ Core(s, h, None, None, None) /\ Parent \cap Sub = {}
      /\ Core(t, h, r, None, None)
  <2>1. Core(t, h, r, None, None)
    BY DispatchesCore
  <2> QED BY <2>1, UpstreamAssumption DEF Ready, Core
<1>2. CASE c \in s.flags.third /\ t = s
  <2>1. s.pc[c] = "sleep" /\ <<c, "sleep">> \in s.timers
    BY <1>1, <1>2 DEF Core, Blocking
  <2>2. Woken(s, c)
    BY <1>1, <2>1, TypesOf, <1>2 DEF Woken
  <2> QED BY <1>2, <2>2 DEF Waking
<1>3. CASE c \in Parent /\ s.family[c].subs # {} /\ IsQuick(s, c, t)
  <2>1. /\ t.pc = s.pc /\ t.timers = s.timers /\ t.family = s.family /\ t.version = s.version
        /\ Range(s.delay) \subseteq Range(t.delay)
    <3>1. PICK q \in Seq(Conn \X Nat) : t.delay = s.delay \o q
      BY <1>3 DEF IsQuick
    <3>2. s.delay \in Seq(Conn \X Nat)
      BY <1>1, TypesOf
    <3>3. Range(t.delay) = Range(s.delay) \cup Range(q)
      BY <3>1, <3>2, RangeConcat
    <3> QED BY <1>3, <3>3 DEF IsQuick
  <2>2. \A d \in Conn \ {c} : Woken(t, d)
    BY <2>1 DEF Waking, Woken, QueuedIn, Valid
  <2>3. Woken(t, c)
    BY <1>1, <1>3, <2>1 DEF Woken
  <2> QED BY <2>2, <2>3 DEF Waking
<1>4. CASE c \in Sub /\ IsFreeIdle(s, c, t)
  <2>1. t.family = s.family /\ t.delay = s.delay /\ t.pc[c] = "idle"
    BY <1>1, <1>4, FreeIdlePasses DEF Passed, Core
  <2>2. ASSUME NEW d \in Conn \ {c} PROVE Woken(t, d)
    <3>1. Keeps(s, t, d) /\ Woken(s, d)
      BY <1>1, <1>4, FreeIdleKeeps DEF Waking
    <3> QED BY <2>1, <3>1 DEF Keeps, Woken, QueuedIn, Valid
  <2>3. Woken(t, c)
    BY <2>1 DEF Woken
  <2> QED BY <2>2, <2>3 DEF Waking
<1>5. CASE c \in Parent /\ s.pc[c] = "idle" /\ IsClosed(s, c, t)
  <2>1. t.family = s.family /\ t.delay = s.delay /\ t.pc[c] = "idle"
    BY <1>5 DEF IsClosed
  <2>2. ASSUME NEW d \in Conn \ {c} PROVE Woken(t, d)
    <3>1. Keeps(s, t, d) /\ Woken(s, d)
      BY <1>1, <1>5, ClosedKeeps DEF Waking
    <3> QED BY <2>1, <3>1 DEF Keeps, Woken, QueuedIn, Valid
  <2>3. Woken(t, c)
    BY <2>1 DEF Woken
  <2> QED BY <2>2, <2>3 DEF Waking
<1>6. CASE IsEntered(s, c, t) /\ r = c
  <2>1. t.family = s.family /\ t.delay = s.delay /\ t.pc[c] \in {"user", "start", "run"}
    BY <1>1, <1>6 DEF IsEntered, Core, Placed
  <2>2. ASSUME NEW d \in Conn \ {c} PROVE Woken(t, d)
    <3>1. Keeps(s, t, d) /\ Woken(s, d)
      BY <1>1, <1>6, EnteredKeeps DEF Waking
    <3> QED BY <2>1, <3>1 DEF Keeps, Woken, QueuedIn, Valid
  <2>3. Woken(t, c)
    BY <2>1 DEF Woken
  <2> QED BY <2>2, <2>3 DEF Waking
<1> QED BY <1>2, <1>3, <1>4, <1>5, <1>6 DEF Dispatches

LEMMA StartsWakes ==
    ASSUME NEW s, NEW h, NEW r, Core(s, h, r, None, None), Waking(s, None),
           NEW p, NEW k, NEW t \in State, Starts(s, p, k, t)
    PROVE  Waking(t, None)
<1>1. /\ s \in State /\ k \in Sub /\ k \in Conn /\ Parent \cap Sub = {} /\ t.pc[k] = "ready"
      /\ t.delay = Append(s.delay, Valid(t, k)) /\ Valid(t, k) \in Conn \X Nat
      /\ \A d \in Conn \ {k} : Keeps(s, t, d)
      /\ \A q \in Parent : s.family[q].subs \subseteq t.family[q].subs
  <2>1. s \in State /\ k \in Sub /\ k \in Conn /\ Parent \cap Sub = {}
    BY UpstreamAssumption DEF Core, Starts, Conn
  <2>2. /\ t.pc[k] = "ready" /\ t.delay = Append(s.delay, Valid(t, k))
        /\ \A d \in Conn \ {k} : Keeps(s, t, d)
        /\ \A q \in Parent : s.family[q].subs \subseteq t.family[q].subs
    BY DEF Starts
  <2>3. Valid(t, k) \in Conn \X Nat
    BY <2>1, TypesOf DEF Valid
  <2> QED BY <2>1, <2>2, <2>3
<1>2. Range(t.delay) = Range(s.delay) \cup {Valid(t, k)}
  BY <1>1, TypesOf, RangeAppend
<1>3. ASSUME NEW d \in Conn, d # k PROVE Woken(t, d)
  <2>1. Keeps(s, t, d) /\ Woken(s, d)
    BY <1>1, <1>3, UpstreamAssumption DEF Waking, Conn
  <2>2. QueuedIn(s, d) => QueuedIn(t, d)
    BY <1>2, <2>1 DEF Keeps, QueuedIn, Valid
  <2>3. d \in Parent /\ s.family[d].subs # {} => t.family[d].subs # {}
    BY <1>1
  <2> QED BY <2>1, <2>2, <2>3, StaysWoken DEF Keeps
<1>4. Woken(t, k)
  BY <1>1, <1>2 DEF Woken, QueuedIn
<1> QED BY <1>3, <1>4 DEF Waking

LEMMA ReboundsWakes ==
    ASSUME NEW s, Waking(s, None), NEW k, NEW t, Rebounds(s, k, t)
    PROVE  Waking(t, None)
<1>1. ASSUME NEW d \in Conn, d # k PROVE Woken(t, d)
  <2>1. Keeps(s, t, d) /\ Woken(s, d)
    BY <1>1, UpstreamAssumption DEF Waking, Conn, Rebounds
  <2> QED BY <2>1 DEF Rebounds, SameFamilies, Keeps, Woken, QueuedIn, Valid
<1>2. Woken(t, k)
  BY UpstreamAssumption DEF Woken, Rebounds
<1> QED BY <1>1, <1>2 DEF Waking

LEMMA EndsWakes ==
    ASSUME NEW s, NEW h, NEW u \in Sub, Core(s, h, u, None, None), Waking(s, None),
           NEW t \in State, Ends(s, u, t)
    PROVE  Waking(t, None)
<1> DEFINE p == s.req[u].parent
<1>1. /\ s \in State /\ Parent \cap Sub = {} /\ t.pc[u] = "idle" /\ None \notin Conn
      /\ \A d \in Conn \ {u} : Keeps(s, t, d)
  BY UpstreamAssumption, TypesOf DEF Core, Ends, Conn
<1>2. ASSUME NEW d \in Conn, d # u PROVE Woken(t, d)
  <2>1. Keeps(s, t, d) /\ Woken(s, d)
    BY <1>1, <1>2 DEF Waking
  <2>2. CASE p = None
    BY <2>1, <2>2 DEF Ends, SameFamilies, Keeps, Woken, QueuedIn, Valid
  <2>3. CASE p # None /\ t.family[p].subs = {}
    <3>1. /\ p \in Parent /\ p \in Conn /\ t.delay = Append(s.delay, Valid(s, p))
          /\ \A q \in Parent \ {p} : t.family[q].subs = s.family[q].subs
      BY <2>3 DEF Ends, Conn
    <3>2. Valid(s, p) \in Conn \X Nat
      BY <1>1, <3>1, TypesOf DEF Valid
    <3>3. QueuedIn(t, d) <=> QueuedIn(s, d) \/ Valid(s, p) = Valid(s, d)
      <4> DEFINE e == Valid(s, p)
      <4>1. Enqueues(s, t, e)
        BY <1>1, <3>1, <3>2 DEF Enqueues
      <4>2. t.version[d] = s.version[d]
        BY <2>1 DEF Keeps
      <4> HIDE DEF e
      <4>3. QueuedIn(t, d) <=> QueuedIn(s, d) \/ e = Valid(s, d)
        BY <4>1, <4>2, QueuedToo
      <4> QED BY <4>3 DEF e
    <3> QED BY <2>1, <3>1, <3>3, StaysWoken DEF Keeps
  <2>4. CASE p # None /\ t.family[p].subs # {}
    <3>1. /\ p \in Parent /\ t.delay = s.delay
          /\ \A q \in Parent \ {p} : t.family[q].subs = s.family[q].subs
      BY <2>4 DEF Ends
    <3>2. QueuedIn(t, d) <=> QueuedIn(s, d)
      BY <2>1, <3>1 DEF Keeps, QueuedIn, Valid
    <3> QED BY <2>1, <2>4, <3>1, <3>2, StaysWoken DEF Keeps
  <2> QED BY <2>2, <2>3, <2>4
<1>3. Woken(t, u)
  BY <1>1 DEF Woken
<1> QED BY <1>2, <1>3 DEF Waking

LEMMA MovesWakes ==
    ASSUME NEW s, NEW h, NEW u \in Sub, Core(s, h, u, None, None), Waking(s, None),
           NEW t \in State, NEW k, Moves(s, u, k, t)
    PROVE  Waking(t, None)
<1> DEFINE p == s.req[u].parent
<1>1. /\ s \in State /\ k \in Sub /\ k \in Conn /\ Parent \cap Sub = {} /\ t.pc[k] = "ready"
      /\ t.delay = Append(s.delay, Valid(t, k)) /\ Valid(t, k) \in Conn \X Nat
      /\ \A d \in Conn \ {u, k} : Keeps(s, t, d)
      /\ k # u => t.pc[u] = "idle"
      /\ None \notin Conn
  BY UpstreamAssumption, TypesOf DEF Core, Moves, Conn, Valid
<1>2. Range(t.delay) = Range(s.delay) \cup {Valid(t, k)}
  BY <1>1, TypesOf, RangeAppend
<1>3. ASSUME NEW d \in Conn, d # k, d # u PROVE Woken(t, d)
  <2>1. Keeps(s, t, d) /\ Woken(s, d)
    BY <1>1, <1>3 DEF Waking
  <2>2. QueuedIn(s, d) => QueuedIn(t, d)
    BY <1>2, <2>1 DEF Keeps, QueuedIn, Valid
  <2>3. d \in Parent /\ s.family[d].subs # {} => t.family[d].subs # {}
    <3>1. CASE p = None
      BY <3>1 DEF Moves, SameFamilies
    <3>2. CASE p # None
      BY <3>2 DEF Moves
    <3> QED BY <3>1, <3>2
  <2> QED BY <2>1, <2>2, <2>3, StaysWoken DEF Keeps
<1>4. Woken(t, k)
  BY <1>1, <1>2 DEF Woken, QueuedIn
<1>5. k # u => Woken(t, u)
  BY <1>1 DEF Woken
<1> QED BY <1>3, <1>4, <1>5 DEF Waking

(* Steps that change nothing but sockets.                                  *)
LEMMA SameWakes ==
    ASSUME NEW s, NEW t, NEW x, Waking(s, x), t.version = s.version, t.pc = s.pc,
           t.timers = s.timers, t.family = s.family, t.delay = s.delay
    PROVE  Waking(t, x)
BY DEF Waking, Woken, QueuedIn, Valid

LEMMA LoopWakes ==
    ASSUME Inv, Waking(Now, None), Loop \/ Timers PROVE Waking(Now', None)
<1>1. /\ Core(Now, Held, cur, None, None) /\ Idle(Now, None) /\ Now \in State
  BY InvNow
<1>2. \A c \in Conn : Waking(Now, c)
  BY UpstreamAssumption DEF Waking, Conn
<1>3. CASE \/ EpollWait \/ EventsDone \/ DelayDone \/ LoopAgain \/ LoopEnd
           \/ LookAtTimers \/ TimersDone
  <2>1. UNCHANGED <<version, pc, timers, family, delay>>
    BY <1>3 DEF EpollWait, EventsDone, DelayDone, LoopAgain, LoopEnd, LookAtTimers,
                TimersDone, NextPhase, LoopOnly, conns, queues
  <2> DEFINE s == Now
             t == Now'
  <2>2. /\ t.version = s.version /\ t.pc = s.pc /\ t.timers = s.timers
        /\ t.family = s.family /\ t.delay = s.delay /\ Waking(s, None)
    BY <2>1, NowFields
  <2> HIDE DEF s, t
  <2>3. Waking(t, None)
    BY <2>2, SameWakes
  <2> QED BY <2>3 DEF t
<1>4. ASSUME NEW e \in batch, TakeEvent(e) PROVE Waking(Now', None)
  <2>1. CASE e # Entry(e[1])
    <3>1. Becomes(Now)
      BY <1>4, <2>1 DEF TakeEvent
    <3>2. Now' = Now
      BY <1>1, <3>1, NowIs
    <3> QED BY <3>2
  <2>2. CASE e = Entry(e[1])
    <3> DEFINE c == e[1]
    <3>1. PICK s : /\ Ready(s, Held, c) /\ Dispatches(s, c, Now', cur')
                   /\ IsDying(Now, c, s) \/ s = Now
      BY <1>4, <2>2, EventIs
    <3>2. c \in Conn
      BY <1>4, <2>2, EventIs
    <3>3. Waking(s, c)
      BY <1>2, <3>1, <3>2, SameWakes DEF IsDying
    <3> HIDE DEF c
    <3> QED BY <3>1, <3>2, <3>3, DispatchWakes
  <2> QED BY <2>1, <2>2
<1>5. CASE TakeDelay
  <2> DEFINE s == [Now EXCEPT !.delay = Tail(@)]
             e == Head(delay)
             c == e[1]
  <2>1. /\ e \in Conn \X Nat
        /\ e # Valid(Now, c) => Now' = s
        /\ e = Valid(Now, c) => Ready(s, Held, c) /\ Dispatches(s, c, Now', cur')
    BY <1>5, DelayIs
  <2>2. /\ s.version = Now.version /\ s.pc = Now.pc /\ s.timers = Now.timers
        /\ s.family = Now.family /\ s.delay = Tail(Now.delay) /\ e = Head(Now.delay)
        /\ Now.delay # << >>
    <3>1. Now.delay # << >> /\ e = Head(Now.delay) /\ Sound(Now, Held, cur)
      BY <1>5, NowFields DEF TakeDelay, Inv
    <3> QED BY <3>1, TailCore
  <2>3. Range(Now.delay) = Range(s.delay) \cup {e}
    <3>1. Now.delay \in Seq(Conn \X Nat) /\ Now.delay # << >>
      BY <1>1, <2>2, TypesOf
    <3>2. Range(Now.delay) = Range(Tail(Now.delay)) \cup {Head(Now.delay)}
      BY <3>1, RangeTail
    <3> HIDE DEF s, e
    <3> QED BY <2>2, <3>2
  <2> HIDE DEF s, e
  <2>4. ASSUME NEW d \in Conn, e # Valid(Now, d) PROVE Woken(s, d)
    <3>1. Woken(Now, d) /\ (QueuedIn(Now, d) <=> QueuedIn(s, d))
      BY <1>2, <2>2, <2>3, <2>4, UpstreamAssumption DEF QueuedIn, Valid, Waking, Conn
    <3> QED BY <2>2, <3>1 DEF Woken
  <2>5. \A d : e = Valid(Now, d) => d = c
    BY DEF Valid
  <2> HIDE DEF c
  <2>6. CASE e # Valid(Now, c)
    BY <2>1, <2>4, <2>5, <2>6 DEF Waking
  <2>7. CASE e = Valid(Now, c)
    <3>1. Waking(s, c) /\ c \in Conn
      BY <2>1, <2>4, <2>5 DEF Waking, c
    <3> QED BY <2>1, <2>7, <3>1, DispatchWakes
  <2> QED BY <2>6, <2>7
<1>6. ASSUME NEW e \in resumes, TakeResume(e) PROVE Waking(Now', None)
  <2>1. /\ e \in Parent \X Nat
        /\ e # Valid(Now, e[1]) => Now' = Now
        /\ e = Valid(Now, e[1]) => Ready(Now, Held, e[1]) /\ Dispatches(Now, e[1], Now', cur')
    BY <1>6, WakeIs
  <2>2. CASE e # Valid(Now, e[1])
    <3>1. Now' = Now
      BY <2>1, <2>2
    <3> QED BY <3>1
  <2>3. CASE e = Valid(Now, e[1])
    <3>1. e[1] \in Conn /\ Waking(Now, e[1])
      BY <1>2, <2>1 DEF Conn
    <3> DEFINE s == Now
               t == Now'
    <3>2. Ready(s, Held, e[1]) /\ Dispatches(s, e[1], t, cur') /\ Waking(s, e[1])
      BY <2>1, <2>3, <3>1
    <3> HIDE DEF s, t
    <3>3. Waking(t, None)
      BY <3>1, <3>2, DispatchWakes
    <3> QED BY <3>3 DEF t
  <2> QED BY <2>2, <2>3
<1>7. ASSUME NEW m \in timers, ProcessTimer(m) PROVE Waking(Now', None)
  <2> DEFINE c == m[1]
  <2>1. PICK s : IsFired(Now, m, s) /\ Ready(s, Held, c) /\ Dispatches(s, c, Now', cur')
    BY <1>7, TimerIs
  <2>2. c \in Conn
    BY <1>7, TimerIs DEF Timer
  <2>3. ASSUME NEW d \in Conn \ {c} PROVE Woken(s, d)
    <3>1. Woken(Now, d) /\ \A w : <<d, w>> # m
      BY <1>2, UpstreamAssumption DEF Waking, Conn
    <3> QED BY <2>1, <3>1 DEF IsFired, Woken, QueuedIn, Valid
  <2> HIDE DEF c
  <2>4. Waking(s, c)
    BY <2>3 DEF Waking
  <2> QED BY <2>1, <2>2, <2>4, DispatchWakes
<1> QED BY <1>3, <1>4, <1>5, <1>6, <1>7 DEF Loop, Timers

(* Only the pc and the timer of connection c change, or nothing.           *)
LEMMA WaitsWakes ==
    ASSUME NEW s, Waking(s, None), NEW t, NEW c \in Conn, Woken(t, c),
           t.version = s.version, t.family = s.family, t.delay = s.delay,
           s.timers \subseteq t.timers, \A d \in Conn \ {c} : t.pc[d] = s.pc[d]
    PROVE  Waking(t, None)
<1>1. ASSUME NEW d \in Conn, d # c PROVE Woken(t, d)
  <2>1. Woken(s, d) /\ t.pc[d] = s.pc[d]
    BY <1>1, UpstreamAssumption DEF Waking, Conn
  <2> QED BY <2>1 DEF Woken, QueuedIn, Valid
<1> QED BY <1>1 DEF Waking

LEMMA HandlerWakes ==
    ASSUME Inv, Waking(Now, None), Handler PROVE Waking(Now', None)
<1> DEFINE s == Now
           t == Now'
           h == Held
<1>1. /\ Core(s, h, cur, None, None) /\ s \in State
  BY InvNow
<1>2. t \in State
  <2>1. Next
    BY DEF Next
  <2>2. Inv'
    BY <2>1, InvStep
  <2>3. Sound(Now', Held', cur')
    BY <2>2 DEF Inv
  <2> QED BY <2>3 DEF Sound, Core
<1>3. Parent \cap Sub = {} /\ Conn = Parent \cup Sub
  BY UpstreamAssumption DEF Conn
<1>4. ASSUME NEW p \in Parent, AddUpstream(p) \/ AddUpstreamDetach(p)
      PROVE  Waking(t, None)
  <2>1. t = s \/ Breaks(s, t) \/ Forks(s, p, t) \/ Detaches(s, t)
    BY <1>4, AddIs, DetachIs
  <2>2. Waking(s, None)
    OBVIOUS
  <2> HIDE DEF s, t, h
  <2>3. CASE Breaks(s, t)
    BY <1>1, <2>2, <2>3, BreaksIs, ReboundsWakes
  <2>4. CASE Forks(s, p, t)
    BY <1>1, <1>2, <2>2, <2>4, ForksIs, StartsWakes
  <2>5. CASE Detaches(s, t)
    BY <1>1, <1>2, <2>2, <2>5, DetachesIs, StartsWakes
  <2> QED BY <2>1, <2>2, <2>3, <2>4, <2>5
<1>5. ASSUME NEW p \in Parent, RunUpstreams(p) \/ UserSleep(p) \/ UserYield(p)
      PROVE  Waking(t, None)
  <2>1. /\ version' = version /\ family' = family /\ delay' = delay
        /\ \/ pc' = pc /\ timers' = timers
           \/ pc' = [pc EXCEPT ![p] = "join"] /\ family[p].subs # {} /\ timers' = timers
           \/ pc' = [pc EXCEPT ![p] = "sleep"] /\ timers' = timers \cup {<<p, "sleep">>}
           \/ pc' = [pc EXCEPT ![p] = "yield"] /\ timers' = timers
    BY <1>5 DEF RunUpstreams, UserSleep, UserYield, Blocks, Calls, Wait, Waits
  <2>2. /\ t.version = s.version /\ t.family = s.family /\ t.delay = s.delay
        /\ \/ t.pc = s.pc /\ t.timers = s.timers
           \/ t.pc = [s.pc EXCEPT ![p] = "join"] /\ s.family[p].subs # {} /\ t.timers = s.timers
           \/ t.pc = [s.pc EXCEPT ![p] = "sleep"] /\ t.timers = s.timers \cup {<<p, "sleep">>}
           \/ t.pc = [s.pc EXCEPT ![p] = "yield"] /\ t.timers = s.timers
    BY <2>1, NowFields
  <2>3. Waking(s, None)
    OBVIOUS
  <2> HIDE DEF s, t, h
  <2>4. CASE t.pc = s.pc /\ t.timers = s.timers
    BY <2>2, <2>3, <2>4, SameWakes
  <2>5. CASE ~(t.pc = s.pc /\ t.timers = s.timers)
    <3>1. Woken(t, p)
      BY <1>1, <1>3, <2>2, <2>5, TypesOf DEF Woken
    <3>2. \A d \in Conn \ {p} : t.pc[d] = s.pc[d]
      BY <1>1, <2>2, TypesOf
    <3>3. s.timers \subseteq t.timers /\ p \in Conn
      BY <1>3, <2>2
    <3> QED BY <2>2, <2>3, <3>1, <3>2, <3>3, WaitsWakes
  <2> QED BY <2>4, <2>5
<1>6. ASSUME NEW p \in Parent, UserReturn(p) PROVE Waking(t, None)
  <2>1. IsReturned(s, p, t) /\ Waking(s, None) /\ family[p].subs = {}
    BY <1>6, ReturnIs
  <2>2. s.family[p].subs = {}
    BY <2>1, NowFields
  <2> HIDE DEF s, t, h
  <2>3. t.pc[p] = "idle" /\ t.delay = s.delay /\ p \in Conn
        /\ \A q \in Parent \ {p} : t.family[q] = s.family[q]
    BY <1>1, <1>3, <2>1, TypesOf DEF IsReturned
  <2>4. ASSUME NEW d \in Conn, d # p PROVE Woken(t, d)
    <3>1. Keeps(s, t, d) /\ Woken(s, d)
      BY <1>1, <2>1, <2>4, ReturnedKeeps, UpstreamAssumption DEF Waking, Conn
    <3> QED BY <2>3, <2>4, <3>1 DEF Keeps, Woken, QueuedIn, Valid
  <2>5. Woken(t, p)
    BY <2>3 DEF Woken
  <2> QED BY <2>4, <2>5 DEF Waking
<1>7. ASSUME NEW u \in Sub, SubBlocks(u) PROVE Waking(t, None)
  <2>1. /\ version' = version /\ family' = family /\ delay' = delay
        /\ pc' = [pc EXCEPT ![u] = "wait"] /\ timers' = timers \cup {<<u, "main">>}
    BY <1>7 DEF SubBlocks
  <2>2. /\ t.version = s.version /\ t.family = s.family /\ t.delay = s.delay
        /\ t.pc = [s.pc EXCEPT ![u] = "wait"] /\ t.timers = s.timers \cup {<<u, "main">>}
        /\ Waking(s, None)
    BY <2>1, NowFields
  <2> HIDE DEF s, t, h
  <2>3. Woken(t, u) /\ u \in Conn
    BY <1>1, <1>3, <2>2, TypesOf DEF Woken
  <2>4. \A d \in Conn \ {u} : t.pc[d] = s.pc[d]
    BY <1>1, <2>2, TypesOf
  <2> QED BY <2>2, <2>3, <2>4, WaitsWakes
<1>8. ASSUME NEW u \in Sub, SubDone(u) \/ SubFails(u) PROVE Waking(t, None)
  <2>1. /\ cur = u /\ Waking(s, None)
        /\ Succeeds(s, u, t) \/ GivesUp(s, u, t) \/ Retries(s, u, t)
    BY <1>8, DoneIs, FailsIs
  <2>2. Core(s, h, u, None, None)
    BY <1>1, <2>1
  <2> HIDE DEF s, t, h
  <2>3. Ends(s, u, t) \/ \E k \in Sub : Moves(s, u, k, t)
    BY <2>1, <2>2, SucceedsIs, GivesUpIs, RetriesIs
  <2> QED BY <1>2, <2>1, <2>2, <2>3, EndsWakes, MovesWakes
<1> QED BY <1>4, <1>5, <1>6, <1>7, <1>8 DEF Handler

LEMMA OtherWakes ==
    ASSUME Waking(Now, None), Resumer \/ World \/ UNCHANGED vars
    PROVE  Waking(Now', None)
<1>1. UNCHANGED <<version, pc, timers, family, delay>>
  <2>1. CASE Resumer
    BY <2>1 DEF Resumer, ResumeAsync, Outside
  <2>2. CASE World
    BY <2>2 DEF World, RequestArrives, PeerAnswers, PeerCloses, Outside
  <2>3. CASE UNCHANGED vars
    BY <2>3 DEF vars
  <2> QED BY <2>1, <2>2, <2>3
<1> DEFINE s == Now
           t == Now'
<1>2. /\ t.version = s.version /\ t.pc = s.pc /\ t.timers = s.timers
      /\ t.family = s.family /\ t.delay = s.delay /\ Waking(s, None)
  BY <1>1, NowFields
<1> HIDE DEF s, t
<1>3. Waking(t, None)
  BY <1>2, SameWakes
<1> QED BY <1>3 DEF t

(* Nobody waits for nothing: a handler in run_upstreams has sub-requests   *)
(* left or a wake-up in m_delayConnections, a sleeping one its timer, a    *)
(* sub-request its entry in the queue or the timer of its hooked call.     *)
THEOREM WaitersHaveWakers == Spec => []WaiterHasWaker
<1>1. Init => Waking(Now, None)
  <2> SUFFICES ASSUME Init PROVE Waking(Now, None)
    OBVIOUS
  <2>1. \A c \in Conn : Now.pc[c] = "idle"
    BY NowFields DEF Init
  <2> QED BY <2>1 DEF Waking, Woken
<1>2. Inv /\ Waking(Now, None) /\ [Next]_vars => Waking(Now, None)'
  BY LoopWakes, HandlerWakes, OtherWakes DEF Next
<1>3. Inv /\ Waking(Now, None) => WaiterHasWaker
  <2> SUFFICES ASSUME Inv, Waking(Now, None) PROVE WaiterHasWaker
    OBVIOUS
  <2>1. \A c \in Conn : Woken(Now, c)
    BY UpstreamAssumption DEF Waking, Conn
  <2>2. \A c \in Conn : QueuedIn(Now, c) <=> Queued(c)
    BY NowFields DEF QueuedIn, Queued, Valid, Entry
  <2>3. Busy \subseteq Sub /\ Parent \subseteq Conn /\ Sub \subseteq Conn
    BY DEF Busy, Conn
  <2> QED BY <2>1, <2>2, <2>3, NowFields DEF Woken, WaiterHasWaker
<1> QED BY <1>1, <1>2, <1>3, InvHolds, PTL DEF Spec

-----------------------------------------------------------------------------
(* Handlers that block only while they have no sub-request.  A dying       *)
(* parent has told its sub-requests, unless it has none; it is queued once *)
(* and after the last of them, when it waits for them or has been entered  *)
(* since because of an error; what other threads hold of it is its yield;  *)
(* and an event can only be the end of its client.  b, k and r are the     *)
(* batch, m_waitResumes and the tokens.                                    *)
Doomed(s, p) == s.pc[p] = "user" /\ p \in s.flags.dying
Once(q, e) == \A i, j \in DOMAIN q : q[i] = e /\ q[j] = e => i = j
Told(s, p) == p \in s.flags.dying => s.family[p].subs \subseteq s.flags.parentDying
Awaited(s, b, k, r, p) ==
    /\ s.pc[p] \in {"sleep", "yield"} \/ Doomed(s, p) => s.family[p].subs = {}
    /\ QueuedIn(s, p) => s.family[p].subs = {} /\ (s.pc[p] = "join" \/ Doomed(s, p))
    /\ Once(s.delay, Valid(s, p))
    /\ Valid(s, p) \in k \cup r => s.pc[p] = "yield" \/ Doomed(s, p)
    /\ Valid(s, p) \notin k \cap r
    /\ Valid(s, p) \in b => /\ s.net[p] # "quiet" /\ (p \in s.armed => s.net[p] = "closed")
                            /\ s.pc[p] # "idle" => s.net[p] = "closed" /\ p \notin s.armed
    /\ s.pc[p] # "idle" /\ p \in s.armed => s.net[p] = "closed"
Alone(s, b, k, r, p) == Told(s, p) /\ Awaited(s, b, k, r, p)

(* A parent that is about to be dispatched, the entry that names it taken. *)
Poised(s, b, k, r, p) ==
    /\ Awaited(s, b, k, r, p)
    /\ p \notin s.flags.dying =>
          /\ s.family[p].subs = {} /\ ~QueuedIn(s, p) /\ Valid(s, p) \notin k \cup r
          /\ s.pc[p] = "idle" => /\ Valid(s, p) \notin b
                                 /\ p \in s.armed => s.net[p] = "closed"

LEMMA OnceAppend ==
    ASSUME NEW S, NEW q \in Seq(S), NEW e \in S, NEW x, Once(q, x), e = x => x \notin Range(q)
    PROVE  Once(Append(q, e), x)
<1> DEFINE r == Append(q, e)
<1>1. Len(q) \in Nat /\ DOMAIN r = 1 .. Len(q) + 1 /\ DOMAIN q = 1 .. Len(q)
      /\ r[Len(q) + 1] = e
  OBVIOUS
<1>2. \A i \in 1 .. Len(q) : r[i] = q[i]
  OBVIOUS
<1> HIDE DEF r
<1>3. \A i \in DOMAIN r : i = Len(q) + 1 \/ (i \in DOMAIN q /\ r[i] = q[i])
  BY <1>1, <1>2
<1>4. ASSUME e = x, NEW i \in DOMAIN q PROVE q[i] # x
  BY <1>4 DEF Range
<1>5. ASSUME NEW i \in DOMAIN r, NEW j \in DOMAIN r, r[i] = x, r[j] = x PROVE i = j
  <2>1. CASE e = x
    BY <1>3, <1>4, <1>5, <2>1
  <2>2. CASE e # x
    BY <1>1, <1>3, <1>5, <2>2 DEF Once
  <2> QED BY <2>1, <2>2
<1> QED BY <1>5 DEF Once, r

LEMMA OnceConcat ==
    ASSUME NEW S, NEW q \in Seq(S), NEW r \in Seq(S), NEW x, Once(q, x), x \notin Range(r)
    PROVE  Once(q \o r, x)
<1> DEFINE t == q \o r
<1>1. Len(q) \in Nat /\ Len(r) \in Nat /\ DOMAIN q = 1 .. Len(q) /\ DOMAIN r = 1 .. Len(r)
      /\ DOMAIN t = 1 .. Len(q) + Len(r)
  OBVIOUS
<1>2. \A i \in 1 .. Len(q) + Len(r) : t[i] = IF i <= Len(q) THEN q[i] ELSE r[i - Len(q)]
  OBVIOUS
<1> HIDE DEF t
<1>3. ASSUME NEW i \in DOMAIN t, t[i] = x PROVE i \in DOMAIN q /\ q[i] = x
  <2>1. CASE i <= Len(q)
    BY <1>1, <1>2, <1>3, <2>1
  <2>2. CASE ~(i <= Len(q))
    <3>1. i - Len(q) \in DOMAIN r /\ x = r[i - Len(q)]
      BY <1>1, <1>2, <1>3, <2>2
    <3> QED BY <3>1 DEF Range
  <2> QED BY <2>1, <2>2
<1> QED BY <1>3 DEF Once, t

LEMMA OnceTail ==
    ASSUME NEW S, NEW q \in Seq(S), q # << >>, NEW x, Once(q, x)
    PROVE  Once(Tail(q), x) /\ (x = Head(q) => x \notin Range(Tail(q)))
<1> DEFINE r == Tail(q)
           h == Head(q)
<1>1. Len(q) \in Nat /\ Len(q) >= 1 /\ DOMAIN q = 1 .. Len(q) /\ DOMAIN r = 1 .. Len(q) - 1
      /\ q[1] = h
  OBVIOUS
<1>2. \A i \in 1 .. Len(q) - 1 : r[i] = q[i + 1]
  OBVIOUS
<1> HIDE DEF r, h
<1>3. ASSUME NEW i \in DOMAIN r PROVE i + 1 \in DOMAIN q /\ q[i + 1] = r[i] /\ i \in Nat /\ i > 0
  BY <1>1, <1>2
<1>4. ASSUME NEW i \in DOMAIN r, NEW j \in DOMAIN r, r[i] = x, r[j] = x PROVE i = j
  <2>1. i + 1 = j + 1
    BY <1>3, <1>4 DEF Once
  <2> QED BY <1>3, <2>1
<1>5. ASSUME x = h, NEW i \in DOMAIN r PROVE r[i] # x
  <2>1. 1 \in DOMAIN q /\ i + 1 # 1 /\ i + 1 \in DOMAIN q /\ q[i + 1] = r[i] /\ q[1] = x
    BY <1>1, <1>3, <1>5
  <2> QED BY <2>1 DEF Once
<1>6. x = h => x \notin Range(r)
  BY <1>5 DEF Range
<1> QED BY <1>4, <1>6 DEF Once, r, h

(* A parent that a step is not about.                                      *)
LEMMA StaysAwaited ==
    ASSUME NEW s, NEW t, NEW p \in Parent, NEW b, NEW k, NEW r, Awaited(s, b, k, r, p),
           Keeps(s, t, p), t.family[p].subs = s.family[p].subs,
           QueuedIn(t, p) => QueuedIn(s, p), Once(t.delay, Valid(s, p))
    PROVE  Awaited(t, b, k, r, p)
<1>1. Valid(t, p) = Valid(s, p) /\ (Doomed(t, p) <=> Doomed(s, p))
  BY DEF Keeps, Valid, Doomed
<1> QED BY <1>1 DEF Keeps, Awaited

LEMMA StaysAlone ==
    ASSUME NEW s, NEW t, NEW p \in Parent, NEW b, NEW k, NEW r, Alone(s, b, k, r, p),
           Keeps(s, t, p), t.family[p].subs = s.family[p].subs,
           \A v \in s.family[p].subs : v \in s.flags.parentDying => v \in t.flags.parentDying,
           QueuedIn(t, p) => QueuedIn(s, p), Once(t.delay, Valid(s, p))
    PROVE  Alone(t, b, k, r, p)
<1>1. Awaited(t, b, k, r, p)
  BY StaysAwaited DEF Alone
<1>2. Told(t, p)
  BY DEF Alone, Told, Keeps
<1> QED BY <1>1, <1>2 DEF Alone

(* Entries are only taken.                                                 *)
LEMMA FewerAwaited ==
    ASSUME NEW s, NEW p, NEW b, NEW k, NEW r, Awaited(s, b, k, r, p),
           NEW b2, NEW k2, NEW r2, \A e \in b2 : e \in b, \A e \in k2 : e \in k,
           \A e \in r2 : e \in r
    PROVE  Awaited(s, b2, k2, r2, p)
BY DEF Awaited

LEMMA DispatchAlone ==
    ASSUME NEW s, NEW h, NEW c \in Conn, Ready(s, h, c), NEW b, NEW k, NEW r,
           \A e \in b \cup k \cup r : e \in h,
           \A p \in Parent \ {c} : Alone(s, b, k, r, p),
           c \in Parent => Poised(s, b, k, r, c), NEW t, NEW w, Dispatches(s, c, t, w)
    PROVE  \A p \in Parent : Alone(t, b, k, r, p)
<1>1. /\ s \in State /\ Core(s, h, None, None, None) /\ Parent \cap Sub = {}
      /\ Conn = Parent \cup Sub /\ s.delay \in Seq(Conn \X Nat)
  <2>1. s \in State /\ Core(s, h, None, None, None)
    BY DEF Ready, Core
  <2> QED BY <2>1, TypesOf, UpstreamAssumption DEF Conn
<1>2. ASSUME c \in Parent PROVE Awaited(s, b, k, r, c) /\ s.pc[c] \in ParentPc \ {"user"}
  <2>1. s.pc[c] # "user" /\ s.pc[c] \in ParentPc
    BY <1>1, <1>2, UpstreamAssumption DEF Core, Placed
  <2> QED BY <1>2, <2>1 DEF Poised
<1>3. CASE c \in s.flags.dying /\ c \in s.flags.third /\ t = s
  <2>1. c \in Parent /\ s.pc[c] = "sleep"
    BY <1>1, <1>3, TypesOf DEF Core, Blocking
  <2>2. Alone(s, b, k, r, c)
    BY <1>2, <2>1 DEF Awaited, Alone, Told
  <2> QED BY <1>3, <2>2
<1>4. CASE c \in s.flags.dying /\ c \in Parent /\ s.family[c].subs # {} /\ IsQuick(s, c, t)
  <2> DEFINE d == s.family[c].subs
  <2>1. PICK q \in Seq(Conn \X Nat) : t.delay = s.delay \o q /\ \A e \in Range(q) : \E u \in d : e = <<u, s.version[u]>>
    BY <1>4 DEF IsQuick
  <2>2. d \subseteq Sub
    BY <1>1, <1>4, TypesOf
  <2>3. ASSUME NEW p \in Parent
        PROVE  Keeps(s, t, p) /\ Valid(s, p) \notin Range(q)
    <3>1. p \notin d
      BY <1>1, <2>2
    <3> QED BY <1>4, <2>1, <3>1 DEF IsQuick, Keeps, Valid
  <2>4. Range(t.delay) = Range(s.delay) \cup Range(q)
    BY <1>1, <2>1, RangeConcat
  <2>5. t.family = s.family /\ t.version = s.version
        /\ t.flags.parentDying = s.flags.parentDying \cup d
    BY <1>4 DEF IsQuick
  <2>6. ASSUME NEW p \in Parent, Awaited(s, b, k, r, p)
        PROVE  (QueuedIn(t, p) => QueuedIn(s, p)) /\ Once(t.delay, Valid(s, p))
    <3>1. QueuedIn(t, p) => QueuedIn(s, p)
      BY <2>3, <2>4, <2>5 DEF QueuedIn, Valid
    <3>2. Once(s.delay, Valid(s, p))
      BY <2>6 DEF Awaited
    <3>3. Once(s.delay \o q, Valid(s, p))
      BY <1>1, <2>3, <3>2, OnceConcat
    <3> QED BY <2>1, <3>1, <3>3
  <2>7. ASSUME NEW p \in Parent, p # c PROVE Alone(t, b, k, r, p)
    <3>1. Alone(s, b, k, r, p) /\ Awaited(s, b, k, r, p)
      BY <2>7 DEF Alone
    <3> HIDE DEF d
    <3> QED BY <2>3, <2>5, <2>6, <3>1, StaysAlone
  <2>8. Alone(t, b, k, r, c)
    <3>1. Awaited(t, b, k, r, c)
      BY <1>2, <1>4, <2>3, <2>5, <2>6, StaysAwaited
    <3>2. Told(t, c)
      BY <2>5 DEF Told
    <3> QED BY <3>1, <3>2 DEF Alone
  <2> QED BY <2>7, <2>8
<1>5. CASE c \in Sub /\ s.pc[c] = "idle" /\ IsFreeIdle(s, c, t)
  <2>1. t.family = s.family /\ t.delay = s.delay /\ t.flags = CleanFlags(s.flags, c)
    BY <1>5 DEF IsFreeIdle
  <2>2. s.req[c] = None
    BY <1>1, <1>5 DEF Core, Pooled, Known
  <2>3. ASSUME NEW p \in Parent PROVE Alone(t, b, k, r, p)
    <3>1. Alone(s, b, k, r, p) /\ Keeps(s, t, p) /\ c \notin s.family[p].subs
      <4>1. Alone(s, b, k, r, p) /\ Keeps(s, t, p)
        BY <1>1, <1>5, FreeIdleKeeps
      <4>2. ChildrenOf(s, p, None) /\ c # None
        BY <1>1, <1>5, UpstreamAssumption DEF Core, Related
      <4> QED BY <2>2, <4>1, <4>2 DEF ChildrenOf
    <3>2. (QueuedIn(t, p) => QueuedIn(s, p)) /\ Once(t.delay, Valid(s, p))
      BY <2>1, <3>1 DEF Keeps, QueuedIn, Valid, Alone, Awaited
    <3>3. \A v \in s.family[p].subs : v \in s.flags.parentDying => v \in t.flags.parentDying
      BY <2>1, <3>1 DEF CleanFlags
    <3> QED BY <2>1, <3>1, <3>2, <3>3, StaysAlone
  <2> QED BY <2>3
<1>6. CASE c \in Parent /\ s.pc[c] = "idle" /\ IsClosed(s, c, t)
  <2>1. t.family = s.family /\ t.delay = s.delay /\ t.flags = CleanFlags(s.flags, c)
        /\ t.pc = s.pc /\ c \notin t.armed /\ t.version[c] = s.version[c] + 1
        /\ s.version[c] \in Nat
    BY <1>1, TypesOf, <1>6 DEF IsClosed
  <2>2. ASSUME NEW p \in Parent, p # c PROVE Alone(t, b, k, r, p)
    <3>1. Alone(s, b, k, r, p) /\ Keeps(s, t, p)
      BY <1>1, <1>6, <2>2, ClosedKeeps
    <3>2. (QueuedIn(t, p) => QueuedIn(s, p)) /\ Once(t.delay, Valid(s, p))
      BY <2>1, <3>1 DEF Keeps, QueuedIn, Valid, Alone, Awaited
    <3>3. \A v \in s.family[p].subs : v \in s.flags.parentDying => v \in t.flags.parentDying
      <4>1. c \notin s.family[p].subs
        BY <1>1, <1>6, TypesOf
      <4> QED BY <2>1, <4>1 DEF CleanFlags
    <3> QED BY <2>1, <3>1, <3>2, <3>3, StaysAlone
  <2>3. Alone(t, b, k, r, c)
    <3>1. ASSUME NEW e \in h \cup Range(s.delay) PROVE e # Valid(t, c)
      BY <1>1, <2>1 DEF Core, Stamped, Valid
    <3>2. Valid(t, c) \notin b \cup k \cup r /\ ~QueuedIn(t, c)
      BY <2>1, <3>1 DEF QueuedIn
    <3>3. Once(t.delay, Valid(t, c))
      BY <2>1, <3>1 DEF Once, Range
    <3>4. c \notin t.flags.dying
      BY <2>1 DEF CleanFlags
    <3> QED BY <1>6, <2>1, <3>2, <3>3, <3>4 DEF Alone, Told, Awaited, Doomed
  <2> QED BY <2>2, <2>3
<1>7. CASE /\ c \in s.flags.dying /\ c \in Parent => s.family[c].subs = {}
           /\ s.pc[c] = "idle" => c \notin Sub \cup s.flags.dying
           /\ IsEntered(s, c, t)
  <2>1. t.family = s.family /\ t.delay = s.delay /\ t.flags.dying = s.flags.dying
        /\ t.flags.parentDying = s.flags.parentDying /\ t.version = s.version
        /\ t.net = s.net /\ t.armed = s.armed
    BY <1>7 DEF IsEntered
  <2>2. ASSUME NEW p \in Parent, p # c PROVE Alone(t, b, k, r, p)
    <3>1. Alone(s, b, k, r, p) /\ Keeps(s, t, p)
      BY <1>1, <1>7, <2>2, EnteredKeeps
    <3>2. (QueuedIn(t, p) => QueuedIn(s, p)) /\ Once(t.delay, Valid(s, p))
      BY <2>1, <3>1 DEF Keeps, QueuedIn, Valid, Alone, Awaited
    <3> QED BY <2>1, <3>1, <3>2, StaysAlone
  <2>3. ASSUME c \in Parent PROVE Alone(t, b, k, r, c)
    <3>1. t.pc[c] = "user"
      <4>1. t.pc[c] = Awake[s.pc[c]]
        BY <1>1, <1>7, TypesOf DEF IsEntered
      <4> QED BY <1>2, <2>3, <4>1 DEF Awake, ParentPc
    <3>2. Valid(t, c) = Valid(s, c) /\ (QueuedIn(t, c) <=> QueuedIn(s, c))
      BY <2>1 DEF QueuedIn, Valid
    <3>3. Poised(s, b, k, r, c)
      BY <2>3
    <3>4. CASE c \in s.flags.dying
      BY <1>7, <2>1, <2>3, <3>1, <3>2, <3>3, <3>4 DEF Poised, Awaited, Alone, Told, Doomed
    <3>5. CASE c \notin s.flags.dying
      BY <1>7, <2>1, <2>3, <3>1, <3>2, <3>3, <3>5 DEF Poised, Awaited, Alone, Told, Doomed
    <3> QED BY <3>4, <3>5
  <2> QED BY <2>2, <2>3
<1> QED BY <1>3, <1>4, <1>5, <1>6, <1>7 DEF Dispatches

(* An entry for another connection is put into the queue.                  *)
LEMMA OthersEntry ==
    ASSUME NEW s, NEW t, NEW e, Enqueues(s, t, e),
           NEW p, t.version[p] = s.version[p], Once(s.delay, Valid(s, p)),
           e # Valid(s, p) \/ ~QueuedIn(s, p)
    PROVE  /\ Once(t.delay, Valid(s, p))
           /\ QueuedIn(t, p) <=> QueuedIn(s, p) \/ e = Valid(s, p)
<1>1. s.delay \in Seq(Conn \X Nat) /\ e \in Conn \X Nat /\ t.delay = Append(s.delay, e)
  BY TypesOf DEF Enqueues
<1>2. Once(Append(s.delay, e), Valid(s, p))
  BY <1>1, OnceAppend DEF QueuedIn
<1>3. Once(t.delay, Valid(s, p))
  BY <1>1, <1>2
<1> QED BY <1>3, QueuedToo

LEMMA ReboundsAlone ==
    ASSUME NEW s \in State, NEW h, NEW w, NEW t, Core(t, h, w, None, None), NEW u, Rebounds(s, u, t),
           NEW b, NEW k, NEW r, \A p \in Parent : Alone(s, b, k, r, p)
    PROVE  \A p \in Parent : Alone(t, b, k, r, p)
<1>1. Parent \cap Sub = {} /\ u \in Sub /\ u # None /\ t.req[u] = None /\ t.delay = s.delay
      /\ \A c \in Conn \ {u} : Keeps(s, t, c)
  BY UpstreamAssumption DEF Rebounds
<1>2. ASSUME NEW p \in Parent PROVE Alone(t, b, k, r, p)
  <2>1. t.family[p].subs = s.family[p].subs /\ Keeps(s, t, p) /\ Alone(s, b, k, r, p)
    BY <1>1 DEF Rebounds, SameFamilies, Conn
  <2>2. u \notin s.family[p].subs
    BY <1>1, <2>1 DEF Core, Related, ChildrenOf
  <2>3. \A v \in s.family[p].subs : v \in s.flags.parentDying => v \in t.flags.parentDying
    <3>1. s.family[p].subs \subseteq Conn
      BY TypesOf DEF Conn
    <3> QED BY <1>1, <2>2, <3>1 DEF Keeps
  <2>4. (QueuedIn(t, p) => QueuedIn(s, p)) /\ Once(t.delay, Valid(s, p))
    BY <1>1, <2>1 DEF Keeps, QueuedIn, Valid, Alone, Awaited
  <2> QED BY <2>1, <2>3, <2>4, StaysAlone
<1> QED BY <1>2

LEMMA StartsAlone ==
    ASSUME NEW s, NEW h, NEW w, Core(s, h, w, None, None), NEW t \in State,
           NEW p \in Parent \cup {None}, NEW u, Starts(s, p, u, t),
           p # None => s.pc[p] = "user" /\ p \notin s.flags.dying,
           NEW b, NEW k, NEW r, \A q \in Parent : Alone(s, b, k, r, q)
    PROVE  \A q \in Parent : Alone(t, b, k, r, q)
<1>1. /\ s \in State /\ Parent \cap Sub = {} /\ u \in Sub /\ u # None /\ s.req[u] = None
      /\ t.delay = Append(s.delay, Valid(t, u)) /\ Valid(t, u) \in Conn \X Nat
      /\ \A c \in Conn \ {u} : Keeps(s, t, c)
  BY UpstreamAssumption, TypesOf DEF Core, Starts, Valid, Conn
<1>2. ASSUME NEW q \in Parent PROVE Alone(t, b, k, r, q)
  <2>1. /\ Keeps(s, t, q) /\ Alone(s, b, k, r, q) /\ Awaited(s, b, k, r, q)
        /\ Valid(t, u) # Valid(s, q)
    BY <1>1 DEF Conn, Alone, Valid
  <2>a. Once(s.delay, Valid(s, q)) /\ t.version[q] = s.version[q]
    BY <2>1 DEF Awaited, Keeps
  <2>2. (QueuedIn(t, q) <=> QueuedIn(s, q)) /\ Once(t.delay, Valid(s, q))
    <3> DEFINE e == Valid(t, u)
    <3>1. Enqueues(s, t, e) /\ e # Valid(s, q)
      BY <1>1, <2>1 DEF Enqueues
    <3> HIDE DEF e
    <3> QED BY <2>a, <3>1, OthersEntry
  <2>3. CASE q # p
    <3>1. u \notin s.family[q].subs /\ t.family[q].subs = s.family[q].subs
      BY <1>1, <2>3 DEF Core, Related, ChildrenOf, Starts
    <3>2. \A v \in s.family[q].subs : v \in s.flags.parentDying => v \in t.flags.parentDying
      <4>1. s.family[q].subs \subseteq Conn
        BY <1>1, TypesOf DEF Conn
      <4> QED BY <1>1, <3>1, <4>1 DEF Keeps
    <3> QED BY <2>1, <2>2, <3>1, <3>2, StaysAlone
  <2>4. CASE q = p
    <3>1. /\ s.pc[q] = "user" /\ q \notin s.flags.dying /\ ~Doomed(s, q)
          /\ t.pc[q] = "user" /\ q \notin t.flags.dying /\ ~Doomed(t, q)
      BY <2>1, <2>4, UpstreamAssumption DEF Keeps, Doomed
    <3>2. Told(t, q)
      BY <3>1 DEF Told
    <3>3. Awaited(t, b, k, r, q)
      BY <2>1, <2>2, <3>1 DEF Awaited, Keeps, Valid
    <3> QED BY <3>2, <3>3 DEF Alone
  <2> QED BY <2>3, <2>4
<1> QED BY <1>2

LEMMA EndsAlone ==
    ASSUME NEW s, NEW h, NEW u \in Sub, Core(s, h, u, None, None), NEW t \in State, Ends(s, u, t),
           NEW b, NEW k, NEW r, \A q \in Parent : Alone(s, b, k, r, q)
    PROVE  \A q \in Parent : Alone(t, b, k, r, q)
<1> DEFINE p == s.req[u].parent
<1>1. /\ s \in State /\ Parent \cap Sub = {} /\ u # None
      /\ \A c \in Conn \ {u} : Keeps(s, t, c)
  BY UpstreamAssumption DEF Core, Ends
<1>2. /\ \A q \in Parent : u \in s.family[q].subs <=> q = p
      /\ \A q \in Parent : s.pc[q] # "user"
  <2>1. s.pc[u] # "idle"
    BY DEF Core, Placed, Conn
  <2>2. \A q \in Parent : u \in s.family[q].subs <=> q = p
    BY <1>1, <2>1, InUse
  <2> QED BY <1>1, <2>2 DEF Core, Placed, Conn
<1>3. /\ p = None => t.delay = s.delay /\ SameFamilies(s, t)
      /\ p # None =>
            /\ p \in Parent /\ u \in s.family[p].subs
            /\ \A q \in Parent : t.family[q].subs = IF q = p THEN s.family[q].subs \ {u}
                                                    ELSE s.family[q].subs
            /\ t.delay = IF t.family[p].subs = {} THEN Append(s.delay, Valid(s, p)) ELSE s.delay
  BY DEF Ends
<1> HIDE DEF p
<1>4. ASSUME NEW q \in Parent PROVE Alone(t, b, k, r, q)
  <2>1. /\ Keeps(s, t, q) /\ Alone(s, b, k, r, q) /\ Awaited(s, b, k, r, q)
        /\ Once(s.delay, Valid(s, q)) /\ t.version[q] = s.version[q]
    BY <1>1 DEF Conn, Alone, Awaited, Keeps
  <2>2. t.delay = s.delay => (QueuedIn(t, q) <=> QueuedIn(s, q)) /\ Once(t.delay, Valid(s, q))
    BY <2>1 DEF QueuedIn, Valid
  <2>3. s.family[q].subs \subseteq Conn
    BY <1>1, TypesOf DEF Conn
  <2>4. CASE q # p
    <3>1. (QueuedIn(t, q) <=> QueuedIn(s, q)) /\ Once(t.delay, Valid(s, q))
      <4>1. CASE t.delay = s.delay
        BY <2>2, <4>1
      <4>2. CASE t.delay # s.delay
        <5>1. t.delay = Append(s.delay, Valid(s, p)) /\ p \in Parent
          BY <1>3, <4>2
        <5>2. Valid(s, p) # Valid(s, q) /\ Valid(s, p) \in Conn \X Nat
          BY <1>1, <2>4, <5>1, TypesOf DEF Valid, Conn
        <5> DEFINE e == Valid(s, p)
        <5>3. Enqueues(s, t, e) /\ e # Valid(s, q)
          BY <1>1, <5>1, <5>2 DEF Enqueues
        <5> HIDE DEF e
        <5> QED BY <2>1, <5>3, OthersEntry
      <4> QED BY <4>1, <4>2
    <3>2. u \notin s.family[q].subs /\ t.family[q].subs = s.family[q].subs
      BY <1>2, <1>3, <2>4 DEF SameFamilies
    <3>3. \A v \in s.family[q].subs : v \in s.flags.parentDying => v \in t.flags.parentDying
      BY <1>1, <2>3, <3>2 DEF Keeps
    <3> QED BY <2>1, <3>1, <3>2, <3>3, StaysAlone
  <2>5. CASE q = p
    <3>1. /\ p # None /\ u \in s.family[q].subs /\ t.family[q].subs = s.family[q].subs \ {u}
          /\ t.delay = IF t.family[q].subs = {} THEN Append(s.delay, Valid(s, q)) ELSE s.delay
      BY <1>3, <2>5, UpstreamAssumption
    <3>2. Told(t, q)
      <4>1. \A v \in t.family[q].subs : v \in s.flags.parentDying => v \in t.flags.parentDying
        BY <1>1, <2>3, <3>1 DEF Keeps
      <4> QED BY <2>1, <3>1, <4>1 DEF Alone, Told, Keeps
    <3>3. s.pc[q] = "join" /\ ~QueuedIn(s, q)
      <4>1. s.pc[q] \in ParentPc /\ s.pc[q] # "user" /\ s.pc[q] # "idle"
        BY <1>2, <3>1 DEF Core, Placed, Related, ChildrenOf
      <4> QED BY <2>1, <3>1, <4>1 DEF Awaited, ParentPc
    <3>4. Once(t.delay, Valid(s, q)) /\ (QueuedIn(t, q) => t.family[q].subs = {})
      <4>1. CASE t.family[q].subs = {}
        <5>1. t.delay = Append(s.delay, Valid(s, q))
          BY <3>1, <4>1
        <5>2. Valid(s, q) \in Conn \X Nat
          BY <1>1, TypesOf DEF Valid, Conn
        <5>3. Once(t.delay, Valid(s, q))
          <6> DEFINE e == Valid(s, q)
          <6>1. Enqueues(s, t, e)
            BY <1>1, <5>1, <5>2 DEF Enqueues
          <6> HIDE DEF e
          <6> QED BY <2>1, <3>3, <6>1, OthersEntry
        <5> QED BY <4>1, <5>3
      <4>2. CASE t.family[q].subs # {}
        BY <2>2, <3>1, <3>3, <4>2
      <4> QED BY <4>1, <4>2
    <3>5. Awaited(t, b, k, r, q)
      BY <2>1, <3>3, <3>4 DEF Awaited, Keeps, Valid, Doomed
    <3> QED BY <3>2, <3>5 DEF Alone
  <2> QED BY <2>4, <2>5
<1> QED BY <1>4

(* Only a sub-request whose parent is not dying is tried again.            *)
LEMMA MovesAlone ==
    ASSUME NEW s, NEW h, NEW u \in Sub, Core(s, h, u, None, None), NEW t \in State,
           NEW v, Moves(s, u, v, t), u \notin s.flags.parentDying,
           NEW b, NEW k, NEW r, \A q \in Parent : Alone(s, b, k, r, q)
    PROVE  /\ \A q \in Parent : Alone(t, b, k, r, q)
           /\ s.req[u].parent \notin s.flags.dying
<1> DEFINE p == s.req[u].parent
<1>1. /\ s \in State /\ Parent \cap Sub = {} /\ u # None /\ v \in Sub /\ v # None
      /\ t.delay = Append(s.delay, Valid(t, v)) /\ Valid(t, v) \in Conn \X Nat
      /\ v # u => s.req[v] = None
      /\ \A c \in Conn \ {u, v} : Keeps(s, t, c)
  BY UpstreamAssumption, TypesOf DEF Core, Moves, Valid, Conn
<1>2. \A q \in Parent : u \in s.family[q].subs <=> q = p
  <2>1. s.pc[u] # "idle"
    BY DEF Core, Placed, Conn
  <2> QED BY <1>1, <2>1, InUse
<1>3. /\ p = None => SameFamilies(s, t)
      /\ p # None => p \in Parent /\ \A q \in Parent \ {p} : t.family[q].subs = s.family[q].subs
  BY DEF Moves
<1>4. p \notin s.flags.dying
  <2>1. CASE p \in Parent
    BY <1>2, <2>1 DEF Alone, Told
  <2>2. CASE p \notin Parent
    BY <1>1, <1>3, <2>2, TypesOf, UpstreamAssumption DEF Conn
  <2> QED BY <2>1, <2>2
<1> HIDE DEF p
<1>5. ASSUME NEW q \in Parent PROVE Alone(t, b, k, r, q)
  <2>1. /\ Keeps(s, t, q) /\ Alone(s, b, k, r, q) /\ Awaited(s, b, k, r, q)
        /\ Valid(t, v) # Valid(s, q)
    BY <1>1 DEF Conn, Alone, Valid
  <2>a. Once(s.delay, Valid(s, q)) /\ t.version[q] = s.version[q]
    BY <2>1 DEF Awaited, Keeps
  <2>2. (QueuedIn(t, q) <=> QueuedIn(s, q)) /\ Once(t.delay, Valid(s, q))
    <3> DEFINE e == Valid(t, v)
    <3>1. Enqueues(s, t, e) /\ e # Valid(s, q)
      BY <1>1, <2>1 DEF Enqueues
    <3> HIDE DEF e
    <3>2. Once(t.delay, Valid(s, q)) /\ (QueuedIn(t, q) <=> QueuedIn(s, q) \/ e = Valid(s, q))
      BY <2>a, <3>1, OthersEntry
    <3> QED BY <3>1, <3>2
  <2>3. CASE q # p
    <3>1. u \notin s.family[q].subs /\ v \notin s.family[q].subs
          /\ t.family[q].subs = s.family[q].subs
      BY <1>1, <1>2, <1>3, <2>3 DEF Core, Related, ChildrenOf, SameFamilies
    <3>2. \A x \in s.family[q].subs : x \in s.flags.parentDying => x \in t.flags.parentDying
      <4>1. s.family[q].subs \subseteq Conn
        BY <1>1, TypesOf DEF Conn
      <4> QED BY <1>1, <3>1, <4>1 DEF Keeps
    <3> QED BY <2>1, <2>2, <3>1, <3>2, StaysAlone
  <2>4. CASE q = p
    <3>1. q \notin s.flags.dying /\ q \notin t.flags.dying /\ t.pc[q] = s.pc[q]
          /\ u \in s.family[q].subs /\ s.family[q].subs # {}
      BY <1>2, <1>4, <2>1, <2>4 DEF Keeps
    <3>2. Told(t, q)
      BY <3>1 DEF Told
    <3>3. ~QueuedIn(t, q) /\ s.pc[q] \notin {"sleep", "yield"}
      BY <2>1, <2>2, <3>1 DEF Awaited
    <3>4. Awaited(t, b, k, r, q)
      BY <2>1, <2>2, <3>1, <3>3 DEF Awaited, Keeps, Valid, Doomed
    <3> QED BY <3>2, <3>4 DEF Alone
  <2> QED BY <2>3, <2>4
<1> QED BY <1>4, <1>5 DEF p

(* Before its dispatch connection c may be found dying, and an entry of    *)
(* the queue or a timer is taken.                                          *)
LEMMA Aside ==
    ASSUME NEW s, NEW t, NEW c, NEW p \in Parent, NEW b, NEW k, NEW r, Alone(s, b, k, r, p),
           t.version = s.version, t.pc = s.pc, t.net = s.net, t.armed = s.armed,
           t.family = s.family, t.flags.parentDying = s.flags.parentDying,
           \A d \in Parent \ {c} : d \in t.flags.dying <=> d \in s.flags.dying,
           p = c => s.pc[p] # "user", QueuedIn(t, p) => QueuedIn(s, p), Once(t.delay, Valid(s, p))
    PROVE  /\ Awaited(t, b, k, r, p)
           /\ p # c \/ t.flags.dying = s.flags.dying => Alone(t, b, k, r, p)
<1>1. Valid(t, p) = Valid(s, p) /\ (Doomed(t, p) <=> Doomed(s, p))
  BY DEF Valid, Doomed
<1>2. Awaited(t, b, k, r, p)
  BY <1>1 DEF Alone, Awaited
<1>3. p # c \/ t.flags.dying = s.flags.dying => Told(t, p)
  BY DEF Alone, Told
<1> QED BY <1>2, <1>3 DEF Alone

LEMMA FewerAlone ==
    ASSUME NEW s, NEW p, NEW b, NEW k, NEW r, Alone(s, b, k, r, p),
           NEW b2, NEW k2, NEW r2, \A e \in b2 : e \in b, \A e \in k2 : e \in k,
           \A e \in r2 : e \in r
    PROVE  Alone(s, b2, k2, r2, p)
BY FewerAwaited DEF Alone

LEMMA EventAlone ==
    ASSUME NEW s, NEW h, Core(s, h, None, None, None), NEW b, NEW k, NEW r,
           \A e \in b \cup k \cup r : e \in h, \A p \in Parent : Alone(s, b, k, r, p),
           NEW c \in Conn, Valid(s, c) \in b, NEW x, Ready(x, h, c),
           \/ IsDying(s, c, x)
           \/ x = s /\ ~(s.net[c] = "closed" /\ c \notin s.armed),
           NEW t, NEW w, Dispatches(x, c, t, w)
    PROVE  /\ \A p \in Parent : Alone(t, b \ {Valid(s, c)}, k, r, p)
           /\ c \in Parent => Poised(x, b \ {Valid(s, c)}, k, r, c)
<1> DEFINE b2 == b \ {Valid(s, c)}
<1>1. /\ x.version = s.version /\ x.pc = s.pc /\ x.net = s.net /\ x.armed = s.armed
      /\ x.family = s.family /\ x.flags.parentDying = s.flags.parentDying /\ x.delay = s.delay
      /\ \A d \in Parent \ {c} : d \in x.flags.dying <=> d \in s.flags.dying
  BY DEF IsDying
<1>2. c \in Parent => s.pc[c] # "user"
  BY UpstreamAssumption DEF Core, Placed
<1>3. ASSUME NEW p \in Parent PROVE Awaited(x, b2, k, r, p) /\ (p # c => Alone(x, b2, k, r, p))
  <2>1. Alone(s, b2, k, r, p)
    BY FewerAlone
  <2>2. (QueuedIn(x, p) => QueuedIn(s, p)) /\ Once(x.delay, Valid(s, p))
    BY <1>1, <2>1 DEF QueuedIn, Valid, Alone, Awaited
  <2>3. p = c => s.pc[p] # "user"
    BY <1>2
  <2> HIDE DEF b2
  <2>4. /\ Awaited(x, b2, k, r, p)
        /\ p # c \/ x.flags.dying = s.flags.dying => Alone(x, b2, k, r, p)
    BY <1>1, <2>1, <2>2, <2>3, Aside
  <2> QED BY <2>4
<1>4. ASSUME c \in Parent, c \notin x.flags.dying
      PROVE  /\ x = s /\ x.family[c].subs = {} /\ ~QueuedIn(x, c) /\ Valid(x, c) \notin k \cup r
             /\ c \in x.armed => x.net[c] = "closed"
  <2>1. x = s /\ ~(s.net[c] = "closed" /\ c \notin s.armed)
    BY <1>4 DEF IsDying
  <2>2. Awaited(s, b, k, r, c) /\ ChildrenOf(s, c, None)
    BY <1>4 DEF Core, Related, Alone
  <2>3. s.pc[c] = "idle"
    BY <2>1, <2>2 DEF Awaited
  <2> QED BY <1>4, <2>1, <2>2, <2>3 DEF Awaited, ChildrenOf, Doomed
<1>5. Valid(x, c) \notin b2
  BY <1>1 DEF Valid
<1>6. c \in Parent => Poised(x, b2, k, r, c)
  BY <1>3, <1>4, <1>5 DEF Poised
<1>7. \A e \in b2 \cup k \cup r : e \in h
  OBVIOUS
<1> HIDE DEF b2
<1>8. \A p \in Parent : Alone(t, b2, k, r, p)
  BY <1>3, <1>6, <1>7, DispatchAlone
<1> QED BY <1>6, <1>8 DEF b2

LEMMA TakenAlone ==
    ASSUME NEW s, NEW h, Core(s, h, None, None, None), NEW b, NEW k, NEW r,
           \A e \in b \cup k \cup r : e \in h, \A p \in Parent : Alone(s, b, k, r, p),
           s.delay # << >>, NEW x, x.delay = Tail(s.delay),
           x.version = s.version, x.pc = s.pc, x.net = s.net, x.armed = s.armed,
           x.family = s.family, x.flags = s.flags
    PROVE  /\ \A p \in Parent : Alone(x, b, k, r, p)
           /\ \A c \in Parent : Head(s.delay) = Valid(s, c) => Poised(x, b, k, r, c)
<1>1. s.delay \in Seq(Conn \X Nat)
  BY TypesOf DEF Core
<1>2. Range(s.delay) = Range(x.delay) \cup {Head(s.delay)}
  BY <1>1, RangeTail
<1>3. ASSUME NEW p \in Parent
      PROVE  /\ Once(s.delay, Valid(s, p)) /\ Once(x.delay, Valid(s, p))
             /\ Head(s.delay) = Valid(s, p) => ~QueuedIn(x, p) /\ QueuedIn(s, p)
             /\ QueuedIn(x, p) => QueuedIn(s, p)
  <2>1. Once(s.delay, Valid(s, p))
    BY DEF Alone, Awaited
  <2>2. Once(x.delay, Valid(s, p)) /\ (Valid(s, p) = Head(s.delay) => Valid(s, p) \notin Range(x.delay))
    BY <1>1, <2>1, OnceTail
  <2> QED BY <1>2, <2>1, <2>2 DEF QueuedIn, Valid
<1>4. ASSUME NEW p \in Parent PROVE Alone(x, b, k, r, p)
  <2>1. p # None
    BY UpstreamAssumption
  <2>2. Alone(s, b, k, r, p)
    OBVIOUS
  <2> QED BY <1>3, <2>1, <2>2, Aside
<1>5. ASSUME NEW c \in Parent, Head(s.delay) = Valid(s, c) PROVE Poised(x, b, k, r, c)
  <2>1. s.pc[c] # "user"
    BY UpstreamAssumption DEF Core, Placed, Conn
  <2>2. QueuedIn(s, c) /\ ~QueuedIn(x, c) /\ Awaited(s, b, k, r, c) /\ Awaited(x, b, k, r, c)
    BY <1>3, <1>4, <1>5 DEF Alone
  <2>3. s.pc[c] = "join" /\ s.family[c].subs = {} /\ Valid(s, c) \notin k \cup r
    BY <2>1, <2>2 DEF Awaited, Doomed
  <2> QED BY <2>2, <2>3 DEF Poised, Valid
<1> QED BY <1>4, <1>5

LEMMA YieldAlone ==
    ASSUME NEW s, NEW h, Core(s, h, None, None, None), NEW b, NEW k, NEW r,
           \A p \in Parent : Alone(s, b, k, r, p), NEW c \in Parent, Valid(s, c) \in k
    PROVE  Poised(s, b, k \ {Valid(s, c)}, r, c)
<1>1. s.pc[c] # "user"
  BY UpstreamAssumption DEF Core, Placed, Conn
<1>2. Awaited(s, b, k, r, c)
  BY DEF Alone
<1>3. Awaited(s, b, k \ {Valid(s, c)}, r, c)
  BY <1>2, FewerAwaited
<1>4. s.pc[c] = "yield" /\ s.family[c].subs = {} /\ Valid(s, c) \notin r /\ ~QueuedIn(s, c)
  BY <1>1, <1>2 DEF Awaited, Doomed
<1> QED BY <1>3, <1>4 DEF Poised

LEMMA FiredAlone ==
    ASSUME NEW s, NEW h, Core(s, h, None, None, None), NEW b, NEW k, NEW r,
           \A p \in Parent : Alone(s, b, k, r, p), NEW m \in s.timers, NEW x, IsFired(s, m, x)
    PROVE  /\ \A p \in Parent \ {m[1]} : Alone(x, b, k, r, p)
           /\ m[1] \in Parent => Poised(x, b, k, r, m[1])
<1> DEFINE c == m[1]
<1>1. m = <<c, m[2]>> /\ c \in Conn
  BY TypesOf DEF Core, Timer
<1>2. /\ x.version = s.version /\ x.pc = s.pc /\ x.net = s.net /\ x.armed = s.armed
      /\ x.family = s.family /\ x.flags.parentDying = s.flags.parentDying /\ x.delay = s.delay
      /\ \A d \in Parent \ {c} : d \in x.flags.dying <=> d \in s.flags.dying
  BY DEF IsFired
<1>3. c \in Parent => s.pc[c] # "user"
  BY UpstreamAssumption DEF Core, Placed, Conn
<1>4. ASSUME NEW p \in Parent PROVE Awaited(x, b, k, r, p) /\ (p # c => Alone(x, b, k, r, p))
  <2>1. Alone(s, b, k, r, p)
    OBVIOUS
  <2>2. (QueuedIn(x, p) => QueuedIn(s, p)) /\ Once(x.delay, Valid(s, p))
    BY <1>2, <2>1 DEF QueuedIn, Valid, Alone, Awaited
  <2>3. p = c => s.pc[p] # "user"
    BY <1>3
  <2> HIDE DEF c
  <2>4. /\ Awaited(x, b, k, r, p)
        /\ p # c \/ x.flags.dying = s.flags.dying => Alone(x, b, k, r, p)
    <3>1. x.version = s.version /\ x.pc = s.pc /\ x.net = s.net /\ x.armed = s.armed
      BY <1>2
    <3>2. /\ x.family = s.family /\ x.flags.parentDying = s.flags.parentDying
          /\ \A d \in Parent \ {c} : d \in x.flags.dying <=> d \in s.flags.dying
      BY <1>2
    <3> QED BY <2>1, <2>2, <2>3, <3>1, <3>2, Aside
  <2> QED BY <2>4
<1>5. ASSUME c \in Parent, c \notin x.flags.dying
      PROVE  /\ x.family[c].subs = {} /\ ~QueuedIn(x, c) /\ Valid(x, c) \notin k \cup r
             /\ x.pc[c] # "idle"
  <2>1. m[2] = "sleep"
    BY <1>5 DEF IsFired
  <2>2. <<c, "sleep">> \in s.timers
    BY <1>1, <2>1
  <2>3. s.pc[c] = "sleep"
    BY <1>1, <2>2 DEF Core, Blocking
  <2>4. Awaited(x, b, k, r, c)
    BY <1>4, <1>5
  <2> QED BY <1>2, <2>3, <2>4 DEF Awaited, Doomed
<1> QED BY <1>4, <1>5 DEF Poised

-----------------------------------------------------------------------------
(* What the steps are for CoForkJoin, in terms of the state s.             *)
View(s, p) == HandlerState[s.pc[p]]
Pending(s, p) == Cardinality(s.family[p].subs)
Same(s, t, p) == View(t, p) = View(s, p) /\ Pending(t, p) = Pending(s, p)
Serve(s, t, p) ==
    LET a == View(s, p)  z == View(t, p)  m == Pending(s, p)  n == Pending(t, p) IN
    \/ a = "away" /\ z = "working" /\ n = m
    \/ a = "working" /\ z = "working" /\ n = m + 1
    \/ a = "working" /\ z = "joining" /\ n = m
    \/ m > 0 /\ n = m - 1 /\ z = a
    \/ m = 0 /\ n = 0 /\ a = "joining" /\ z = "working"
    \/ m = 0 /\ n = 0 /\ a = "working" /\ z = "away"
Serves(s, t) ==
    \/ \A p \in Parent : Same(s, t, p)
    \/ \E p \in Parent : Serve(s, t, p) /\ \A q \in Parent \ {p} : Same(s, t, q)

LEMMA SameServes ==
    ASSUME NEW s, NEW t, t.pc = s.pc, t.family = s.family PROVE Serves(s, t)
BY DEF Serves, Same, View, Pending

LEMMA NoneOpen == Cardinality({}) = 0
BY FS_EmptySet

LEMMA DispatchServes ==
    ASSUME NEW s, NEW h, NEW c \in Conn, Ready(s, h, c), NEW t, NEW w, Dispatches(s, c, t, w),
           c \in Parent /\ c \notin s.flags.dying => s.family[c].subs = {}
    PROVE  Serves(s, t)
<1>1. /\ s \in State /\ Core(s, h, None, None, None) /\ Parent \cap Sub = {}
      /\ Conn = Parent \cup Sub
  BY UpstreamAssumption DEF Ready, Core, Conn
<1>2. CASE t = s \/ IsQuick(s, c, t) \/ (c \in Parent /\ IsClosed(s, c, t))
  <2>1. t.pc = s.pc /\ t.family = s.family
    BY <1>2 DEF IsQuick, IsClosed
  <2> QED BY <2>1, SameServes
<1>3. CASE c \in Sub /\ IsFreeIdle(s, c, t)
  <2>1. t.family = s.family /\ \A p \in Parent : t.pc[p] = s.pc[p]
    BY <1>1, <1>3, TypesOf DEF IsFreeIdle
  <2> QED BY <2>1 DEF Serves, Same, View, Pending
<1>4. CASE (c \in s.flags.dying /\ c \in Parent => s.family[c].subs = {}) /\ IsEntered(s, c, t)
  <2>1. t.family = s.family /\ \A p \in Conn \ {c} : t.pc[p] = s.pc[p]
    BY <1>1, <1>4, TypesOf DEF IsEntered
  <2>2. \A p \in Parent \ {c} : Same(s, t, p)
    BY <1>1, <2>1 DEF Same, View, Pending
  <2>3. CASE c \in Sub
    BY <1>1, <2>2, <2>3 DEF Serves
  <2>4. CASE c \in Parent
    <3>1. /\ s.pc[c] \in ParentPc \ {"user"} /\ t.pc[c] = Awake[s.pc[c]] /\ s.family[c].subs = {}
      BY <1>1, <1>4, <2>4, TypesOf, UpstreamAssumption DEF Core, Placed, IsEntered
    <3>2. Pending(s, c) = 0 /\ Pending(t, c) = 0
      BY <2>1, <3>1, NoneOpen DEF Pending
    <3>3. \/ View(s, c) = "away" /\ View(t, c) = "working"
          \/ View(s, c) = "working" /\ View(t, c) = "working"
          \/ View(s, c) = "joining" /\ View(t, c) = "working"
      BY <3>1 DEF View, HandlerState, Awake, ParentPc
    <3>4. Same(s, t, c) \/ Serve(s, t, c)
      BY <3>2, <3>3 DEF Same, Serve
    <3> QED BY <2>2, <2>4, <3>4 DEF Serves
  <2> QED BY <1>1, <2>3, <2>4
<1> QED BY <1>2, <1>3, <1>4 DEF Dispatches

LEMMA StartsServes ==
    ASSUME NEW s, NEW h, NEW w, Core(s, h, w, None, None), NEW p \in Parent \cup {None}, NEW u,
           NEW t, Starts(s, p, u, t), p # None => s.pc[p] = "user"
    PROVE  Serves(s, t)
<1>1. /\ s \in State /\ Parent \cap Sub = {} /\ u \in Sub /\ u # None /\ s.req[u] = None
      /\ \A q \in Parent : t.pc[q] = s.pc[q]
  <2>0. u \in Sub
    BY DEF Starts
  <2>1. \A c \in Conn \ {u} : Keeps(s, t, c)
    BY DEF Starts
  <2>2. Parent \cap Sub = {} /\ Parent \subseteq Conn
    BY UpstreamAssumption DEF Conn
  <2>3. \A q \in Parent : t.pc[q] = s.pc[q]
    BY <2>1, <2>2, <2>0 DEF Keeps
  <2> QED BY <2>2, <2>3, UpstreamAssumption DEF Core, Starts
<1>2. \A q \in Parent \ {p} : Same(s, t, q)
  BY <1>1 DEF Starts, Same, View, Pending
<1>3. CASE p = None
  BY <1>2, <1>3, UpstreamAssumption DEF Serves
<1>4. CASE p # None
  <2> DEFINE a == s.family[p].subs
  <2>1. p \in Parent /\ View(s, p) = "working" /\ View(t, p) = "working" /\ t.family[p].subs = a \cup {u}
    <3>1. p \in Parent /\ s.pc[p] = "user" /\ t.pc[p] = "user"
      BY <1>1, <1>4
    <3>2. t.family[p].subs = a \cup {u}
      BY <3>1 DEF Starts
    <3> QED BY <3>1, <3>2 DEF View, HandlerState
  <2>2. u \notin a
    <3>1. ChildrenOf(s, p, None)
      BY <2>1 DEF Core, Related
    <3>2. u \in a => s.req[u] # None
      BY <1>1, <3>1 DEF ChildrenOf
    <3> HIDE DEF a
    <3> QED BY <1>1, <3>2
  <2>3. IsFiniteSet(a)
    <3>1. a \subseteq Sub
      BY <1>1, <2>1, TypesOf
    <3>2. IsFiniteSet(Sub)
      BY UpstreamAssumption
    <3> HIDE DEF a
    <3> QED BY <3>1, <3>2, FS_Subset
  <2> HIDE DEF a
  <2>4. Cardinality(a \cup {u}) = Cardinality(a) + 1
    BY <2>2, <2>3, FS_AddElement
  <2>5. Serve(s, t, p)
    BY <2>1, <2>4 DEF Serve, Pending, a
  <2> QED BY <1>2, <2>1, <2>5 DEF Serves
<1> QED BY <1>3, <1>4

LEMMA EndsServes ==
    ASSUME NEW s, NEW h, NEW u \in Sub, Core(s, h, u, None, None), NEW t, Ends(s, u, t)
    PROVE  Serves(s, t)
<1> DEFINE p == s.req[u].parent
<1>1. /\ s \in State /\ Parent \cap Sub = {}
      /\ \A q \in Parent : t.pc[q] = s.pc[q]
  <2>1. \A c \in Conn \ {u} : Keeps(s, t, c)
    BY DEF Ends
  <2>2. Parent \cap Sub = {} /\ Parent \subseteq Conn
    BY UpstreamAssumption DEF Conn
  <2>3. \A q \in Parent : t.pc[q] = s.pc[q]
    BY <2>1, <2>2 DEF Keeps
  <2> QED BY <2>2, <2>3, UpstreamAssumption DEF Core, Ends
<1>2. CASE p = None
  BY <1>1, <1>2 DEF Serves, Same, View, Pending, Ends, SameFamilies
<1>3. CASE p # None
  <2> DEFINE a == s.family[p].subs
  <2>1. p \in Parent /\ View(s, p) = View(t, p) /\ t.family[p].subs = a \ {u} /\ u \in a
    BY <1>1, <1>3 DEF View, Ends
  <2>2. \A q \in Parent \ {p} : Same(s, t, q)
    BY <1>1, <1>3 DEF Ends, Same, View, Pending
  <2>3. IsFiniteSet(a)
    <3>1. a \subseteq Sub
      BY <1>1, <2>1, TypesOf
    <3>2. IsFiniteSet(Sub)
      BY UpstreamAssumption
    <3> HIDE DEF a
    <3> QED BY <3>1, <3>2, FS_Subset
  <2> HIDE DEF a
  <2>4. Cardinality(a \ {u}) = Cardinality(a) - 1 /\ Cardinality(a) \in Nat
        /\ IsFiniteSet(a \ {u})
    BY <2>1, <2>3, FS_RemoveElement, FS_CardinalityType
  <2>5. Cardinality(a) > 0
    <3>1. Cardinality(a \ {u}) \in Nat
      BY <2>4, FS_CardinalityType
    <3> QED BY <2>4, <3>1
  <2>6. Pending(s, p) = Cardinality(a) /\ Pending(t, p) = Cardinality(a) - 1
    BY <2>1, <2>4 DEF Pending, a
  <2> HIDE DEF p
  <2>7. Serve(s, t, p)
    BY <2>1, <2>5, <2>6 DEF Serve
  <2> QED BY <2>1, <2>2, <2>7 DEF Serves
<1> QED BY <1>2, <1>3

LEMMA MovesServes ==
    ASSUME NEW s, NEW h, NEW u \in Sub, Core(s, h, u, None, None), NEW v, NEW t, Moves(s, u, v, t)
    PROVE  Serves(s, t)
<1> DEFINE p == s.req[u].parent
<1>1. /\ s \in State /\ Parent \cap Sub = {} /\ v \in Sub /\ v # None /\ (v # u => s.req[v] = None)
      /\ \A q \in Parent : t.pc[q] = s.pc[q]
  <2>0. v \in Sub
    BY DEF Moves
  <2>1. \A c \in Conn \ {u, v} : Keeps(s, t, c)
    BY DEF Moves
  <2>2. Parent \cap Sub = {} /\ Parent \subseteq Conn
    BY UpstreamAssumption DEF Conn
  <2>3. \A q \in Parent : t.pc[q] = s.pc[q]
    BY <2>1, <2>2, <2>0 DEF Keeps
  <2> QED BY <2>2, <2>3, UpstreamAssumption DEF Core, Moves
<1>2. CASE p = None
  BY <1>1, <1>2 DEF Serves, Same, View, Pending, Moves, SameFamilies
<1>3. CASE p # None
  <2> DEFINE a == s.family[p].subs
             d == a \ {u}
  <2>1. p \in Parent /\ t.family[p].subs = d \cup {v} /\ u \in a
    BY <1>3 DEF Moves
  <2>2. v \notin d
    <3>1. ChildrenOf(s, p, None)
      BY <2>1 DEF Core, Related
    <3>2. v \in a => s.req[v] # None
      BY <1>1, <3>1 DEF ChildrenOf
    <3> HIDE DEF a
    <3> QED BY <1>1, <3>2
  <2>3. IsFiniteSet(a)
    <3>1. a \subseteq Sub
      BY <1>1, <2>1, TypesOf
    <3>2. IsFiniteSet(Sub)
      BY UpstreamAssumption
    <3> HIDE DEF a
    <3> QED BY <3>1, <3>2, FS_Subset
  <2> HIDE DEF a
  <2>4. Cardinality(d) = Cardinality(a) - 1 /\ IsFiniteSet(d) /\ Cardinality(a) \in Nat
    BY <2>1, <2>3, FS_RemoveElement, FS_CardinalityType
  <2> HIDE DEF d
  <2>5. Cardinality(d \cup {v}) = Cardinality(d) + 1
    BY <2>2, <2>4, FS_AddElement
  <2>6. Same(s, t, p)
    <3>1. Pending(t, p) = Cardinality(d \cup {v}) /\ Pending(s, p) = Cardinality(a)
      BY <2>1 DEF Pending, a
    <3>2. Pending(t, p) = Pending(s, p)
      BY <2>4, <2>5, <3>1
    <3>3. View(t, p) = View(s, p)
      BY <1>1, <2>1 DEF View
    <3> QED BY <3>2, <3>3 DEF Same
  <2>7. \A q \in Parent \ {p} : Same(s, t, q)
    BY <1>1, <1>3 DEF Moves, Same, View, Pending
  <2> QED BY <2>6, <2>7 DEF Serves
<1> QED BY <1>2, <1>3

(* A connection that is given a sub-request has it for the first time, or  *)
(* from a parent that is not dying.                                        *)
Tried(s, t) == \A u \in Sub :
    \/ t.req[u] = s.req[u] \/ t.req[u] = None \/ t.req[u].tries = 0
    \/ t.req[u].parent \notin s.flags.dying
Lawful(s, t) == Serves(s, t) /\ Tried(s, t)

LEMMA DispatchLawful ==
    ASSUME NEW s, NEW x, x.pc = s.pc, x.family = s.family, x.req = s.req,
           NEW h, NEW c \in Conn, Ready(x, h, c), NEW t, NEW w, Dispatches(x, c, t, w),
           c \in Parent /\ c \notin x.flags.dying => x.family[c].subs = {}
    PROVE  Lawful(s, t)
<1>1. Serves(x, t)
  BY DispatchServes
<1>2. Serves(s, t)
  <2>1. \A p \in Parent : View(s, p) = View(x, p) /\ Pending(s, p) = Pending(x, p)
    BY DEF View, Pending
  <2>2. \A p \in Parent : (Same(x, t, p) => Same(s, t, p)) /\ (Serve(x, t, p) => Serve(s, t, p))
    BY <2>1 DEF Same, Serve
  <2> QED BY <1>1, <2>2 DEF Serves
<1>3. x \in State
  BY DEF Ready, Core
<1>4. ASSUME NEW u \in Sub PROVE t.req[u] = s.req[u] \/ t.req[u] = None
  <2>1. CASE t = x \/ IsQuick(x, c, t) \/ IsClosed(x, c, t) \/ IsEntered(x, c, t)
    BY <2>1 DEF IsQuick, IsClosed, IsEntered
  <2>2. CASE c \in Sub /\ IsFreeIdle(x, c, t)
    <3>1. t.req[u] = x.req[u] \/ t.req[u] = None
      BY <1>3, <2>2, FreeIdlePasses DEF Passed
    <3> QED BY <3>1
  <2> QED BY <2>1, <2>2 DEF Dispatches
<1> QED BY <1>2, <1>4 DEF Lawful, Tried

Lonely(s, b, k, r) == \A p \in Parent : Alone(s, b, k, r, p)
Apart == Lonely(Now, batch, resumes, tokens)

LEMMA SameLonely ==
    ASSUME NEW s, NEW t, NEW b, NEW k, NEW r, Lonely(s, b, k, r),
           t.version = s.version, t.pc = s.pc, t.flags = s.flags, t.net = s.net,
           t.armed = s.armed, t.family = s.family, t.delay = s.delay
    PROVE  Lonely(t, b, k, r)
BY DEF Lonely, Alone, Told, Awaited, Doomed, QueuedIn, Valid

LEMMA TakeEventApart ==
    ASSUME Inv, Apart, NEW e \in batch, TakeEvent(e)
    PROVE  Lonely(Now', batch', resumes', tokens') /\ Lawful(Now, Now')
<1> DEFINE c == e[1]
           s == Now
           t == Now'
           h == Held
           w == cur'
<1>1. /\ Core(s, h, None, None, None) /\ s \in State /\ e \in Conn \X Nat /\ c \in Conn
      /\ batch' = batch \ {e} /\ resumes' = resumes /\ tokens' = tokens
      /\ \A x \in batch \cup resumes \cup tokens : x \in h
  <2>1. Core(s, h, cur, None, None) /\ s \in State
    BY InvNow
  <2> QED BY <2>1 DEF Inv, Loops, TakeEvent, WorkerFree, Held
<1>2. \A p \in Parent : Alone(s, batch, resumes, tokens, p)
  BY DEF Apart, Lonely
<1>3. CASE e # Entry(c)
  <2>1. t = s
    <3>1. Becomes(Now)
      BY <1>3 DEF TakeEvent
    <3> QED BY <1>1, <3>1, NowIs
  <2> HIDE DEF s, t
  <2>2. Lonely(t, batch \ {e}, resumes, tokens)
    <3>1. ASSUME NEW p \in Parent PROVE Alone(s, batch \ {e}, resumes, tokens, p)
      BY <1>2, FewerAlone
    <3> QED BY <2>1, <3>1 DEF Lonely
  <2>3. Lawful(s, t)
    BY <2>1, SameServes DEF Lawful, Tried
  <2> QED BY <1>1, <2>2, <2>3 DEF s, t
<1>4. CASE e = Entry(c)
  <2>1. PICK x : /\ Ready(x, h, c) /\ Dispatches(x, c, t, w)
                 /\ \/ IsDying(s, c, x)
                    \/ x = s /\ ~(s.net[c] = "closed" /\ c \notin s.armed)
    BY <1>4, EventIs, NowFields
  <2>2. e = Valid(s, c)
    BY <1>4, NowFields DEF Entry, Valid
  <2> HIDE DEF s, t, h, w, c
  <2>3. /\ \A p \in Parent : Alone(t, batch \ {Valid(s, c)}, resumes, tokens, p)
        /\ c \in Parent => Poised(x, batch \ {Valid(s, c)}, resumes, tokens, c)
    BY <1>1, <1>2, <2>1, <2>2, EventAlone
  <2>4. Lawful(s, t)
    <3>1. x.pc = s.pc /\ x.family = s.family /\ x.req = s.req
      BY <2>1 DEF IsDying
    <3>2. c \in Parent /\ c \notin x.flags.dying => x.family[c].subs = {}
      BY <2>3 DEF Poised
    <3> QED BY <1>1, <2>1, <3>1, <3>2, DispatchLawful
  <2> QED BY <1>1, <2>2, <2>3, <2>4 DEF s, t, Lonely
<1> QED BY <1>3, <1>4

LEMMA TakeDelayApart ==
    ASSUME Inv, Apart, TakeDelay
    PROVE  Lonely(Now', batch', resumes', tokens') /\ Lawful(Now, Now')
<1> DEFINE s == Now
           t == Now'
           h == Held
           w == cur'
           x == [Now EXCEPT !.delay = Tail(@)]
           e == Head(delay)
           c == e[1]
<1>1. /\ Core(s, h, None, None, None) /\ s \in State
      /\ batch' = batch /\ resumes' = resumes /\ tokens' = tokens
      /\ \A d \in batch \cup resumes \cup tokens : d \in h
  <2>1. Core(s, h, cur, None, None) /\ s \in State
    BY InvNow
  <2> QED BY <2>1 DEF TakeDelay, WorkerFree, Held
<1>2. \A p \in Parent : Alone(s, batch, resumes, tokens, p)
  BY DEF Apart, Lonely
<1>3. /\ e \in Conn \X Nat
      /\ e # Valid(s, c) => t = x
      /\ e = Valid(s, c) => Ready(x, h, c) /\ Dispatches(x, c, t, w)
  BY DelayIs
<1>4. /\ x.version = s.version /\ x.pc = s.pc /\ x.net = s.net /\ x.armed = s.armed
      /\ x.family = s.family /\ x.flags = s.flags /\ x.req = s.req
      /\ x.delay = Tail(s.delay) /\ e = Head(s.delay) /\ s.delay # << >>
  <2>1. s.delay # << >> /\ e = Head(s.delay) /\ Sound(s, h, cur)
    BY NowFields DEF TakeDelay, Inv
  <2> QED BY <2>1, TailCore
<1> HIDE DEF s, t, h, w, x, e, c
<1>5. /\ \A p \in Parent : Alone(x, batch, resumes, tokens, p)
      /\ \A p \in Parent : Head(s.delay) = Valid(s, p) => Poised(x, batch, resumes, tokens, p)
  BY <1>1, <1>2, <1>4, TakenAlone
<1>6. CASE e # Valid(s, c)
  <2>1. Lawful(s, t)
    BY <1>3, <1>4, <1>6, SameServes DEF Lawful, Tried
  <2> QED BY <1>1, <1>3, <1>5, <1>6, <2>1 DEF s, t, Lonely
<1>7. CASE e = Valid(s, c)
  <2>1. c \in Conn
    BY <1>3 DEF c
  <2>2. c \in Parent => Poised(x, batch, resumes, tokens, c)
    BY <1>4, <1>5, <1>7
  <2>3. \A p \in Parent : Alone(t, batch, resumes, tokens, p)
    BY <1>1, <1>3, <1>5, <1>7, <2>1, <2>2, DispatchAlone
  <2>4. Lawful(s, t)
    <3>1. c \in Parent /\ c \notin x.flags.dying => x.family[c].subs = {}
      BY <2>2 DEF Poised
    <3> QED BY <1>3, <1>4, <1>7, <2>1, <3>1, DispatchLawful
  <2> QED BY <1>1, <2>3, <2>4 DEF s, t, Lonely
<1> QED BY <1>6, <1>7

LEMMA TakeResumeApart ==
    ASSUME Inv, Apart, NEW e \in resumes, TakeResume(e)
    PROVE  Lonely(Now', batch', resumes', tokens') /\ Lawful(Now, Now')
<1> DEFINE c == e[1]
           s == Now
           t == Now'
           h == Held
           w == cur'
<1>1. /\ Core(s, h, None, None, None) /\ s \in State
      /\ batch' = batch /\ resumes' = resumes \ {e} /\ tokens' = tokens
      /\ \A d \in batch \cup (resumes \ {e}) \cup tokens : d \in h
  <2>1. Core(s, h, cur, None, None) /\ s \in State
    BY InvNow
  <2> QED BY <2>1 DEF TakeResume, WorkerFree, Held
<1>2. \A p \in Parent : Alone(s, batch, resumes, tokens, p)
  BY DEF Apart, Lonely
<1>3. /\ c \in Parent
      /\ e # Valid(s, c) => t = s
      /\ e = Valid(s, c) => Ready(s, h, c) /\ Dispatches(s, c, t, w)
  BY WakeIs
<1> HIDE DEF s, t, h, w, c
<1>4. ASSUME NEW p \in Parent PROVE Alone(s, batch, resumes \ {e}, tokens, p)
  BY <1>2, FewerAlone
<1>5. CASE e # Valid(s, c)
  <2>1. Lawful(s, t)
    BY <1>3, <1>5, SameServes DEF Lawful, Tried
  <2> QED BY <1>1, <1>3, <1>4, <1>5, <2>1 DEF s, t, Lonely
<1>6. CASE e = Valid(s, c)
  <2>1. c \in Conn
    BY <1>3 DEF Conn
  <2>2. Poised(s, batch, resumes \ {e}, tokens, c)
    BY <1>1, <1>2, <1>3, <1>6, YieldAlone
  <2> DEFINE k == resumes \ {e}
  <2>5. Poised(s, batch, k, tokens, c) /\ \A p \in Parent : Alone(s, batch, k, tokens, p)
        /\ \A d \in batch \cup k \cup tokens : d \in h
    BY <1>1, <1>4, <2>2
  <2> HIDE DEF k
  <2>3. \A p \in Parent : Alone(t, batch, k, tokens, p)
    BY <1>3, <1>6, <2>1, <2>5, DispatchAlone
  <2>4. Lawful(s, t)
    <3>1. c \in Parent /\ c \notin s.flags.dying => s.family[c].subs = {}
      BY <2>2 DEF Poised
    <3> QED BY <1>3, <1>6, <2>1, <3>1, DispatchLawful
  <2> QED BY <1>1, <2>3, <2>4 DEF s, t, k, Lonely
<1> QED BY <1>5, <1>6

LEMMA TimerApart ==
    ASSUME Inv, Apart, NEW m \in timers, ProcessTimer(m)
    PROVE  Lonely(Now', batch', resumes', tokens') /\ Lawful(Now, Now')
<1> DEFINE c == m[1]
           s == Now
           t == Now'
           h == Held
           w == cur'
<1>1. /\ Core(s, h, None, None, None) /\ s \in State /\ m \in s.timers
      /\ batch' = batch /\ resumes' = resumes /\ tokens' = tokens
      /\ \A d \in batch \cup resumes \cup tokens : d \in h
  <2>1. Core(s, h, cur, None, None) /\ s \in State
    BY InvNow
  <2> QED BY <2>1, NowFields DEF ProcessTimer, WorkerFree, Held
<1>2. \A p \in Parent : Alone(s, batch, resumes, tokens, p)
  BY DEF Apart, Lonely
<1>3. c \in Conn
  BY TimerIs DEF Timer
<1>4. PICK x : IsFired(s, m, x) /\ Ready(x, h, c) /\ Dispatches(x, c, t, w)
  BY TimerIs
<1> HIDE DEF s, t, h, w
<1>5. /\ \A p \in Parent \ {c} : Alone(x, batch, resumes, tokens, p)
      /\ c \in Parent => Poised(x, batch, resumes, tokens, c)
  BY <1>1, <1>2, <1>4, FiredAlone
<1> HIDE DEF c
<1>6. \A p \in Parent : Alone(t, batch, resumes, tokens, p)
  BY <1>1, <1>3, <1>4, <1>5, DispatchAlone
<1>7. Lawful(s, t)
  <2>1. c \in Parent /\ c \notin x.flags.dying => x.family[c].subs = {}
    BY <1>5 DEF Poised
  <2>2. x.pc = s.pc /\ x.family = s.family /\ x.req = s.req
    BY <1>4 DEF IsFired
  <2> QED BY <1>3, <1>4, <2>1, <2>2, DispatchLawful
<1> QED BY <1>1, <1>6, <1>7 DEF s, t, Lonely

LEMMA LoopApart ==
    ASSUME Inv, Apart, Loop \/ Timers
    PROVE  Lonely(Now', batch', resumes', tokens') /\ Lawful(Now, Now')
<1>1. CASE \/ EventsDone \/ DelayDone \/ LoopAgain \/ LoopEnd \/ LookAtTimers \/ TimersDone
  <2>1. UNCHANGED <<version, pc, flags, net, armed, family, delay, req, batch, resumes, tokens>>
    BY <1>1 DEF EventsDone, DelayDone, LoopAgain, LoopEnd, LookAtTimers,
                TimersDone, NextPhase, LoopOnly, conns, queues
  <2> DEFINE s == Now
             t == Now'
  <2>2. /\ t.version = s.version /\ t.pc = s.pc /\ t.flags = s.flags /\ t.net = s.net
        /\ t.armed = s.armed /\ t.family = s.family /\ t.delay = s.delay /\ t.req = s.req
        /\ Lonely(s, batch, resumes, tokens)
    BY <2>1, NowFields DEF Apart
  <2> HIDE DEF s, t
  <2>3. Lonely(t, batch, resumes, tokens) /\ Lawful(s, t)
    BY <2>2, SameLonely, SameServes DEF Lawful, Tried
  <2> QED BY <2>1, <2>3 DEF s, t
<1>2. CASE EpollWait
  <2>1. /\ UNCHANGED <<version, pc, flags, net, family, delay, req, resumes, tokens>>
        /\ armed' = {} /\ batch' = {Entry(c) : c \in {d \in armed : net[d] # "quiet"}}
    BY <1>2 DEF EpollWait
  <2> DEFINE s == Now
             t == Now'
             b == batch'
  <2>2. /\ t.version = s.version /\ t.pc = s.pc /\ t.flags = s.flags /\ t.net = s.net
        /\ t.armed = {} /\ t.family = s.family /\ t.delay = s.delay /\ t.req = s.req
        /\ Lonely(s, batch, resumes, tokens)
        /\ \A e \in b : \E d \in s.armed : s.net[d] # "quiet" /\ e = Valid(s, d)
    BY <2>1, NowFields DEF Apart, Entry, Valid
  <2> HIDE DEF s, t, b
  <2>3. ASSUME NEW p \in Parent PROVE Alone(t, b, resumes, tokens, p)
    <3>1. Alone(s, batch, resumes, tokens, p)
      BY <2>2 DEF Lonely
    <3>2. Told(t, p) /\ (Doomed(t, p) <=> Doomed(s, p)) /\ Valid(t, p) = Valid(s, p)
          /\ (QueuedIn(t, p) <=> QueuedIn(s, p))
      BY <2>2, <3>1 DEF Alone, Told, Doomed, QueuedIn, Valid
    <3>3. Valid(t, p) \in b => p \in s.armed /\ s.net[p] # "quiet"
      BY <2>2, <3>2 DEF Valid
    <3>4. Awaited(t, b, resumes, tokens, p)
      BY <2>2, <3>1, <3>2, <3>3 DEF Alone, Awaited
    <3> QED BY <3>2, <3>4 DEF Alone
  <2>4. Lawful(s, t)
    BY <2>2, SameServes DEF Lawful, Tried
  <2> QED BY <2>1, <2>3, <2>4 DEF s, t, b, Lonely
<1>3. CASE TakeDelay
  BY <1>3, TakeDelayApart
<1>4. ASSUME NEW e \in batch, TakeEvent(e)
      PROVE  Lonely(Now', batch', resumes', tokens') /\ Lawful(Now, Now')
  BY <1>4, TakeEventApart
<1>5. ASSUME NEW e \in resumes, TakeResume(e)
      PROVE  Lonely(Now', batch', resumes', tokens') /\ Lawful(Now, Now')
  BY <1>5, TakeResumeApart
<1>6. ASSUME NEW m \in timers, ProcessTimer(m)
      PROVE  Lonely(Now', batch', resumes', tokens') /\ Lawful(Now, Now')
  BY <1>6, TimerApart
<1> QED BY <1>1, <1>2, <1>3, <1>4, <1>5, <1>6 DEF Loop, Timers

(* A handler that is not dying swaps out.                                  *)
LEMMA BlocksApart ==
    ASSUME NEW s, NEW t, NEW p \in Parent, NEW b, NEW k, NEW r, Lonely(s, b, k, r),
           s.pc[p] = "user", ~Doomed(s, p), t.pc[p] \in {"join", "sleep", "yield"},
           t.pc[p] # "join" => s.family[p].subs = {},
           \A q \in Parent \ {p} : t.pc[q] = s.pc[q],
           t.version = s.version, t.flags.dying = s.flags.dying,
           t.flags.parentDying = s.flags.parentDying, t.net = s.net,
           t.armed = s.armed, t.family = s.family, t.delay = s.delay,
           NEW r2, \A e \in r2 : e \in r \/ (e = Valid(s, p) /\ t.pc[p] = "yield")
    PROVE  Lonely(t, b, k, r2)
<1>1. ASSUME NEW q \in Parent PROVE Alone(t, b, k, r2, q)
  <2>1. Alone(s, b, k, r, q) /\ Valid(t, q) = Valid(s, q) /\ Told(t, q)
        /\ (QueuedIn(t, q) <=> QueuedIn(s, q))
    BY DEF Lonely, Alone, Told, QueuedIn, Valid
  <2>2. CASE q # p
    <3>1. Valid(s, q) # Valid(s, p) /\ t.pc[q] = s.pc[q] /\ (Doomed(t, q) <=> Doomed(s, q))
      BY <2>2 DEF Valid, Doomed
    <3> QED BY <2>1, <3>1 DEF Alone, Awaited
  <2>3. CASE q = p
    <3>1. Awaited(s, b, k, r, q) /\ ~QueuedIn(s, q) /\ Valid(s, q) \notin k \cup r /\ ~Doomed(t, q)
      BY <2>1, <2>3 DEF Alone, Awaited, Doomed
    <3>2. Awaited(t, b, k, r2, q)
      BY <2>1, <2>3, <3>1 DEF Awaited
    <3> QED BY <2>1, <3>2 DEF Alone
  <2> QED BY <2>2, <2>3
<1> QED BY <1>1 DEF Lonely

LEMMA ReturnedApart ==
    ASSUME NEW s, NEW h, NEW w, Core(s, h, w, None, None), NEW p \in Parent, s.family[p].subs = {},
           s.pc[p] = "user", NEW b, NEW k, NEW r, \A e \in b \cup k \cup r : e \in h, Lonely(s, b, k, r),
           NEW t, IsReturned(s, p, t)
    PROVE  Lonely(t, b, k, r) /\ Lawful(s, t)
<1>1. /\ s \in State /\ t.delay = s.delay /\ t.flags = CleanFlags(s.flags, p)
      /\ \A q \in Parent \ {p} : t.family[q] = s.family[q] /\ t.pc[q] = s.pc[q]
      /\ t.family[p].subs = {} /\ t.pc[p] = "idle" /\ p \notin t.armed
      /\ t.version[p] = s.version[p] + 1 /\ s.version[p] \in Nat /\ t.req = s.req
      /\ Parent \cap Sub = {}
  BY TypesOf, UpstreamAssumption DEF Core, IsReturned, NoFamily, Conn
<1>2. ASSUME NEW q \in Parent, q # p PROVE Alone(t, b, k, r, q)
  <2>1. Alone(s, b, k, r, q) /\ Keeps(s, t, q)
    BY <1>1, <1>2, ReturnedKeeps DEF Conn, Lonely
  <2>2. (QueuedIn(t, q) => QueuedIn(s, q)) /\ Once(t.delay, Valid(s, q))
    BY <1>1, <2>1 DEF Keeps, QueuedIn, Valid, Alone, Awaited
  <2>3. p \notin s.family[q].subs
    BY <1>1, TypesOf
  <2>4. \A v \in s.family[q].subs : v \in s.flags.parentDying => v \in t.flags.parentDying
    BY <1>1, <2>3 DEF CleanFlags
  <2>5. t.family[q].subs = s.family[q].subs
    BY <1>1, <1>2
  <2> QED BY <2>1, <2>2, <2>4, <2>5, StaysAlone
<1>3. Alone(t, b, k, r, p)
  <2>1. ASSUME NEW e \in h \cup Range(s.delay) PROVE e # Valid(t, p)
    BY <1>1, <2>1 DEF Core, Stamped, Valid
  <2>2. Valid(t, p) \notin b \cup k \cup r /\ ~QueuedIn(t, p)
    BY <1>1, <2>1 DEF QueuedIn
  <2>3. Once(t.delay, Valid(t, p))
    BY <1>1, <2>1 DEF Once, Range
  <2> QED BY <1>1, <2>2, <2>3 DEF Alone, Told, Awaited, Doomed
<1>4. Serves(s, t)
  <2>1. Pending(s, p) = 0 /\ Pending(t, p) = 0 /\ View(s, p) = "working" /\ View(t, p) = "away"
    BY <1>1, NoneOpen DEF Pending, View, HandlerState
  <2>2. \A q \in Parent \ {p} : Same(s, t, q)
    BY <1>1 DEF Same, View, Pending
  <2> QED BY <2>1, <2>2 DEF Serves, Serve
<1> QED BY <1>1, <1>2, <1>3, <1>4 DEF Lonely, Lawful, Tried

LEMMA ReboundsApart ==
    ASSUME NEW s \in State, NEW h, NEW w, NEW t, Core(t, h, w, None, None), NEW u, Rebounds(s, u, t),
           NEW b, NEW k, NEW r, Lonely(s, b, k, r)
    PROVE  Lonely(t, b, k, r) /\ Lawful(s, t)
<1>1. Lonely(t, b, k, r)
  BY ReboundsAlone DEF Lonely
<1>2. Serves(s, t)
  <2>1. \A q \in Parent : q \in Conn \ {u} /\ t.family[q].subs = s.family[q].subs
    BY UpstreamAssumption DEF Rebounds, SameFamilies, Conn
  <2>2. \A q \in Parent : t.pc[q] = s.pc[q]
    BY <2>1 DEF Rebounds, Keeps
  <2> QED BY <2>1, <2>2 DEF Serves, Same, View, Pending
<1>3. Tried(s, t)
  BY DEF Tried, Rebounds
<1> QED BY <1>1, <1>2, <1>3 DEF Lawful

LEMMA StartsApart ==
    ASSUME NEW s, NEW h, NEW w, Core(s, h, w, None, None), NEW t \in State,
           NEW p \in Parent \cup {None}, NEW u, Starts(s, p, u, t),
           p # None => s.pc[p] = "user" /\ p \notin s.flags.dying,
           NEW b, NEW k, NEW r, Lonely(s, b, k, r)
    PROVE  Lonely(t, b, k, r) /\ Lawful(s, t)
<1>1. Lonely(t, b, k, r)
  BY StartsAlone DEF Lonely
<1>2. Serves(s, t)
  BY StartsServes
<1>3. Tried(s, t)
  BY DEF Tried, Starts
<1> QED BY <1>1, <1>2, <1>3 DEF Lawful

LEMMA EndsApart ==
    ASSUME NEW s, NEW h, NEW u \in Sub, Core(s, h, u, None, None), NEW t \in State, Ends(s, u, t),
           NEW b, NEW k, NEW r, Lonely(s, b, k, r)
    PROVE  Lonely(t, b, k, r) /\ Lawful(s, t)
<1>1. Lonely(t, b, k, r)
  BY EndsAlone DEF Lonely
<1>2. Serves(s, t)
  BY EndsServes
<1>3. Tried(s, t)
  BY DEF Tried, Ends
<1> QED BY <1>1, <1>2, <1>3 DEF Lawful

LEMMA MovesApart ==
    ASSUME NEW s, NEW h, NEW u \in Sub, Core(s, h, u, None, None), NEW t \in State,
           NEW v, Moves(s, u, v, t), u \notin s.flags.parentDying,
           NEW b, NEW k, NEW r, Lonely(s, b, k, r)
    PROVE  Lonely(t, b, k, r) /\ Lawful(s, t)
<1>1. Lonely(t, b, k, r) /\ s.req[u].parent \notin s.flags.dying
  BY MovesAlone DEF Lonely
<1>2. Serves(s, t)
  BY MovesServes
<1>3. Tried(s, t)
  <2>1. t.req[v].parent = s.req[u].parent
    BY DEF Moves
  <2>2. \A x \in Sub \ {u, v} : t.req[x] = s.req[x]
    BY DEF Moves
  <2>3. v # u => t.req[u] = None
    BY DEF Moves
  <2> QED BY <1>1, <2>1, <2>2, <2>3 DEF Tried
<1> QED BY <1>1, <1>2, <1>3 DEF Lawful

LEMMA HandlerApart ==
    ASSUME BlocksAlone, Inv, Apart, Handler
    PROVE  Lonely(Now', batch', resumes', tokens') /\ Lawful(Now, Now')
<1> DEFINE s == Now
           t == Now'
           h == Held
           Fine == Lonely(t, batch', resumes', tokens') /\ Lawful(s, t)
<1>1. /\ Core(s, h, cur, None, None) /\ s \in State
      /\ \A e \in batch \cup resumes \cup tokens : e \in h
      /\ Lonely(s, batch, resumes, tokens)
  BY InvNow DEF Held, Apart
<1>2. t \in State /\ Core(t, Held', cur', None, None)
  <2>1. Next
    BY DEF Next
  <2>2. Inv'
    BY <2>1, InvStep
  <2>3. Sound(Now', Held', cur')
    BY <2>2 DEF Inv
  <2> QED BY <2>3 DEF Sound, Core
<1>3. Parent \cap Sub = {} /\ Conn = Parent \cup Sub
  BY UpstreamAssumption DEF Conn
<1>4. ASSUME NEW p \in Parent, AddUpstream(p) \/ AddUpstreamDetach(p) PROVE Fine
  <2>1. t = s \/ Breaks(s, t) \/ Forks(s, p, t) \/ Detaches(s, t)
    BY <1>4, AddIs, DetachIs
  <2>2. /\ s.pc[p] = "user" /\ p \notin s.flags.dying
        /\ batch' = batch /\ resumes' = resumes /\ tokens' = tokens
    BY <1>4, NowFields DEF AddUpstream, AddUpstreamDetach, Calls, At, InHandler
  <2> DEFINE g == Held'
             w == cur'
  <2>3. Core(t, g, w, None, None)
    BY <1>2
  <2> HIDE DEF s, t, h, g, w
  <2>4. CASE Breaks(s, t)
    <3>1. PICK k \in Sub : Rebounds(s, k, t)
      BY <1>1, <2>4, BreaksIs
    <3>2. Lonely(t, batch, resumes, tokens) /\ Lawful(s, t)
      BY <1>1, <2>3, <3>1, ReboundsApart
    <3> QED BY <2>2, <3>2
  <2>5. CASE Forks(s, p, t)
    <3>1. PICK k \in Sub : Starts(s, p, k, t)
      BY <1>1, <2>5, ForksIs
    <3>2. Lonely(t, batch, resumes, tokens) /\ Lawful(s, t)
      BY <1>1, <1>2, <2>2, <3>1, StartsApart
    <3> QED BY <2>2, <3>2
  <2>6. CASE Detaches(s, t)
    <3>1. PICK k \in Sub : Starts(s, None, k, t)
      BY <1>1, <2>6, DetachesIs
    <3>2. Lonely(t, batch, resumes, tokens) /\ Lawful(s, t)
      BY <1>1, <1>2, <3>1, StartsApart
    <3> QED BY <2>2, <3>2
  <2>7. CASE t = s
    BY <1>1, <2>2, <2>7, SameServes DEF Lawful, Tried
  <2> QED BY <2>1, <2>4, <2>5, <2>6, <2>7
<1>5. ASSUME NEW p \in Parent, RunUpstreams(p) \/ UserSleep(p) \/ UserYield(p) PROVE Fine
  <2>1. /\ UNCHANGED <<version, net, armed, family, delay, req, batch, resumes>>
        /\ flags'.dying = flags.dying /\ flags'.parentDying = flags.parentDying
        /\ pc[p] = "user"
        /\ \/ pc' = pc /\ tokens' = tokens /\ flags' = flags
           \/ /\ pc' = [pc EXCEPT ![p] = "join"] /\ family[p].subs # {} /\ tokens' = tokens
           \/ /\ pc' = [pc EXCEPT ![p] = "sleep"] /\ family[p].subs = {} /\ tokens' = tokens
              /\ p \notin flags.dying
           \/ /\ pc' = [pc EXCEPT ![p] = "yield"] /\ family[p].subs = {}
              /\ tokens' = tokens \cup {<<p, version[p]>>} /\ p \notin flags.dying
    <3>1. CASE RunUpstreams(p)
      BY <3>1 DEF RunUpstreams, Wait, Waits, At, InHandler
    <3>2. CASE UserSleep(p)
      <4>1. flags' = [flags EXCEPT !.third = @ \cup {p}]
        BY <3>2 DEF UserSleep
      <4>2. flags \in Flags
        <5>1. s.flags \in Flags
          <6> HIDE DEF s
          <6> QED BY <1>1 DEF State
        <5> QED BY <5>1, NowFields
      <4>3. flags'.dying = flags.dying /\ flags'.parentDying = flags.parentDying
        BY <4>1, <4>2 DEF Flags
      <4> QED BY <3>2, <4>3 DEF UserSleep, Blocks, Calls, Wait, Waits, At, InHandler
    <3>3. CASE UserYield(p)
      BY <3>3 DEF UserYield, Blocks, Calls, Wait, Waits, At, InHandler, Entry
    <3> QED BY <1>5, <3>1, <3>2, <3>3
  <2>2. /\ t.version = s.version /\ t.net = s.net /\ t.armed = s.armed /\ t.family = s.family
        /\ t.delay = s.delay /\ t.req = s.req
        /\ t.flags.dying = s.flags.dying /\ t.flags.parentDying = s.flags.parentDying
        /\ s.pc[p] = "user" /\ batch' = batch /\ resumes' = resumes
        /\ \/ t.pc = s.pc /\ tokens' = tokens /\ t.flags = s.flags
           \/ /\ t.pc = [s.pc EXCEPT ![p] = "join"] /\ s.family[p].subs # {} /\ tokens' = tokens
           \/ /\ t.pc = [s.pc EXCEPT ![p] = "sleep"] /\ s.family[p].subs = {} /\ tokens' = tokens
              /\ p \notin s.flags.dying
           \/ /\ t.pc = [s.pc EXCEPT ![p] = "yield"] /\ s.family[p].subs = {}
              /\ tokens' = tokens \cup {Valid(s, p)} /\ p \notin s.flags.dying
    BY <2>1, NowFields DEF Valid
  <2> DEFINE r2 == tokens'
  <2> HIDE DEF s, t, h
  <2>3. CASE t.pc = s.pc /\ tokens' = tokens /\ t.flags = s.flags
    <3>1. Lonely(t, batch, resumes, tokens) /\ Lawful(s, t)
      BY <1>1, <2>2, <2>3, SameLonely, SameServes DEF Lawful, Tried
    <3> QED BY <2>2, <2>3, <3>1
  <2>4. CASE ~(t.pc = s.pc /\ tokens' = tokens /\ t.flags = s.flags)
    <3>1. Alone(s, batch, resumes, tokens, p)
      BY <1>1 DEF Lonely
    <3>2. /\ \/ t.pc[p] = "join" /\ s.family[p].subs # {} /\ r2 = tokens
             \/ t.pc[p] = "sleep" /\ s.family[p].subs = {} /\ r2 = tokens
             \/ t.pc[p] = "yield" /\ s.family[p].subs = {} /\ r2 = tokens \cup {Valid(s, p)}
          /\ s.family[p].subs # {} \/ p \notin s.flags.dying
          /\ \A q \in Parent \ {p} : t.pc[q] = s.pc[q]
      BY <1>1, <1>3, <2>2, <2>4, TypesOf
    <3> HIDE DEF r2
    <3>3. ~Doomed(s, p)
      BY <3>1, <3>2 DEF Alone, Awaited, Doomed
    <3>4. Lonely(t, batch, resumes, r2)
      <4>1. \A e \in r2 : e \in tokens \/ (e = Valid(s, p) /\ t.pc[p] = "yield")
        BY <3>2
      <4>2. t.pc[p] \in {"join", "sleep", "yield"} /\ (t.pc[p] # "join" => s.family[p].subs = {})
        BY <3>2
      <4> QED BY <1>1, <2>2, <3>2, <3>3, <4>1, <4>2, BlocksApart
    <3>5. Lawful(s, t)
      <4>1. \A q \in Parent \ {p} : Same(s, t, q)
        BY <2>2, <3>2 DEF Same, View, Pending
      <4>2. Same(s, t, p) \/ Serve(s, t, p)
        BY <2>2, <3>2 DEF Same, Serve, View, Pending, HandlerState
      <4> QED BY <2>2, <4>1, <4>2 DEF Lawful, Serves, Tried
    <3> QED BY <2>2, <3>4, <3>5 DEF r2
  <2> QED BY <2>3, <2>4
<1>6. ASSUME NEW p \in Parent, UserReturn(p) PROVE Fine
  <2>1. /\ IsReturned(s, p, t) /\ s.family[p].subs = {} /\ s.pc[p] = "user"
        /\ batch' = batch /\ resumes' = resumes /\ tokens' = tokens
    BY <1>6, ReturnIs, NowFields DEF UserReturn, At, InHandler
  <2> HIDE DEF s, t, h
  <2>2. Lonely(t, batch, resumes, tokens) /\ Lawful(s, t)
    BY <1>1, <2>1, ReturnedApart
  <2> QED BY <2>1, <2>2
<1>7. ASSUME NEW u \in Sub, SubBlocks(u) PROVE Fine
  <2>1. /\ UNCHANGED <<version, flags, armed, family, delay, req, batch, resumes, tokens>>
        /\ pc' = [pc EXCEPT ![u] = "wait"]
        /\ net' = [net EXCEPT ![u] = IF @ = "ready" THEN "quiet" ELSE @]
    BY <1>7 DEF SubBlocks, InSub
  <2>2. /\ t.version = s.version /\ t.flags = s.flags /\ t.armed = s.armed /\ t.family = s.family
        /\ t.delay = s.delay /\ t.req = s.req
        /\ t.pc = [s.pc EXCEPT ![u] = "wait"]
        /\ t.net = [s.net EXCEPT ![u] = IF @ = "ready" THEN "quiet" ELSE @]
        /\ batch' = batch /\ resumes' = resumes /\ tokens' = tokens
    BY <2>1, NowFields
  <2> HIDE DEF s, t, h
  <2>3. \A p \in Parent : t.pc[p] = s.pc[p] /\ t.net[p] = s.net[p]
    BY <1>1, <1>3, <2>2, TypesOf
  <2>4. ASSUME NEW p \in Parent PROVE Alone(t, batch, resumes, tokens, p)
    <3>1. Alone(s, batch, resumes, tokens, p) /\ t.pc[p] = s.pc[p] /\ t.net[p] = s.net[p]
      BY <1>1, <2>3 DEF Lonely
    <3> QED BY <2>2, <3>1 DEF Alone, Told, Awaited, Doomed, QueuedIn, Valid
  <2>5. Lawful(s, t)
    BY <2>2, <2>3 DEF Lawful, Tried, Serves, Same, View, Pending
  <2> QED BY <2>2, <2>4, <2>5 DEF Lonely
<1>8. ASSUME NEW u \in Sub, SubDone(u) \/ SubFails(u) PROVE Fine
  <2>1. /\ cur = u
        /\ Succeeds(s, u, t) \/ GivesUp(s, u, t) \/ (NeedRetry(u) /\ Retries(s, u, t))
        /\ batch' = batch /\ resumes' = resumes /\ tokens' = tokens
    <3>1. batch' = batch /\ resumes' = resumes /\ tokens' = tokens
      BY <1>8 DEF SubDone, SubFails, InSub
    <3> QED BY <1>8, <3>1, DoneIs, FailsIs
  <2>2. Core(s, h, u, None, None)
    BY <1>1, <2>1
  <2>3. NeedRetry(u) => u \notin s.flags.parentDying
    BY NowFields DEF NeedRetry
  <2> HIDE DEF s, t, h
  <2>4. Ends(s, u, t) \/ (NeedRetry(u) /\ \E k \in Sub : Moves(s, u, k, t))
    BY <2>1, <2>2, SucceedsIs, GivesUpIs, RetriesIs
  <2>5. CASE Ends(s, u, t)
    <3>1. Lonely(t, batch, resumes, tokens) /\ Lawful(s, t)
      BY <1>1, <1>2, <2>2, <2>5, EndsApart
    <3> QED BY <2>1, <3>1
  <2>6. ASSUME NEW k \in Sub, Moves(s, u, k, t), NeedRetry(u) PROVE Fine
    <3>1. Lonely(t, batch, resumes, tokens) /\ Lawful(s, t)
      BY <1>1, <1>2, <2>2, <2>3, <2>6, MovesApart
    <3> QED BY <2>1, <3>1
  <2> QED BY <2>4, <2>5, <2>6
<1> QED BY <1>4, <1>5, <1>6, <1>7, <1>8 DEF Handler

LEMMA OtherApart ==
    ASSUME Inv, Apart, Resumer \/ World \/ UNCHANGED vars
    PROVE  Lonely(Now', batch', resumes', tokens') /\ Lawful(Now, Now')
<1> DEFINE s == Now
           t == Now'
<1>1. Lonely(s, batch, resumes, tokens) /\ s \in State
  BY InvNow DEF Apart
<1>2. ASSUME NEW m \in tokens, ResumeAsync(m)
      PROVE  Lonely(t, batch', resumes', tokens') /\ Lawful(s, t)
  <2>1. /\ UNCHANGED <<version, pc, flags, net, armed, family, delay, req, batch>>
        /\ tokens' = tokens \ {m} /\ resumes' = resumes \cup {m}
    BY <1>2 DEF ResumeAsync, Outside
  <2>2. /\ t.version = s.version /\ t.pc = s.pc /\ t.flags = s.flags /\ t.net = s.net
        /\ t.armed = s.armed /\ t.family = s.family /\ t.delay = s.delay /\ t.req = s.req
    BY <2>1, NowFields
  <2> HIDE DEF s, t
  <2>3. ASSUME NEW p \in Parent
        PROVE  Alone(s, batch, resumes \cup {m}, tokens \ {m}, p)
    <3>1. Alone(s, batch, resumes, tokens, p)
      BY <1>1 DEF Lonely
    <3>2. Awaited(s, batch, resumes \cup {m}, tokens \ {m}, p)
      BY <3>1 DEF Alone, Awaited
    <3> QED BY <3>1, <3>2 DEF Alone
  <2> DEFINE k == resumes \cup {m}
             r == tokens \ {m}
  <2>4. Lonely(s, batch, k, r)
    BY <2>3 DEF Lonely
  <2> HIDE DEF k, r
  <2>5. Lonely(t, batch, k, r) /\ Lawful(s, t)
    BY <2>2, <2>4, SameLonely, SameServes DEF Lawful, Tried
  <2> QED BY <2>1, <2>5 DEF k, r
<1>3. ASSUME NEW c \in Conn, net[c] # "closed", armed' = armed \cup {c},
             \/ c \in Parent /\ pc[c] = "idle" /\ net[c] = "quiet" /\ net' = [net EXCEPT ![c] = "ready"]
             \/ c \in Sub /\ net' = [net EXCEPT ![c] = "ready"]
             \/ net' = [net EXCEPT ![c] = "closed"],
             UNCHANGED <<version, pc, flags, family, delay, req, batch, resumes, tokens>>
      PROVE  Lonely(t, batch', resumes', tokens') /\ Lawful(s, t)
  <2>1. /\ t.version = s.version /\ t.pc = s.pc /\ t.flags = s.flags /\ t.family = s.family
        /\ t.delay = s.delay /\ t.req = s.req
        /\ t.armed = s.armed \cup {c} /\ s.net[c] # "closed"
        /\ \/ c \in Parent /\ s.pc[c] = "idle" /\ s.net[c] = "quiet" /\ t.net = [s.net EXCEPT ![c] = "ready"]
           \/ c \in Sub /\ t.net = [s.net EXCEPT ![c] = "ready"]
           \/ t.net = [s.net EXCEPT ![c] = "closed"]
    BY <1>3, NowFields
  <2>2. Parent \cap Sub = {} /\ Parent \subseteq Conn
    BY UpstreamAssumption DEF Conn
  <2> HIDE DEF s, t
  <2>3. /\ \A d \in Conn \ {c} : t.net[d] = s.net[d]
        /\ t.net[c] \in {"ready", "closed"}
        /\ c \in Parent => t.net[c] = "closed" \/ (s.pc[c] = "idle" /\ s.net[c] = "quiet")
    BY <1>1, <2>1, <2>2, TypesOf
  <2>4. ASSUME NEW p \in Parent PROVE Alone(t, batch, resumes, tokens, p)
    <3>1. Alone(s, batch, resumes, tokens, p)
      BY <1>1 DEF Lonely
    <3>2. Told(t, p) /\ Valid(t, p) = Valid(s, p) /\ (QueuedIn(t, p) <=> QueuedIn(s, p))
          /\ (Doomed(t, p) <=> Doomed(s, p))
      BY <2>1, <3>1 DEF Alone, Told, Doomed, QueuedIn, Valid
    <3>3. CASE p # c
      <4>1. t.net[p] = s.net[p] /\ (p \in t.armed <=> p \in s.armed)
        BY <2>1, <2>2, <2>3, <3>3
      <4> QED BY <2>1, <3>1, <3>2, <4>1 DEF Alone, Awaited
    <3>4. CASE p = c
      <4>1. t.net[p] = "closed" \/ (s.pc[p] = "idle" /\ s.net[p] = "quiet")
        BY <2>3, <3>4
      <4>2. s.net[p] # "closed" /\ Awaited(s, batch, resumes, tokens, p)
        BY <2>1, <3>1, <3>4 DEF Alone
      <4>3. Valid(s, p) \in batch => s.pc[p] = "idle" /\ s.net[p] # "quiet"
        BY <4>2 DEF Awaited
      <4>4. Awaited(t, batch, resumes, tokens, p)
        BY <2>1, <3>2, <4>1, <4>2, <4>3 DEF Awaited
      <4> QED BY <3>2, <4>4 DEF Alone
    <3> QED BY <3>3, <3>4
  <2>5. Lawful(s, t)
    BY <2>1, SameServes DEF Lawful, Tried
  <2> QED BY <1>3, <2>4, <2>5 DEF Lonely
<1>4. CASE World
  <2>1. ASSUME NEW p \in Parent, RequestArrives(p)
        PROVE  Lonely(t, batch', resumes', tokens') /\ Lawful(s, t)
    BY <1>3, <2>1 DEF RequestArrives, Outside, Conn
  <2>2. ASSUME NEW u \in Sub, PeerAnswers(u)
        PROVE  Lonely(t, batch', resumes', tokens') /\ Lawful(s, t)
    BY <1>3, <2>2 DEF PeerAnswers, Outside, Conn
  <2>3. ASSUME NEW c \in Conn, PeerCloses(c)
        PROVE  Lonely(t, batch', resumes', tokens') /\ Lawful(s, t)
    BY <1>3, <2>3 DEF PeerCloses, Outside
  <2> QED BY <1>4, <2>1, <2>2, <2>3 DEF World
<1>5. CASE UNCHANGED vars
  <2>1. UNCHANGED <<version, pc, flags, net, armed, family, delay, req, batch, resumes, tokens>>
    BY <1>5 DEF vars
  <2>2. /\ t.version = s.version /\ t.pc = s.pc /\ t.flags = s.flags /\ t.net = s.net
        /\ t.armed = s.armed /\ t.family = s.family /\ t.delay = s.delay /\ t.req = s.req
    BY <2>1, NowFields
  <2> HIDE DEF s, t
  <2>3. Lonely(t, batch, resumes, tokens) /\ Lawful(s, t)
    BY <1>1, <2>2, SameLonely, SameServes DEF Lawful, Tried
  <2>4. batch' = batch /\ resumes' = resumes /\ tokens' = tokens
    BY <2>1
  <2> QED BY <2>3, <2>4 DEF s, t
<1> QED BY <1>2, <1>4, <1>5 DEF Resumer

LEMMA StepApart ==
    ASSUME BlocksAlone, Inv, Apart, [Next]_vars
    PROVE  Apart' /\ Lawful(Now, Now')
BY LoopApart, HandlerApart, OtherApart DEF Next, Apart

LEMMA InitApart == Init => Apart
<1> SUFFICES ASSUME Init PROVE Apart
  OBVIOUS
<1>1. /\ Now.pc = [c \in Conn |-> "idle"] /\ Now.delay = << >> /\ Now.flags.dying = {}
      /\ Now.armed = {} /\ batch = {} /\ resumes = {} /\ tokens = {}
  BY NowFields DEF Init
<1>2. ASSUME NEW p \in Parent PROVE Alone(Now, batch, resumes, tokens, p)
  <2>1. Now.pc[p] = "idle" /\ Range(Now.delay) = {} /\ DOMAIN Now.delay = {}
    BY <1>1 DEF Conn, Range
  <2> QED BY <1>1, <2>1 DEF Alone, Told, Awaited, Doomed, QueuedIn, Once
<1> QED BY <1>2 DEF Apart, Lonely

(* A failed sub-request is not tried again once its parent was found       *)
(* dying: its parent has marked it by then (quick_finish), as a handler    *)
(* that has sub-requests waits for nothing but them.                       *)
THEOREM DyingAreNotRetried ==
    ASSUME BlocksAlone PROVE Spec => DyingNotRetried
<1>1. ASSUME Inv, Apart, [Next]_vars
      PROVE  \A u \in Sub : req'[u] # req[u] /\ req'[u] # None /\ req'[u].tries > 0 =>
                req'[u].parent \notin flags.dying
  <2>1. Tried(Now, Now')
    BY <1>1, StepApart DEF Lawful
  <2>2. \A u \in Sub : \/ req'[u] = req[u] \/ req'[u] = None \/ req'[u].tries = 0
                       \/ req'[u].parent \notin flags.dying
    BY <2>1, NowFields DEF Tried
  <2> QED BY <2>2
<1>2. Inv /\ Apart /\ [Next]_vars => Apart'
  BY StepApart
<1> QED BY <1>1, <1>2, InitApart, InvHolds, PTL DEF Spec, DyingNotRetried

(* A handler that blocks only while it has no sub-request sees a fork and  *)
(* a join: run_upstreams returns after the end of every sub-request it has *)
(* added, each of which ends once, however often it was retried.           *)
THEOREM ImplementsForkJoin ==
    ASSUME BlocksAlone PROVE Spec => Implements
<1> DEFINE state == [p \in Parent |-> HandlerState[pc[p]]]
           pending == [p \in Parent |-> Cardinality(family[p].subs)]
<1>1. Init => ForkJoin!Init
  <2> SUFFICES ASSUME Init PROVE ForkJoin!Init
    OBVIOUS
  <2>1. \A p \in Parent : pc[p] = "idle" /\ family[p].subs = {}
    BY DEF Init, NoFamily, Conn
  <2>2. state = [p \in Parent |-> "away"]
    BY <2>1 DEF HandlerState
  <2>3. pending = [p \in Parent |-> 0]
    BY <2>1, NoneOpen
  <2> QED BY <2>2, <2>3 DEF ForkJoin!Init
<1>2. ASSUME Inv, Apart, [Next]_vars
      PROVE  ForkJoin!Next \/ UNCHANGED <<state, pending>>
  <2>1. Serves(Now, Now')
    BY <1>2, StepApart DEF Lawful
  <2>2. \A p \in Parent : /\ state[p] = View(Now, p) /\ pending[p] = Pending(Now, p)
                          /\ state'[p] = View(Now', p) /\ pending'[p] = Pending(Now', p)
    BY NowFields DEF View, Pending
  <2>3. /\ state \in [Parent -> {state[p] : p \in Parent}]
        /\ pending \in [Parent -> {pending[p] : p \in Parent}]
    OBVIOUS
  <2>4. CASE \A p \in Parent : Same(Now, Now', p)
    <3>1. \A p \in Parent : state'[p] = state[p] /\ pending'[p] = pending[p]
      BY <2>2, <2>4 DEF Same
    <3>2. state' = state /\ pending' = pending
      BY <3>1
    <3> QED BY <3>2
  <2>5. ASSUME NEW p \in Parent, Serve(Now, Now', p), \A q \in Parent \ {p} : Same(Now, Now', q)
        PROVE  ForkJoin!Next \/ UNCHANGED <<state, pending>>
    <3> DEFINE z == state'[p]
               n == pending'[p]
    <3>1. state' = [state EXCEPT ![p] = z] /\ pending' = [pending EXCEPT ![p] = n]
      <4>1. \A q \in Parent \ {p} : state'[q] = state[q] /\ pending'[q] = pending[q]
        BY <2>2, <2>5 DEF Same
      <4> QED BY <4>1
    <3>2. \/ state[p] = "away" /\ z = "working" /\ n = pending[p]
          \/ state[p] = "working" /\ z = "working" /\ n = pending[p] + 1
          \/ state[p] = "working" /\ z = "joining" /\ n = pending[p]
          \/ pending[p] > 0 /\ n = pending[p] - 1 /\ z = state[p]
          \/ pending[p] = 0 /\ n = 0 /\ state[p] = "joining" /\ z = "working"
          \/ pending[p] = 0 /\ n = 0 /\ state[p] = "working" /\ z = "away"
      BY <2>2, <2>5 DEF Serve
    <3>3. /\ z = state[p] => state' = state
          /\ n = pending[p] => pending' = pending
      BY <3>1
    <3>4. CASE state[p] = "away" /\ z = "working" /\ n = pending[p]
      <4>1. ForkJoin!Arrive(p)
        BY <3>1, <3>3, <3>4 DEF ForkJoin!Arrive, ForkJoin!Move
      <4> QED BY <4>1 DEF ForkJoin!Next
    <3>5. CASE state[p] = "working" /\ z = "working" /\ n = pending[p] + 1
      <4>1. ForkJoin!Fork(p)
        BY <3>1, <3>3, <3>5 DEF ForkJoin!Fork
      <4> QED BY <4>1 DEF ForkJoin!Next
    <3>6. CASE state[p] = "working" /\ z = "joining" /\ n = pending[p]
      <4>1. ForkJoin!Join(p)
        BY <3>1, <3>3, <3>6 DEF ForkJoin!Join, ForkJoin!Move
      <4> QED BY <4>1 DEF ForkJoin!Next
    <3>7. CASE pending[p] > 0 /\ n = pending[p] - 1 /\ z = state[p]
      <4>1. ForkJoin!End(p)
        BY <3>1, <3>3, <3>7 DEF ForkJoin!End
      <4> QED BY <4>1 DEF ForkJoin!Next
    <3>8. CASE pending[p] = 0 /\ n = 0 /\ state[p] = "joining" /\ z = "working"
      <4>1. ForkJoin!GoOn(p)
        BY <3>1, <3>3, <3>8 DEF ForkJoin!GoOn, ForkJoin!Move
      <4> QED BY <4>1 DEF ForkJoin!Next
    <3>9. CASE pending[p] = 0 /\ n = 0 /\ state[p] = "working" /\ z = "away"
      <4>1. ForkJoin!Finish(p)
        BY <3>1, <3>3, <3>9 DEF ForkJoin!Finish, ForkJoin!Move
      <4> QED BY <4>1 DEF ForkJoin!Next
    <3> QED BY <3>2, <3>4, <3>5, <3>6, <3>7, <3>8, <3>9
  <2> QED BY <2>1, <2>4, <2>5 DEF Serves
<1>3. Inv /\ Apart /\ [Next]_vars => Apart'
  BY StepApart
<1> QED BY <1>1, <1>2, <1>3, InitApart, InvHolds, PTL DEF Spec, Implements, ForkJoin!Safe
====
