------------------------------ MODULE CoExchange ------------------------------
(***************************************************************************)
(* Calls over one connection that is kept between them.  The client is a   *)
(* sub-request and the server a client request of coserver, except that    *)
(* one of them may be another program: each encodes into the buffer of its *)
(* connection and writes from it in pieces; the other reads pieces into    *)
(* its buffer and decodes after each, until a message is complete.         *)
(***************************************************************************)
EXTENDS CoBuffer, CoProtocol

CONSTANTS Message,          \* requests and replies: [body, line]
          Kind,             \* kinds of connection, see Requests
          ReadSize,         \* BUFFER_SIZE_4096: what one read takes at most
          NetSize,          \* bytes the network holds
          MaxCalls,         \* bound of the calls over the connection
          SplitsBlankLine   \* may a piece end inside the line after the header?

ShortLine == 3    \* text and line end

ASSUMPTION ExchangeAssumption ==
    /\ ReadSize \in Nat \ {0, 1} /\ NetSize \in Nat \ {0, 1}
    /\ MaxHeader \in Nat /\ MaxCalls \in Nat
    /\ SplitsBlankLine \in BOOLEAN
    /\ Kind \subseteq {"tcp", "http", "toOther", "fromOther"}
    /\ MinSize <= ReadSize    \* 256 and 4096
    /\ IsFiniteSet(Message)
    /\ \A m \in Message :
           m.body \in Seq(Symbol) /\ m.line \in Nat /\ m.line >= ShortLine

Side == {"client", "server"}

VARIABLES
    kind,    \* of the connection: its protocol, and which side is coserver
    stage,   \* where the call is
    asked,   \* the request of the call
    reply,   \* what the user's handler replied
    buffer,  \* m_coBuffer of either side
    net,     \* bytes on their way
    msg,     \* what the reading side has decoded so far
    seen,    \* the body given to the server's handler
    got,     \* the body given to the client's handler
    calls

vars == <<kind, stage, asked, reply, buffer, net, msg, seen, got, calls>>

(* Short messages are sent in every protocol, long lines only by others.   *)
Fits(m, sender) ==
    /\ kind = "tcp" => m.body # <<>>
    /\ m.line > ShortLine => kind = (IF sender = "client" THEN "fromOther" ELSE "toOther")

Requests(m) == IF kind = "tcp" THEN TcpFrames(m) ELSE HttpRequests(m)
Responses(m) ==
    CASE kind = "tcp" -> TcpFrames(m)
      [] kind \in {"http", "fromOther"} -> HttpResponses(m)
      [] kind = "toOther" -> ChunkedResponses(m)

Decode(s, client) ==
    IF kind = "tcp" THEN DecodeTcp(msg, s) ELSE DecodeHttp(msg, s, client)

Init ==
    /\ kind \in Kind /\ stage = "idle"
    /\ asked \in Message /\ reply = asked
    /\ buffer = [s \in Side |-> NoBuffer] /\ net = <<>> /\ msg = NewMsg
    /\ seen = <<>> /\ got = <<>> /\ calls = 0

-----------------------------------------------------------------------------

(* The start of upstream_write and request_write: what is left in the      *)
(* buffer goes, the message comes in.                                      *)
Encode(side, wire) ==
    buffer' = [buffer EXCEPT ![side] = AppendTo(Reset(@), wire)]

Ask ==
    /\ stage = "idle" /\ calls < MaxCalls /\ calls' = calls + 1
    /\ \E m \in Message :
           /\ Fits(m, "client") /\ asked' = m
           /\ \E wire \in Requests(m) : Encode("client", wire)
    /\ stage' = "asked" /\ msg' = NewMsg
    /\ UNCHANGED <<kind, reply, net, seen, got>>

(* request_process and the start of request_write.                         *)
Reply ==
    /\ stage = "served"
    /\ \E m \in Message :
           /\ Fits(m, "server") /\ reply' = m
           /\ \E wire \in Responses(m) : Encode("server", wire)
    /\ stage' = "replied" /\ msg' = NewMsg
    /\ UNCHANGED <<kind, asked, net, seen, got, calls>>

(* The loop of either write: tcp_write takes what it can, buffer_erase.    *)
Write(side) ==
    /\ \/ side = "client" /\ stage = "asked"
       \/ side = "server" /\ stage \in {"replied", "closing"}
    /\ \E n \in 1..Len(buffer[side].data) :
           /\ Len(net) + n <= NetSize
           /\ net' = net \o SubSeq(buffer[side].data, 1, n)
           /\ buffer' = [buffer EXCEPT ![side] = Erase(@, n)]
    /\ UNCHANGED <<kind, stage, asked, reply, msg, seen, got, calls>>

(* One round of the loop of request_read and upstream_read: room for a     *)
(* read, a read of any piece of what has arrived, decode.                  *)
Read(side, complete, failed) ==
    /\ \E n \in 1..Min({ReadSize, Len(net)}) :
           /\ SplitsBlankLine \/ net[n] # BlankCR
           /\ \E filled \in {Fill(Expand(buffer[side], ReadSize), SubSeq(net, 1, n))} :
              \E result \in {Decode(filled.data, side = "client")} :
                  /\ buffer' = [buffer EXCEPT ![side] = Erase(filled, result.erased)]
                  /\ msg' = result.msg
                  /\ stage' = [OK |-> complete, AGAIN |-> stage, ERROR |-> failed][result.ret]
           /\ net' = From(net, n + 1)
    /\ UNCHANGED <<kind, asked, reply, calls>>

ServerReads ==
    /\ stage = "asked" /\ Read("server", "served", "refused")
    /\ seen' = IF stage' = "served" THEN msg'.content ELSE seen
    /\ UNCHANGED got

ClientReads ==
    /\ stage = "replied" /\ Read("client", "returned", "broken")
    /\ got' = IF stage' = "returned" THEN msg'.content ELSE got
    /\ UNCHANGED seen

(* Who could not decode a request still answers with an empty response and *)
(* the status 200, then closes; what the client goes on to send is lost.   *)
Refuse ==
    /\ stage = "refused" /\ stage' = "closing"
    /\ \E wire \in Responses([body |-> <<>>, line |-> ShortLine]) : Encode("server", wire)
    /\ net' = <<>>
    /\ UNCHANGED <<kind, asked, reply, msg, seen, got, calls>>

(* That client is another program and may read what it is sent.            *)
ClientTakes ==
    /\ stage = "closing" /\ net # <<>> /\ net' = <<>>
    /\ UNCHANGED <<kind, stage, asked, reply, buffer, msg, seen, got, calls>>

Close ==
    /\ stage = "closing" /\ buffer["server"].data = <<>> /\ stage' = "broken"
    /\ UNCHANGED <<kind, asked, reply, buffer, net, msg, seen, got, calls>>

(* Both sides keep their connection and reset it; the server had nothing   *)
(* left in its buffer when its last write ended.                           *)
KeepAlive ==
    /\ stage = "returned" /\ stage' = "idle"
    /\ buffer' = [buffer EXCEPT !["client"] = Reset(@)]
    /\ UNCHANGED <<kind, asked, reply, net, msg, seen, got, calls>>

Work ==
    \/ Write("client") \/ ServerReads \/ Reply \/ Write("server") \/ ClientReads
    \/ Refuse \/ ClientTakes \/ Close \/ KeepAlive

Next == Ask \/ Work

Spec == Init /\ [][Next]_vars

(* Both programs run, the network delivers, handlers return.               *)
FairSpec == Spec /\ WF_vars(Work)
=============================================================================
