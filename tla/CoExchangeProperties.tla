------------------------- MODULE CoExchangeProperties -------------------------
(***************************************************************************)
(* What holds of calls over a kept connection.                             *)
(***************************************************************************)
EXTENDS CoExchange

(* Every variable keeps to its shape: a block is MinSize, doubled some     *)
(* times, the network holds no more than it can, counters are in range.    *)
TypeOK ==
    /\ kind \in Kind /\ asked \in Message /\ reply \in Message
    /\ stage \in {"idle", "asked", "served", "replied", "returned",
                  "refused", "closing", "broken"}
    /\ \A s \in Side :
           /\ buffer[s].misalign \in Nat
           /\ buffer[s].total \in {0, Grown(MinSize, buffer[s].total)}
    /\ Len(net) <= NetSize /\ calls \in 0..MaxCalls
    /\ msg.remain \in Nat /\ msg.status \in {"startline", "header", "content", "completed"}

(* A message is decoded to its last byte: when the handler of the reading  *)
(* side runs, nothing of it is left in a buffer or on its way, so that the *)
(* reset of a kept connection loses nothing and the next message starts    *)
(* where it should.                                                        *)
NothingLeft ==
    stage \in {"served", "returned"} =>
        net = <<>> /\ \A s \in Side : buffer[s].data = <<>>

(* buffer_expand, buffer_erase and buffer_size_expand together: gap and    *)
(* data lie in the block, so the code's two size checks never fire, and    *)
(* over any number of messages the block stays in proportion to one.       *)
Overhead == 20    \* besides line and body: a header, the blank line, three chunks
Longest == Max({m.line + Len(m.body) : m \in Message}) + Overhead
BufferBounded ==
    \A s \in Side :
        /\ Used(buffer[s]) <= buffer[s].total
        /\ buffer[s].total < 2 * (Longest + ReadSize)

(* The handler is given the body that was sent, whatever the pieces it     *)
(* arrives in (co_callback_request.cpp:78: 数据不足, read again).          *)
Delivered ==
    /\ stage = "served" => seen = asked.body
    /\ stage = "returned" => got = reply.body

(* The promise of CoRpc.  A message can only break the connection if its   *)
(* first line with one more read can exceed the bound on the header.       *)
Rpc == INSTANCE CoRpc WITH
    stage <- CASE stage = "returned" -> "idle"
               [] stage \in {"refused", "closing"} -> "broken"
               [] stage \notin {"returned", "refused", "closing"} -> stage,
    SafeLine <- MaxHeader - ReadSize + 1
Implements == Rpc!Spec
=============================================================================
