------------------------------ MODULE CoProtocol ------------------------------
(***************************************************************************)
(* What the protocol classes write and how they read it back, from bytes   *)
(* that arrive in pieces.  A symbol stands for the bytes whose meaning the *)
(* code tells: a pair of a kind and a number.                              *)
(***************************************************************************)
EXTENDS Integers, Sequences, FiniteSets, SequencesExt

CONSTANT MaxHeader    \* HTTP_MAX_HEADER_LEN

Text(n)   == <<"text", n>>     \* any bytes without a meaning; n tells them apart
Http      == <<"http", 0>>     \* what a response starts with
Length(n) == <<"length", n>>   \* of the body: in a header line, or of a frame
Chunked   == <<"chunked", 0>>  \* the header line for a body in chunks
Size(n)   == <<"size", n>>     \* the size a chunk begins with
Flag      == <<"flag", 0>>     \* CO_PROTOCOL_TCP_FLAG
CR        == <<"cr", 0>>
BlankCR   == <<"cr", 1>>       \* the same byte, in the blank line after the header
LF        == <<"lf", 0>>

Symbol == {"text", "http", "length", "chunked", "size", "flag", "cr", "lf"} \X Nat

IsCR(x) == x[1] = "cr"
CRLF == <<CR, LF>>
From(s, i) == SubSeq(s, i, Len(s))

-----------------------------------------------------------------------------
(* encode.  A message has a body and the length of its first line.         *)

HttpText(first, headers, body) ==
    [i \in 1..first.line - 2 |-> IF i = 1 THEN first.symbol ELSE Text(0)] \o CRLF
        \o FlattenSeq([i \in DOMAIN headers |-> <<headers[i]>> \o CRLF])
        \o <<BlankCR, LF>> \o body

(* The headers of an unordered_map are written in any order.               *)
AnyOrder(headers) == SetToSeqs(headers)

TcpFrames(m) == {<<Flag, Length(Len(m.body))>> \o m.body}

HttpRequests(m) ==
    {HttpText([symbol |-> Text(0), line |-> m.line], order, m.body) :
        order \in AnyOrder({Text(0)} \cup
                      {Length(n) : n \in {Len(m.body)} \ {0}})}

HttpResponses(m) ==
    {HttpText([symbol |-> Http, line |-> m.line], order, m.body) :
        order \in AnyOrder({Text(0), Length(Len(m.body))})}

(* A server that sends its body in at most two chunks, and the last chunk. *)
Chunk(data) == <<Size(Len(data))>> \o CRLF \o data \o CRLF
Cuts(body) ==
    IF body = <<>> THEN {<<>>}
    ELSE {<<body>>} \cup {<<SubSeq(body, 1, n), From(body, n + 1)>> : n \in 1..Len(body) - 1}
ChunkedResponses(m) ==
    {HttpText([symbol |-> Http, line |-> m.line], <<Chunked>>,
              FlattenSeq([i \in DOMAIN parts |-> Chunk(parts[i])]) \o Chunk(<<>>)) :
        parts \in Cuts(m.body)}

-----------------------------------------------------------------------------
(* decode.  What is known of a message: m_parseStatus, the headers that    *)
(* matter, m_contentRemain, m_contentChunked, the body.                    *)

NewMsg == [status |-> "startline", headers |-> {}, remain |-> 0,
           chunked |-> FALSE, content |-> <<>>]

LineLen(s) == SelectInSeq(s, LAMBDA x : x = LF)    \* 0: no whole line

(* What decode leaves: the message, how much it erased, what it returned.  *)
Decoded(m, n, ret) == [msg |-> m, erased |-> n, ret |-> ret]
Refused(m, s) == Decoded(m, Len(s), "ERROR")    \* the buffer is reset
Parsed(m, n) ==
    Decoded(m, n, IF m.status = "completed" THEN "OK" ELSE "AGAIN")

(* parse_header for every whole line, up to the first line that starts     *)
(* like a blank one, whole or not; at is the end of the line before.       *)
ParseHeaders(m, s, at) ==
    LET starts == {at} \cup {i \in at + 1..Len(s) : s[i] = LF}
        blanks == {p \in starts : p < Len(s) /\ (IsCR(s[p + 1]) \/ s[p + 1] = LF)}
        stop   == IF blanks = {} THEN Max(starts) ELSE Min(blanks)
        blank  == IF blanks = {} THEN 0 ELSE LineLen(From(s, stop + 1))
    IN  [msg |-> [m EXCEPT !.status = IF blanks = {} THEN @ ELSE "content",
                           !.headers = @ \cup {s[p + 1] : p \in {q \in starts : q < stop}}],
         at  |-> stop + blank]

(* Content-Length comes before chunks, which only clients understand.      *)
StartContent(m, client) ==
    IF \E h \in m.headers : h[1] = "length"
    THEN [m EXCEPT !.remain = (CHOOSE h \in m.headers : h[1] = "length")[2]]
    ELSE [m EXCEPT !.chunked = client /\ Chunked \in m.headers]

(* A variant: only the end of a body completes a message.                  *)
ParseContentOfBody(m, s, at) ==
    LET n == Min({m.remain, Len(s) - at})
    IN  Parsed([m EXCEPT !.content = @ \o SubSeq(s, at + 1, at + n),
                         !.remain = @ - n,
                         !.status = IF n > 0 /\ m.remain = n THEN "completed" ELSE @],
               at + n)

ParseContent(m, s, at) ==
    LET n == Min({m.remain, Len(s) - at})
    IN  Parsed([m EXCEPT !.content = @ \o SubSeq(s, at + 1, at + n),
                         !.remain = @ - n,
                         !.status = IF m.remain = n THEN "completed" ELSE @],
               at + n)

(* parse_content_chunked.  A chunk after p counts when all of it is there, *)
(* else nothing of it is taken.                                            *)
Taken(data, p, why) == [data |-> data, end |-> p, why |-> why]

ChunkOfLine(s, p, line) ==
    LET size  == IF line > 2 THEN s[p + 1][2] ELSE 0
        end   == p + line + size + 2
        legal == /\ line > 1 /\ IsCR(s[p + line - 1])
                 /\ \A i \in 1..line - 2 : s[p + i][1] = "size"
    IN  CASE line = 0 -> Taken(<<>>, p, "partial")
          [] line > 0 /\ ~legal -> Taken(<<>>, p, "illegal")
          [] line > 0 /\ legal /\ Len(s) < end -> Taken(<<>>, p, "partial")
          [] line > 0 /\ legal /\ Len(s) >= end /\ size = 0 -> Taken(<<>>, end, "last")
          [] line > 0 /\ legal /\ Len(s) >= end /\ size > 0 ->
                 Taken(SubSeq(s, p + line + 1, p + line + size), end, "whole")

TakeChunk(s, p) == ChunkOfLine(s, p, LineLen(From(s, p + 1)))

(* All that are whole.                                                     *)
TakeChunks(s) ==
    LET take[p \in 0..Len(s)] ==
            LET chunk == TakeChunk(s, p)
            IN  IF chunk.why = "whole"
                THEN [take[chunk.end] EXCEPT !.data = chunk.data \o @] ELSE chunk
    IN  take

ParseChunks(m, s, at) ==
    LET taken == TakeChunks(s)[at]
        more  == [m EXCEPT !.content = @ \o taken.data]
    IN  CASE taken.why = "partial" -> Parsed(more, taken.end)
          [] taken.why = "illegal" -> Decoded(more, 0, "ERROR")
          [] taken.why = "last" -> Parsed([more EXCEPT !.status = "completed"], taken.end)

ParseBody(m, s, at) ==
    IF m.chunked THEN ParseChunks(m, s, at) ELSE ParseContent(m, s, at)

ParseMessage(m, s, at, client) ==
    LET header == ParseHeaders(m, s, at)
    IN  IF header.msg.status = "content"
        THEN ParseBody(StartContent(header.msg, client), s, header.at)
        ELSE Parsed(header.msg, header.at)

(* Only a response is refused for what its first line says.                *)
ParseStartLine(m, s, client) ==
    CASE LineLen(s) = 0 -> Decoded(m, 0, "AGAIN")
      [] LineLen(s) > 0 /\ client /\ s[1] # Http -> Refused(m, s)
      [] LineLen(s) > 0 /\ (client => s[1] = Http) ->
             ParseMessage([m EXCEPT !.status = "header"], s, LineLen(s), client)

DecodeHttp(m, s, client) ==
    CASE m.status = "completed" -> Decoded(m, 0, "OK")
      [] m.status = "content"   -> ParseBody(m, s, 0)
      [] m.status \in {"startline", "header"} /\ Len(s) > MaxHeader -> Refused(m, s)
      [] m.status = "header" /\ Len(s) <= MaxHeader -> ParseMessage(m, s, 0, client)
      [] m.status = "startline" /\ Len(s) <= MaxHeader -> ParseStartLine(m, s, client)

TcpHead == 2    \* sizeof(CoMsgTcpHead): the flag and the length of the body

(* A variant: of a whole message the length of the body is erased.         *)
DecodeTcpErasesBody(m, s) ==
    IF Len(s) > TcpHead /\ s[1] = Flag /\ s[2][2] <= Len(s) - TcpHead
    THEN Parsed([m EXCEPT !.status = "completed",
                          !.content = SubSeq(s, TcpHead + 1, TcpHead + s[2][2])],
                s[2][2])
    ELSE Decoded(m, 0, "AGAIN")

(* A head alone is no message yet, not even when the body is empty.        *)
DecodeTcp(m, s) ==
    CASE Len(s) <= TcpHead -> Decoded(m, 0, "AGAIN")
      [] Len(s) > TcpHead /\ s[1] # Flag -> Refused(m, s)
      [] Len(s) > TcpHead /\ s[1] = Flag /\ s[2][2] > Len(s) - TcpHead ->
             Decoded(m, 0, "AGAIN")
      [] Len(s) > TcpHead /\ s[1] = Flag /\ s[2][2] <= Len(s) - TcpHead ->
             Parsed([m EXCEPT !.status = "completed",
                              !.content = SubSeq(s, TcpHead + 1, TcpHead + s[2][2])],
                    TcpHead + s[2][2])

=============================================================================
