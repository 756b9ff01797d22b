------------------------------ MODULE MCExchange ------------------------------
(* Short messages, and messages whose first line is at and over the limit. *)
EXTENDS CoExchangeProperties

Bodies == {<<>>, <<Text(1), LF, Text(2), Text(3), LF>>}
MCMessage == [body : Bodies, line : {3, 5, 6}]
=============================================================================
