----------------------------- MODULE MCInbound -----------------------------
(***************************************************************************)
(* A small instance of Inbound: digits to base 2, so that short packets    *)
(* have lengths of up to three bytes.                                      *)
(***************************************************************************)
EXTENDS Inbound

\* The response to a ping, a message whose length takes one byte, and a packet
\* of another kind whose length takes three.
MCPing == [first |-> 3, body |-> <<>>]
MCShort == [first |-> 1, body |-> <<3>>]
MCLong == [first |-> 2, body |-> <<1, 2, 3, 0>>]

MCPacket == {MCPing, MCShort, MCLong}
MCMsg == {MCShort}

MCBoundary ==
  UNION {{128 ^ i - 1, 128 ^ i, 128 ^ i + 1} : i \in 0 .. 4}
=============================================================================
