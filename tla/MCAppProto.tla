----------------------------- MODULE MCAppProto -----------------------------
(***************************************************************************)
(* Small instances of AppProto: a sender na and a receiver nc.             *)
(***************************************************************************)
EXTENDS AppProto, TLC

CONSTANTS na, nc, q1, q2, m1, m2, b1, b2, t1, t2

Req(n, queue, text) == [src |-> n, dst |-> nc, queue |-> queue, text |-> text]

NoRequest  == {}
OnePipe    == {Req(na, q1, m1)}
TwoInOrder == {Req(na, q2, m1), Req(na, q2, m2)}

NoSkew      == [n \in Node |-> 0]
SenderAhead == [n \in Node |-> IF n = na THEN 1 ELSE 0]

Tasks == Permutations({t1, t2})
=============================================================================
