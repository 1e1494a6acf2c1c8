----------------------------- MODULE MCSession -----------------------------
(***************************************************************************)
(* Small instances of Session: up to two callers of connect(), up to three *)
(* connections at a time.                                                  *)
(***************************************************************************)
EXTENDS Session, TLC

CONSTANTS c1, c2, p1, p2, p3

Both  == Permutations(Pipe) \cup Permutations(Caller)
=============================================================================
