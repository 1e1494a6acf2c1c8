------------------------------ MODULE MCRouter ------------------------------
(***************************************************************************)
(* Small instances of Router.                                              *)
(***************************************************************************)
EXTENDS Router

CONSTANTS b1, b2, h1, u1, d1

MCHints == {{b2}, {h1}}
=============================================================================
