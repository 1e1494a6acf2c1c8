---------------------------- MODULE MCDispatcher ----------------------------
(***************************************************************************)
(* Small instances of Dispatcher.                                          *)
(***************************************************************************)
EXTENDS Dispatcher

CONSTANTS x1, x2, p1
=============================================================================
