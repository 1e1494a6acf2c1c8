--------------------------- MODULE SignalContract ---------------------------
(***************************************************************************)
(* What sidewire promises the callers of SmartPipe.send and                *)
(* MQTTClient.queue_msg, with no queue, packet, broker or clock in sight:  *)
(*                                                                         *)
(*   - handlers are only given texts somebody sent to their node;          *)
(*   - a caller told "delivered" is told so after the text was handed to   *)
(*     the handlers of the node it was sent to;                            *)
(*   - a caller gets one answer, and the answer does not change.           *)
(*                                                                         *)
(* AppProto implements it.                                                 *)
(***************************************************************************)
CONSTANTS Request     \* records with (at least) the fields dst and text

VARIABLES outcome,    \* what the caller of each request knows
          given       \* the <<node, text>> pairs handlers were given

vars == <<outcome, given>>

Init == /\ outcome = [r \in Request |-> "new"]
        /\ given = {}

Issue(r) == /\ outcome[r] = "new"
            /\ outcome' = [outcome EXCEPT ![r] = "sending"]
            /\ UNCHANGED given

HandOff(r) == /\ outcome[r] # "new"
              /\ given' = given \cup {<<r.dst, r.text>>}
              /\ UNCHANGED outcome

Confirm(r) == /\ outcome[r] = "sending"
              /\ <<r.dst, r.text>> \in given
              /\ outcome' = [outcome EXCEPT ![r] = "ok"]
              /\ UNCHANGED given

GiveUp(r) == /\ outcome[r] = "sending"
             /\ outcome' = [outcome EXCEPT ![r] = "failed"]
             /\ UNCHANGED given

Next == \E r \in Request : Issue(r) \/ HandOff(r) \/ Confirm(r) \/ GiveUp(r)

Spec == Init /\ [][Next]_vars
=============================================================================
