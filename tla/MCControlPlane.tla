--------------------------- MODULE MCControlPlane ---------------------------
(***************************************************************************)
(* Two agents that work one after the other on a thread, and an operator   *)
(* who may trip and reset the pause of one of them.  That agent is denied, *)
(* up to twice, for an ordinary vendor or for the canary.                  *)
(***************************************************************************)
EXTENDS ControlPlane

CONSTANTS extraction, payment, acme, canary, i1

MCOperatorTrips == {[scope |-> "agent", target |-> payment]}

MCVerdicts == {[principal |-> payment, vendor |-> v, denied |-> TRUE] : v \in {acme, canary}}
=============================================================================
