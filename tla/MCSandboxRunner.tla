--------------------------- MODULE MCSandboxRunner ---------------------------
(***************************************************************************)
(* Two uploads, of which the runner may serve the second while the first   *)
(* goes on after the backend gave up, and one fault.                       *)
(***************************************************************************)
EXTENDS SandboxRunner
=============================================================================
