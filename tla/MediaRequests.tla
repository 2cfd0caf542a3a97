---------------------------- MODULE MediaRequests ----------------------------
(***************************************************************************)
(* What the requests for sound and for pictures have in common.              *)
(***************************************************************************)
EXTENDS PythonNone, FiniteSets

CONSTANT Calls \* requests under way at once, at most
=============================================================================
