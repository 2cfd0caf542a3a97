-------------------------- MODULE MCRoutineManager --------------------------
(* Small instances of the routine supervisor for TLC. *)
EXTENDS RoutineManager, TLC

CONSTANTS c1, c2

(* HTTP callers, and HTTP callers beside a voice command. *)
HttpCalls == {c1, c2}
VoiceCommand == {c2}
NoVoice == {}

(* A request may leave the lease window to the default or ask for one above  *)
(* the ceiling, and may ask for an absolute cap.                             *)
AnyWindow == {None, 5}
AnyCap == {None, 1}
DefaultOnly == {None}

Symmetry == Permutations(Calls) \cup Permutations(Routines)
=============================================================================
