----------------------------- MODULE MediaDevices -----------------------------
(***************************************************************************)
(* The requests for sound and pictures of one gateway (api.py): the recorder,  *)
(* the player, the camera and the stream, which share the event loop a photo   *)
(* is taken on and the bound on how many requests are made.                  *)
(***************************************************************************)
EXTENDS AudioDevices, Camera, TLC

CONSTANT MaxRequests \* bound: requests

ASSUME MediaAssumption == MaxRequests \in Nat

VARIABLE begun \* requests made

allVars == <<audioVars, cameraVars, begun>>

Init == AudioInit /\ CameraInit /\ begun = 0

Free(c) == ask[c] = None /\ shot[c] = None /\ closing[c] = None

Begins(c) ==
    /\ Free(c) /\ begun < MaxRequests
    /\ begun' = begun + 1
    /\ \/ LoopFree /\ AudioBegin(c) /\ UNCHANGED cameraVars
       \/ CameraBegin(c) /\ UNCHANGED audioVars

Proceeds(c) ==
    /\ \/ AudioStep(c) /\ UNCHANGED cameraVars
       \/ CameraStep(c) /\ UNCHANGED audioVars
    /\ UNCHANGED begun

Next ==
    \/ \E c \in Calls : Begins(c) \/ Proceeds(c)
    \/ \E n \in DOMAIN loops : LoopEnds(n) /\ UNCHANGED <<cameraVars, begun>>
    \/ ListenerStarts /\ UNCHANGED <<cameraVars, begun>>
    \/ \E n \in DOMAIN servers : Bind(n) /\ UNCHANGED <<audioVars, begun>>

Spec == Init /\ [][Next]_allVars

(* Requests are interchangeable. *)
Symmetry == Permutations(Calls)

(* Type correctness of the devices; a call serves one request at a time. *)
TypeOK ==
    /\ AudioTypeOK /\ CameraTypeOK /\ begun \in 0 .. MaxRequests
    /\ \A c \in Calls : ask[c] = None \/ shot[c] = None
=============================================================================
