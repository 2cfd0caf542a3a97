--------------------------- MODULE CentralRequests ---------------------------
(***************************************************************************)
(* The central server's requests: account requests and fleet requests are     *)
(* coroutines of one event loop and share the bounds on how many are under    *)
(* way and how many are made.                                                *)
(***************************************************************************)
EXTENDS Accounts, TLC

CONSTANTS Owners, Keys, KeyNeeded

ASSUME FleetAssumption == None \notin Keys /\ KeyNeeded \in BOOLEAN

VARIABLES vehicles, edges, ask, proved, early, contested

INSTANCE FleetRegistry

fleetState == <<vehicles, edges, ask, proved, early, contested>>
accountState == <<users, issued, live, expired, req, epoch, settled, forked, ended>>

Init == AccountsInit /\ FleetInit

(* A call serves one request at a time. *)
Next ==
    \/ /\ Expire /\ UNCHANGED fleetState
    \/ \E c \in Calls :
          \/ /\ ask[c] = None /\ (Begin(c) \/ Proceed(c))
             /\ UNCHANGED fleetState
          \/ /\ req[c] = None /\ (FleetBegin(c) \/ FleetStep(c))
             /\ UNCHANGED accountState

Spec == Init /\ [][Next]_<<fleetState, accountState, begun>>

(* Requests, passwords, owners and keys are interchangeable. *)
Symmetry == Permutations(Calls) \cup Permutations(Words) \cup Permutations(Owners) \cup Permutations(Keys)

(* Type correctness of both, and a call serves one request at a time. *)
TypeOK == AccountsTypeOK /\ FleetTypeOK /\ \A c \in Calls : req[c] = None \/ ask[c] = None
=============================================================================
