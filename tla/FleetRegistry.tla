---------------------------- MODULE FleetRegistry ----------------------------
(***************************************************************************)
(* One vehicle of the central fleet registry: its Vehicle rows, the device    *)
(* key pinned in them and the edges from its owners (fleet_routes.py,         *)
(* fleet_store.py).                                                          *)
(*                                                                          *)
(* As in Accounts, a request gives way at every database statement.  Only     *)
(* the statements whose answer another request can change are steps.         *)
(***************************************************************************)
EXTENDS Integers, Sequences, FiniteSets

CONSTANTS
    Calls,       \* requests under way at once, at most
    Owners,      \* accounts
    Keys,        \* device keys
    None,        \* Python's None
    MaxRequests, \* bound: requests in one behaviour
    KeyNeeded    \* NOMON_FLEET_REQUIRE_DEVICE_KEY

VARIABLES
    vehicles, \* the key in each Vehicle row with the vin, None until pinned
    edges,    \* [Owners -> OwnsDevice edges to those rows]
    ask,      \* [Calls -> the request]
    begun,    \* requests begun
    proved,   \* history: [Owners -> the key that verified the latest proof to link]
    early,    \* history: the owners whose latest link found no pinned key
    contested \* history: two registrations found no pinned key at once

fleetVars == <<vehicles, edges, ask, begun, proved, early, contested>>

Ask == [op : {"register", "remove"}, owner : Owners, pin : Keys \cup {None},
        proof : Keys \cup {None}, first : BOOLEAN,
        at : {"owned", "count", "insert", "edge", "key", "unlink"}]

(* Type correctness of the vehicle's rows, its edges and the requests. *)
FleetTypeOK ==
    /\ vehicles \in Seq(Keys \cup {None})
    /\ edges \in [Owners -> Nat]
    /\ ask \in [Calls -> Ask \cup {None}]
    /\ begun \in 0 .. MaxRequests
    /\ proved \in [Owners -> Keys \cup {None}]
    /\ early \subseteq Owners
    /\ contested \in BOOLEAN

FleetInit ==
    /\ vehicles = <<>>
    /\ edges = [o \in Owners |-> 0]
    /\ ask = [c \in Calls |-> None]
    /\ proved = [o \in Owners |-> None]
    /\ begun = 0 /\ early = {} /\ contested = FALSE

(* The key get_device_public_key reads: that of the first row. *)
Pinned == IF vehicles = <<>> THEN None ELSE vehicles[1]

Asking(c, where) == ask[c] # None /\ ask[c].at = where
Moves(c, where) == ask' = [ask EXCEPT ![c].at = where]
Asks(c) == ask[c] = None /\ begun < MaxRequests /\ begun' = begun + 1
Answers(c) == ask' = [ask EXCEPT ![c] = None]

(* Another registration that found no pinned key is under way. *)
Rival(c) == \E d \in Calls \ {c} : /\ ask[d] # None
                                   /\ ask[d].op = "register" /\ ask[d].first

(* The proofs a vehicle hands out: signed with its identity key, or by one   *)
(* that has none in a way the registry cannot verify.                        *)
Proofs == Keys \cup {None}

(* A proof signed with a known key verifies against that key; with no key    *)
(* pinned or offered an unsigned (legacy) proof passes unless one is needed. *)
Verifies(offered, proof) ==
    LET key == IF Pinned # None THEN Pinned ELSE offered
    IN  IF key # None THEN proof = key ELSE ~KeyNeeded

(* Slip: an offered key is pinned over the one already there. *)
RegisterOver(c) == \E o \in Owners, offered \in Keys \cup {None}, proof \in Proofs :
    /\ Asks(c)
    /\ Verifies(offered, proof)
    /\ ask' = [ask EXCEPT ![c] = [op |-> "register", owner |-> o, proof |-> proof,
                  pin |-> offered, first |-> Pinned = None, at |-> "owned"]]
    /\ contested' = (contested \/ (Pinned = None /\ Rival(c)))
    /\ UNCHANGED <<vehicles, edges, proved, early>>

(* The pinned key is read and the proof is checked before the first write. *)
RegisterDevice(c) == \E o \in Owners, offered \in Keys \cup {None}, proof \in Proofs :
    /\ Asks(c)
    /\ Verifies(offered, proof)
    /\ ask' = [ask EXCEPT ![c] = [op |-> "register", owner |-> o, proof |-> proof,
                  pin |-> IF Pinned = None THEN offered ELSE None,
                  first |-> Pinned = None, at |-> "owned"]]
    /\ contested' = (contested \/ (Pinned = None /\ Rival(c)))
    /\ UNCHANGED <<vehicles, edges, proved, early>>

RemoveDevice(c) == \E o \in Owners :
    /\ Asks(c)
    /\ ask' = [ask EXCEPT ![c] = [op |-> "remove", owner |-> o, proof |-> None, pin |-> None,
                  first |-> FALSE, at |-> "owned"]]
    /\ UNCHANGED <<vehicles, edges, proved, early, contested>>

(* Both requests ask first whether the owner has the vehicle. *)
Owned(c) ==
    /\ Asking(c, "owned")
    /\ LET has == edges[ask[c].owner] > 0 IN
       CASE ask[c].op = "register" /\ ~has -> Moves(c, "count")
         [] ask[c].op = "remove" /\ has    -> Moves(c, "unlink")
         [] OTHER                          -> Answers(c)
    /\ UNCHANGED <<begun, vehicles, edges, proved, early, contested>>

CountVehicles(c) ==
    /\ Asking(c, "count")
    /\ Moves(c, IF vehicles = <<>> THEN "insert" ELSE "edge")
    /\ UNCHANGED <<begun, vehicles, edges, proved, early, contested>>

InsertVehicle(c) ==
    /\ Asking(c, "insert")
    /\ vehicles' = Append(vehicles, None)
    /\ Moves(c, "edge")
    /\ UNCHANGED <<begun, edges, proved, early, contested>>

(* One edge to every row of the vehicle. *)
CreateEdge(c) ==
    /\ Asking(c, "edge")
    /\ LET o == ask[c].owner IN
       /\ edges' = [edges EXCEPT ![o] = @ + Len(vehicles)]
       /\ proved' = [proved EXCEPT ![o] = ask[c].proof]
       /\ early' = IF ask[c].first THEN early \cup {o} ELSE early \ {o}
    /\ IF ask[c].pin # None THEN Moves(c, "key") ELSE Answers(c)
    /\ UNCHANGED <<begun, vehicles, contested>>

(* Every row of the vehicle gets the key, whatever it holds by now. *)
PinKey(c) ==
    /\ Asking(c, "key")
    /\ vehicles' = [i \in DOMAIN vehicles |-> ask[c].pin]
    /\ Answers(c)
    /\ UNCHANGED <<begun, edges, proved, early, contested>>

Unlink(c) ==
    /\ Asking(c, "unlink")
    /\ edges' = [edges EXCEPT ![ask[c].owner] = 0]
    /\ Answers(c)
    /\ UNCHANGED <<begun, vehicles, proved, early, contested>>

(* A statement fails and with it the request; what it did stays: an owner    *)
(* linked by a registration that failed before PinKey is refused when it      *)
(* tries again, and the vehicle stays without a key.                         *)
RequestFails(c) ==
    /\ ask[c] # None
    /\ Answers(c)
    /\ UNCHANGED <<begun, vehicles, edges, proved, early, contested>>

FleetStep(c) ==
    \/ Owned(c) \/ CountVehicles(c) \/ InsertVehicle(c) \/ CreateEdge(c) \/ PinKey(c) \/ Unlink(c)
    \/ RequestFails(c)

FleetBegin(c) == RegisterDevice(c) \/ RemoveDevice(c)

(* Safety: an owner linked since the vehicle's key was pinned proved it knew  *)
(* the very key that is pinned now (register_device: the key is pinned at the *)
(* first registration only), unless two registrations both found none.       *)
OwnersProved == contested \/ \A o \in Owners \ early :
    edges[o] > 0 => proved[o] = Pinned
=============================================================================
