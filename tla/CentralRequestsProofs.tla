------------------------ MODULE CentralRequestsProofs ------------------------
(***************************************************************************)
(* Proofs about the central server's requests, for any number of requests,   *)
(* tokens, owners and keys.                                                  *)
(***************************************************************************)
EXTENDS CentralRequests, FiniteSetTheorems, TLAPS

-----------------------------------------------------------------------------
(* The fleet registry. *)

Linking(c) == ask[c] # None /\ ask[c].op = "register"
First == {c \in Calls : Linking(c) /\ ask[c].first}

(* What the place of a request says of it. *)
AskPlaces == \A c \in Calls : ask[c] # None =>
    /\ ask[c].at \in {"count", "insert", "edge", "key"} => ask[c].op = "register"
    /\ ask[c].at = "key" => ask[c].pin # None
    /\ ~ask[c].first => ask[c].pin = None

(* One registration at a time may pin a key, and while there is one no key is  *)
(* pinned; the others proved the pinned key.                                 *)
Uncontested == contested \/
    /\ \A c, d \in First : c = d
    /\ First # {} => Pinned = None
    /\ \A c \in Calls : Linking(c) /\ ~ask[c].first => Pinned # None /\ ask[c].proof = Pinned
    /\ Pinned = None => \A o \in Owners \ early : edges[o] = 0

FleetInv == FleetTypeOK /\ AskPlaces /\ Uncontested /\ OwnersProved

LEMMA FleetInitInv == ASSUME FleetInit PROVE FleetInv
<1>1. 0 \in 0 .. MaxRequests /\ <<>> \in Seq(Keys \cup {None})
  BY AccountsAssumption
<1>2. FleetTypeOK
  <2>1. vehicles \in Seq(Keys \cup {None}) /\ begun \in 0 .. MaxRequests
    BY <1>1 DEF FleetInit
  <2>2. edges \in [Owners -> Nat] /\ ask \in [Calls -> Ask \cup {None}] /\ proved \in [Owners -> Keys \cup {None}]
    BY DEF FleetInit
  <2> QED  BY <2>1, <2>2 DEF FleetInit, FleetTypeOK
<1>3. \A c \in Calls : ask[c] = None
  BY DEF FleetInit
<1>4. \A o \in Owners : edges[o] = 0
  BY DEF FleetInit
<1> QED  BY <1>2, <1>3, <1>4 DEF FleetInv, AskPlaces, Uncontested, First, Linking, OwnersProved

(* What the requests' own state says once it is known how it changes. *)
LEMMA AskNone ==
    ASSUME FleetTypeOK, NEW c \in Calls, ask[c] # None
    PROVE  /\ ask[c] \in Ask /\ ask[c].owner \in Owners
           /\ ask[c].pin \in Keys \cup {None} /\ ask[c].proof \in Keys \cup {None}
BY DEF FleetTypeOK, Ask

LEMMA MovesType ==
    ASSUME FleetTypeOK, NEW c \in Calls, ask[c] # None,
           NEW where \in {"owned", "count", "insert", "edge", "key", "unlink"}, Moves(c, where)
    PROVE  /\ ask' \in [Calls -> Ask \cup {None}]
           /\ ask'[c] \in Ask /\ ask'[c].at = where
           /\ ask'[c].op = ask[c].op /\ ask'[c].pin = ask[c].pin
           /\ ask'[c].proof = ask[c].proof /\ ask'[c].first = ask[c].first
           /\ \A d \in Calls \ {c} : ask'[d] = ask[d]
<1>1. ask[c] \in Ask
  BY DEF FleetTypeOK
<1>2. [ask[c] EXCEPT !.at = where] \in Ask
  BY <1>1 DEF Ask
<1>3. ask' = [ask EXCEPT ![c] = [ask[c] EXCEPT !.at = where]]
  BY DEF Moves
<1>4. ask' \in [Calls -> Ask \cup {None}] /\ ask'[c] = [ask[c] EXCEPT !.at = where]
      /\ \A d \in Calls \ {c} : ask'[d] = ask[d]
  BY <1>2, <1>3 DEF FleetTypeOK
<1> QED  BY <1>1, <1>2, <1>4 DEF Ask

LEMMA AnswersType ==
    ASSUME FleetTypeOK, NEW c \in Calls, Answers(c)
    PROVE  /\ ask' \in [Calls -> Ask \cup {None}] /\ ask'[c] = None
           /\ \A d \in Calls \ {c} : ask'[d] = ask[d]
BY DEF FleetTypeOK, Answers

(* A request that goes on, or ends, stays the kind of request it was. *)
LEMMA Follows ==
    ASSUME FleetInv, NEW c \in Calls, ask[c] # None,
           \/ Answers(c)
           \/ \E where \in {"owned", "count", "insert", "edge", "key", "unlink"} : Moves(c, where)
    PROVE  /\ ask' \in [Calls -> Ask \cup {None}]
           /\ \A d \in Calls : Linking(d)' =>
                  Linking(d) /\ ask'[d].first = ask[d].first /\ ask'[d].proof = ask[d].proof
           /\ First' \subseteq First
<1>0. FleetTypeOK
  BY DEF FleetInv
<1>1. CASE Answers(c)
  BY <1>0, <1>1, AnswersType DEF Linking, First
<1>2. CASE \E where \in {"owned", "count", "insert", "edge", "key", "unlink"} : Moves(c, where)
  <2> PICK where \in {"owned", "count", "insert", "edge", "key", "unlink"} : Moves(c, where)
    BY <1>2
  <2> QED  BY <1>0, MovesType DEF Linking, First
<1> QED  BY <1>1, <1>2

(* Such a step keeps the invariant if it leaves the key and does no harm to    *)
(* the edges.                                                                *)
LEMMA FollowsUncontested ==
    ASSUME FleetInv, NEW c \in Calls, ask[c] # None,
           \/ Answers(c)
           \/ \E where \in {"owned", "count", "insert", "edge", "key", "unlink"} : Moves(c, where),
           Pinned' = Pinned, contested' = contested, proved' = proved, early' = early,
           \A o \in Owners : edges'[o] = edges[o] \/ edges'[o] = 0
    PROVE  Uncontested' /\ OwnersProved'
<1>1. CASE contested
  BY <1>1 DEF Uncontested, OwnersProved
<1>2. CASE ~contested
  <2>1. Uncontested'
    BY <1>2, Follows DEF FleetInv, Uncontested, First
  <2>2. OwnersProved'
    BY <1>2 DEF FleetInv, FleetTypeOK, OwnersProved
  <2> QED  BY <2>1, <2>2
<1> QED  BY <1>1, <1>2

LEMMA RegisterInv ==
    ASSUME FleetInv, NEW c \in Calls, RegisterDevice(c)
    PROVE  FleetInv'
<1> PICK o \in Owners, offered \in Keys \cup {None}, proof \in Keys \cup {None} :
      /\ Asks(c) /\ Verifies(offered, proof)
      /\ ask' = [ask EXCEPT ![c] = [op |-> "register", owner |-> o, proof |-> proof,
                    pin |-> IF Pinned = None THEN offered ELSE None,
                    first |-> Pinned = None, at |-> "owned"]]
      /\ contested' = (contested \/ (Pinned = None /\ Rival(c)))
      /\ UNCHANGED <<vehicles, edges, proved, early>>
  BY DEF RegisterDevice, Proofs
<1> DEFINE new == [op |-> "register", owner |-> o, proof |-> proof,
                   pin |-> IF Pinned = None THEN offered ELSE None,
                   first |-> Pinned = None, at |-> "owned"]
<1>0. FleetTypeOK /\ ask[c] = None
  BY DEF FleetInv, Asks
<1>1. /\ new \in Ask /\ new.op = "register" /\ new.first = (Pinned = None) /\ new.proof = proof
      /\ new.at = "owned" /\ (~new.first => new.pin = None)
  BY DEF Ask
<1>2. ask' \in [Calls -> Ask \cup {None}] /\ ask'[c] = new /\ \A d \in Calls \ {c} : ask'[d] = ask[d]
  BY <1>0, <1>1 DEF FleetTypeOK
<1> HIDE DEF new
<1>3. begun' \in 0 .. MaxRequests
  BY <1>0, AccountsAssumption DEF FleetTypeOK, Asks
<1>4. FleetTypeOK'
  BY <1>0, <1>2, <1>3 DEF FleetTypeOK
<1>5. AskPlaces'
  BY <1>1, <1>2 DEF FleetInv, AskPlaces
<1>6. Pinned' = Pinned
  BY DEF Pinned
<1>7. OwnersProved'
  BY <1>6 DEF FleetInv, OwnersProved
<1>8. Uncontested'
  <2> SUFFICES ASSUME ~contested' PROVE Uncontested'
    BY DEF Uncontested
  <2>1. ~contested /\ (Pinned = None => ~Rival(c))
    OBVIOUS
  <2>2. CASE Pinned = None
    <3>1. First = {}
      BY <2>1, <2>2, <1>0 DEF Rival, First, Linking
    <3>2. First' \subseteq {c}
      BY <3>1, <1>2 DEF First, Linking
    <3>3. \A d \in Calls : Linking(d)' /\ ~ask'[d].first => FALSE
      BY <1>1, <1>2, <2>1, <2>2 DEF FleetInv, Uncontested, Linking
    <3> QED  BY <2>1, <2>2, <3>2, <3>3, <1>6 DEF FleetInv, Uncontested
  <2>3. CASE Pinned # None
    <3>1. First = {}
      BY <2>1, <2>3 DEF FleetInv, Uncontested
    <3>2. First' = {}
      BY <3>1, <2>3, <1>1, <1>2 DEF First, Linking
    <3>3. proof = Pinned
      BY <2>3 DEF Verifies
    <3>4. \A d \in Calls : Linking(d)' => ask'[d].proof = Pinned
      BY <1>1, <1>2, <2>1, <3>1, <3>3 DEF FleetInv, Uncontested, Linking, First
    <3> QED  BY <2>3, <3>2, <3>4, <1>6 DEF Uncontested
  <2> QED  BY <2>2, <2>3
<1> QED  BY <1>4, <1>5, <1>7, <1>8 DEF FleetInv

LEMMA RemoveInv ==
    ASSUME FleetInv, NEW c \in Calls, RemoveDevice(c)
    PROVE  FleetInv'
<1> PICK o \in Owners :
      /\ Asks(c)
      /\ ask' = [ask EXCEPT ![c] = [op |-> "remove", owner |-> o, proof |-> None, pin |-> None,
                    first |-> FALSE, at |-> "owned"]]
      /\ UNCHANGED <<vehicles, edges, proved, early, contested>>
  BY DEF RemoveDevice
<1> DEFINE new == [op |-> "remove", owner |-> o, proof |-> None, pin |-> None,
                   first |-> FALSE, at |-> "owned"]
<1>0. FleetTypeOK /\ ask[c] = None
  BY DEF FleetInv, Asks
<1>1. new \in Ask /\ new.op = "remove" /\ new.at = "owned" /\ new.pin = None
  BY DEF Ask
<1>2. ask' \in [Calls -> Ask \cup {None}] /\ ask'[c] = new /\ \A d \in Calls \ {c} : ask'[d] = ask[d]
  BY <1>0, <1>1 DEF FleetTypeOK
<1> HIDE DEF new
<1>3. begun' \in 0 .. MaxRequests
  BY <1>0, AccountsAssumption DEF FleetTypeOK, Asks
<1>4. FleetTypeOK'
  BY <1>0, <1>2, <1>3 DEF FleetTypeOK
<1>5. AskPlaces'
  BY <1>1, <1>2 DEF FleetInv, AskPlaces
<1>6. Pinned' = Pinned
  BY DEF Pinned
<1>7. \A d \in Calls : Linking(d)' => Linking(d) /\ ask'[d] = ask[d]
  BY <1>1, <1>2 DEF Linking
<1>8. Uncontested' /\ OwnersProved'
  BY <1>6, <1>7 DEF FleetInv, Uncontested, OwnersProved, First
<1> QED  BY <1>4, <1>5, <1>8 DEF FleetInv

(* A request's own step is one of these two. *)
LEMMA GoesOn ==
    ASSUME FleetInv, NEW c \in Calls, ask[c] # None,
           NEW where \in {"owned", "count", "insert", "edge", "key", "unlink"}, Moves(c, where),
           where \in {"count", "insert", "edge", "key"} => ask[c].op = "register",
           where = "key" => ask[c].pin # None
    PROVE  AskPlaces'
<1>1. FleetTypeOK
  BY DEF FleetInv
<1>2. /\ ask'[c].at = where /\ ask'[c].op = ask[c].op /\ ask'[c].pin = ask[c].pin
      /\ ask'[c].first = ask[c].first /\ \A d \in Calls \ {c} : ask'[d] = ask[d]
  BY <1>1, MovesType
<1> QED  BY <1>2 DEF FleetInv, AskPlaces

LEMMA GoesHome ==
    ASSUME FleetInv, NEW c \in Calls, Answers(c)
    PROVE  AskPlaces'
<1>1. FleetTypeOK
  BY DEF FleetInv
<1> QED  BY <1>1, AnswersType DEF FleetInv, AskPlaces

LEMMA FleetStepInv ==
    ASSUME FleetInv, NEW c \in Calls, FleetStep(c)
    PROVE  FleetInv'
<1>0. FleetTypeOK /\ begun' = begun
  BY DEF FleetInv, FleetStep, Owned, CountVehicles, InsertVehicle, CreateEdge, PinKey, Unlink, RequestFails
<1>a. ask[c] # None
  BY DEF FleetStep, Owned, CountVehicles, InsertVehicle, CreateEdge, PinKey, Unlink, RequestFails, Asking
<1>b. ask[c].pin \in Keys \cup {None} /\ ask[c].proof \in Keys \cup {None} /\ ask[c].owner \in Owners
  BY <1>0, <1>a, AskNone
<1>1. ASSUME Owned(c) PROVE FleetInv'
  <2>1. Answers(c) \/ (ask[c].op = "register" /\ Moves(c, "count")) \/ Moves(c, "unlink")
    BY <1>1 DEF Owned
  <2>2. AskPlaces'
    BY <1>a, <2>1, GoesOn, GoesHome
  <2>3. UNCHANGED <<vehicles, edges, proved, early, contested>> /\ Pinned' = Pinned
    BY <1>1 DEF Owned, Pinned
  <2>4. Uncontested' /\ OwnersProved' /\ ask' \in [Calls -> Ask \cup {None}]
    BY <1>a, <2>1, <2>3, Follows, FollowsUncontested
  <2> QED  BY <1>0, <2>2, <2>3, <2>4 DEF FleetInv, FleetTypeOK
<1>2. ASSUME CountVehicles(c) PROVE FleetInv'
  <2>1. Moves(c, "insert") \/ Moves(c, "edge")
    BY <1>2 DEF CountVehicles
  <2>2. ask[c].op = "register"
    BY <1>2 DEF CountVehicles, Asking, FleetInv, AskPlaces
  <2>3. AskPlaces'
    BY <1>a, <2>1, <2>2, GoesOn
  <2>4. UNCHANGED <<vehicles, edges, proved, early, contested>> /\ Pinned' = Pinned
    BY <1>2 DEF CountVehicles, Pinned
  <2>5. Uncontested' /\ OwnersProved' /\ ask' \in [Calls -> Ask \cup {None}]
    BY <1>a, <2>1, <2>4, Follows, FollowsUncontested
  <2> QED  BY <1>0, <2>3, <2>4, <2>5 DEF FleetInv, FleetTypeOK
<1>3. ASSUME InsertVehicle(c) PROVE FleetInv'
  <2>1. Moves(c, "edge") /\ vehicles' = Append(vehicles, None) /\ UNCHANGED <<edges, proved, early, contested>>
    BY <1>3 DEF InsertVehicle
  <2>2. ask[c].op = "register"
    BY <1>3 DEF InsertVehicle, Asking, FleetInv, AskPlaces
  <2>3. AskPlaces'
    BY <1>a, <2>1, <2>2, GoesOn
  <2>4. vehicles \in Seq(Keys \cup {None})
    BY <1>0 DEF FleetTypeOK
  <2>5. vehicles' \in Seq(Keys \cup {None}) /\ vehicles' # <<>>
    BY <2>1, <2>4
  <2>6. Pinned' = Pinned
    <3>1. CASE vehicles = <<>>
      BY <2>1, <3>1 DEF Pinned
    <3>2. CASE vehicles # <<>>
      BY <2>1, <2>4, <2>5, <3>2 DEF Pinned
    <3> QED  BY <3>1, <3>2
  <2>7. Uncontested' /\ OwnersProved' /\ ask' \in [Calls -> Ask \cup {None}]
    BY <1>a, <2>1, <2>6, Follows, FollowsUncontested
  <2> QED  BY <1>0, <2>1, <2>3, <2>5, <2>7 DEF FleetInv, FleetTypeOK
<1>4. ASSUME CreateEdge(c) PROVE FleetInv'
  <2> DEFINE o == ask[c].owner
  <2>1. /\ edges' = [edges EXCEPT ![o] = @ + Len(vehicles)]
        /\ proved' = [proved EXCEPT ![o] = ask[c].proof]
        /\ early' = IF ask[c].first THEN early \cup {o} ELSE early \ {o}
        /\ (ask[c].pin # None /\ Moves(c, "key")) \/ Answers(c)
        /\ UNCHANGED <<vehicles, contested>>
    BY <1>4 DEF CreateEdge
  <2>2. ask[c].op = "register"
    BY <1>4 DEF CreateEdge, Asking, FleetInv, AskPlaces
  <2>3. AskPlaces'
    BY <1>a, <2>1, <2>2, GoesOn, GoesHome
  <2>4. vehicles \in Seq(Keys \cup {None}) /\ Len(vehicles) \in Nat
    BY <1>0 DEF FleetTypeOK
  <2>5. FleetTypeOK'
    <3>1. edges' \in [Owners -> Nat] /\ proved' \in [Owners -> Keys \cup {None}] /\ early' \subseteq Owners
      BY <1>0, <1>b, <2>1, <2>4 DEF FleetTypeOK
    <3>2. ask' \in [Calls -> Ask \cup {None}]
      BY <1>a, <2>1, Follows
    <3> QED  BY <1>0, <2>1, <3>1, <3>2 DEF FleetTypeOK
  <2>6. Pinned' = Pinned
    BY <2>1 DEF Pinned
  <2>7. ASSUME ~contested PROVE Uncontested' /\ OwnersProved'
    <3>1. \A d \in Calls : Linking(d)' =>
              Linking(d) /\ ask'[d].first = ask[d].first /\ ask'[d].proof = ask[d].proof
      BY <1>a, <2>1, Follows
    <3>2. First' \subseteq First
      BY <1>a, <2>1, Follows
    <3>3. Linking(c) /\ (ask[c].first => c \in First)
      BY <1>a, <2>2 DEF Linking, First
    <3>4. ~ask[c].first => Pinned # None /\ ask[c].proof = Pinned
      BY <2>7, <3>3 DEF FleetInv, Uncontested
    <3>5. \A p \in Owners \ {o} : edges'[p] = edges[p] /\ proved'[p] = proved[p] /\ (p \in early <=> p \in early')
      BY <1>0, <1>b, <2>1 DEF FleetTypeOK
    <3>6. proved'[o] = ask[c].proof
      BY <1>0, <1>b, <2>1 DEF FleetTypeOK
    <3>7. OwnersProved'
      BY <2>6, <2>7, <3>4, <3>5, <3>6, <1>b, <2>1 DEF FleetInv, OwnersProved
    <3>8. Pinned = None => \A p \in Owners \ early' : edges'[p] = 0
      <4> SUFFICES ASSUME Pinned = None, NEW p \in Owners \ early' PROVE edges'[p] = 0
        OBVIOUS
      <4>1. ask[c].first
        BY <3>4
      <4>2. p # o
        BY <4>1, <2>1
      <4> QED  BY <4>2, <3>5, <2>7 DEF FleetInv, Uncontested
    <3> QED  BY <2>6, <2>7, <3>1, <3>2, <3>7, <3>8 DEF FleetInv, Uncontested
  <2>8. contested => Uncontested' /\ OwnersProved'
    BY <2>1 DEF Uncontested, OwnersProved
  <2> QED  BY <2>3, <2>5, <2>7, <2>8 DEF FleetInv
<1>5. ASSUME PinKey(c) PROVE FleetInv'
  <2>1. /\ vehicles' = [i \in DOMAIN vehicles |-> ask[c].pin]
        /\ Answers(c) /\ UNCHANGED <<edges, proved, early, contested>>
    BY <1>5 DEF PinKey
  <2>2. ask[c].op = "register" /\ ask[c].pin # None /\ ask[c].first
    BY <1>5 DEF PinKey, Asking, FleetInv, AskPlaces
  <2>3. AskPlaces'
    BY <2>1, GoesHome
  <2>4. vehicles' \in Seq(Keys \cup {None})
    <3>1. vehicles \in Seq(Keys \cup {None})
      BY <1>0 DEF FleetTypeOK
    <3>2. DOMAIN vehicles = 1 .. Len(vehicles) /\ Len(vehicles) \in Nat
      BY <3>1
    <3> QED  BY <1>b, <2>1, <3>2
  <2>5. FleetTypeOK'
    BY <1>0, <2>1, <2>4, AnswersType DEF FleetTypeOK
  <2>6. ASSUME ~contested PROVE Uncontested' /\ OwnersProved'
    <3>1. c \in First
      BY <1>a, <2>2 DEF First, Linking
    <3>2. \A d \in Calls : Linking(d)' => Linking(d) /\ ask'[d] = ask[d] /\ d # c
      BY <1>0, <2>1, AnswersType DEF Linking
    <3>3. First' = {}
      BY <2>6, <3>1, <3>2 DEF FleetInv, Uncontested, First
    <3>4. Pinned = None
      BY <2>6, <3>1 DEF FleetInv, Uncontested
    <3>5. \A d \in Calls : ~Linking(d)'
      BY <2>6, <3>1, <3>2, <3>4 DEF FleetInv, Uncontested, First
    <3>6. \A p \in Owners \ early : edges[p] = 0
      BY <2>6, <3>4 DEF FleetInv, Uncontested
    <3> QED  BY <2>1, <2>6, <3>3, <3>5, <3>6 DEF Uncontested, OwnersProved
  <2>7. contested => Uncontested' /\ OwnersProved'
    BY <2>1 DEF Uncontested, OwnersProved
  <2> QED  BY <2>3, <2>5, <2>6, <2>7 DEF FleetInv
<1>6. ASSUME Unlink(c) PROVE FleetInv'
  <2>1. edges' = [edges EXCEPT ![ask[c].owner] = 0] /\ Answers(c) /\ UNCHANGED <<vehicles, proved, early, contested>>
    BY <1>6 DEF Unlink
  <2>2. edges' \in [Owners -> Nat] /\ \A o \in Owners : edges'[o] = edges[o] \/ edges'[o] = 0
    BY <1>0, <2>1 DEF FleetTypeOK
  <2>3. Pinned' = Pinned
    BY <2>1 DEF Pinned
  <2>4. AskPlaces'
    BY <2>1, GoesHome
  <2>5. Uncontested' /\ OwnersProved'
    BY <1>a, <2>1, <2>2, <2>3, FollowsUncontested
  <2> QED  BY <1>0, <2>1, <2>2, <2>4, <2>5, AnswersType DEF FleetInv, FleetTypeOK
<1>7. ASSUME RequestFails(c) PROVE FleetInv'
  <2>1. Answers(c) /\ UNCHANGED <<vehicles, edges, proved, early, contested>>
    BY <1>7 DEF RequestFails
  <2>2. Pinned' = Pinned
    BY <2>1 DEF Pinned
  <2>3. AskPlaces'
    BY <2>1, GoesHome
  <2>4. Uncontested' /\ OwnersProved'
    BY <1>a, <2>1, <2>2, FollowsUncontested
  <2> QED  BY <1>0, <2>1, <2>3, <2>4, AnswersType DEF FleetInv, FleetTypeOK
<1> QED  BY <1>1, <1>2, <1>3, <1>4, <1>5, <1>6, <1>7 DEF FleetStep

-----------------------------------------------------------------------------
(* The accounts. *)

(* A request's place in the code and what it carries agree; what it may yet    *)
(* store rests on a password that the latest change did not revoke.          *)
Sound(r) ==
    /\ r \in Request
    /\ r.session \in DOMAIN issued \cup {None}
    /\ r.at \in {"exists", "again", "insert", "verify"} => r.session = None /\ r.word \in Words
    /\ r.at \in {"find", "delete"} => r.token \in DOMAIN issued /\ r.session = issued[r.token].session
    /\ r.at \in {"tally", "wipe"} => r.basis <= epoch
    /\ \/ r.at = "store"
       \/ r.at = "delete" /\ r.op = "refresh"
       \/ r.at = "find" /\ r.token \in live
       => r.late \/ r.basis >= settled

AllSound == \A c \in Calls : req[c] # None => Sound(req[c])

(* The requests that will store a token of the session. *)
Claims(s) == {c \in Calls : /\ req[c] # None /\ req[c].session = s
                            /\ \/ req[c].at = "store"
                               \/ req[c].at = "delete" /\ req[c].op = "refresh"}

(* A session is held by one token, or by the request that replaces it. *)
OneClaim(s) ==
    /\ \A c, d \in Claims(s) : c = d
    /\ \A c \in Claims(s), t \in InSession(s) : req[c].at = "delete" /\ t = req[c].token
    /\ \A t, u \in InSession(s) : t = u
    /\ s \in ended => InSession(s) = {} /\ Claims(s) = {}

Unshared == \A c, d \in Calls :
    c # d /\ At(c, "delete") /\ At(d, "delete") /\ req[c].token = req[d].token =>
        req[c].session \in forked

Issues == ended \subseteq DOMAIN issued /\ \A t \in DOMAIN issued : issued[t].session \in DOMAIN issued

AccountInv ==
    /\ AccountsTypeOK /\ Issues /\ AllSound /\ Unshared
    /\ \A s \in DOMAIN issued \ forked : OneClaim(s)
    /\ ChangeEndsSessions

LEMMA AccountInitInv == ASSUME AccountsInit PROVE AccountInv
<1> DEFINE token == [session |-> 1, basis |-> 0, late |-> FALSE]
<1>1. MaxRequests \in Nat /\ MaxTokens \in Nat \ {0} /\ 0 \in 0 .. MaxRequests /\ 1 \in Tokens
  BY AccountsAssumption DEF Tokens
<1>2. token \in Token
  BY <1>1 DEF Token
<1>3. /\ users \in Seq(Words) /\ issued \in Seq(Token) /\ Len(issued) <= MaxTokens
      /\ live \subseteq DOMAIN issued
      /\ \A t \in DOMAIN issued : issued[t].session = t /\ issued[t].basis = 0
      /\ \A t, u \in live : t = u
  <2>1. CASE users = <<>> /\ issued = <<>> /\ live = {}
    BY <1>1, <2>1
  <2>2. CASE (\E w \in Words : users = <<w>>) /\ issued = <<token>> /\ live = {1}
    <3>1. issued \in Seq(Token) /\ Len(issued) = 1 /\ DOMAIN issued = {1} /\ issued[1] = token
      BY <1>2, <2>2
    <3>2. users \in Seq(Words)
      BY <2>2
    <3> QED  BY <1>1, <2>2, <3>1, <3>2
  <2> QED  BY <2>1, <2>2 DEF AccountsInit
<1>4. req \in [Calls -> {None}] /\ begun = 0 /\ epoch = 0 /\ settled = 0 /\ expired = {} /\ forked = {} /\ ended = {}
  BY DEF AccountsInit
<1>5. \A c \in Calls : req[c] = None
  BY <1>4
<1>6. AccountsTypeOK
  BY <1>1, <1>3, <1>4 DEF AccountsTypeOK
<1>7. Issues /\ AllSound /\ Unshared /\ ChangeEndsSessions
  BY <1>3, <1>4, <1>5 DEF Issues, AllSound, Unshared, At, ChangeEndsSessions
<1>8. \A s \in DOMAIN issued : OneClaim(s)
  BY <1>3, <1>4, <1>5 DEF OneClaim, Claims, InSession
<1> QED  BY <1>6, <1>7, <1>8 DEF AccountInv

(* Types in the form the steps use them. *)
LEMMA AccountTypes ==
    ASSUME AccountInv
    PROVE  /\ issued \in Seq(Token) /\ Len(issued) \in Nat /\ Len(issued) <= MaxTokens
           /\ DOMAIN issued = 1 .. Len(issued) /\ DOMAIN issued \subseteq Tokens
           /\ \A t \in DOMAIN issued : issued[t] \in Token
           /\ MaxTokens \in Nat /\ MaxRequests \in Nat /\ None \notin Tokens
           /\ epoch \in Nat /\ settled \in Nat /\ settled <= epoch
<1>1. MaxRequests \in Nat /\ MaxTokens \in Nat /\ None \notin Nat
  BY AccountsAssumption
<1>2. issued \in Seq(Token) /\ Len(issued) <= MaxTokens /\ epoch \in Nat /\ settled \in 0 .. epoch
  BY DEF AccountInv, AccountsTypeOK
<1>3. Len(issued) \in Nat /\ DOMAIN issued = 1 .. Len(issued) /\ \A t \in DOMAIN issued : issued[t] \in Token
  BY <1>2
<1> QED  BY <1>1, <1>2, <1>3 DEF Tokens

(* A step that issues no token and makes no request a claimant of a session    *)
(* keeps the invariant.                                                      *)
LEMMA Quietly ==
    ASSUME AccountInv, NEW c \in Calls, AccountsTypeOK',
           issued' = issued, live' \subseteq live, forked \subseteq forked', ended' = ended,
           settled' = settled, epoch' >= epoch,
           \A d \in Calls \ {c} : req'[d] = req[d],
           req'[c] # None =>
               /\ Sound(req[c])'
               /\ req'[c].at # "delete" /\ (req'[c].at = "store" => req'[c].session = None)
    PROVE  AccountInv'
<1>0. None \notin DOMAIN issued /\ epoch \in Nat /\ epoch' \in Nat
  BY AccountTypes DEF AccountsTypeOK
<1>1. AllSound'
  <2> SUFFICES ASSUME NEW d \in Calls, req'[d] # None, d # c PROVE Sound(req[d])'
    BY DEF AllSound
  <2>1. req'[d] = req[d] /\ Sound(req[d])
    BY DEF AccountInv, AllSound
  <2>2. req[d].basis \in Nat
    BY <2>1 DEF Sound, Request
  <2> QED  BY <2>1, <2>2, <1>0 DEF Sound
<1>2. Unshared'
  BY DEF AccountInv, Unshared, At
<1>3. Issues' /\ ChangeEndsSessions'
  BY DEF AccountInv, Issues, ChangeEndsSessions
<1>4. ASSUME NEW s \in DOMAIN issued' \ forked' PROVE OneClaim(s)'
  <2>1. OneClaim(s)
    BY <1>4 DEF AccountInv
  <2>2. InSession(s)' \subseteq InSession(s)
    BY DEF InSession
  <2>3. \A d \in Claims(s)' : d \in Claims(s) /\ req'[d] = req[d]
    BY <1>0, <1>4 DEF Claims
  <2> QED  BY <2>1, <2>2, <2>3 DEF OneClaim
<1> QED  BY <1>1, <1>2, <1>3, <1>4 DEF AccountInv

Ops == {"register", "login", "refresh", "logout", "change"}
Places == {"exists", "again", "insert", "verify", "find", "delete", "store", "set", "tally", "wipe"}

LEMMA Begun ==
    ASSUME AccountInv, NEW c \in Calls, NEW op \in Ops, NEW at \in Places,
           NEW word \in Words \cup {None}, NEW token \in DOMAIN issued \cup {None},
           Begins(c, op, at, word, token)
    PROVE  /\ req[c] = None /\ begun' \in 0 .. MaxRequests
           /\ req' \in [Calls -> Request \cup {None}]
           /\ \A d \in Calls \ {c} : req'[d] = req[d]
           /\ req'[c] \in Request /\ req'[c].op = op /\ req'[c].at = at /\ req'[c].token = token
           /\ req'[c].word = word
           /\ req'[c].session = IF token = None THEN None ELSE issued[token].session
           /\ token # None => req'[c].basis = issued[token].basis /\ req'[c].late = issued[token].late
<1> DEFINE new == [op |-> op, at |-> at, word |-> word, token |-> token,
                   session |-> IF token = None THEN None ELSE issued[token].session,
                   basis |-> IF token = None THEN 0 ELSE issued[token].basis,
                   late |-> IF token = None THEN FALSE ELSE issued[token].late]
<1>1. token # None => issued[token] \in Token /\ token \in Tokens
  BY AccountTypes
<1>2. new \in Request
  BY <1>1 DEF Request, Token, Ops, Places
<1>3. /\ new.op = op /\ new.at = at /\ new.token = token /\ new.word = word
      /\ new.session = IF token = None THEN None ELSE issued[token].session
      /\ token # None => new.basis = issued[token].basis /\ new.late = issued[token].late
  OBVIOUS
<1>4. req[c] = None /\ req' = [req EXCEPT ![c] = new] /\ begun' = begun + 1 /\ begun < MaxRequests
  BY DEF Begins
<1> HIDE DEF new
<1>5. req \in [Calls -> Request \cup {None}] /\ begun \in 0 .. MaxRequests /\ MaxRequests \in Nat
  BY AccountsAssumption DEF AccountInv, AccountsTypeOK
<1> QED  BY <1>2, <1>3, <1>4, <1>5

(* A request that goes on to another place with what it carries. *)
LEMMA Gone ==
    ASSUME AccountInv, NEW c \in Calls, req[c] # None, NEW where \in Places, Goes(c, where)
    PROVE  /\ req' \in [Calls -> Request \cup {None}]
           /\ \A d \in Calls \ {c} : req'[d] = req[d]
           /\ req[c] \in Request /\ req'[c] \in Request /\ req'[c].at = where
           /\ req'[c].op = req[c].op /\ req'[c].token = req[c].token
           /\ req'[c].session = req[c].session /\ req'[c].basis = req[c].basis
           /\ req'[c].late = req[c].late /\ req'[c].word = req[c].word
<1>1. req \in [Calls -> Request \cup {None}] /\ req[c] \in Request
  BY DEF AccountInv, AccountsTypeOK
<1> DEFINE new == [req[c] EXCEPT !.at = where]
<1>2. /\ new \in Request /\ new.at = where /\ new.op = req[c].op /\ new.token = req[c].token
      /\ new.session = req[c].session /\ new.basis = req[c].basis /\ new.late = req[c].late
      /\ new.word = req[c].word
  BY <1>1 DEF Request, Places
<1>3. req' = [req EXCEPT ![c] = new]
  BY DEF Goes
<1> HIDE DEF new
<1> QED  BY <1>1, <1>2, <1>3

(* A request that goes on with a basis of its own. *)
LEMMA GoneWith ==
    ASSUME AccountInv, NEW c \in Calls, req[c] # None, NEW where \in Places, NEW basis \in Nat,
           req' = [req EXCEPT ![c].at = where, ![c].basis = basis]
    PROVE  /\ req' \in [Calls -> Request \cup {None}]
           /\ \A d \in Calls \ {c} : req'[d] = req[d]
           /\ req[c] \in Request /\ req'[c] \in Request /\ req'[c].at = where
           /\ req'[c].session = req[c].session /\ req'[c].basis = basis
<1>1. req \in [Calls -> Request \cup {None}] /\ req[c] \in Request
  BY DEF AccountInv, AccountsTypeOK
<1> DEFINE new == [[req[c] EXCEPT !.at = where] EXCEPT !.basis = basis]
<1>2. new \in Request /\ new.at = where /\ new.session = req[c].session /\ new.basis = basis
  BY <1>1 DEF Request, Places
<1>3. req' = [req EXCEPT ![c] = new]
  BY <1>1 DEF Request
<1> HIDE DEF new
<1> QED  BY <1>1, <1>2, <1>3

LEMMA Ended ==
    ASSUME AccountInv, NEW c \in Calls, Ends(c)
    PROVE  /\ req' \in [Calls -> Request \cup {None}] /\ req'[c] = None
           /\ \A d \in Calls \ {c} : req'[d] = req[d]
BY DEF AccountInv, AccountsTypeOK, Ends

(* The request of a call is sound. *)
LEMMA Sounds ==
    ASSUME AccountInv, NEW c \in Calls, req[c] # None
    PROVE  Sound(req[c]) /\ req[c] \in Request
BY DEF AccountInv, AllSound, Sound

-----------------------------------------------------------------------------
(* The requests begin. *)

LEMMA BeginInv ==
    ASSUME AccountInv, NEW c \in Calls, Begin(c)
    PROVE  AccountInv'
<1>1. ASSUME NEW op \in Ops, NEW at \in {"exists", "verify"}, NEW w \in Words,
             Begins(c, op, at, w, None),
             UNCHANGED <<users, issued, live, expired, epoch, settled, forked, ended>>
      PROVE  AccountInv'
  <2>1. /\ begun' \in 0 .. MaxRequests /\ req' \in [Calls -> Request \cup {None}]
        /\ \A d \in Calls \ {c} : req'[d] = req[d]
        /\ req'[c] \in Request /\ req'[c].at = at /\ req'[c].session = None /\ req'[c].word = w
    BY <1>1, Begun DEF Places
  <2>2. AccountsTypeOK'
    BY <1>1, <2>1 DEF AccountInv, AccountsTypeOK
  <2>3. Sound(req[c])'
    BY <1>1, <2>1 DEF Sound
  <2>4. epoch' >= epoch
    BY <1>1, AccountTypes
  <2> QED  BY <1>1, <2>1, <2>2, <2>3, <2>4, Quietly
<1>2. CASE Register(c) \/ Login(c) \/ Change(c)
  BY <1>1, <1>2 DEF Register, Login, Change, Ops
<1>3. CASE Refresh(c)
  <2> PICK t \in DOMAIN issued :
        /\ Begins(c, "refresh", "find", None, t)
        /\ UNCHANGED <<users, issued, live, expired, epoch, settled, forked, ended>>
    BY <1>3 DEF Refresh
  <2>0. t # None /\ issued[t] \in Token
    BY AccountTypes
  <2>1. /\ begun' \in 0 .. MaxRequests /\ req' \in [Calls -> Request \cup {None}]
        /\ \A d \in Calls \ {c} : req'[d] = req[d]
        /\ req'[c] \in Request /\ req'[c].at = "find" /\ req'[c].token = t
        /\ req'[c].session = issued[t].session
        /\ req'[c].basis = issued[t].basis /\ req'[c].late = issued[t].late
    <3>1. "refresh" \in Ops /\ "find" \in Places /\ None \in Words \cup {None} /\ t \in DOMAIN issued \cup {None}
      BY DEF Places, Ops
    <3>2. Begins(c, "refresh", "find", None, t)
      OBVIOUS
    <3> QED  BY <2>0, <3>1, <3>2, Begun
  <2>2. AccountsTypeOK'
    BY <2>1 DEF AccountInv, AccountsTypeOK
  <2>3. Sound(req[c])'
    <3>1. t \in live => issued[t].late \/ issued[t].basis >= settled
      BY DEF AccountInv, ChangeEndsSessions
    <3> QED  BY <2>0, <2>1, <3>1 DEF Sound, AccountInv, Issues
  <2>4. epoch' >= epoch
    BY AccountTypes
  <2> QED  BY <2>1, <2>2, <2>3, <2>4, Quietly
<1>4. CASE Logout(c)
  <2> PICK t \in DOMAIN issued :
        /\ Begins(c, "logout", "delete", None, t)
        /\ UNCHANGED <<users, issued, live, expired, epoch, settled, ended>>
        /\ forked' = IF \E d \in Calls \ {c} : At(d, "delete") /\ req[d].token = t
                     THEN forked \cup {issued[t].session} ELSE forked
    BY <1>4 DEF Logout
  <2>0. t # None /\ issued[t] \in Token /\ issued[t].session \in DOMAIN issued /\ DOMAIN issued \subseteq Tokens
    BY AccountTypes DEF AccountInv, Issues
  <2>1. /\ begun' \in 0 .. MaxRequests /\ req' \in [Calls -> Request \cup {None}] /\ req[c] = None
        /\ \A d \in Calls \ {c} : req'[d] = req[d]
        /\ req'[c] \in Request /\ req'[c].at = "delete" /\ req'[c].op = "logout" /\ req'[c].token = t
        /\ req'[c].session = issued[t].session
    <3>1. "logout" \in Ops /\ "delete" \in Places /\ None \in Words \cup {None} /\ t \in DOMAIN issued \cup {None}
      BY DEF Places, Ops
    <3>2. Begins(c, "logout", "delete", None, t)
      OBVIOUS
    <3> QED  BY <2>0, <3>1, <3>2, Begun
  <2>2. AccountsTypeOK'
    BY <2>0, <2>1 DEF AccountInv, AccountsTypeOK
  <2>3. AllSound'
    <3>1. Sound(req[c])'
      BY <2>0, <2>1 DEF Sound
    <3> QED  BY <2>1, <3>1 DEF AccountInv, AllSound, Sound
  <2>4. Unshared'
    <3> SUFFICES ASSUME NEW d \in Calls, NEW e \in Calls, d # e, At(d, "delete")', At(e, "delete")',
                        req'[d].token = req'[e].token
                 PROVE  req'[d].session \in forked'
      BY DEF Unshared
    <3>1. CASE d # c /\ e # c
      BY <2>1, <3>1 DEF AccountInv, Unshared, At
    <3>2. CASE d = c
      BY <2>1, <3>2 DEF At
    <3>3. CASE e = c
      <4>1. Sound(req[d]) /\ req[d].token = t /\ req[d].at = "delete"
        BY <2>1, <3>3 DEF At, AccountInv, AllSound
      <4> QED  BY <2>1, <3>3, <4>1 DEF At, Sound
    <3> QED  BY <3>1, <3>2, <3>3
  <2>5. ASSUME NEW s \in DOMAIN issued' \ forked' PROVE OneClaim(s)'
    <3>1. OneClaim(s)
      BY <2>5 DEF AccountInv
    <3>2. Claims(s)' = Claims(s) /\ \A d \in Claims(s) : req'[d] = req[d]
      BY <2>1 DEF Claims
    <3> QED  BY <3>1, <3>2 DEF OneClaim, InSession
  <2> QED  BY <2>2, <2>3, <2>4, <2>5 DEF AccountInv, Issues, ChangeEndsSessions
<1> QED  BY <1>2, <1>3, <1>4 DEF Begin

-----------------------------------------------------------------------------
(* The requests go on. *)

(* A request that ends keeps the invariant. *)
LEMMA EndsInv ==
    ASSUME AccountInv, NEW c \in Calls, Ends(c),
           UNCHANGED <<begun, users, issued, live, expired, epoch, settled, forked, ended>>
    PROVE  AccountInv'
<1>1. AccountsTypeOK'
  BY Ended DEF AccountInv, AccountsTypeOK
<1>2. epoch' >= epoch
  BY AccountTypes
<1> QED  BY <1>1, <1>2, Ended, Quietly

(* So does one that goes on to a place from which it stores nothing. *)
LEMMA GoesInv ==
    ASSUME AccountInv, NEW c \in Calls, req[c] # None, NEW where \in {"again", "insert", "set", "wipe"},
           Goes(c, where),
           where \in {"again", "insert"} => req[c].at \in {"exists", "again"},
           where = "wipe" => req[c].at = "tally",
           UNCHANGED <<begun, users, issued, live, expired, epoch, settled, forked, ended>>
    PROVE  AccountInv'
<1>1. /\ req' \in [Calls -> Request \cup {None}] /\ \A d \in Calls \ {c} : req'[d] = req[d]
      /\ req'[c] \in Request /\ req'[c].at = where /\ req'[c].session = req[c].session
      /\ req'[c].basis = req[c].basis /\ req'[c].word = req[c].word
  BY Gone DEF Places
<1>2. AccountsTypeOK'
  BY <1>1 DEF AccountInv, AccountsTypeOK
<1>3. epoch' >= epoch
  BY AccountTypes
<1>4. Sound(req[c])'
  BY <1>1, Sounds DEF Sound
<1> QED  BY <1>1, <1>2, <1>3, <1>4, Quietly

(* So does one that has checked or set the password of the moment. *)
LEMMA ChecksInv ==
    ASSUME AccountInv, NEW c \in Calls, req[c] # None,
           req[c].at \in {"insert", "verify"},
           req' = [req EXCEPT ![c].at = "store", ![c].basis = epoch],
           users' \in Seq(Words),
           UNCHANGED <<begun, issued, live, expired, epoch, settled, forked, ended>>
    PROVE  AccountInv'
<1>0. epoch \in Nat /\ epoch >= settled /\ epoch' >= epoch
  BY AccountTypes
<1>1. /\ req' \in [Calls -> Request \cup {None}] /\ \A d \in Calls \ {c} : req'[d] = req[d]
      /\ req'[c] \in Request /\ req'[c].at = "store" /\ req'[c].session = req[c].session
      /\ req'[c].basis = epoch
  BY <1>0, GoneWith DEF Places
<1>2. AccountsTypeOK'
  BY <1>1 DEF AccountInv, AccountsTypeOK
<1>3. Sound(req[c])' /\ req'[c].session = None
  BY <1>0, <1>1, Sounds DEF Sound
<1> QED  BY <1>0, <1>1, <1>2, <1>3, Quietly

LEMMA SetPasswordInv ==
    ASSUME AccountInv, NEW c \in Calls, SetPassword(c)
    PROVE  AccountInv'
<1> PICK w \in Words :
      /\ At(c, "set")
      /\ users' = [i \in DOMAIN users |-> w]
      /\ epoch' = epoch + 1
      /\ req' = [req EXCEPT ![c].at = "tally", ![c].basis = epoch + 1]
      /\ UNCHANGED <<begun, issued, live, expired, settled, forked, ended>>
  BY DEF SetPassword
<1>0. epoch \in Nat /\ epoch' \in Nat /\ epoch' >= epoch /\ epoch' = epoch + 1 /\ settled \in 0 .. epoch'
  BY AccountTypes
<1>1. /\ req' \in [Calls -> Request \cup {None}] /\ \A d \in Calls \ {c} : req'[d] = req[d]
      /\ req'[c] \in Request /\ req'[c].at = "tally" /\ req'[c].session = req[c].session
      /\ req'[c].basis = epoch'
  <2> DEFINE basis == epoch + 1
  <2>1. /\ req[c] # None /\ basis \in Nat /\ "tally" \in Places
        /\ req' = [req EXCEPT ![c].at = "tally", ![c].basis = basis]
    BY <1>0 DEF At, Places
  <2>2. basis = epoch'
    BY <1>0
  <2> HIDE DEF basis
  <2>3. /\ req' \in [Calls -> Request \cup {None}]
        /\ \A d \in Calls \ {c} : req'[d] = req[d]
        /\ req'[c] \in Request /\ req'[c].at = "tally"
        /\ req'[c].session = req[c].session /\ req'[c].basis = basis
    BY ONLY AccountInv, c \in Calls, <2>1, GoneWith DEF Places
  <2> QED  BY <2>2, <2>3
<1>2. users' \in Seq(Words)
  <2>1. users \in Seq(Words)
    BY DEF AccountInv, AccountsTypeOK
  <2>2. DOMAIN users = 1 .. Len(users) /\ Len(users) \in Nat
    BY <2>1
  <2> QED  BY <2>2
<1>3. AccountsTypeOK'
  BY <1>0, <1>1, <1>2 DEF AccountInv, AccountsTypeOK
<1>4. Sound(req[c])'
  BY <1>0, <1>1, Sounds DEF Sound, At
<1> QED  BY <1>0, <1>1, <1>3, <1>4, Quietly

(* The latest change revokes: no token is left, and what is under way is late. *)
LEMMA RevokesInv ==
    ASSUME AccountInv, NEW c \in Calls, req[c] # None, req[c].at \in {"tally", "wipe"}, Revokes(c),
           live' = {}, UNCHANGED <<begun, users, issued, expired, epoch, forked, ended>>
    PROVE  AccountInv'
<1>0. /\ req \in [Calls -> Request \cup {None}]
      /\ req[c] \in Request /\ req[c].basis \in Nat /\ req[c].basis <= epoch
  BY Sounds DEF AccountInv, AccountsTypeOK, Sound, Request
<1>1. settled' \in 0 .. epoch
  BY <1>0, AccountTypes DEF Revokes
<1>2. \A d \in Calls : req'[d] # None =>
          /\ req[d] # None /\ req'[d] \in Request /\ req'[d].late
          /\ req'[d].op = req[d].op /\ req'[d].at = req[d].at /\ req'[d].token = req[d].token
          /\ req'[d].session = req[d].session /\ req'[d].basis = req[d].basis
          /\ req'[d].word = req[d].word
  <2> SUFFICES ASSUME NEW d \in Calls, req'[d] # None
      PROVE  LET old == req[d]  new == req'[d] IN
             /\ old # None /\ new \in Request /\ new.late
             /\ new.op = old.op /\ new.at = old.at /\ new.token = old.token
             /\ new.session = old.session /\ new.basis = old.basis /\ new.word = old.word
    OBVIOUS
  <2>1. req[d] # None /\ req'[d] = [req[d] EXCEPT !.late = TRUE] /\ req[d] \in Request
    BY <1>0 DEF Revokes
  <2> QED  BY <2>1 DEF Request
<1>3. req' \in [Calls -> Request \cup {None}]
  <2>1. req' = [d \in Calls |-> req'[d]]
    BY DEF Revokes
  <2>2. \A d \in Calls : req'[d] \in Request \cup {None}
    BY <1>2
  <2> QED  BY <2>1, <2>2
<1>4. AccountsTypeOK'
  BY <1>1, <1>3 DEF AccountInv, AccountsTypeOK
<1>5. AllSound'
  <2> SUFFICES ASSUME NEW d \in Calls, req'[d] # None PROVE Sound(req[d])'
    BY DEF AllSound
  <2>1. Sound(req[d])
    BY <1>2 DEF AccountInv, AllSound
  <2> QED  BY <1>2, <2>1 DEF Sound
<1>6. Unshared'
  BY <1>2 DEF AccountInv, Unshared, At
<1>7. ASSUME NEW s \in DOMAIN issued' \ forked' PROVE OneClaim(s)'
  <2>1. OneClaim(s)
    BY <1>7 DEF AccountInv
  <2>2. InSession(s)' = {} /\ Claims(s)' \subseteq Claims(s)
    BY <1>2 DEF InSession, Claims
  <2> QED  BY <2>1, <2>2 DEF OneClaim
<1> QED  BY <1>4, <1>5, <1>6, <1>7 DEF AccountInv, Issues, ChangeEndsSessions

LEMMA StoreInv ==
    ASSUME AccountInv, NEW c \in Calls, StoreToken(c)
    PROVE  AccountInv'
<1> DEFINE n == Len(issued) + 1
           s == IF req[c].session = None THEN n ELSE req[c].session
           new == [session |-> s, basis |-> req[c].basis, late |-> req[c].late]
<1>0. /\ req[c] # None /\ req[c].at = "store" /\ Len(issued) < MaxTokens
      /\ issued' = Append(issued, new) /\ live' = live \cup {n} /\ Ends(c)
      /\ UNCHANGED <<begun, users, expired, epoch, settled, forked, ended>>
  BY DEF StoreToken, At
<1>1. /\ issued \in Seq(Token) /\ DOMAIN issued = 1 .. Len(issued) /\ Len(issued) \in Nat
      /\ MaxTokens \in Nat /\ None \notin Tokens
  BY AccountTypes
<1>2. n \in Tokens /\ n \notin DOMAIN issued
  BY <1>0, <1>1 DEF Tokens
<1>3. Sound(req[c]) /\ req[c] \in Request
  BY <1>0, Sounds
<1>4. s \in (DOMAIN issued) \cup {n} /\ s \in Tokens
  BY <1>1, <1>2, <1>3 DEF Sound, Tokens, Request
<1>5. new \in Token /\ new.session = s /\ new.basis = req[c].basis /\ new.late = req[c].late
  BY <1>3, <1>4 DEF Token, Request
<1> HIDE DEF new
<1>6. /\ issued' \in Seq(Token) /\ Len(issued') = n /\ DOMAIN issued' = (DOMAIN issued) \cup {n}
      /\ issued'[n] = new /\ \A t \in DOMAIN issued : issued'[t] = issued[t]
  <2>1. /\ issued' \in Seq(Token) /\ Len(issued') = n
        /\ issued'[n] = new /\ \A t \in 1 .. Len(issued) : issued'[t] = issued[t]
    BY <1>0, <1>1, <1>5
  <2>2. DOMAIN issued' = 1 .. n
    BY <2>1
  <2> QED  BY <1>1, <2>1, <2>2
<1>7. req' \in [Calls -> Request \cup {None}] /\ req'[c] = None /\ \A d \in Calls \ {c} : req'[d] = req[d]
  BY <1>0, Ended
<1> HIDE DEF n, s
<1>8. AccountsTypeOK'
  <2>1. Len(issued') <= MaxTokens
    BY <1>0, <1>1, <1>6 DEF n
  <2>2. live' \subseteq DOMAIN issued' /\ expired' \subseteq DOMAIN issued'
    BY <1>0, <1>6 DEF AccountInv, AccountsTypeOK
  <2> QED  BY <1>0, <1>6, <1>7, <2>1, <2>2 DEF AccountInv, AccountsTypeOK
<1>9. AllSound'
  <2> SUFFICES ASSUME NEW d \in Calls, req'[d] # None PROVE Sound(req[d])'
    BY DEF AllSound
  <2>1. d # c /\ req'[d] = req[d] /\ Sound(req[d])
    BY <1>7 DEF AccountInv, AllSound
  <2> QED  BY <1>0, <1>2, <1>6, <2>1 DEF Sound
<1>10. Unshared'
  BY <1>0, <1>7 DEF AccountInv, Unshared, At
<1>11. Issues'
  BY <1>0, <1>4, <1>5, <1>6 DEF AccountInv, Issues
<1>12. ChangeEndsSessions'
  <2>1. req[c].late \/ req[c].basis >= settled
    BY <1>0, <1>3 DEF Sound
  <2> QED  BY <1>0, <1>5, <1>6, <2>1 DEF AccountInv, AccountsTypeOK, ChangeEndsSessions
<1>13. ASSUME NEW q \in DOMAIN issued' \ forked' PROVE OneClaim(q)'
  <2>0. live \subseteq DOMAIN issued
    BY DEF AccountInv, AccountsTypeOK
  <2>1. Claims(q)' = Claims(q) \ {c} /\ \A d \in Claims(q) \ {c} : req'[d] = req[d]
    BY <1>7 DEF Claims
  <2>2. InSession(q)' = IF q = s THEN InSession(q) \cup {n} ELSE InSession(q)
    BY <1>0, <1>2, <1>5, <1>6, <2>0 DEF InSession
  <2>3. CASE q # s
    <3>1. CASE q = n
      <4>1. Claims(n) = {} /\ InSession(n) = {} /\ n \notin ended
        BY <1>2, <1>1, <2>0 DEF Claims, InSession, AccountInv, AllSound, Sound, Issues
      <4> QED  BY <1>0, <2>1, <2>2, <2>3, <3>1, <4>1 DEF OneClaim
    <3>2. CASE q # n
      <4>1. q \in DOMAIN issued \ forked
        BY <1>0, <1>6, <1>13, <3>2
      <4> QED  BY <2>1, <2>2, <2>3, <4>1, <1>0 DEF AccountInv, OneClaim
    <3> QED  BY <3>1, <3>2
  <2>4. CASE q = s /\ req[c].session = None
    <3>1. Claims(q) = {} /\ InSession(q) = {} /\ q \notin ended
      BY <1>1, <1>2, <2>0, <2>4 DEF s, Claims, InSession, AccountInv, AllSound, Sound, Issues
    <3> QED  BY <1>0, <2>1, <2>2, <2>4, <3>1 DEF OneClaim
  <2>5. CASE q = s /\ req[c].session # None
    <3>1. q = req[c].session /\ c \in Claims(q)
      BY <1>0, <2>5 DEF s, Claims
    <3>2. q \in DOMAIN issued \ forked
      BY <1>0, <1>3, <1>13, <3>1, <2>5 DEF Sound
    <3>3. Claims(q) = {c} /\ InSession(q) = {} /\ q \notin ended
      BY <1>0, <3>1, <3>2 DEF AccountInv, OneClaim
    <3> QED  BY <1>0, <2>1, <2>2, <2>5, <3>3 DEF OneClaim
  <2> QED  BY <2>3, <2>4, <2>5
<1> QED  BY <1>8, <1>9, <1>10, <1>11, <1>12, <1>13 DEF AccountInv

LEMMA FindInv ==
    ASSUME AccountInv, NEW c \in Calls, Find(c)
    PROVE  AccountInv'
<1> DEFINE t == req[c].token
<1>0. /\ req[c] # None /\ req[c].at = "find"
      /\ IF t \in live \ expired THEN Goes(c, "delete") ELSE Ends(c)
      /\ live' = IF t \in expired THEN live \ {t} ELSE live
      /\ forked' = IF Shared(c) THEN forked \cup {req[c].session} ELSE forked
      /\ UNCHANGED <<begun, users, issued, expired, epoch, settled, ended>>
  BY DEF Find, At
<1>1. Sound(req[c]) /\ req[c] \in Request /\ t \in DOMAIN issued /\ req[c].session = issued[t].session
  BY <1>0, Sounds DEF Sound
<1>2. req[c].session \in DOMAIN issued /\ DOMAIN issued \subseteq Tokens /\ epoch' >= epoch
  BY <1>0, <1>1, AccountTypes DEF AccountInv, Issues
<1>3. live' \subseteq live /\ forked \subseteq forked' /\ forked' \subseteq Tokens
  BY <1>0, <1>2 DEF AccountInv, AccountsTypeOK
<1>4. CASE ~(t \in live \ expired)
  <2>1. req' \in [Calls -> Request \cup {None}] /\ req'[c] = None /\ \A d \in Calls \ {c} : req'[d] = req[d]
    BY <1>0, <1>4, Ended
  <2>2. AccountsTypeOK'
    BY <1>0, <1>3, <2>1 DEF AccountInv, AccountsTypeOK
  <2> QED  BY <1>0, <1>2, <1>3, <2>1, <2>2, Quietly
<1>5. CASE t \in live \ expired
  <2>1. /\ req' \in [Calls -> Request \cup {None}] /\ \A d \in Calls \ {c} : req'[d] = req[d]
        /\ req'[c] \in Request /\ req'[c].at = "delete" /\ req'[c].op = req[c].op
        /\ req'[c].token = t /\ req'[c].session = req[c].session /\ req'[c].basis = req[c].basis
        /\ req'[c].late = req[c].late
    BY <1>0, <1>5, Gone DEF Places
  <2>2. AccountsTypeOK'
    BY <1>0, <1>3, <2>1 DEF AccountInv, AccountsTypeOK
  <2>3. live' = live
    BY <1>0, <1>5
  <2>4. Sound(req[c])'
    BY <1>0, <1>1, <1>5, <2>1 DEF Sound
  <2>5. AllSound'
    BY <1>0, <2>1, <2>3, <2>4 DEF AccountInv, AllSound, Sound
  <2>6. Unshared'
    <3> SUFFICES ASSUME NEW d \in Calls, NEW e \in Calls, d # e, At(d, "delete")', At(e, "delete")',
                        req'[d].token = req'[e].token
                 PROVE  req'[d].session \in forked'
      BY DEF Unshared
    <3>1. CASE d # c /\ e # c
      BY <1>3, <2>1, <3>1 DEF AccountInv, Unshared, At
    <3>2. CASE d = c
      BY <1>0, <2>1, <3>2 DEF At, Shared
    <3>3. CASE e = c
      <4>1. At(d, "delete") /\ req[d].token = t /\ Sound(req[d])
        BY <2>1, <3>3 DEF At, AccountInv, AllSound
      <4>2. req[d].session = req[c].session /\ Shared(c)
        BY <1>1, <3>3, <4>1 DEF Sound, At, Shared
      <4> QED  BY <1>0, <2>1, <3>3, <4>2
    <3> QED  BY <3>1, <3>2, <3>3
  <2>7. ASSUME NEW s \in DOMAIN issued' \ forked' PROVE OneClaim(s)'
    <3>1. OneClaim(s) /\ InSession(s)' = InSession(s)
      BY <1>0, <1>3, <2>3, <2>7 DEF AccountInv, InSession
    <3>2. CASE s # req[c].session
      <4>1. Claims(s)' = Claims(s) /\ \A d \in Claims(s) : req'[d] = req[d]
        BY <2>1, <1>0, <3>2 DEF Claims
      <4> QED  BY <1>0, <3>1, <4>1 DEF OneClaim
    <3>3. CASE s = req[c].session
      <4>1. t \in InSession(s)
        BY <1>1, <1>5, <3>3 DEF InSession
      <4>2. ~Shared(c)
        BY <1>0, <2>7, <3>3
      <4>3. Claims(s) = {}
        <5> SUFFICES ASSUME NEW d \in Claims(s) PROVE FALSE
          OBVIOUS
        <5>1. req[d].at = "delete" /\ req[d].token = t /\ req[d] # None /\ d \in Calls
          BY <3>1, <4>1 DEF OneClaim, Claims
        <5>2. d # c
          BY <1>0, <5>1
        <5> QED  BY <4>2, <5>1, <5>2 DEF Shared, At
      <4>4. Claims(s)' \subseteq {c}
        BY <2>1, <4>3 DEF Claims
      <4>5. s \notin ended
        BY <3>1, <4>1 DEF OneClaim
      <4>6. \A u \in InSession(s) : u = t
        BY <3>1, <4>1 DEF OneClaim
      <4> QED  BY <1>0, <2>1, <3>1, <4>4, <4>5, <4>6 DEF OneClaim
    <3> QED  BY <3>2, <3>3
  <2>8. Issues' /\ ChangeEndsSessions'
    BY <1>0, <2>3 DEF AccountInv, Issues, ChangeEndsSessions
  <2> QED  BY <2>2, <2>5, <2>6, <2>7, <2>8 DEF AccountInv
<1> QED  BY <1>4, <1>5

LEMMA DeleteInv ==
    ASSUME AccountInv, NEW c \in Calls, DeleteToken(c)
    PROVE  AccountInv'
<1> DEFINE t == req[c].token
           s == req[c].session
<1>0. /\ req[c] # None /\ req[c].at = "delete"
      /\ live' = live \ {t}
      /\ ended' = IF req[c].op = "logout" /\ t \in live THEN ended \cup {s} ELSE ended
      /\ IF req[c].op = "refresh" THEN Goes(c, "store") ELSE Ends(c)
      /\ UNCHANGED <<begun, users, issued, expired, epoch, settled, forked>>
  BY DEF DeleteToken, At
<1>1. /\ Sound(req[c]) /\ req[c] \in Request /\ t \in DOMAIN issued
      /\ s = issued[t].session /\ s \in DOMAIN issued /\ DOMAIN issued \subseteq Tokens
  BY <1>0, Sounds, AccountTypes DEF Sound, AccountInv, Issues
<1>2. /\ req' \in [Calls -> Request \cup {None}] /\ \A d \in Calls \ {c} : req'[d] = req[d]
      /\ IF req[c].op = "refresh"
         THEN /\ req'[c] \in Request /\ req'[c].at = "store" /\ req'[c].session = s
              /\ req'[c].basis = req[c].basis /\ req'[c].late = req[c].late
         ELSE req'[c] = None
  <2>1. CASE req[c].op = "refresh"
    BY <1>0, <2>1, Gone DEF Places
  <2>2. CASE req[c].op # "refresh"
    BY <1>0, <2>2, Ended
  <2> QED  BY <2>1, <2>2
<1>3. live' \subseteq live /\ ended \subseteq ended' /\ ended' \subseteq ended \cup {s}
  BY <1>0
<1>4. AccountsTypeOK'
  BY <1>0, <1>1, <1>2, <1>3 DEF AccountInv, AccountsTypeOK
<1>5. AllSound'
  <2> SUFFICES ASSUME NEW d \in Calls, req'[d] # None PROVE Sound(req[d])'
    BY DEF AllSound
  <2>1. CASE d # c
    <3>1. Sound(req[d]) /\ req'[d] = req[d]
      BY <1>2, <2>1 DEF AccountInv, AllSound
    <3> QED  BY <1>0, <1>3, <3>1 DEF Sound
  <2>2. CASE d = c
    BY <1>0, <1>1, <1>2, <2>2 DEF Sound
  <2> QED  BY <2>1, <2>2
<1>6. Unshared'
  <2> SUFFICES ASSUME NEW d \in Calls, NEW e \in Calls, d # e, At(d, "delete")', At(e, "delete")',
                      req'[d].token = req'[e].token
               PROVE  req'[d].session \in forked'
    BY DEF Unshared
  <2>1. d # c /\ e # c
    BY <1>2 DEF At
  <2> QED  BY <1>0, <1>2, <2>1 DEF AccountInv, Unshared, At
<1>7. ASSUME NEW q \in DOMAIN issued' \ forked' PROVE OneClaim(q)'
  <2>1. OneClaim(q) /\ InSession(q)' = InSession(q) \ {t}
    BY <1>0, <1>7 DEF AccountInv, InSession
  <2>2. Claims(q)' \ {c} = Claims(q) \ {c} /\ \A d \in Claims(q) \ {c} : req'[d] = req[d]
    BY <1>2 DEF Claims
  <2>3. CASE q # s
    <3>1. c \notin Claims(q) /\ c \notin Claims(q)'
      BY <1>2, <2>3 DEF Claims
    <3>2. q \in ended' => q \in ended
      BY <1>3, <2>3
    <3>3. Claims(q)' = Claims(q)
      BY <2>2, <3>1
    <3> QED  BY <2>1, <2>2, <3>1, <3>2, <3>3 DEF OneClaim
  <2>4. CASE q = s /\ req[c].op = "refresh"
    <3>1. c \in Claims(q)
      BY <1>0, <2>4 DEF Claims
    <3>2. Claims(q)' \subseteq {c} /\ InSession(q)' = {} /\ q \notin ended /\ ended' = ended
      BY <1>0, <2>1, <2>2, <2>4, <3>1 DEF OneClaim
    <3> QED  BY <3>2 DEF OneClaim
  <2>5. CASE q = s /\ req[c].op # "refresh"
    <3>1. c \notin Claims(q) /\ c \notin Claims(q)'
      BY <1>0, <1>2, <2>5 DEF Claims
    <3>2. Claims(q)' = Claims(q)
      BY <2>2, <3>1
    <3>3. ASSUME t \in live PROVE Claims(q) = {} /\ InSession(q)' = {}
      <4>1. t \in InSession(q)
        BY <1>1, <2>5, <3>3 DEF InSession
      <4>2. \A d \in Claims(q) : d # c /\ At(d, "delete") /\ req[d].token = t
        BY <2>1, <3>1, <4>1 DEF OneClaim, Claims, At
      <4>3. At(c, "delete") /\ q \notin forked
        BY <1>0, <1>7 DEF At
      <4>4. Claims(q) = {}
        BY <2>5, <4>2, <4>3 DEF AccountInv, Unshared, Claims
      <4> QED  BY <2>1, <4>1, <4>4 DEF OneClaim
    <3>4. q \in ended' => q \in ended \/ t \in live
      BY <1>0, <2>5
    <3> QED  BY <2>1, <2>2, <3>1, <3>2, <3>3, <3>4 DEF OneClaim
  <2> QED  BY <2>3, <2>4, <2>5
<1>8. Issues' /\ ChangeEndsSessions'
  BY <1>0, <1>1, <1>3 DEF AccountInv, Issues, ChangeEndsSessions
<1> QED  BY <1>4, <1>5, <1>6, <1>7, <1>8 DEF AccountInv

LEMMA ProceedInv ==
    ASSUME AccountInv, NEW c \in Calls, Proceed(c)
    PROVE  AccountInv'
<1>1. CASE Exists(c)
  BY <1>1, EndsInv, GoesInv DEF Exists, At
<1>2. CASE Insert(c)
  <2>1. /\ At(c, "insert") /\ users' = Append(users, req[c].word)
        /\ req' = [req EXCEPT ![c].at = "store", ![c].basis = epoch]
        /\ UNCHANGED <<begun, issued, live, expired, epoch, settled, forked, ended>>
    BY <1>2 DEF Insert
  <2>2. req[c] # None /\ req[c].at = "insert" /\ req[c].word \in Words
    BY <2>1, Sounds DEF At, Sound
  <2>3. users' \in Seq(Words)
    BY <2>1, <2>2 DEF AccountInv, AccountsTypeOK
  <2> QED  BY <2>1, <2>2, <2>3, ChecksInv
<1>3. CASE Authenticate(c)
  <2>1. users \in Seq(Words)
    BY DEF AccountInv, AccountsTypeOK
  <2> QED  BY <1>3, <2>1, ChecksInv, EndsInv DEF Authenticate, At
<1>4. CASE StoreToken(c)
  BY <1>4, StoreInv
<1>5. CASE Find(c)
  BY <1>5, FindInv
<1>6. CASE DeleteToken(c)
  BY <1>6, DeleteInv
<1>7. CASE Verify(c)
  BY <1>7, EndsInv, GoesInv DEF Verify, At
<1>8. CASE SetPassword(c)
  BY <1>8, SetPasswordInv
<1>9. CASE Tally(c)
  BY <1>9, GoesInv, RevokesInv DEF Tally, At
<1>10. CASE Wipe(c)
  BY <1>10, RevokesInv DEF Wipe, At
<1>11. CASE StatementFails(c)
  BY <1>11, EndsInv DEF StatementFails
<1> QED
  BY <1>1, <1>2, <1>3, <1>4, <1>5, <1>6, <1>7, <1>8, <1>9, <1>10, <1>11 DEF Proceed

LEMMA ExpireInv == ASSUME AccountInv, Expire PROVE AccountInv'
<1> PICK t \in live \ expired :
      /\ expired' = expired \cup {t}
      /\ UNCHANGED <<begun, users, issued, live, req, epoch, settled, forked, ended>>
  BY DEF Expire
<1>1. AccountsTypeOK'
  BY DEF AccountInv, AccountsTypeOK
<1> QED
  BY <1>1 DEF AccountInv, Issues, AllSound, Sound, Unshared, At, OneClaim, Claims, InSession, ChangeEndsSessions

-----------------------------------------------------------------------------
(* Both, in one server. *)

OneRequest == \A c \in Calls : req[c] = None \/ ask[c] = None

Inv == AccountInv /\ FleetInv /\ OneRequest

(* A step of one side leaves the other as it is, but for the requests begun. *)
LEMMA AccountStands ==
    ASSUME AccountInv, UNCHANGED accountState, begun' \in 0 .. MaxRequests
    PROVE  AccountInv'
<1>1. AccountsTypeOK'
  BY DEF AccountInv, AccountsTypeOK, accountState
<1> QED
  BY <1>1 DEF AccountInv, accountState, Issues, AllSound, Sound, Unshared, At, OneClaim, Claims,
     InSession, ChangeEndsSessions

LEMMA FleetStands ==
    ASSUME FleetInv, UNCHANGED fleetState, begun' \in 0 .. MaxRequests
    PROVE  FleetInv'
BY DEF FleetInv, FleetTypeOK, fleetState, AskPlaces, Uncontested, First, Linking, Pinned, OwnersProved

(* A call's step is of its own request. *)
LEMMA OwnAccount ==
    ASSUME NEW c \in Calls, AccountInv, Begin(c) \/ Proceed(c)
    PROVE  \A d \in Calls \ {c} : req'[d] = req[d] \/ req'[d] = None \/ req[d] # None
<1>1. req \in [Calls -> Request \cup {None}]
  BY DEF AccountInv, AccountsTypeOK
<1>2. CASE Begin(c)
  BY <1>1, <1>2 DEF Begin, Register, Login, Refresh, Logout, Change, Begins
<1>3. CASE Proceed(c)
  <2>1. CASE Tally(c) \/ Wipe(c)
    BY <1>1, <2>1 DEF Tally, Wipe, Revokes, Goes
  <2>2. CASE ~(Tally(c) \/ Wipe(c))
    BY <1>1, <1>3, <2>2 DEF Proceed, Exists, Insert, Authenticate, StoreToken, Find, DeleteToken,
       Verify, SetPassword, StatementFails, Goes, Ends
  <2> QED  BY <2>1, <2>2
<1> QED  BY <1>2, <1>3

LEMMA OwnAsk ==
    ASSUME NEW c \in Calls, FleetInv, FleetBegin(c) \/ FleetStep(c)
    PROVE  \A d \in Calls \ {c} : ask'[d] = ask[d]
<1>1. ask \in [Calls -> Ask \cup {None}]
  BY DEF FleetInv, FleetTypeOK
<1> QED
  BY <1>1 DEF FleetBegin, RegisterDevice, Proofs, RemoveDevice, FleetStep, Owned, CountVehicles, InsertVehicle,
     CreateEdge, PinKey, Unlink, RequestFails, Moves, Answers

LEMMA NextInv == Inv /\ [Next]_<<fleetState, accountState, begun>> => Inv'
<1> SUFFICES ASSUME Inv, [Next]_<<fleetState, accountState, begun>> PROVE Inv'
  OBVIOUS
<1> USE DEF Inv
<1>0. begun \in 0 .. MaxRequests
  BY DEF AccountInv, AccountsTypeOK
<1>1. CASE Expire /\ UNCHANGED fleetState
  <2>1. begun' = begun /\ req' = req /\ ask' = ask
    BY <1>1 DEF Expire, fleetState
  <2> QED  BY <1>0, <1>1, <2>1, ExpireInv, FleetStands DEF OneRequest
<1>2. ASSUME NEW c \in Calls, ask[c] = None, Begin(c) \/ Proceed(c), UNCHANGED fleetState PROVE Inv'
  <2>1. AccountInv'
    BY <1>2, BeginInv, ProceedInv
  <2>2. FleetInv'
    BY <1>2, <2>1, FleetStands DEF AccountInv, AccountsTypeOK
  <2>3. OneRequest'
    BY <1>2, OwnAccount DEF OneRequest, fleetState
  <2> QED  BY <2>1, <2>2, <2>3
<1>3. ASSUME NEW c \in Calls, req[c] = None, FleetBegin(c) \/ FleetStep(c), UNCHANGED accountState PROVE Inv'
  <2>1. FleetInv'
    BY <1>3, RegisterInv, RemoveInv, FleetStepInv DEF FleetBegin
  <2>2. AccountInv'
    BY <1>3, <2>1, AccountStands DEF FleetInv, FleetTypeOK
  <2>3. OneRequest'
    BY <1>3, OwnAsk DEF OneRequest, accountState
  <2> QED  BY <2>1, <2>2, <2>3
<1>4. CASE UNCHANGED <<fleetState, accountState, begun>>
  BY <1>0, <1>4, AccountStands, FleetStands DEF OneRequest, fleetState, accountState
<1> QED  BY <1>1, <1>2, <1>3, <1>4 DEF Next

(* The inductive invariant of the central server's requests: tokens and what   *)
(* requests hold of a session (auth.py), a vehicle's key and the requests that *)
(* may pin one (fleet_routes.py).                                            *)
THEOREM CentralInvariant == Spec => []Inv
<1>1. Init => Inv
  <2> SUFFICES ASSUME Init PROVE Inv
    OBVIOUS
  <2>1. \A c \in Calls : req[c] = None
    BY DEF Init, AccountsInit
  <2> QED  BY <2>1, AccountInitInv, FleetInitInv DEF Init, Inv, OneRequest
<1> QED  BY <1>1, NextInv, PTL DEF Spec

(* Type correctness of the accounts, the tokens, the fleet and the requests. *)
THEOREM CentralTypeCorrect == Spec => []TypeOK
<1>1. Inv => TypeOK
  BY DEF Inv, AccountInv, FleetInv, OneRequest, TypeOK
<1> QED  BY <1>1, CentralInvariant, PTL

(* However requests interleave, a session has one refresh token at most, and   *)
(* none once it was logged out of (refresh_token, logout).                   *)
THEOREM OneTokenPerSessionAlways == Spec => []OneTokenPerSession
<1>1. Inv => OneTokenPerSession
  <2> SUFFICES ASSUME Inv, NEW s \in Tokens \ forked
               PROVE  Cardinality(InSession(s)) <= (IF s \in ended THEN 0 ELSE 1)
    BY DEF OneTokenPerSession
  <2>1. InSession(s) # {} => s \in DOMAIN issued /\ OneClaim(s)
    BY DEF Inv, AccountInv, AccountsTypeOK, Issues, InSession
  <2>2. (\A t, u \in InSession(s) : t = u) /\ (s \in ended => InSession(s) = {})
    BY <2>1 DEF OneClaim
  <2>3. CASE InSession(s) = {}
    BY <2>3, FS_EmptySet
  <2>4. CASE InSession(s) # {}
    <3> PICK t \in InSession(s) : InSession(s) = {t}
      BY <2>2, <2>4
    <3>1. Cardinality({t}) = 1
      BY FS_Singleton
    <3> QED  BY <2>2, <2>4, <3>1
  <2> QED  BY <2>3, <2>4
<1> QED  BY <1>1, CentralInvariant, PTL

(* No token outlives the password change that revoked it (change_password). *)
THEOREM ChangeEndsSessionsAlways == Spec => []ChangeEndsSessions
<1>1. Inv => ChangeEndsSessions
  BY DEF Inv, AccountInv
<1> QED  BY <1>1, CentralInvariant, PTL

(* An owner linked since a vehicle's key was pinned proved that very key       *)
(* (register_device).                                                        *)
THEOREM OwnersProvedAlways == Spec => []OwnersProved
<1>1. Inv => OwnersProved
  BY DEF Inv, FleetInv
<1> QED  BY <1>1, CentralInvariant, PTL
=============================================================================
