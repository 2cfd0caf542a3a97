-------------------------- MODULE MediaDevicesProofs --------------------------
(***************************************************************************)
(* Proofs about the gateway's devices for sound and pictures, for any number  *)
(* of requests, threads and stream servers.                                  *)
(***************************************************************************)
EXTENDS MediaDevices, FiniteSetTheorems, TLAPS

-----------------------------------------------------------------------------
(* The recorder and the player. *)

(* The place of a request fits what it asks for. *)
AudioPlaces == \A c \in Calls : ask[c] # None =>
    /\ ask[c].op = "start" <=> ask[c].at \in {"prepare", "enter", "thread"}
    /\ ask[c].op = "stop" <=> ask[c].at \in {"signal", "join", "leave"}
    /\ ask[c].at = "prepare" => Device(c) = "recorder"

Asking(c, op, d) == ask[c] # None /\ ask[c].op = op /\ Device(c) = d

(* A device of which no stop overlapped a start: its live thread is the one    *)
(* made last, which a stop joins; while one is made there is no other.        *)
Orderly(d) ==
    /\ \A c, e \in Calls : ~(Asking(c, "start", d) /\ Asking(e, "stop", d))
    /\ \A c, e \in Calls : At(c, "thread") /\ At(e, "thread") /\ Device(c) = d /\ Device(e) = d => c = e
    /\ \A n \in Alive(d) : n = thread[d]
    /\ \A c \in Calls : At(c, "thread") /\ Device(c) = d => active[d] /\ Alive(d) = {}
    /\ \A c \in Calls : At(c, "join") /\ Device(c) = d => ask[c].waits = thread[d]
    /\ \A c \in Calls : At(c, "leave") /\ Device(c) = "recorder" /\ d = "recorder" => ~active[d]
    /\ Alive(d) # {} => active[d]
    /\ d = "player" /\ active[d] => Alive(d) # {} \/ Making(d)

(* A thread that is joined has been made. *)
Known ==
    /\ \A d \in Devices : thread[d] # None => thread[d] \in DOMAIN loops
    /\ \A c \in Calls : ask[c] # None /\ ask[c].waits # None => ask[c].waits \in DOMAIN loops

(* Whoever has paused the listener holds it paused until it has recorded, and  *)
(* a stop that is answered has seen its thread end or gave up.               *)
Muted ==
    /\ Known
    /\ Recording # {} \/ Alive("recorder") # {} => paused \/ resumed
    /\ \A c \in Calls : At(c, "leave") /\ Device(c) = "recorder" /\ ask[c].waits \in Alive("recorder")
           => "recorder" \in crossed

AudioInv == AudioTypeOK /\ AudioPlaces /\ (\A d \in Devices \ crossed : Orderly(d)) /\ Muted

LEMMA AudioInitInv == ASSUME AudioInit PROVE AudioInv
<1>1. 1 .. 0 = {} /\ 0 \in 0 .. MaxLoops
  BY AudioAssumption
<1>2. DOMAIN loops = {} /\ \A c \in Calls : ask[c] = None
  BY DEF AudioInit
<1>3. DOMAIN loops \in {1 .. n : n \in 0 .. MaxLoops}
  BY <1>1, <1>2
<1>4. AudioTypeOK
  BY <1>2, <1>3 DEF AudioInit, AudioTypeOK
<1>5. \A d \in Devices : Alive(d) = {} /\ active[d] = FALSE
  BY <1>2 DEF AudioInit, Alive
<1>6. \A d \in Devices : Orderly(d)
  BY <1>2, <1>5 DEF Orderly, Asking, At
<1>7. Muted
  <2>1. Recording = {} /\ Alive("recorder") = {} /\ \A c \in Calls : ~At(c, "leave")
    BY <1>2, <1>5 DEF Recording, At, Devices
  <2>2. Known
    BY <1>2 DEF Known, AudioInit
  <2> QED  BY <2>1, <2>2 DEF Muted
<1> QED  BY <1>2, <1>4, <1>6, <1>7 DEF AudioInv, AudioPlaces

(* How many threads there are. *)
LEMMA LoopCount ==
    ASSUME AudioTypeOK
    PROVE  /\ Cardinality(DOMAIN loops) \in 0 .. MaxLoops
           /\ DOMAIN loops = 1 .. Cardinality(DOMAIN loops)
           /\ MaxLoops \in Nat /\ DOMAIN loops \subseteq Loops
<1> PICK k \in 0 .. MaxLoops : DOMAIN loops = 1 .. k
  BY DEF AudioTypeOK
<1>1. MaxLoops \in Nat
  BY AudioAssumption
<1>2. Cardinality(1 .. k) = k
  BY <1>1, FS_Interval
<1> QED  BY <1>1, <1>2 DEF Loops

(* A call's request, and what becomes of it. *)
LEMMA Asked ==
    ASSUME AudioTypeOK, NEW c \in Calls, ask[c] # None
    PROVE  ask[c] \in Request /\ Device(c) \in Devices
BY DEF AudioTypeOK, Request, Device

LEMMA AskGoes ==
    ASSUME AudioTypeOK, NEW c \in Calls, ask[c] # None,
           NEW where \in {"prepare", "enter", "thread", "signal", "join", "leave"}, Goes(c, where)
    PROVE  /\ ask' \in [Calls -> Request \cup {None}]
           /\ \A e \in Calls \ {c} : ask'[e] = ask[e]
           /\ ask'[c].at = where /\ ask'[c].op = ask[c].op /\ ask'[c].device = ask[c].device
           /\ ask'[c].waits = ask[c].waits /\ ask'[c] \in Request
<1>1. ask[c] \in Request
  BY DEF AudioTypeOK
<1> DEFINE new == [ask[c] EXCEPT !.at = where]
<1>2. /\ new \in Request /\ new.at = where /\ new.op = ask[c].op /\ new.device = ask[c].device
      /\ new.waits = ask[c].waits
  BY <1>1 DEF Request
<1>3. ask' = [ask EXCEPT ![c] = new]
  BY DEF Goes
<1> HIDE DEF new
<1> QED  BY <1>2, <1>3 DEF AudioTypeOK

LEMMA AskEnds ==
    ASSUME AudioTypeOK, NEW c \in Calls, Ends(c)
    PROVE  /\ ask' \in [Calls -> Request \cup {None}] /\ ask'[c] = None
           /\ \A e \in Calls \ {c} : ask'[e] = ask[e]
BY DEF AudioTypeOK, Ends

LEMMA AskNew ==
    ASSUME AudioTypeOK, NEW c \in Calls, NEW r \in Request, ask' = [ask EXCEPT ![c] = r]
    PROVE  /\ ask' \in [Calls -> Request \cup {None}] /\ ask'[c] = r
           /\ \A e \in Calls \ {c} : ask'[e] = ask[e]
BY DEF AudioTypeOK

-----------------------------------------------------------------------------
(* The requests begin. *)

LEMMA AsksStartInv ==
    ASSUME AudioInv, NEW c \in Calls, AsksStart(c)
    PROVE  AudioInv'
<1> PICK d \in Devices :
      /\ ask[c] = None /\ ~active[d]
      /\ ask' = [ask EXCEPT ![c] = [op |-> "start", device |-> d, waits |-> None,
                                   at |-> IF d = "recorder" THEN "prepare" ELSE "enter"]]
      /\ Crossing(c, d, "stop")
      /\ UNCHANGED <<active, stopped, thread, loops, paused, resumed>>
  BY DEF AsksStart, AsksRecord, AsksPlay, Asks, Devices
<1> DEFINE r == [op |-> "start", device |-> d, waits |-> None,
                 at |-> IF d = "recorder" THEN "prepare" ELSE "enter"]
<1>0. AudioTypeOK
  BY DEF AudioInv
<1>1. r \in Request /\ r.op = "start" /\ r.device = d /\ r.at = IF d = "recorder" THEN "prepare" ELSE "enter"
  BY DEF Request
<1> HIDE DEF r
<1>2. /\ ask' \in [Calls -> Request \cup {None}] /\ ask'[c] = r /\ \A e \in Calls \ {c} : ask'[e] = ask[e]
      /\ crossed \subseteq crossed' /\ crossed' \subseteq Devices
  BY <1>0, <1>1, AskNew DEF Crossing, AudioTypeOK, r
<1>3. AudioTypeOK'
  BY <1>0, <1>2 DEF AudioTypeOK
<1>4. AudioPlaces'
  BY <1>1, <1>2 DEF AudioInv, AudioPlaces, Device
<1>5. ASSUME NEW q \in Devices \ crossed' PROVE Orderly(q)'
  <2>1. Orderly(q) /\ Alive(q)' = Alive(q)
    BY <1>2, <1>5 DEF AudioInv, Alive
  <2>2. q = d => ~Others(c, "stop", d)
    BY <1>5 DEF Crossing
  <2>3. \A e \in Calls : Asking(e, "stop", q)' <=> Asking(e, "stop", q)
    BY <1>1, <1>2 DEF Asking, Device
  <2>4. \A e \in Calls : Asking(e, "start", q)' => Asking(e, "start", q) \/ (e = c /\ q = d)
    BY <1>1, <1>2 DEF Asking, Device
  <2>5. \A e \in Calls : ~Asking(e, "stop", q) \/ q # d
    BY <2>2 DEF Others, Asking, Device
  <2>6. \A e \in Calls, w \in {"thread", "join", "leave"} :
            /\ At(e, w)' <=> At(e, w)
            /\ At(e, w) => ask'[e] = ask[e] /\ Device(e)' = Device(e)
    BY <1>1, <1>2 DEF At, Device
  <2>7. Making(q)' <=> Making(q)
    BY <2>6 DEF Making
  <2> QED  BY <2>1, <2>3, <2>4, <2>5, <2>6, <2>7 DEF Orderly
<1>6. Muted'
  <2>1. \A e \in Calls : e \in Recording' <=> e \in Recording
    BY <1>1, <1>2 DEF Recording, At, Device
  <2>2. \A e \in Calls : At(e, "leave")' => At(e, "leave") /\ ask'[e] = ask[e]
    BY <1>1, <1>2 DEF At
  <2>3. Alive("recorder")' = Alive("recorder") /\ Recording' = Recording
    BY <2>1 DEF Alive, Recording
  <2>4. Known'
    <3>1. r.waits = None
      BY DEF r
    <3> QED  BY <1>2, <3>1 DEF AudioInv, Muted, Known
  <2>5. Muted /\ crossed \subseteq crossed'
    BY <1>2 DEF AudioInv
  <2> QED  BY <2>2, <2>3, <2>4, <2>5 DEF Muted, Device
<1> QED  BY <1>3, <1>4, <1>5, <1>6 DEF AudioInv

LEMMA AsksStopInv ==
    ASSUME AudioInv, NEW c \in Calls, AsksStop(c)
    PROVE  AudioInv'
<1> PICK d \in Devices :
      /\ ask[c] = None
      /\ ask' = [ask EXCEPT ![c] = [op |-> "stop", device |-> d, waits |-> None,
                    at |-> IF d = "recorder" /\ ~active[d] THEN "leave" ELSE "signal"]]
      /\ Crossing(c, d, "start")
      /\ UNCHANGED <<active, stopped, thread, loops, paused, resumed>>
  BY DEF AsksStop, AsksStopRecord, AsksStopPlay, Asks, Devices
<1> DEFINE r == [op |-> "stop", device |-> d, waits |-> None,
                 at |-> IF d = "recorder" /\ ~active[d] THEN "leave" ELSE "signal"]
<1>0. AudioTypeOK
  BY DEF AudioInv
<1>1. /\ r \in Request /\ r.op = "stop" /\ r.device = d
      /\ r.at = IF d = "recorder" /\ ~active[d] THEN "leave" ELSE "signal"
  BY DEF Request
<1> HIDE DEF r
<1>2. /\ ask' \in [Calls -> Request \cup {None}] /\ ask'[c] = r /\ \A e \in Calls \ {c} : ask'[e] = ask[e]
      /\ crossed \subseteq crossed' /\ crossed' \subseteq Devices
  BY <1>0, <1>1, AskNew DEF Crossing, AudioTypeOK, r
<1>3. AudioTypeOK'
  BY <1>0, <1>2 DEF AudioTypeOK
<1>4. AudioPlaces'
  BY <1>1, <1>2 DEF AudioInv, AudioPlaces, Device
<1>5. ASSUME NEW q \in Devices \ crossed' PROVE Orderly(q)'
  <2>1. Orderly(q) /\ Alive(q)' = Alive(q)
    BY <1>2, <1>5 DEF AudioInv, Alive
  <2>2. q = d => \A e \in Calls : ~Asking(e, "start", q)
    BY <1>5 DEF Crossing, Others, Asking, Device
  <2>3. \A e \in Calls : Asking(e, "start", q)' <=> Asking(e, "start", q)
    BY <1>1, <1>2 DEF Asking, Device
  <2>4. \A e \in Calls : Asking(e, "stop", q)' => Asking(e, "stop", q) \/ (e = c /\ q = d)
    BY <1>1, <1>2 DEF Asking, Device
  <2>5. \A e \in Calls, w \in {"thread", "join"} :
            /\ At(e, w)' <=> At(e, w)
            /\ At(e, w) => ask'[e] = ask[e] /\ Device(e)' = Device(e)
    BY <1>1, <1>2 DEF At, Device
  <2>6. \A e \in Calls : At(e, "leave")' /\ Device(e)' = "recorder" /\ q = "recorder" =>
            (At(e, "leave") /\ Device(e) = "recorder") \/ ~active[q]
    BY <1>1, <1>2 DEF At, Device
  <2>7. Making(q)' <=> Making(q)
    BY <2>5 DEF Making
  <2> QED  BY <2>1, <2>2, <2>3, <2>4, <2>5, <2>6, <2>7 DEF Orderly
<1>6. Muted'
  <2>1. \A e \in Calls : e \in Recording' <=> e \in Recording
    BY <1>1, <1>2 DEF Recording, At, Device
  <2>2. Alive("recorder")' = Alive("recorder") /\ Recording' = Recording
    BY <2>1 DEF Alive, Recording
  <2>3. r.waits = None
    BY DEF r
  <2>4. Known'
    BY <1>2, <2>3 DEF AudioInv, Muted, Known
  <2>5. None \notin Alive("recorder")
    BY <1>0, LoopCount, NoneAssumption DEF Alive, Loops
  <2>6. Muted /\ crossed \subseteq crossed'
    BY <1>2 DEF AudioInv
  <2>7. \A e \in Calls : At(e, "leave")' /\ ask'[e].waits # None => At(e, "leave") /\ ask'[e] = ask[e]
    BY <1>1, <1>2, <2>3 DEF At
  <2> QED  BY <2>2, <2>4, <2>5, <2>6, <2>7 DEF Muted, Device
<1> QED  BY <1>3, <1>4, <1>5, <1>6 DEF AudioInv

-----------------------------------------------------------------------------
(* The requests go on. *)

LEMMA PausesInv ==
    ASSUME AudioInv, NEW c \in Calls, Pauses(c)
    PROVE  AudioInv'
<1>0. /\ AudioTypeOK /\ ask[c] # None /\ ask[c].at = "prepare" /\ paused' = TRUE /\ resumed' = FALSE
      /\ Goes(c, "enter") /\ UNCHANGED <<active, stopped, thread, loops, crossed>>
  BY DEF AudioInv, Pauses, At
<1>1. /\ ask' \in [Calls -> Request \cup {None}] /\ \A e \in Calls \ {c} : ask'[e] = ask[e]
      /\ ask'[c].at = "enter" /\ ask'[c].op = ask[c].op /\ ask'[c].device = ask[c].device
  BY <1>0, AskGoes
<1>2. AudioTypeOK'
  BY <1>0, <1>1 DEF AudioTypeOK
<1>3. AudioPlaces'
  BY <1>0, <1>1 DEF AudioInv, AudioPlaces, Device
<1>4. \A d \in Devices : Alive(d)' = Alive(d)
  BY <1>0 DEF Alive
<1>5. \A e \in Calls, op \in {"start", "stop"}, d \in Devices : Asking(e, op, d)' => Asking(e, op, d)
  BY <1>0, <1>1 DEF Asking, Device
<1>6. \A e \in Calls, w \in {"thread", "join", "leave"} :
          /\ At(e, w)' <=> At(e, w)
          /\ At(e, w) => ask'[e] = ask[e] /\ Device(e)' = Device(e)
  BY <1>0, <1>1 DEF At, Device
<1>7. ASSUME NEW d \in Devices \ crossed' PROVE Orderly(d)'
  <2>1. Orderly(d) /\ (Making(d)' <=> Making(d))
    BY <1>0, <1>6, <1>7 DEF AudioInv, Making
  <2> QED  BY <1>0, <1>4, <1>5, <1>6, <1>7, <2>1 DEF Orderly
<1>8. Muted'
  <2>1. ask'[c].waits = ask[c].waits
    BY <1>0, AskGoes
  <2>2. Known'
    BY <1>0, <1>1, <2>1 DEF AudioInv, Muted, Known
  <2>3. Alive("recorder")' = Alive("recorder")
    BY <1>4 DEF Devices
  <2> QED  BY <1>0, <1>6, <2>2, <2>3 DEF AudioInv, Muted
<1> QED  BY <1>2, <1>3, <1>7, <1>8 DEF AudioInv

LEMMA RefusedInv ==
    ASSUME AudioInv, NEW c \in Calls, At(c, "enter"), ask[c].op = "start", RefusedStart(c),
           UNCHANGED <<active, stopped, thread, loops, crossed>>
    PROVE  AudioInv'
<1>0. AudioTypeOK /\ Ends(c) /\ ask[c] # None /\ ask[c].at = "enter"
      /\ paused' \in BOOLEAN /\ resumed' \in BOOLEAN
  BY DEF AudioInv, AudioTypeOK, RefusedStart, RefusedRecord, RefusedPlay, At
<1>1. /\ ask' \in [Calls -> Request \cup {None}] /\ ask'[c] = None
      /\ \A e \in Calls \ {c} : ask'[e] = ask[e]
  BY <1>0, AskEnds
<1>2. AudioTypeOK'
  BY <1>0, <1>1 DEF AudioTypeOK
<1>3. AudioPlaces'
  BY <1>1 DEF AudioInv, AudioPlaces, Device
<1>4. \A d \in Devices : Alive(d)' = Alive(d)
  BY DEF Alive
<1>5. \A e \in Calls, op \in {"start", "stop"}, d \in Devices : Asking(e, op, d)' => Asking(e, op, d) /\ e # c
  BY <1>1 DEF Asking, Device
<1>6. \A e \in Calls, w \in {"prepare", "enter", "thread", "join", "leave"} :
          At(e, w)' => At(e, w) /\ e # c /\ ask'[e] = ask[e] /\ Device(e)' = Device(e)
  BY <1>1 DEF At, Device
<1>7. ASSUME NEW d \in Devices \ crossed' PROVE Orderly(d)'
  <2>1. Orderly(d)
    BY <1>7 DEF AudioInv
  <2>2. Making(d) => Making(d)'
    BY <1>0, <1>1 DEF Making, At, Device
  <2> QED  BY <1>0, <1>4, <1>5, <1>6, <1>7, <2>1, <2>2 DEF Orderly
<1>8. Muted'
  <2>1. Alive("recorder")' = Alive("recorder")
    BY <1>4 DEF Devices
  <2>2. Recording' \subseteq Recording \ {c}
    BY <1>6 DEF Recording
  <2>3. Known'
    BY <1>0, <1>1 DEF AudioInv, Muted, Known
  <2>4. Recording' # {} \/ Alive("recorder")' # {} => paused' \/ resumed'
    <3>1. CASE Device(c) = "recorder"
      BY <2>1, <2>2, <3>1 DEF RefusedStart, RefusedRecord, RefusedPlay
    <3>2. CASE Device(c) # "recorder"
      <4>1. paused' = paused /\ resumed' = resumed
        BY <3>2 DEF RefusedStart, RefusedRecord, RefusedPlay
      <4> QED  BY <2>1, <2>2, <4>1 DEF AudioInv, Muted
    <3> QED  BY <3>1, <3>2
  <2> QED  BY <1>0, <1>6, <2>1, <2>3, <2>4 DEF AudioInv, Muted
<1> QED  BY <1>2, <1>3, <1>7, <1>8 DEF AudioInv

LEMMA EnterInv ==
    ASSUME AudioInv, NEW c \in Calls, Enter(c)
    PROVE  AudioInv'
<1> PICK d \in Devices : d = Device(c) /\ ask[c] # None
  BY Asked DEF AudioInv, Enter, At
<1>0. /\ AudioTypeOK /\ At(c, "enter") /\ ask[c] # None /\ ask[c].at = "enter" /\ ask[c].op = "start"
      /\ UNCHANGED <<thread, loops, crossed>>
      /\ \/ RefusedStart(c) /\ UNCHANGED <<active, stopped>>
         \/ /\ ~active[d]
            /\ active' = [active EXCEPT ![d] = TRUE]
            /\ stopped' = [stopped EXCEPT ![d] = FALSE]
            /\ Goes(c, "thread") /\ UNCHANGED <<paused, resumed>>
  BY DEF AudioInv, Enter, At
<1>1. CASE RefusedStart(c) /\ UNCHANGED <<active, stopped>>
  BY <1>0, <1>1, RefusedInv
<1>2. CASE /\ ~active[d]
           /\ active' = [active EXCEPT ![d] = TRUE]
           /\ stopped' = [stopped EXCEPT ![d] = FALSE]
           /\ Goes(c, "thread") /\ UNCHANGED <<paused, resumed>>
  <2>0. d \in Devices
    BY <1>0, Asked
  <2>1. /\ ask' \in [Calls -> Request \cup {None}] /\ \A e \in Calls \ {c} : ask'[e] = ask[e]
        /\ ask'[c].at = "thread" /\ ask'[c].op = "start" /\ ask'[c].device = d
        /\ ask'[c] \in Request /\ ask'[c] # None
    BY <1>0, <1>2, AskGoes, AudioAssumption DEF Device
  <2>2. AudioTypeOK'
    BY <1>0, <1>2, <2>1 DEF AudioTypeOK
  <2>3. AudioPlaces'
    BY <1>0, <2>1 DEF AudioInv, AudioPlaces, Device
  <2>4. \A q \in Devices : Alive(q)' = Alive(q)
    BY <1>0 DEF Alive
  <2>5. \A e \in Calls, op \in {"start", "stop"}, q \in Devices : Asking(e, op, q)' => Asking(e, op, q)
    BY <1>0, <2>1 DEF Asking, Device
  <2>6. \A e \in Calls, w \in {"prepare", "enter", "thread", "join", "leave"} :
            At(e, w)' /\ e # c => At(e, w) /\ ask'[e] = ask[e] /\ Device(e)' = Device(e)
    BY <2>1 DEF At, Device
  <2>7. \A w \in {"prepare", "enter", "join", "leave"} : ~At(c, w)'
    BY <2>1 DEF At
  <2>8. \A q \in Devices : active'[q] = (IF q = d THEN TRUE ELSE active[q])
    BY <1>0, <1>2, <2>0 DEF AudioTypeOK
  <2>9. Device(c)' = d
    BY <2>1 DEF Device
  <2>10. Making(d)'
    BY <2>1 DEF Making, At, Device
  <2>11. ASSUME NEW q \in Devices \ crossed' PROVE Orderly(q)'
    <3>1. Orderly(q)
      BY <1>0, <2>11 DEF AudioInv
    <3>2. CASE q = d
      <4>1. Alive(q) = {} /\ \A e \in Calls : ~(At(e, "thread") /\ Device(e) = q)
        BY <1>2, <3>1, <3>2 DEF Orderly
      <4>2. \A e \in Calls : ~Asking(e, "stop", q)
        BY <1>0, <3>1, <3>2 DEF Orderly, Asking
      <4>3. \A e \in Calls : ~(At(e, "leave") /\ Device(e) = q)
        BY <4>2 DEF AudioInv, AudioPlaces, Asking, At
      <4>4. \A e \in Calls : At(e, "thread")' /\ Device(e)' = q => e = c
        BY <2>6, <3>2, <4>1
      <4>5. \A e \in Calls, w \in {"join", "leave"} : ~(At(e, w)' /\ Device(e)' = q)
        BY <2>6, <2>7, <4>2 DEF AudioInv, AudioPlaces, Asking, At
      <4>6. Alive(q)' = {} /\ active'[q] /\ Making(q)'
        BY <2>4, <2>8, <2>10, <3>2, <4>1
      <4> QED  BY <2>5, <2>11, <3>1, <4>4, <4>5, <4>6 DEF Orderly
    <3>3. CASE q # d
      <4>1. Making(q) => Making(q)'
        BY <1>0, <2>1, <3>3 DEF Making, At, Device
      <4>2. \A e \in Calls, w \in {"thread", "join", "leave"} :
                At(e, w)' /\ Device(e)' = q => At(e, w) /\ Device(e) = q /\ ask'[e].waits = ask[e].waits
        BY <2>6, <2>9, <3>3
      <4>3. Alive(q)' = Alive(q) /\ active'[q] = active[q] /\ thread' = thread
        BY <1>0, <2>4, <2>8, <3>3
      <4> QED  BY <2>5, <2>11, <3>1, <4>1, <4>2, <4>3 DEF Orderly
    <3> QED  BY <3>2, <3>3
  <2>12. Muted'
    <3>1. \A e \in Calls : e \in Recording' <=> e \in Recording
      BY <1>0, <2>1 DEF Recording, At, Device
    <3>2. Recording' = Recording /\ Alive("recorder")' = Alive("recorder")
      BY <2>4, <3>1 DEF Recording, Devices
    <3>3. Known'
      <4>1. ask'[c].waits = ask[c].waits
        BY <1>0, <1>2, AskGoes
      <4> QED  BY <1>0, <2>1, <4>1 DEF AudioInv, Muted, Known
    <3> QED  BY <1>0, <1>2, <2>6, <2>7, <3>2, <3>3 DEF AudioInv, Muted
  <2> QED  BY <2>2, <2>3, <2>11, <2>12 DEF AudioInv
<1> QED  BY <1>0, <1>1, <1>2

LEMMA MakeThreadInv ==
    ASSUME AudioInv, NEW c \in Calls, MakeThread(c)
    PROVE  AudioInv'
<1> PICK d \in Devices : d = Device(c) /\ ask[c] # None
  BY Asked DEF AudioInv, MakeThread, At
<1> DEFINE n == Cardinality(DOMAIN loops) + 1
<1>0. /\ AudioTypeOK /\ ask[c].at = "thread" /\ Cardinality(DOMAIN loops) < MaxLoops
      /\ loops' = [i \in 1 .. n |-> IF i = n THEN [device |-> d, alive |-> TRUE] ELSE loops[i]]
      /\ thread' = [thread EXCEPT ![d] = n]
      /\ Ends(c) /\ UNCHANGED <<active, stopped, paused, crossed, resumed>>
  BY DEF AudioInv, MakeThread, At
<1>1. DOMAIN loops = 1 .. (n - 1) /\ n \in 1 .. MaxLoops /\ MaxLoops \in Nat
  BY <1>0, LoopCount
<1> HIDE DEF n
<1>2. /\ DOMAIN loops' = 1 .. n /\ n \in Loops /\ n \notin DOMAIN loops
      /\ loops'[n] = [device |-> d, alive |-> TRUE]
      /\ \A i \in DOMAIN loops : i \in DOMAIN loops' /\ loops'[i] = loops[i]
      /\ DOMAIN loops' = (DOMAIN loops) \cup {n}
  BY <1>0, <1>1 DEF Loops
<1>3. /\ ask' \in [Calls -> Request \cup {None}] /\ ask'[c] = None
      /\ \A e \in Calls \ {c} : ask'[e] = ask[e]
  BY <1>0, AskEnds
<1>4. thread' \in [Devices -> Loops \cup {None}] /\ thread'[d] = n /\ \A q \in Devices \ {d} : thread'[q] = thread[q]
  BY <1>0, <1>2 DEF AudioTypeOK
<1>5. AudioTypeOK'
  <2>1. \A i \in DOMAIN loops' : loops'[i] \in [device : Devices, alive : BOOLEAN]
    BY <1>0, <1>2 DEF AudioTypeOK
  <2>2. DOMAIN loops' \in {1 .. k : k \in 0 .. MaxLoops}
    BY <1>1, <1>2
  <2> QED  BY <1>0, <1>3, <1>4, <2>1, <2>2 DEF AudioTypeOK
<1>6. AudioPlaces'
  BY <1>3 DEF AudioInv, AudioPlaces, Device
<1>7. ASSUME NEW q \in Devices PROVE Alive(q)' = IF q = d THEN Alive(q) \cup {n} ELSE Alive(q)
  <2>1. \A i \in DOMAIN loops : i \in Alive(q)' <=> i \in Alive(q)
    BY <1>2 DEF Alive
  <2>2. loops'[n].device = d /\ loops'[n].alive
    BY <1>2
  <2>3. n \in Alive(q)' <=> q = d
    BY <1>2, <2>2 DEF Alive
  <2>4. Alive(q)' \subseteq (DOMAIN loops) \cup {n} /\ Alive(q) \subseteq DOMAIN loops
    BY <1>2 DEF Alive
  <2>5. CASE q = d
    <3>1. Alive(q)' \subseteq Alive(q) \cup {n} /\ Alive(q) \cup {n} \subseteq Alive(q)'
      BY <2>1, <2>3, <2>4, <2>5
    <3> QED  BY <2>5, <3>1
  <2>6. CASE q # d
    <3>1. Alive(q)' \subseteq Alive(q) /\ Alive(q) \subseteq Alive(q)'
      BY <2>1, <2>3, <2>4, <2>6
    <3> QED  BY <2>6, <3>1
  <2> QED  BY <2>5, <2>6
<1>8. \A e \in Calls, op \in {"start", "stop"}, q \in Devices : Asking(e, op, q)' => Asking(e, op, q) /\ e # c
  BY <1>3 DEF Asking, Device
<1>9. \A e \in Calls, w \in {"prepare", "enter", "thread", "join", "leave"} :
          At(e, w)' => At(e, w) /\ e # c /\ ask'[e] = ask[e] /\ Device(e)' = Device(e)
  BY <1>3 DEF At, Device
<1>10. ASSUME NEW q \in Devices \ crossed' PROVE Orderly(q)'
  <2>1. Orderly(q)
    BY <1>0, <1>10 DEF AudioInv
  <2>2. CASE q = d
    <3>1. Alive(q) = {} /\ active[q] /\ \A e \in Calls : At(e, "thread") /\ Device(e) = q => e = c
      BY <1>0, <2>1, <2>2 DEF Orderly, At
    <3>2. \A e \in Calls : ~Asking(e, "stop", q)
      BY <1>0, <2>1, <2>2 DEF Orderly, Asking, AudioInv, AudioPlaces
    <3>3. \A e \in Calls, w \in {"join", "leave"} : ~(At(e, w)' /\ Device(e)' = q)
      BY <1>9, <3>2 DEF AudioInv, AudioPlaces, Asking, At
    <3>4. \A e \in Calls : ~(At(e, "thread")' /\ Device(e)' = q)
      BY <1>9, <3>1
    <3>5. Alive(q)' = {n} /\ thread'[q] = n /\ active'[q]
      BY <1>0, <1>4, <1>7, <2>2, <3>1
    <3> QED  BY <1>8, <1>10, <2>1, <3>3, <3>4, <3>5 DEF Orderly
  <2>3. CASE q # d
    <3>1. Alive(q)' = Alive(q) /\ active'[q] = active[q] /\ thread'[q] = thread[q]
      BY <1>0, <1>4, <1>7, <2>3
    <3>2. Making(q) => Making(q)'
      BY <1>3, <2>3 DEF Making, At, Device
    <3> QED  BY <1>8, <1>9, <1>10, <2>1, <3>1, <3>2 DEF Orderly
  <2> QED  BY <2>2, <2>3
<1>11. Muted'
  <2>1. Alive("recorder") \subseteq Alive("recorder")' /\ Recording' \subseteq Recording
    BY <1>7, <1>9 DEF Devices, Recording
  <2>2. Alive("recorder")' # {} => Alive("recorder") # {} \/ c \in Recording
    BY <1>0, <1>7 DEF At, Devices, Recording
  <2>3. Known'
    <3>1. \A q \in Devices : thread'[q] # None => thread'[q] \in DOMAIN loops'
      BY <1>2, <1>4 DEF AudioInv, Muted, Known
    <3>2. \A e \in Calls : ask'[e] # None => e # c /\ ask'[e] = ask[e]
      BY <1>3
    <3> QED  BY <1>2, <3>1, <3>2 DEF AudioInv, Muted, Known
  <2>4. \A e \in Calls : At(e, "leave")' /\ Device(e)' = "recorder" /\ ask'[e].waits \in Alive("recorder")'
          => At(e, "leave") /\ Device(e) = "recorder" /\ ask[e].waits \in Alive("recorder")
    <3> SUFFICES ASSUME NEW e \in Calls, At(e, "leave")', Device(e)' = "recorder",
                        ask'[e].waits \in Alive("recorder")'
          PROVE  At(e, "leave") /\ Device(e) = "recorder" /\ ask[e].waits \in Alive("recorder")
      OBVIOUS
    <3>1. At(e, "leave") /\ Device(e) = "recorder" /\ ask'[e] = ask[e] /\ ask[e] # None
      BY <1>9 DEF At
    <3>2. ask[e].waits \in DOMAIN loops'
      BY <3>1 DEF Alive
    <3>3. ask[e].waits \in DOMAIN loops
      <4>1. None \notin DOMAIN loops'
        BY <1>2, <1>1, <1>0, LoopCount, NoneAssumption DEF Loops
      <4> QED  BY <3>1, <3>2, <4>1 DEF AudioInv, Muted, Known
    <3>4. ask[e].waits \in Alive("recorder")
      BY <1>2, <1>7, <3>1, <3>3 DEF Devices
    <3> QED  BY <3>1, <3>4
  <2>5. paused' = paused /\ resumed' = resumed /\ crossed' = crossed /\ Muted
    BY <1>0 DEF AudioInv
  <2>6. Recording' # {} \/ Alive("recorder")' # {} => paused' \/ resumed'
    BY <2>1, <2>2, <2>5 DEF Muted
  <2> QED  BY <2>3, <2>4, <2>5, <2>6 DEF Muted
<1> QED  BY <1>5, <1>6, <1>10, <1>11 DEF AudioInv

LEMMA SignalsInv ==
    ASSUME AudioInv, NEW c \in Calls, Signals(c)
    PROVE  AudioInv'
<1> PICK d \in Devices : d = Device(c) /\ ask[c] # None
  BY Asked DEF AudioInv, Signals, At
<1>0. /\ AudioTypeOK /\ ask[c].at = "signal" /\ ask[c] \in Request
      /\ stopped' = [stopped EXCEPT ![d] = TRUE]
      /\ ask' = [ask EXCEPT ![c].at = "join", ![c].waits = thread[d]]
      /\ UNCHANGED <<active, thread, loops, paused, crossed, resumed>>
  BY Asked DEF AudioInv, Signals, At
<1> DEFINE r == [[ask[c] EXCEPT !.at = "join"] EXCEPT !.waits = thread[d]]
<1>1. /\ r \in Request /\ r.at = "join" /\ r.waits = thread[d] /\ r.device = ask[c].device /\ r.op = ask[c].op
  BY <1>0 DEF Request, AudioTypeOK
<1>2. ask' = [ask EXCEPT ![c] = r]
  BY <1>0 DEF Request
<1> HIDE DEF r
<1>3. /\ ask' \in [Calls -> Request \cup {None}] /\ ask'[c] = r
      /\ \A e \in Calls \ {c} : ask'[e] = ask[e]
  BY <1>0, <1>1, <1>2, AskNew
<1>4. AudioTypeOK'
  BY <1>0, <1>3 DEF AudioTypeOK
<1>5. AudioPlaces'
  BY <1>0, <1>1, <1>3 DEF AudioInv, AudioPlaces, Device
<1>6. \A q \in Devices : Alive(q)' = Alive(q)
  BY <1>0 DEF Alive
<1>7. \A e \in Calls, op \in {"start", "stop"}, q \in Devices : Asking(e, op, q)' => Asking(e, op, q)
  BY <1>0, <1>1, <1>3 DEF Asking, Device
<1>8. \A e \in Calls, w \in {"prepare", "enter", "thread", "leave"} :
          /\ At(e, w)' <=> At(e, w)
          /\ At(e, w) => Device(e)' = Device(e)
  BY <1>0, <1>1, <1>3 DEF At, Device
<1>9. \A e \in Calls, q \in Devices : At(e, "join")' /\ Device(e)' = q =>
          (At(e, "join") /\ Device(e) = q /\ ask'[e].waits = ask[e].waits) \/ ask'[e].waits = thread[q]
  BY <1>0, <1>1, <1>3 DEF At, Device
<1>10. ASSUME NEW q \in Devices \ crossed' PROVE Orderly(q)'
  <2>1. Orderly(q) /\ (Making(q)' <=> Making(q))
    BY <1>0, <1>8, <1>10 DEF AudioInv, Making
  <2>2. \A e \in Calls : At(e, "join")' /\ Device(e)' = q => ask'[e].waits = thread'[q]
    <3>1. \A e \in Calls : At(e, "join") /\ Device(e) = q => ask[e].waits = thread[q]
      BY <2>1 DEF Orderly
    <3>2. thread'[q] = thread[q]
      BY <1>0
    <3> QED  BY <1>9, <1>10, <3>1, <3>2
  <2>3. Alive(q)' = Alive(q) /\ active'[q] = active[q] /\ thread'[q] = thread[q]
    BY <1>0, <1>6, <1>10
  <2>4. \A e, f \in Calls : ~(Asking(e, "start", q)' /\ Asking(f, "stop", q)')
    BY <1>7, <1>10, <2>1 DEF Orderly
  <2> QED  BY <1>8, <2>1, <2>2, <2>3, <2>4 DEF Orderly
<1>11. Muted'
  <2>1. Recording' = Recording /\ Alive("recorder")' = Alive("recorder")
    <3>1. \A e \in Calls : e \in Recording' <=> e \in Recording
      BY <1>0, <1>1, <1>3 DEF Recording, At, Device
    <3> QED  BY <1>6, <3>1 DEF Recording, Devices
  <2>2. \A e \in Calls : At(e, "leave")' => At(e, "leave") /\ ask'[e] = ask[e]
    BY <1>0, <1>1, <1>3 DEF At
  <2>3. Known'
    <3>1. d \in Devices
      BY <1>0, Asked
    <3> QED  BY <1>0, <1>1, <1>3, <3>1 DEF AudioInv, Muted, Known
  <2> QED  BY <1>0, <2>1, <2>2, <2>3 DEF AudioInv, Muted, Device
<1> QED  BY <1>4, <1>5, <1>10, <1>11 DEF AudioInv

LEMMA FreesInv ==
    ASSUME AudioInv, NEW c \in Calls, Frees(c)
    PROVE  AudioInv'
<1> PICK d \in Devices : d = Device(c) /\ ask[c] # None
  BY Asked DEF AudioInv, Frees, At
<1>0. /\ AudioTypeOK /\ ask[c].at = "join" /\ Goes(c, "leave")
      /\ \/ Joined(c) /\ crossed' = crossed
         \/ ~Joined(c) /\ crossed' = crossed \cup {d}
      /\ active' = [active EXCEPT ![d] = FALSE]
      /\ UNCHANGED <<stopped, thread, loops, paused, resumed>>
  BY DEF AudioInv, Frees, At
<1>1. /\ ask' \in [Calls -> Request \cup {None}] /\ \A e \in Calls \ {c} : ask'[e] = ask[e]
      /\ ask'[c].at = "leave" /\ ask'[c].op = ask[c].op /\ ask'[c].device = d
  BY <1>0, AskGoes DEF Device
<1>2. /\ active' \in [Devices -> BOOLEAN] /\ crossed \subseteq crossed' /\ crossed' \subseteq Devices
      /\ ~active'[d] /\ \A q \in Devices \ {d} : active'[q] = active[q]
  BY <1>0 DEF AudioTypeOK
<1>3. AudioTypeOK'
  BY <1>0, <1>1, <1>2 DEF AudioTypeOK
<1>4. AudioPlaces'
  BY <1>0, <1>1 DEF AudioInv, AudioPlaces, Device
<1>5. \A q \in Devices : Alive(q)' = Alive(q)
  BY <1>0 DEF Alive
<1>6. \A e \in Calls, op \in {"start", "stop"}, q \in Devices : Asking(e, op, q)' => Asking(e, op, q)
  BY <1>0, <1>1 DEF Asking, Device
<1>7. \A e \in Calls, w \in {"prepare", "enter", "thread", "join"} :
          At(e, w)' => At(e, w) /\ ask'[e] = ask[e] /\ Device(e)' = Device(e)
  BY <1>0, <1>1 DEF At, Device
<1>8. \A e \in Calls : At(e, "leave")' => (At(e, "leave") /\ Device(e)' = Device(e)) \/ Device(e)' = d
  BY <1>0, <1>1 DEF At, Device
<1>9. ASSUME NEW q \in Devices \ crossed' PROVE Orderly(q)'
  <2>1. Orderly(q)
    BY <1>2, <1>9 DEF AudioInv
  <2>2. CASE q = d
    <3>1. Joined(c) /\ ask[c].waits = thread[d]
      BY <1>0, <1>9, <2>1, <2>2 DEF Orderly, At
    <3>2. Alive(q) = {}
      <4>1. \A i \in Alive(q) : i = ask[c].waits /\ loops[i].alive /\ i # None
        BY <1>0, <2>1, <2>2, <3>1, LoopCount, NoneAssumption DEF Orderly, Alive, Loops
      <4> QED  BY <3>1, <4>1 DEF Joined
    <3>3. \A e \in Calls : ~(At(e, "thread")' /\ Device(e)' = q)
      BY <1>0, <1>7, <2>1, <2>2 DEF Orderly, Asking, At, AudioInv, AudioPlaces
    <3> QED  BY <1>0, <1>2, <1>5, <1>6, <1>7, <1>9, <2>1, <2>2, <3>2, <3>3 DEF Orderly
  <2>3. CASE q # d
    <3>1. active'[q] = active[q] /\ Alive(q)' = Alive(q) /\ thread' = thread
      BY <1>0, <1>2, <1>5, <2>3
    <3>2. Making(q) => Making(q)'
      BY <1>0, <1>1 DEF Making, At, Device
    <3>3. \A e \in Calls : At(e, "leave")' /\ Device(e)' = "recorder" /\ q = "recorder" =>
              At(e, "leave") /\ Device(e) = "recorder"
      BY <1>8, <2>3
    <3> QED  BY <1>6, <1>7, <1>9, <2>1, <3>1, <3>2, <3>3 DEF Orderly
  <2> QED  BY <2>2, <2>3
<1>10. Muted'
  <2>1. Recording' \subseteq Recording /\ Alive("recorder")' = Alive("recorder")
    BY <1>5, <1>7 DEF Recording, Devices
  <2>2. ask'[c].waits = ask[c].waits
    BY <1>0, AskGoes
  <2>3. Known'
    BY <1>0, <1>1, <2>2 DEF AudioInv, Muted, Known
  <2>4. \A e \in Calls \ {c} : At(e, "leave")' => At(e, "leave") /\ ask'[e] = ask[e]
    BY <1>1 DEF At
  <2>5. ask'[c].waits \in Alive("recorder")' /\ d = "recorder" => "recorder" \in crossed'
    <3>1. None \notin Alive("recorder")
      BY <1>0, LoopCount, NoneAssumption DEF Alive, Loops
    <3> QED  BY <1>0, <2>1, <2>2, <3>1 DEF Joined, Alive
  <2>6. Device(c)' = d
    BY <1>1 DEF Device
  <2> QED  BY <1>0, <1>2, <2>1, <2>3, <2>4, <2>5, <2>6 DEF AudioInv, Muted, Device
<1> QED  BY <1>3, <1>4, <1>9, <1>10 DEF AudioInv

LEMMA LeavesInv ==
    ASSUME AudioInv, NEW c \in Calls, Leaves(c)
    PROVE  AudioInv'
<1> PICK d \in Devices : d = Device(c) /\ ask[c] # None
  BY Asked DEF AudioInv, Leaves, At
<1>0. /\ AudioTypeOK /\ ask[c].at = "leave" /\ Ends(c)
      /\ paused' \in BOOLEAN /\ resumed' \in BOOLEAN
      /\ UNCHANGED <<active, stopped, thread, loops, crossed>>
  BY DEF AudioInv, AudioTypeOK, Leaves, At
<1>1. /\ ask' \in [Calls -> Request \cup {None}] /\ ask'[c] = None
      /\ \A e \in Calls \ {c} : ask'[e] = ask[e]
  BY <1>0, AskEnds
<1>2. AudioTypeOK'
  BY <1>0, <1>1 DEF AudioTypeOK
<1>3. AudioPlaces'
  BY <1>1 DEF AudioInv, AudioPlaces, Device
<1>4. \A q \in Devices : Alive(q)' = Alive(q)
  BY <1>0 DEF Alive
<1>5. \A e \in Calls, op \in {"start", "stop"}, q \in Devices : Asking(e, op, q)' => Asking(e, op, q) /\ e # c
  BY <1>1 DEF Asking, Device
<1>6. \A e \in Calls, w \in {"prepare", "enter", "thread", "join", "leave"} :
          At(e, w)' => At(e, w) /\ e # c /\ ask'[e] = ask[e] /\ Device(e)' = Device(e)
  BY <1>1 DEF At, Device
<1>7. ASSUME NEW q \in Devices \ crossed' PROVE Orderly(q)'
  <2>1. Orderly(q)
    BY <1>0, <1>7 DEF AudioInv
  <2>2. Making(q) => Making(q)'
    BY <1>0, <1>1 DEF Making, At, Device
  <2> QED  BY <1>0, <1>4, <1>5, <1>6, <1>7, <2>1, <2>2 DEF Orderly
<1>8. Muted'
  <2>1. Alive("recorder")' = Alive("recorder") /\ Recording' \subseteq Recording
    BY <1>4, <1>6 DEF Devices, Recording
  <2>2. Known'
    BY <1>0, <1>1 DEF AudioInv, Muted, Known
  <2>3. Recording # {} \/ Alive("recorder") # {} => paused' \/ resumed'
    <3>1. CASE d = "recorder"
      <4>1. \A n \in Alive("recorder") : n # ask[c].waits \/ "recorder" \in crossed
        BY <1>0, <3>1 DEF AudioInv, Muted, At
      <4> QED  BY <3>1, <4>1 DEF Leaves
    <3>2. CASE d # "recorder"
      <4>1. paused' = paused /\ resumed' = resumed
        BY <3>2 DEF Leaves
      <4> QED  BY <4>1 DEF AudioInv, Muted
    <3> QED  BY <3>1, <3>2
  <2> QED  BY <1>0, <1>6, <2>1, <2>2, <2>3 DEF AudioInv, Muted
<1> QED  BY <1>2, <1>3, <1>7, <1>8 DEF AudioInv

LEMMA LoopEndsInv ==
    ASSUME AudioInv, NEW n \in DOMAIN loops, LoopEnds(n)
    PROVE  AudioInv'
<1>0. /\ AudioTypeOK /\ loops[n].alive
      /\ loops' = [loops EXCEPT ![n].alive = FALSE]
      /\ active' = IF loops[n].device = "player" THEN [active EXCEPT !["player"] = FALSE] ELSE active
      /\ UNCHANGED <<stopped, thread, ask, paused, crossed, resumed>>
  BY DEF AudioInv, LoopEnds, RecordEnds, PlayEnds, Over
<1>1. /\ DOMAIN loops' = DOMAIN loops
      /\ \A i \in DOMAIN loops : /\ loops'[i] \in [device : Devices, alive : BOOLEAN]
                                 /\ loops'[i].device = loops[i].device
                                 /\ loops'[i].alive = (i # n /\ loops[i].alive)
  BY <1>0 DEF AudioTypeOK
<1>2. active' \in [Devices -> BOOLEAN] /\ \A q \in Devices : active'[q] = (active[q] /\ (q = "player" => loops[n].device # "player"))
  <2>1. active \in [Devices -> BOOLEAN] /\ "player" \in Devices
    BY <1>0 DEF AudioTypeOK, Devices
  <2>2. CASE loops[n].device = "player"
    <3>1. active' = [active EXCEPT !["player"] = FALSE]
      BY <1>0, <2>2
    <3> QED  BY <2>1, <2>2, <3>1
  <2>3. CASE loops[n].device # "player"
    <3>1. active' = active
      BY <1>0, <2>3
    <3> QED  BY <2>1, <2>3, <3>1
  <2> QED  BY <2>2, <2>3
<1>3. AudioTypeOK'
  BY <1>0, <1>1, <1>2 DEF AudioTypeOK
<1>4. \A q \in Devices : Alive(q)' = Alive(q) \ {n}
  BY <1>1 DEF Alive
<1>5. AudioPlaces'
  BY <1>0 DEF AudioInv, AudioPlaces, Device
<1>6. \A e \in Calls, op \in {"start", "stop"}, q \in Devices : Asking(e, op, q)' <=> Asking(e, op, q)
  BY <1>0 DEF Asking, Device
<1>7. \A e \in Calls, w \in {"prepare", "enter", "thread", "join", "leave"} :
          (At(e, w)' <=> At(e, w)) /\ Device(e)' = Device(e) /\ ask'[e] = ask[e]
  BY <1>0 DEF At, Device
<1>8. ASSUME NEW q \in Devices \ crossed' PROVE Orderly(q)'
  <2>1. Orderly(q) /\ (Making(q)' <=> Making(q))
    BY <1>0, <1>7, <1>8 DEF AudioInv, Making
  <2>2. CASE n \in Alive(q)
    <3>1. Alive(q) = {n} /\ Alive(q)' = {}
      BY <1>4, <2>1, <2>2, <1>8 DEF Orderly
    <3>2. active[q] /\ ~Making(q) /\ loops[n].device = q
      BY <2>1, <2>2 DEF Orderly, Making, Alive
    <3>3. q = "player" => ~active'[q]
      BY <1>2, <3>2
    <3>4. \A e \in Calls : ~(At(e, "thread") /\ Device(e) = q)
      BY <3>2 DEF Making
    <3> QED  BY <1>0, <1>2, <1>6, <1>7, <1>8, <2>1, <3>1, <3>3, <3>4 DEF Orderly
  <2>3. CASE n \notin Alive(q)
    <3>1. Alive(q)' = Alive(q) /\ (q = "player" => loops[n].device # "player")
      BY <1>0, <1>4, <2>3 DEF Alive
    <3>2. active'[q] <=> active[q]
      BY <1>2, <3>1
    <3> QED  BY <1>0, <1>6, <1>7, <1>8, <2>1, <3>1, <3>2 DEF Orderly
  <2> QED  BY <2>2, <2>3
<1>9. Muted'
  <2>1. Recording' = Recording /\ Alive("recorder")' \subseteq Alive("recorder")
    BY <1>4, <1>7 DEF Recording, Devices
  <2>2. Known'
    BY <1>0, <1>1 DEF AudioInv, Muted, Known
  <2> QED  BY <1>0, <1>7, <2>1, <2>2 DEF AudioInv, Muted
<1> QED  BY <1>3, <1>5, <1>8, <1>9 DEF AudioInv

LEMMA ListenerStartsInv ==
    ASSUME AudioInv, ListenerStarts
    PROVE  AudioInv'
<1>0. /\ UNCHANGED <<active, stopped, thread, loops, ask, crossed>>
      /\ paused' \in BOOLEAN /\ resumed' \in BOOLEAN
      /\ Recording # {} \/ Alive("recorder") # {} => resumed'
  BY DEF AudioInv, AudioTypeOK, ListenerStarts
<1>1. AudioTypeOK' /\ AudioPlaces'
  BY <1>0 DEF AudioInv, AudioTypeOK, AudioPlaces, Device
<1>2. \A d \in Devices : Orderly(d) => Orderly(d)'
  BY <1>0 DEF Orderly, Asking, At, Device, Alive, Making
<1>3. Muted'
  BY <1>0 DEF AudioInv, Muted, Known, Recording, At, Device, Alive
<1> QED  BY <1>0, <1>1, <1>2, <1>3 DEF AudioInv

-----------------------------------------------------------------------------
(* The camera. *)

CamTypeOK ==
    /\ recording \in BOOLEAN /\ started \in BOOLEAN /\ encoding \in BOOLEAN
    /\ shot \in [Calls -> Shot \cup {None}]
    /\ left \in BOOLEAN /\ cut \in BOOLEAN

(* The place of a request fits what it asks for. *)
CamPlaces == \A c \in Calls : shot[c] # None =>
    /\ shot[c].at = "capture" => shot[c].op \in {"photo", "frame", "view"}
    /\ shot[c].at \in {"encode", "flag"} => shot[c].op = "record"
    /\ shot[c].at \in {"halt", "clear"} => shot[c].op = "halt"
    /\ shot[c].at = "stop" => shot[c].op # "record"
    /\ shot[c].at \in {"configure", "start"} => shot[c].op # "halt"

Halted(c) == (Does(c, "stop") \/ Does(c, "clear")) /\ shot[c].op = "halt"
Holds(c) == Does(c, "capture") \/ Does(c, "stop") \/ Does(c, "encode") \/ Does(c, "flag")

(* Nothing used the camera across a recording: the requests that use it want   *)
(* the same of it.                                                           *)
OneKind == \A c, e \in Calls : shot[c] # None /\ shot[e] # None =>
    /\ shot[c].op = "record" <=> shot[e].op = "record"
    /\ shot[c].op = "halt" <=> shot[e].op = "halt"

Apart == \A c \in Calls : shot[c] # None /\ shot[c].op \notin {"record", "halt"} => ~recording

(* Who the camera and its encoder run for. *)
Steady ==
    /\ \A c \in Calls : Does(c, "flag") => started /\ encoding
    /\ \A c \in Calls : Halted(c) => ~started /\ ~encoding
    /\ recording => (started /\ encoding) \/ \E c \in Calls : Halted(c)
    /\ encoding => recording \/ \E c \in Calls : Does(c, "flag")
    /\ left => started
    /\ started /\ ~left => recording \/ \E c \in Calls : Holds(c)

CamInv == CamTypeOK /\ CamPlaces /\ (cut \/ (OneKind /\ Apart /\ Steady))

LEMMA CamInitInv == ASSUME CameraInit PROVE CamInv
<1>1. \A c \in Calls : shot[c] = None
  BY DEF CameraInit
<1>2. CamTypeOK
  BY DEF CameraInit, CamTypeOK
<1> QED  BY <1>1, <1>2 DEF CameraInit, CamInv, CamPlaces, OneKind, Apart, Steady, Does, Halted, Holds

(* A call's use of the camera, and what becomes of it. *)
LEMMA ShotTurns ==
    ASSUME CamTypeOK, NEW c \in Calls, shot[c] # None,
           NEW where \in {"configure", "start", "capture", "encode", "flag", "halt", "stop", "clear"},
           Turns(c, where)
    PROVE  /\ shot' \in [Calls -> Shot \cup {None}]
           /\ \A e \in Calls \ {c} : shot'[e] = shot[e]
           /\ shot'[c] # None /\ shot'[c].at = where /\ shot'[c].op = shot[c].op
<1>1. shot[c] \in Shot
  BY DEF CamTypeOK
<1> DEFINE new == [shot[c] EXCEPT !.at = where]
<1>2. new \in Shot /\ new.at = where /\ new.op = shot[c].op
  BY <1>1 DEF Shot
<1>3. new # None
  BY <1>2, CameraAssumption
<1>4. shot' = [shot EXCEPT ![c] = new]
  BY DEF Turns
<1> HIDE DEF new
<1> QED  BY <1>2, <1>3, <1>4 DEF CamTypeOK

LEMMA ShotDone ==
    ASSUME CamTypeOK, NEW c \in Calls, Done(c)
    PROVE  /\ shot' \in [Calls -> Shot \cup {None}] /\ shot'[c] = None
           /\ \A e \in Calls \ {c} : shot'[e] = shot[e]
BY DEF CamTypeOK, Done

LEMMA WantsInv ==
    ASSUME CamInv, NEW c \in Calls, shot[c] = None, Wants(c) \/ Views(c)
    PROVE  CamInv'
<1> PICK op \in Ops :
      /\ op = "record" => ~recording
      /\ op = "halt" => recording
      /\ shot' = [shot EXCEPT ![c] = [op |-> op, at |-> IF op = "halt" THEN "halt" ELSE "configure"]]
      /\ cut' = (cut \/ Crosses(op))
      /\ UNCHANGED <<recording, started, encoding, left>>
  BY DEF Wants, Views, Uses, Ops
<1> DEFINE new == [op |-> op, at |-> IF op = "halt" THEN "halt" ELSE "configure"]
<1>1. new \in Shot /\ new.op = op /\ new.at = IF op = "halt" THEN "halt" ELSE "configure"
  BY DEF Shot
<1>2. new # None
  BY <1>1, CameraAssumption
<1> HIDE DEF new
<1>3. /\ shot' \in [Calls -> Shot \cup {None}] /\ shot'[c] = new /\ \A e \in Calls \ {c} : shot'[e] = shot[e]
  BY <1>1 DEF CamInv, CamTypeOK, new
<1>4. cut' \in BOOLEAN
  BY DEF CamInv, CamTypeOK, Crosses, Using
<1>5. CamTypeOK'
  BY <1>3, <1>4 DEF CamInv, CamTypeOK
<1>6. CamPlaces'
  BY <1>1, <1>3 DEF CamInv, CamPlaces
<1>7. ASSUME ~cut' PROVE OneKind' /\ Apart' /\ Steady'
  <2>1. OneKind /\ Apart /\ Steady /\ ~Crosses(op)
    BY <1>7 DEF CamInv
  <2>2. \A e \in Calls : shot[e] # None => (shot[e].op = "record" <=> op = "record") /\ (shot[e].op = "halt" <=> op = "halt")
    <3>1. \A e \in Calls : shot[e] # None => shot[e].op \in Ops
      BY DEF CamInv, CamTypeOK, Shot
    <3> QED  BY <2>1, <3>1 DEF Crosses, Using, Ops
  <2>3. op \notin {"record", "halt"} => ~recording
    BY <2>1 DEF Crosses
  <2>4. OneKind'
    BY <1>1, <1>3, <2>1, <2>2 DEF OneKind
  <2>5. Apart'
    BY <1>1, <1>3, <2>1, <2>3 DEF Apart
  <2>6. \A e \in Calls, w \in {"capture", "encode", "flag", "stop", "clear"} : Does(e, w)' <=> Does(e, w)
    BY <1>1, <1>3 DEF Does
  <2>7. \A e \in Calls : (Halted(e)' <=> Halted(e)) /\ (Holds(e)' <=> Holds(e))
    BY <1>1, <1>3, <2>6 DEF Halted, Holds, Does
  <2> QED  BY <2>1, <2>4, <2>5, <2>6, <2>7 DEF Steady
<1> QED  BY <1>5, <1>6, <1>7 DEF CamInv

(* What a step of a request that stays one, or ends, changes of the requests. *)
LEMMA SameKind ==
    ASSUME CamInv, ~cut, NEW c \in Calls, shot[c] # None,
           \A e \in Calls \ {c} : shot'[e] = shot[e],
           shot'[c] # None => shot'[c].op = shot[c].op
    PROVE  OneKind' /\ ((recording' => recording \/ shot[c].op \in {"record", "halt"}) => Apart')
<1>1. OneKind /\ Apart
  BY DEF CamInv
<1>2. OneKind'
  BY <1>1 DEF OneKind
<1>3. ASSUME recording' => recording \/ shot[c].op \in {"record", "halt"} PROVE Apart'
  <2> SUFFICES ASSUME NEW e \in Calls, shot'[e] # None, shot'[e].op \notin {"record", "halt"} PROVE ~recording'
    BY DEF Apart
  <2>1. shot[e] # None /\ shot[e].op = shot'[e].op
    BY DEF CamInv
  <2>2. ~recording /\ shot[c].op \notin {"record", "halt"}
    BY <1>1, <2>1 DEF OneKind, Apart
  <2> QED  BY <1>3, <2>2
<1> QED  BY <1>2, <1>3

LEMMA FailsInv ==
    ASSUME CamInv, NEW c \in Calls, Fails(c)
    PROVE  CamInv'
<1>0. /\ CamTypeOK /\ shot[c] # None
      /\ shot[c].at \in {"configure", "start", "capture", "encode", "halt"}
      /\ UNCHANGED <<recording, started, encoding, cut>>
  BY DEF CamInv, Fails, Raises, Does
<1>1. CASE shot[c].op \in {"frame", "view"}
  <2>0. Turns(c, "stop") /\ left' = left
    BY <1>1 DEF Fails, Raises
  <2>1. /\ shot' \in [Calls -> Shot \cup {None}] /\ \A e \in Calls \ {c} : shot'[e] = shot[e]
        /\ shot'[c] # None /\ shot'[c].at = "stop" /\ shot'[c].op = shot[c].op
    BY <1>0, <2>0, ShotTurns
  <2>2. CamTypeOK' /\ CamPlaces'
    BY <1>0, <1>1, <2>0, <2>1 DEF CamInv, CamTypeOK, CamPlaces
  <2>3. ASSUME ~cut PROVE OneKind' /\ Apart' /\ Steady'
    <3>1. OneKind' /\ Apart'
      BY <1>0, <2>1, <2>3, SameKind
    <3>2. Steady
      BY <2>3 DEF CamInv
    <3>3. \A e \in Calls : Does(e, "flag")' <=> Does(e, "flag")
      BY <1>0, <2>1 DEF Does
    <3>4. \A e \in Calls : (Halted(e)' <=> Halted(e)) /\ (Holds(e) => Holds(e)')
      BY <1>0, <1>1, <2>1 DEF Halted, Holds, Does
    <3> QED  BY <1>0, <2>0, <3>1, <3>2, <3>3, <3>4 DEF Steady
  <2> QED  BY <1>0, <2>2, <2>3 DEF CamInv
<1>2. CASE shot[c].op \notin {"frame", "view"}
  <2>0. Done(c) /\ left' = (left \/ (started /\ shot[c].at \in {"capture", "encode"}))
    BY <1>2 DEF Fails, Raises
  <2>1. /\ shot' \in [Calls -> Shot \cup {None}] /\ \A e \in Calls \ {c} : shot'[e] = shot[e]
        /\ shot'[c] = None
    BY <1>0, <2>0, ShotDone
  <2>2. CamTypeOK' /\ CamPlaces'
    BY <1>0, <2>0, <2>1 DEF CamInv, CamTypeOK, CamPlaces
  <2>3. ASSUME ~cut PROVE OneKind' /\ Apart' /\ Steady'
    <3>1. OneKind' /\ Apart'
      BY <1>0, <2>1, <2>3, SameKind
    <3>2. Steady
      BY <2>3 DEF CamInv
    <3>3. \A e \in Calls : Does(e, "flag")' <=> Does(e, "flag")
      BY <1>0, <2>1 DEF Does
    <3>4. \A e \in Calls : Halted(e)' <=> Halted(e)
      BY <1>0, <2>1 DEF CamInv, CamPlaces, Halted, Does
    <3>5. \A e \in Calls : Holds(e) => Holds(e)' \/ shot[c].at \in {"capture", "encode"}
      BY <1>0, <2>1 DEF Holds, Does
    <3> QED  BY <1>0, <2>0, <3>1, <3>2, <3>3, <3>4, <3>5 DEF Steady, CamTypeOK
  <2> QED  BY <1>0, <2>2, <2>3 DEF CamInv
<1> QED  BY <1>1, <1>2

(* The steps that only take the request on to its next place. *)
LEMMA ConfigureInv ==
    ASSUME CamInv, NEW c \in Calls, Configure(c)
    PROVE  CamInv'
<1>0. /\ CamTypeOK /\ shot[c] # None /\ shot[c].at = "configure" /\ ~started
      /\ Turns(c, "start") /\ UNCHANGED <<recording, started, encoding, left, cut>>
  BY DEF CamInv, Configure, Does
<1>1. /\ shot' \in [Calls -> Shot \cup {None}] /\ \A e \in Calls \ {c} : shot'[e] = shot[e]
      /\ shot'[c] # None /\ shot'[c].at = "start" /\ shot'[c].op = shot[c].op
  BY <1>0, ShotTurns
<1>2. CamTypeOK' /\ CamPlaces'
  BY <1>0, <1>1 DEF CamInv, CamTypeOK, CamPlaces
<1>3. ASSUME ~cut PROVE OneKind' /\ Apart' /\ Steady'
  <2>1. OneKind' /\ Apart' /\ Steady
    BY <1>0, <1>1, <1>3, SameKind DEF CamInv
  <2>2. \A e \in Calls : /\ Does(e, "flag")' <=> Does(e, "flag")
                         /\ Halted(e)' <=> Halted(e)
                         /\ Holds(e)' <=> Holds(e)
    BY <1>0, <1>1 DEF Does, Halted, Holds
  <2> QED  BY <1>0, <2>1, <2>2 DEF Steady
<1> QED  BY <1>0, <1>2, <1>3 DEF CamInv

LEMMA StartCameraInv ==
    ASSUME CamInv, NEW c \in Calls, StartCamera(c)
    PROVE  CamInv'
<1> DEFINE to == IF shot[c].op = "record" THEN "encode" ELSE "capture"
<1>0. /\ CamTypeOK /\ shot[c] # None /\ shot[c].at = "start" /\ shot[c].op # "halt"
      /\ Turns(c, to) /\ started' = TRUE /\ UNCHANGED <<recording, encoding, left, cut>>
  BY DEF CamInv, CamPlaces, StartCamera, Does
<1>1. /\ shot' \in [Calls -> Shot \cup {None}] /\ \A e \in Calls \ {c} : shot'[e] = shot[e]
      /\ shot'[c] # None /\ shot'[c].at = to /\ shot'[c].op = shot[c].op
  BY <1>0, ShotTurns
<1>2. shot[c].op \in Ops
  BY <1>0 DEF CamTypeOK, Shot
<1>3. CamTypeOK' /\ CamPlaces'
  BY <1>0, <1>1, <1>2 DEF CamInv, CamTypeOK, CamPlaces, Ops
<1>4. ASSUME ~cut PROVE OneKind' /\ Apart' /\ Steady'
  <2>1. OneKind' /\ Apart' /\ Steady /\ OneKind
    BY <1>0, <1>1, <1>4, SameKind DEF CamInv
  <2>2. \A e \in Calls : /\ Does(e, "flag")' <=> Does(e, "flag")
                         /\ ~Halted(e)'
    BY <1>0, <1>1, <2>1 DEF Does, Halted, OneKind
  <2>3. \A e \in Calls : ~Halted(e)
    BY <1>0, <2>1 DEF Does, Halted, OneKind
  <2>4. Holds(c)'
    BY <1>1 DEF Holds, Does
  <2> QED  BY <1>0, <2>1, <2>2, <2>3, <2>4 DEF Steady
<1> QED  BY <1>0, <1>3, <1>4 DEF CamInv

LEMMA CaptureInv ==
    ASSUME CamInv, NEW c \in Calls, Capture(c)
    PROVE  CamInv'
<1>0. /\ CamTypeOK /\ shot[c] # None /\ shot[c].at = "capture" /\ shot[c].op \in {"photo", "frame", "view"}
      /\ Turns(c, "stop") /\ UNCHANGED <<recording, started, encoding, left, cut>>
  BY DEF CamInv, CamPlaces, Capture, Does
<1>1. /\ shot' \in [Calls -> Shot \cup {None}] /\ \A e \in Calls \ {c} : shot'[e] = shot[e]
      /\ shot'[c] # None /\ shot'[c].at = "stop" /\ shot'[c].op = shot[c].op
  BY <1>0, ShotTurns
<1>2. CamTypeOK' /\ CamPlaces'
  BY <1>0, <1>1 DEF CamInv, CamTypeOK, CamPlaces
<1>3. ASSUME ~cut PROVE OneKind' /\ Apart' /\ Steady'
  <2>1. OneKind' /\ Apart' /\ Steady
    BY <1>0, <1>1, <1>3, SameKind DEF CamInv
  <2>2. \A e \in Calls : /\ Does(e, "flag")' <=> Does(e, "flag")
                         /\ Halted(e)' <=> Halted(e)
                         /\ Holds(e)' <=> Holds(e)
    BY <1>0, <1>1 DEF Does, Halted, Holds
  <2> QED  BY <1>0, <2>1, <2>2 DEF Steady
<1> QED  BY <1>0, <1>2, <1>3 DEF CamInv

LEMMA EncodeInv ==
    ASSUME CamInv, NEW c \in Calls, Encode(c)
    PROVE  CamInv'
<1>0. /\ CamTypeOK /\ shot[c] # None /\ shot[c].at = "encode" /\ shot[c].op = "record"
      /\ Turns(c, "flag") /\ started' = TRUE /\ encoding' = TRUE /\ UNCHANGED <<recording, left, cut>>
  BY DEF CamInv, CamPlaces, Encode, Does
<1>1. /\ shot' \in [Calls -> Shot \cup {None}] /\ \A e \in Calls \ {c} : shot'[e] = shot[e]
      /\ shot'[c] # None /\ shot'[c].at = "flag" /\ shot'[c].op = shot[c].op
  BY <1>0, ShotTurns
<1>2. CamTypeOK' /\ CamPlaces'
  BY <1>0, <1>1 DEF CamInv, CamTypeOK, CamPlaces
<1>3. ASSUME ~cut PROVE OneKind' /\ Apart' /\ Steady'
  <2>1. OneKind' /\ Apart' /\ Steady /\ OneKind
    BY <1>0, <1>1, <1>3, SameKind DEF CamInv
  <2>2. Does(c, "flag")' /\ Holds(c)' /\ \A e \in Calls : ~Halted(e)'
    BY <1>0, <1>1, <2>1 DEF Does, Halted, Holds, OneKind
  <2> QED  BY <1>0, <2>1, <2>2 DEF Steady
<1> QED  BY <1>0, <1>2, <1>3 DEF CamInv

LEMMA MarkRecordingInv ==
    ASSUME CamInv, NEW c \in Calls, MarkRecording(c)
    PROVE  CamInv'
<1>0. /\ CamTypeOK /\ shot[c] # None /\ shot[c].at = "flag" /\ shot[c].op = "record" /\ Does(c, "flag")
      /\ Done(c) /\ recording' = TRUE /\ UNCHANGED <<started, encoding, left, cut>>
  BY DEF CamInv, CamPlaces, MarkRecording, Does
<1>1. /\ shot' \in [Calls -> Shot \cup {None}] /\ \A e \in Calls \ {c} : shot'[e] = shot[e]
      /\ shot'[c] = None
  BY <1>0, ShotDone
<1>2. CamTypeOK' /\ CamPlaces'
  BY <1>0, <1>1 DEF CamInv, CamTypeOK, CamPlaces
<1>3. ASSUME ~cut PROVE OneKind' /\ Apart' /\ Steady'
  <2>1. OneKind' /\ Apart' /\ Steady
    BY <1>0, <1>1, <1>3, SameKind DEF CamInv
  <2>2. \A e \in Calls : (Does(e, "flag")' => Does(e, "flag")) /\ (Halted(e)' => Halted(e))
    BY <1>0, <1>1 DEF Does, Halted
  <2> QED  BY <1>0, <2>1, <2>2 DEF Steady
<1> QED  BY <1>0, <1>2, <1>3 DEF CamInv

LEMMA HaltInv ==
    ASSUME CamInv, NEW c \in Calls, Halt(c)
    PROVE  CamInv'
<1>0. /\ CamTypeOK /\ shot[c] # None /\ shot[c].at = "halt" /\ shot[c].op = "halt" /\ recording
      /\ Turns(c, "stop") /\ started' = FALSE /\ encoding' = FALSE /\ left' = FALSE
      /\ UNCHANGED <<recording, cut>>
  BY DEF CamInv, CamPlaces, Halt, Does
<1>1. /\ shot' \in [Calls -> Shot \cup {None}] /\ \A e \in Calls \ {c} : shot'[e] = shot[e]
      /\ shot'[c] # None /\ shot'[c].at = "stop" /\ shot'[c].op = shot[c].op
  BY <1>0, ShotTurns
<1>2. CamTypeOK' /\ CamPlaces'
  BY <1>0, <1>1 DEF CamInv, CamTypeOK, CamPlaces
<1>3. ASSUME ~cut PROVE OneKind' /\ Apart' /\ Steady'
  <2>1. OneKind' /\ Apart' /\ OneKind
    BY <1>0, <1>1, <1>3, SameKind DEF CamInv
  <2>2. Halted(c)' /\ \A e \in Calls : ~Does(e, "flag")'
    BY <1>0, <1>1, <2>1 DEF Does, Halted, OneKind, CamInv, CamPlaces
  <2> QED  BY <1>0, <2>1, <2>2 DEF Steady
<1> QED  BY <1>0, <1>2, <1>3 DEF CamInv

LEMMA StopCameraInv ==
    ASSUME CamInv, NEW c \in Calls, StopCamera(c)
    PROVE  CamInv'
<1>0. /\ CamTypeOK /\ shot[c] # None /\ shot[c].at = "stop" /\ shot[c].op # "record"
      /\ started' = FALSE /\ left' = FALSE /\ UNCHANGED <<recording, encoding, cut>>
  BY DEF CamInv, CamPlaces, StopCamera, Does
<1>1. /\ shot' \in [Calls -> Shot \cup {None}] /\ \A e \in Calls \ {c} : shot'[e] = shot[e]
      /\ shot[c].op = "halt" => shot'[c] # None /\ shot'[c].at = "clear" /\ shot'[c].op = "halt"
      /\ shot[c].op # "halt" => shot'[c] = None
  <2>1. CASE shot[c].op = "halt"
    BY <1>0, <2>1, ShotTurns DEF StopCamera
  <2>2. CASE shot[c].op # "halt"
    BY <1>0, <2>2, ShotDone DEF StopCamera
  <2> QED  BY <2>1, <2>2
<1>2. CamTypeOK' /\ CamPlaces'
  BY <1>0, <1>1 DEF CamInv, CamTypeOK, CamPlaces
<1>3. ASSUME ~cut PROVE OneKind' /\ Apart' /\ Steady'
  <2>1. OneKind' /\ Apart' /\ Steady /\ OneKind /\ Apart
    BY <1>0, <1>1, <1>3, SameKind DEF CamInv
  <2>2. \A e \in Calls : ~Does(e, "flag")
    BY <1>0, <2>1 DEF Does, OneKind, CamInv, CamPlaces
  <2>3. \A e \in Calls : ~Does(e, "flag")'
    BY <1>1, <2>2 DEF Does
  <2>4. CASE shot[c].op = "halt"
    <3>1. Halted(c) /\ Halted(c)'
      BY <1>0, <1>1, <2>4 DEF Halted, Does
    <3> QED  BY <1>0, <2>1, <2>3, <3>1 DEF Steady
  <2>5. CASE shot[c].op # "halt"
    <3>1. ~recording
      BY <1>0, <2>1, <2>5 DEF Apart
    <3> QED  BY <1>0, <2>1, <2>2, <2>3, <3>1 DEF Steady
  <2> QED  BY <2>4, <2>5
<1> QED  BY <1>0, <1>2, <1>3 DEF CamInv

LEMMA ClearRecordingInv ==
    ASSUME CamInv, NEW c \in Calls, ClearRecording(c)
    PROVE  CamInv'
<1>0. /\ CamTypeOK /\ shot[c] # None /\ shot[c].at = "clear" /\ shot[c].op = "halt" /\ Halted(c)
      /\ Done(c) /\ recording' = FALSE /\ UNCHANGED <<started, encoding, left, cut>>
  BY DEF CamInv, CamPlaces, ClearRecording, Does, Halted
<1>1. /\ shot' \in [Calls -> Shot \cup {None}] /\ \A e \in Calls \ {c} : shot'[e] = shot[e]
      /\ shot'[c] = None
  BY <1>0, ShotDone
<1>2. CamTypeOK' /\ CamPlaces'
  BY <1>0, <1>1 DEF CamInv, CamTypeOK, CamPlaces
<1>3. ASSUME ~cut PROVE OneKind' /\ Apart' /\ Steady'
  <2>1. OneKind' /\ Apart' /\ Steady /\ OneKind
    BY <1>0, <1>1, <1>3, SameKind DEF CamInv
  <2>2. ~started /\ ~encoding
    BY <1>0, <2>1 DEF Steady
  <2>3. \A e \in Calls : ~Does(e, "flag")'
    BY <1>0, <1>1, <2>1 DEF Does, OneKind, CamInv, CamPlaces
  <2> QED  BY <1>0, <2>1, <2>2, <2>3 DEF Steady
<1> QED  BY <1>0, <1>2, <1>3 DEF CamInv

-----------------------------------------------------------------------------
(* The stream. *)

StreamTypeOK ==
    /\ stream \in Servers \cup {None}
    /\ DOMAIN servers \in {1 .. n : n \in 0 .. MaxServers}
    /\ \A n \in DOMAIN servers : servers[n] \in {"binding", "serving", "over"}
    /\ closing \in [Calls -> Servers \cup {None}]
    /\ hurried \in BOOLEAN

(* The stream that is reported, or the one being closed, is the only one. *)
Single ==
    /\ StreamServed
    /\ stream # None => stream \in DOMAIN servers /\ \A c \in Calls : closing[c] = None
    /\ \A c, e \in Calls : closing[c] # None /\ closing[e] # None => c = e

StreamInv == /\ StreamTypeOK
             /\ \A c \in Calls : closing[c] # None => closing[c] \in DOMAIN servers
             /\ stream # None => stream \in DOMAIN servers
             /\ hurried \/ Single

LEMMA StreamInitInv == ASSUME CameraInit PROVE StreamInv
<1>1. 1 .. 0 = {} /\ 0 \in 0 .. MaxServers
  BY CameraAssumption
<1>2. DOMAIN servers = {} /\ stream = None /\ \A c \in Calls : closing[c] = None
  BY DEF CameraInit
<1>3. DOMAIN servers \in {1 .. n : n \in 0 .. MaxServers}
  BY <1>1, <1>2
<1> QED  BY <1>2, <1>3 DEF CameraInit, StreamInv, StreamTypeOK, Single, StreamServed

LEMMA StartStreamInv ==
    ASSUME StreamInv, NEW c \in Calls, StartStream(c)
    PROVE  StreamInv'
<1> PICK k \in 0 .. MaxServers : DOMAIN servers = 1 .. k
  BY DEF StreamInv, StreamTypeOK
<1>1. MaxServers \in Nat /\ Cardinality(DOMAIN servers) = k
  BY CameraAssumption, FS_Interval
<1>2. /\ stream = None /\ k < MaxServers /\ stream' = k + 1 /\ closing' = closing
      /\ servers' = [i \in 1 .. (k + 1) |-> IF i = k + 1 THEN "binding" ELSE servers[i]]
      /\ hurried' = (hurried \/ \E e \in Calls : closing[e] # None)
  BY <1>1 DEF StartStream
<1>3. /\ DOMAIN servers' = (DOMAIN servers) \cup {k + 1} /\ k + 1 \notin DOMAIN servers /\ k + 1 \in Servers
      /\ servers'[k + 1] = "binding" /\ \A i \in DOMAIN servers : servers'[i] = servers[i]
  BY <1>1, <1>2 DEF Servers
<1>4. DOMAIN servers' \in {1 .. n : n \in 0 .. MaxServers}
  BY <1>1, <1>2
<1>5. StreamTypeOK'
  BY <1>2, <1>3, <1>4 DEF StreamInv, StreamTypeOK
<1>6. ASSUME ~hurried' PROVE Single'
  <2>1. \A e \in Calls : closing[e] = None
    BY <1>2, <1>6
  <2>2. \A i \in DOMAIN servers : servers[i] = "over" /\ i # None
    <3>1. \A i \in DOMAIN servers : i # None
      BY <1>1, NoneAssumption
    <3>2. ~hurried /\ StreamServed
      BY <1>2, <1>6 DEF StreamInv, Single
    <3> QED  BY <1>2, <2>1, <3>1, <3>2 DEF StreamServed
  <2>3. k + 1 # None
    BY <1>1, NoneAssumption
  <2>4. StreamServed'
    <3>1. \A e \in Calls : closing'[e] = None
      BY <1>2, <2>1
    <3>2. \A i \in DOMAIN servers' : servers'[i] # "over" <=> stream' = i
      BY <1>2, <1>3, <2>2
    <3>3. \A i \in DOMAIN servers' : i # None
      BY <1>3, <2>2, <2>3
    <3> QED  BY <3>1, <3>2, <3>3 DEF StreamServed
  <2> QED  BY <1>2, <1>3, <2>1, <2>4 DEF Single
<1> QED  BY <1>2, <1>3, <1>5, <1>6 DEF StreamInv

LEMMA BindInv ==
    ASSUME StreamInv, NEW n \in DOMAIN servers, Bind(n)
    PROVE  StreamInv'
<1>1. /\ servers[n] = "binding" /\ UNCHANGED <<stream, closing, hurried>>
      /\ servers' = [servers EXCEPT ![n] =
             IF \E i \in DOMAIN servers : servers[i] = "serving" THEN "over" ELSE "serving"]
  BY DEF Bind
<1>2. DOMAIN servers' = DOMAIN servers /\ \A i \in DOMAIN servers : servers'[i] \in {"binding", "serving", "over"}
  BY <1>1 DEF StreamInv, StreamTypeOK
<1>3. StreamTypeOK'
  BY <1>1, <1>2 DEF StreamInv, StreamTypeOK
<1>4. ASSUME ~hurried PROVE Single'
  <2>1. Single
    BY <1>4 DEF StreamInv
  <2>2. \A i \in DOMAIN servers : i # None
    BY CameraAssumption, NoneAssumption DEF StreamInv, StreamTypeOK
  <2>3. \A i \in DOMAIN servers : servers[i] # "over" => i = n
    <3> SUFFICES ASSUME NEW i \in DOMAIN servers, servers[i] # "over" PROVE i = n
      OBVIOUS
    <3>1. stream = i \/ \E c \in Calls : closing[c] = i
      BY <1>4, <2>1 DEF Single, StreamServed
    <3>2. stream = n \/ \E c \in Calls : closing[c] = n
      BY <1>1, <1>4, <2>1 DEF Single, StreamServed
    <3> QED  BY <2>1, <2>2, <3>1, <3>2 DEF Single
  <2>4. servers'[n] = "serving" /\ \A i \in DOMAIN servers : i # n => servers'[i] = servers[i]
    BY <1>1, <2>3
  <2>5. StreamServed'
    BY <1>1, <1>2, <2>1, <2>4 DEF Single, StreamServed
  <2> QED  BY <1>1, <1>2, <2>1, <2>5 DEF Single
<1> QED  BY <1>1, <1>2, <1>3, <1>4 DEF StreamInv

LEMMA StopStreamInv ==
    ASSUME StreamInv, NEW c \in Calls, closing[c] = None, StopStream(c)
    PROVE  StreamInv'
<1>1. /\ stream # None /\ closing' = [closing EXCEPT ![c] = stream] /\ stream' = None
      /\ UNCHANGED <<servers, hurried>>
  BY DEF StopStream
<1>2. closing' \in [Calls -> Servers \cup {None}] /\ closing'[c] = stream /\ \A e \in Calls \ {c} : closing'[e] = closing[e]
  BY <1>1 DEF StreamInv, StreamTypeOK
<1>3. StreamTypeOK'
  BY <1>1, <1>2 DEF StreamInv, StreamTypeOK
<1>4. ASSUME ~hurried PROVE Single'
  <2>1. Single /\ \A e \in Calls : closing[e] = None
    BY <1>1, <1>4 DEF StreamInv, Single
  <2>2. \A i \in DOMAIN servers : i # None
    BY CameraAssumption, NoneAssumption DEF StreamInv, StreamTypeOK
  <2>3. StreamServed'
    BY <1>1, <1>2, <2>1, <2>2 DEF Single, StreamServed
  <2> QED  BY <1>1, <1>2, <2>1, <2>3 DEF Single
<1> QED  BY <1>1, <1>2, <1>3, <1>4 DEF StreamInv

LEMMA CloseStreamInv ==
    ASSUME StreamInv, NEW c \in Calls, CloseStream(c)
    PROVE  StreamInv'
<1> PICK n \in DOMAIN servers : n = closing[c]
  BY DEF CloseStream, StreamInv
<1>1. /\ closing[c] # None /\ closing' = [closing EXCEPT ![c] = None] /\ stream' = stream
      /\ \/ servers[n] = "binding" /\ hurried' = TRUE /\ servers' = servers
         \/ servers' = [servers EXCEPT ![n] = "over"] /\ hurried' = hurried
  BY DEF CloseStream
<1>2. closing' \in [Calls -> Servers \cup {None}] /\ closing'[c] = None /\ \A e \in Calls \ {c} : closing'[e] = closing[e]
  BY <1>1 DEF StreamInv, StreamTypeOK
<1>3. DOMAIN servers' = DOMAIN servers /\ \A i \in DOMAIN servers : servers'[i] \in {"binding", "serving", "over"}
  BY <1>1 DEF StreamInv, StreamTypeOK
<1>4. StreamTypeOK'
  BY <1>1, <1>2, <1>3 DEF StreamInv, StreamTypeOK
<1>5. ASSUME ~hurried' PROVE Single'
  <2>1. Single /\ stream = None /\ servers'[n] = "over" /\ (\A i \in DOMAIN servers : i # n => servers'[i] = servers[i])
    BY <1>1, <1>5 DEF StreamInv, Single
  <2>2. \A e \in Calls : closing'[e] = None
    BY <1>1, <1>2, <2>1 DEF Single
  <2>3. \A e \in Calls : closing[e] # None => closing[e] = n
    BY <1>1, <2>1 DEF Single
  <2>4. \A i \in DOMAIN servers : i # None
    BY CameraAssumption, NoneAssumption DEF StreamInv, StreamTypeOK
  <2>5. ~hurried
    BY <1>1, <1>5
  <2>6. \A i \in DOMAIN servers : servers'[i] = "over"
    BY <2>1, <2>3, <2>4, <2>5 DEF Single, StreamServed
  <2>7. StreamServed'
    BY <1>1, <1>3, <2>1, <2>2, <2>4, <2>6 DEF StreamServed
  <2> QED  BY <1>1, <2>1, <2>2, <2>7 DEF Single
<1> QED  BY <1>1, <1>2, <1>3, <1>4, <1>5 DEF StreamInv

-----------------------------------------------------------------------------
(* The gateway. *)

(* The inductive invariant: each device's own, and a call serves one request. *)
Inv == /\ AudioInv /\ CamInv /\ StreamInv
       /\ begun \in 0 .. MaxRequests
       /\ \A c \in Calls : ask[c] = None \/ shot[c] = None

LEMMA InitInv == Init => Inv
<1> SUFFICES ASSUME Init PROVE Inv
  OBVIOUS
<1>1. AudioInv /\ CamInv /\ StreamInv
  BY AudioInitInv, CamInitInv, StreamInitInv DEF Init
<1>2. begun \in 0 .. MaxRequests
  BY MediaAssumption DEF Init
<1>3. \A c \in Calls : ask[c] = None
  BY DEF Init, AudioInit
<1> QED  BY <1>1, <1>2, <1>3 DEF Inv

(* What a step of one part leaves of the others. *)
LEMMA AudioStays == ASSUME AudioInv, UNCHANGED audioVars PROVE AudioInv'
<1>0. UNCHANGED <<active, stopped, thread, loops, ask, paused, crossed, resumed>>
  BY DEF audioVars
<1>1. AudioTypeOK' /\ AudioPlaces'
  BY <1>0 DEF AudioInv, AudioTypeOK, AudioPlaces, Device
<1>2. \A d \in Devices : Orderly(d) => Orderly(d)'
  BY <1>0 DEF Orderly, Asking, At, Device, Alive, Making
<1>3. Muted'
  BY <1>0 DEF AudioInv, Muted, Known, Recording, At, Device, Alive
<1> QED  BY <1>0, <1>1, <1>2, <1>3 DEF AudioInv

LEMMA CamStays == ASSUME CamInv, UNCHANGED camera PROVE CamInv'
<1>0. UNCHANGED <<recording, started, encoding, shot, left, cut>>
  BY DEF camera
<1>1. CamTypeOK' /\ CamPlaces' /\ (OneKind => OneKind') /\ (Apart => Apart')
  BY <1>0 DEF CamInv, CamTypeOK, CamPlaces, OneKind, Apart
<1>2. Steady => Steady'
  BY <1>0 DEF Steady, Halted, Holds, Does
<1> QED  BY <1>0, <1>1, <1>2 DEF CamInv

LEMMA StreamStays == ASSUME StreamInv, UNCHANGED streaming PROVE StreamInv'
BY DEF StreamInv, StreamTypeOK, Single, StreamServed, streaming

LEMMA BeginsInv ==
    ASSUME Inv, NEW c \in Calls, Begins(c)
    PROVE  Inv'
<1>0. /\ ask[c] = None /\ shot[c] = None /\ closing[c] = None
      /\ begun < MaxRequests /\ begun' = begun + 1
  BY DEF Begins, Free
<1>1. begun' \in 0 .. MaxRequests
  BY <1>0, MediaAssumption DEF Inv
<1>2. CASE AudioBegin(c) /\ UNCHANGED cameraVars
  <2>1. UNCHANGED camera /\ UNCHANGED streaming /\ shot' = shot
    BY <1>2 DEF cameraVars, camera, streaming
  <2>2. AudioInv'
    BY <1>2, AsksStartInv, AsksStopInv DEF Inv, AudioBegin
  <2>3. \A e \in Calls \ {c} : ask'[e] = ask[e]
    BY <1>2 DEF AudioBegin, AsksStart, AsksRecord, AsksPlay, AsksStop, AsksStopRecord, AsksStopPlay,
                Asks, Inv, AudioInv, AudioTypeOK
  <2> QED  BY <1>0, <1>1, <2>1, <2>2, <2>3, CamStays, StreamStays DEF Inv
<1>3. CASE CameraBegin(c) /\ UNCHANGED audioVars
  <2>1. AudioInv' /\ ask' = ask
    BY <1>3, AudioStays DEF Inv, audioVars
  <2>2. CASE Wants(c) \/ Views(c)
    <3>1. CamInv' /\ UNCHANGED streaming
      BY <1>0, <2>2, WantsInv DEF Inv, Wants, Views, Uses
    <3>2. \A e \in Calls \ {c} : shot'[e] = shot[e]
      BY <2>2 DEF Wants, Views, Uses, Inv, CamInv, CamTypeOK
    <3> QED  BY <1>0, <1>1, <2>1, <3>1, <3>2, StreamStays DEF Inv
  <2>3. CASE StartStream(c) \/ StopStream(c)
    <3>1. UNCHANGED camera /\ shot' = shot
      BY <2>3 DEF StartStream, StopStream, camera
    <3>2. StreamInv'
      BY <1>0, <2>3, StartStreamInv, StopStreamInv DEF Inv
    <3> QED  BY <1>1, <2>1, <3>1, <3>2, CamStays DEF Inv
  <2> QED  BY <1>3, <2>2, <2>3 DEF CameraBegin
<1> QED  BY <1>2, <1>3 DEF Begins

(* A step of a request to the camera keeps the requests to it apart. *)
LEMMA ShotStays ==
    ASSUME CamTypeOK, NEW c \in Calls,
           \/ Fails(c) \/ Configure(c) \/ StartCamera(c) \/ Capture(c) \/ Encode(c)
           \/ MarkRecording(c) \/ Halt(c) \/ StopCamera(c) \/ ClearRecording(c)
    PROVE  shot[c] # None /\ (\A e \in Calls \ {c} : shot'[e] = shot[e]) /\ UNCHANGED streaming
<1>1. shot[c] # None
  BY DEF Fails, Configure, StartCamera, Capture, Encode, MarkRecording, Halt, StopCamera, ClearRecording, Does
<1>2. UNCHANGED streaming
  BY DEF Fails, Raises, Configure, StartCamera, Capture, Encode, MarkRecording, Halt, StopCamera, ClearRecording
<1>3. Done(c) => \A e \in Calls \ {c} : shot'[e] = shot[e]
  BY DEF Done, CamTypeOK
<1>4. \A where : Turns(c, where) => \A e \in Calls \ {c} : shot'[e] = shot[e]
  BY DEF Turns, CamTypeOK
<1>5. CASE Fails(c) \/ StopCamera(c)
  BY <1>1, <1>2, <1>3, <1>4, <1>5 DEF Fails, Raises, StopCamera
<1>6. CASE \/ Configure(c) \/ StartCamera(c) \/ Capture(c) \/ Encode(c)
           \/ MarkRecording(c) \/ Halt(c) \/ ClearRecording(c)
  BY <1>1, <1>2, <1>3, <1>4, <1>6 DEF Configure, StartCamera, Capture, Encode, MarkRecording, Halt, ClearRecording
<1> QED  BY <1>5, <1>6

LEMMA ProceedsInv ==
    ASSUME Inv, NEW c \in Calls, Proceeds(c)
    PROVE  Inv'
<1>0. begun' = begun
  BY DEF Proceeds
<1>1. CASE AudioStep(c) /\ UNCHANGED cameraVars
  <2>1. UNCHANGED camera /\ UNCHANGED streaming /\ shot' = shot
    BY <1>1 DEF cameraVars, camera, streaming
  <2>2. AudioInv'
    BY <1>1, PausesInv, EnterInv, MakeThreadInv, SignalsInv, FreesInv, LeavesInv DEF Inv, AudioStep
  <2>3. ask[c] # None
    BY <1>1 DEF AudioStep, Pauses, Enter, MakeThread, Signals, Frees, Leaves, At
  <2>4. \A e \in Calls \ {c} : ask'[e] = ask[e]
    BY <1>1 DEF AudioStep, Pauses, Enter, RefusedStart, RefusedRecord, RefusedPlay, MakeThread, Signals,
                Frees, Leaves, Goes, Ends,
                Inv, AudioInv, AudioTypeOK
  <2> QED  BY <1>0, <2>1, <2>2, <2>3, <2>4, CamStays, StreamStays DEF Inv
<1>2. CASE CameraStep(c) /\ UNCHANGED audioVars
  <2>1. AudioInv' /\ ask' = ask
    BY <1>2, AudioStays DEF Inv, audioVars
  <2>2. CASE CloseStream(c)
    <3>1. UNCHANGED camera /\ shot' = shot
      BY <2>2 DEF CloseStream, camera
    <3> QED  BY <1>0, <2>1, <2>2, <3>1, CloseStreamInv, CamStays DEF Inv
  <2>3. CASE \/ Fails(c) \/ Configure(c) \/ StartCamera(c) \/ Capture(c) \/ Encode(c)
             \/ MarkRecording(c) \/ Halt(c) \/ StopCamera(c) \/ ClearRecording(c)
    <3>1. shot[c] # None /\ (\A e \in Calls \ {c} : shot'[e] = shot[e]) /\ UNCHANGED streaming
      BY <2>3, ShotStays DEF Inv, CamInv
    <3>2. CamInv'
      BY <2>3, FailsInv, ConfigureInv, StartCameraInv, CaptureInv, EncodeInv, MarkRecordingInv,
         HaltInv, StopCameraInv, ClearRecordingInv DEF Inv
    <3> QED  BY <1>0, <2>1, <3>1, <3>2, StreamStays DEF Inv
  <2> QED  BY <1>2, <2>2, <2>3 DEF CameraStep
<1> QED  BY <1>1, <1>2 DEF Proceeds

LEMMA NextInv == Inv /\ [Next]_allVars => Inv'
<1> SUFFICES ASSUME Inv, [Next]_allVars PROVE Inv'
  OBVIOUS
<1>1. ASSUME NEW c \in Calls, Begins(c) \/ Proceeds(c) PROVE Inv'
  BY <1>1, BeginsInv, ProceedsInv
<1>2. ASSUME NEW n \in DOMAIN loops, LoopEnds(n), UNCHANGED <<cameraVars, begun>> PROVE Inv'
  <2>1. UNCHANGED camera /\ UNCHANGED streaming /\ UNCHANGED <<shot, ask, begun>>
    BY <1>2 DEF cameraVars, camera, streaming, LoopEnds, RecordEnds, PlayEnds, Over
  <2> QED  BY <1>2, <2>1, LoopEndsInv, CamStays, StreamStays DEF Inv
<1>3. ASSUME NEW n \in DOMAIN servers, Bind(n), UNCHANGED <<audioVars, begun>> PROVE Inv'
  <2>1. UNCHANGED camera /\ UNCHANGED <<shot, ask, begun>>
    BY <1>3 DEF audioVars, camera, Bind
  <2> QED  BY <1>3, <2>1, BindInv, AudioStays, CamStays DEF Inv
<1>4. ASSUME UNCHANGED allVars PROVE Inv'
  <2>1. UNCHANGED audioVars /\ UNCHANGED camera /\ UNCHANGED streaming /\ UNCHANGED <<shot, ask, begun>>
    BY <1>4 DEF allVars, audioVars, cameraVars, camera, streaming
  <2> QED  BY <2>1, AudioStays, CamStays, StreamStays DEF Inv
<1>5. ASSUME ListenerStarts, UNCHANGED <<cameraVars, begun>> PROVE Inv'
  <2>1. UNCHANGED camera /\ UNCHANGED streaming /\ UNCHANGED <<shot, ask, begun>>
    BY <1>5 DEF cameraVars, camera, streaming, ListenerStarts
  <2> QED  BY <1>5, <2>1, ListenerStartsInv, CamStays, StreamStays DEF Inv
<1> QED  BY <1>1, <1>2, <1>3, <1>4, <1>5 DEF Next

(* The invariant of the gateway's devices for sound and pictures. *)
THEOREM MediaInvariant == Spec => []Inv
BY InitInv, NextInv, PTL DEF Spec

(* Every variable of the devices and of the requests keeps its type, and a     *)
(* call serves one request at a time.                                        *)
THEOREM MediaTypeCorrect == Spec => []TypeOK
<1>1. Inv => TypeOK
  BY DEF Inv, AudioInv, CamInv, CamTypeOK, StreamInv, StreamTypeOK, CameraTypeOK, TypeOK
<1> QED  BY <1>1, MediaInvariant, PTL

(* However starts and stops of the recorder and the player meet, a device of    *)
(* which none overlapped runs one thread and is marked active while it does.   *)
THEOREM OneThreadAlways == Spec => []OneThread
<1>1. Inv => OneThread
  <2> SUFFICES ASSUME Inv, NEW d \in Devices \ crossed
      PROVE  /\ Cardinality(Alive(d)) <= 1
             /\ Alive(d) # {} => active[d] /\ ~Making(d)
             /\ d = "player" /\ active[d] => Alive(d) # {} \/ Making(d)
    BY DEF OneThread
  <2>1. Orderly(d)
    BY DEF Inv, AudioInv
  <2>2. Alive(d) = {} \/ Alive(d) = {thread[d]}
    BY <2>1 DEF Orderly
  <2>3. Cardinality(Alive(d)) <= 1
    <3>1. Cardinality({}) = 0 /\ Cardinality({thread[d]}) = 1
      BY FS_EmptySet, FS_Singleton
    <3> QED  BY <2>2, <3>1
  <2> QED  BY <2>1, <2>3 DEF Orderly, Making
<1> QED  BY <1>1, MediaInvariant, PTL

(* The listener is paused while the recorder records, from the last request    *)
(* that paused it until one of the four events MicHeld names resumes it.      *)
THEOREM MicHeldAlways == Spec => []MicHeld
<1>1. Inv => MicHeld
  BY DEF Inv, AudioInv, Muted, MicHeld
<1> QED  BY <1>1, MediaInvariant, PTL

(* A recording keeps its camera, and the camera nobody uses is stopped, unless  *)
(* something used the camera across a recording or failed on it.              *)
THEOREM CameraHeldAlways == Spec => []CameraHeld
<1>1. Inv => CameraHeld
  <2> SUFFICES ASSUME Inv, ~cut
      PROVE  /\ recording /\ ~Using({"halt"}) => started /\ encoding
             /\ Unused /\ ~recording => started = left /\ ~encoding
    BY DEF CameraHeld
  <2>1. Steady /\ started \in BOOLEAN /\ left \in BOOLEAN
    BY DEF Inv, CamInv, CamTypeOK
  <2>2. (\E c \in Calls : Halted(c)) => Using({"halt"})
    BY DEF Halted, Using, Does
  <2>3. Unused => \A c \in Calls : ~Does(c, "flag") /\ ~Holds(c)
    BY DEF Unused, Does, Holds
  <2>4. recording /\ ~Using({"halt"}) => started /\ encoding
    BY <2>1, <2>2 DEF Steady
  <2>5. Unused /\ ~recording => (started <=> left) /\ ~encoding
    BY <2>1, <2>3 DEF Steady
  <2> QED  BY <2>1, <2>4, <2>5
<1> QED  BY <1>1, MediaInvariant, PTL

(* The stream that is reported as running is served, or about to be, and no     *)
(* other server holds the port, unless a stop overlapped a start.             *)
THEOREM StreamServedAlways == Spec => []StreamServed
<1>1. Inv => StreamServed
  BY DEF Inv, StreamInv, Single, StreamServed
<1> QED  BY <1>1, MediaInvariant, PTL
=============================================================================
