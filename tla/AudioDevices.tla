----------------------------- MODULE AudioDevices -----------------------------
(***************************************************************************)
(* The recorder and the player of the gateway (audio.py) under the requests   *)
(* that start and stop them (api.py).  A request runs in worker threads, and  *)
(* each device has a lock that its start lets go of before the thread that    *)
(* records or plays is made.  A device is either of the two.                 *)
(***************************************************************************)
EXTENDS MediaRequests

CONSTANT MaxLoops \* bound: record and play threads

Devices == {"recorder", "player"}

VARIABLES
    active,  \* [Devices -> _recording, or _playing]
    stopped, \* [Devices -> the device's _stop_event]
    thread,  \* [Devices -> the device's _thread: the loop made last]
    loops,   \* the record and play threads: the device of each and whether it runs
    ask,     \* [Calls -> the request]
    paused,  \* the listener's _pause_event
    crossed, \* history: devices of which a stop overlapped a start, or gave up waiting
    resumed  \* history: the listener was resumed for another while a request recorded

audioVars == <<active, stopped, thread, loops, ask, paused, crossed, resumed>>

Loops == 1 .. MaxLoops

Request == [op : {"start", "stop"}, device : Devices, waits : Loops \cup {None},
            at : {"prepare", "enter", "thread", "signal", "join", "leave"}]

ASSUME AudioAssumption == MaxLoops \in Nat /\ None \notin Request

(* Type correctness of the devices, their threads and the requests. *)
AudioTypeOK ==
    /\ active \in [Devices -> BOOLEAN] /\ stopped \in [Devices -> BOOLEAN]
    /\ thread \in [Devices -> Loops \cup {None}]
    /\ DOMAIN loops \in {1 .. n : n \in 0 .. MaxLoops}
    /\ \A n \in DOMAIN loops : loops[n] \in [device : Devices, alive : BOOLEAN]
    /\ ask \in [Calls -> Request \cup {None}]
    /\ paused \in BOOLEAN /\ crossed \subseteq Devices /\ resumed \in BOOLEAN

AudioInit ==
    /\ active = [d \in Devices |-> FALSE] /\ stopped = [d \in Devices |-> FALSE]
    /\ thread = [d \in Devices |-> None]
    /\ loops = [n \in {} |-> None]
    /\ ask = [c \in Calls |-> None]
    /\ paused = FALSE /\ crossed = {} /\ resumed = FALSE

At(c, where) == ask[c] # None /\ ask[c].at = where
Goes(c, where) == ask' = [ask EXCEPT ![c].at = where]
Device(c) == ask[c].device

Others(c, op, d) == \E e \in Calls \ {c} : ask[e] # None /\ ask[e].op = op /\ ask[e].device = d
Crossing(c, d, op) == crossed' = IF Others(c, op, d) THEN crossed \cup {d} ELSE crossed

Asks(c, d, op, where) ==
    /\ ask[c] = None
    /\ ask' = [ask EXCEPT ![c] = [op |-> op, device |-> d, waits |-> None, at |-> where]]
    /\ Crossing(c, d, IF op = "start" THEN "stop" ELSE "start")
    /\ UNCHANGED <<active, stopped, thread, loops, paused, resumed>>

(* A request to record passes its first look at the recorder, and then pauses *)
(* the listener.                                                             *)
AsksRecord(c) == ~active["recorder"] /\ Asks(c, "recorder", "start", "prepare")

(* One to play passes its look at the player, and turns on the amplifier.     *)
AsksPlay(c) == ~active["player"] /\ Asks(c, "player", "start", "enter")

AsksStart(c) == AsksRecord(c) \/ AsksPlay(c)

Pauses(c) ==
    /\ At(c, "prepare")
    /\ paused' = TRUE
    /\ resumed' = FALSE
    /\ Goes(c, "enter")
    /\ UNCHANGED <<active, stopped, thread, loops, crossed>>

Ends(c) == ask' = [ask EXCEPT ![c] = None]

Alive(d) == {n \in DOMAIN loops : loops[n].device = d /\ loops[n].alive}

(* The requests that have paused the listener and will record. *)
Recording == {c \in Calls : (At(c, "enter") \/ At(c, "thread")) /\ Device(c) = "recorder"}

(* A request to record fails and resumes the listener, for a rival's          *)
(* recording too.                                                            *)
RefusedRecord(c) ==
    /\ Device(c) = "recorder"
    /\ Ends(c)
    /\ paused' = FALSE
    /\ resumed' = (resumed \/ Recording \ {c} # {} \/ Alive("recorder") # {})

(* One to play fails: a bad name, no such file, no device, or it is playing.  *)
RefusedPlay(c) ==
    /\ Device(c) = "player"
    /\ Ends(c)
    /\ UNCHANGED <<paused, resumed>>

RefusedStart(c) == RefusedRecord(c) \/ RefusedPlay(c)

(* start and play under the lock: refused, or the device is theirs. *)
Enter(c) ==
    /\ At(c, "enter") /\ ask[c].op = "start"
    /\ LET d == Device(c) IN
       \/ RefusedStart(c) /\ UNCHANGED <<active, stopped>>
       \/ /\ ~active[d]
          /\ active' = [active EXCEPT ![d] = TRUE]
          /\ stopped' = [stopped EXCEPT ![d] = FALSE]
          /\ Goes(c, "thread") /\ UNCHANGED <<paused, resumed>>
    /\ UNCHANGED <<thread, loops, crossed>>

(* The thread is made after the lock was let go. *)
MakeThread(c) ==
    /\ At(c, "thread") /\ Cardinality(DOMAIN loops) < MaxLoops
    /\ LET n == Cardinality(DOMAIN loops) + 1 IN
       /\ loops' = [i \in 1 .. n |-> IF i = n THEN [device |-> Device(c), alive |-> TRUE] ELSE loops[i]]
       /\ thread' = [thread EXCEPT ![Device(c)] = n]
    /\ Ends(c)
    /\ UNCHANGED <<active, stopped, paused, crossed, resumed>>

Over(n, d) ==
    /\ loops[n].alive /\ loops[n].device = d
    /\ loops' = [loops EXCEPT ![n].alive = FALSE]
    /\ UNCHANGED <<stopped, thread, ask, paused, crossed, resumed>>

(* The record loop ends, stopped or on an error, and leaves it to stop to     *)
(* mark the recorder free.                                                   *)
RecordEnds(n) == Over(n, "recorder") /\ UNCHANGED active

(* The play loop ends, stopped, at the end of the file or on an error, and    *)
(* marks the player free.                                                    *)
PlayEnds(n) == Over(n, "player") /\ active' = [active EXCEPT !["player"] = FALSE]

LoopEnds(n) == RecordEnds(n) \/ PlayEnds(n)

(* A request to stop recording; it is done at once if nothing is recorded. *)
AsksStopRecord(c) ==
    Asks(c, "recorder", "stop", IF active["recorder"] THEN "signal" ELSE "leave")

(* A request to stop playing sets the event and joins, whatever plays.        *)
AsksStopPlay(c) == Asks(c, "player", "stop", "signal")

AsksStop(c) == AsksStopRecord(c) \/ AsksStopPlay(c)

(* Slip: the listener is resumed before the thread has ended. *)
ResumesEarly(c) ==
    /\ At(c, "signal")
    /\ stopped' = [stopped EXCEPT ![Device(c)] = TRUE]
    /\ ask' = [ask EXCEPT ![c].at = "join", ![c].waits = thread[Device(c)]]
    /\ paused' = FALSE
    /\ UNCHANGED <<active, thread, loops, crossed, resumed>>

(* stop sets the event and takes the thread it will join. *)
Signals(c) ==
    /\ At(c, "signal")
    /\ stopped' = [stopped EXCEPT ![Device(c)] = TRUE]
    /\ ask' = [ask EXCEPT ![c].at = "join", ![c].waits = thread[Device(c)]]
    /\ UNCHANGED <<active, thread, loops, paused, crossed, resumed>>

Joined(c) == ask[c].waits # None => ~loops[ask[c].waits].alive

(* Slip: stop does not wait for the thread. *)
FreesEarly(c) ==
    /\ At(c, "join")
    /\ active' = [active EXCEPT ![Device(c)] = FALSE]
    /\ Goes(c, "leave")
    /\ UNCHANGED <<stopped, thread, loops, paused, crossed, resumed>>

(* The thread has ended, or stop waited its three seconds; the device is free. *)
Frees(c) ==
    /\ At(c, "join")
    /\ \/ Joined(c) /\ UNCHANGED crossed
       \/ ~Joined(c) /\ crossed' = crossed \cup {Device(c)}
    /\ active' = [active EXCEPT ![Device(c)] = FALSE]
    /\ Goes(c, "leave")
    /\ UNCHANGED <<stopped, thread, loops, paused, resumed>>

(* The request to stop is answered; one to stop recording resumes the         *)
(* listener, also for a recording begun since the recorder was free and for   *)
(* a thread that did not end in time.                                        *)
Leaves(c) ==
    /\ At(c, "leave")
    /\ Ends(c)
    /\ IF Device(c) = "recorder"
       THEN /\ paused' = FALSE
            /\ resumed' = (resumed \/ Recording # {} \/
                  \E n \in Alive("recorder") : n # ask[c].waits \/ "recorder" \in crossed)
       ELSE UNCHANGED <<paused, resumed>>
    /\ UNCHANGED <<active, stopped, thread, loops, crossed>>

(* The listener is started, as at a changed wake phrase: it is not paused,    *)
(* whoever records.                                                          *)
ListenerStarts ==
    /\ paused' = FALSE
    /\ resumed' = (resumed \/ Recording # {} \/ Alive("recorder") # {})
    /\ UNCHANGED <<active, stopped, thread, loops, ask, crossed>>

AudioStep(c) == Pauses(c) \/ Enter(c) \/ MakeThread(c) \/ Signals(c) \/ Frees(c) \/ Leaves(c)

AudioBegin(c) == AsksStart(c) \/ AsksStop(c)

Making(d) == \E c \in Calls : At(c, "thread") /\ Device(c) = d

(* Safety: unless a stop overlapped a start, a device runs one thread, is     *)
(* marked active while it does, and the player is not marked active after.   *)
OneThread == \A d \in Devices \ crossed :
    /\ Cardinality(Alive(d)) <= 1
    /\ Alive(d) # {} => active[d] /\ ~Making(d)
    /\ d = "player" /\ active[d] => Alive(d) # {} \/ Making(d)

(* Safety: the listener is paused while the recorder records, from the last   *)
(* request that paused it until one of four events the code leaves open       *)
(* resumes it: a rival request to record is refused, a stop that freed the    *)
(* recorder is answered after the next recording began, a stop gave up        *)
(* waiting for the thread, or the listener itself is started anew.            *)
MicHeld == Alive("recorder") # {} => paused \/ resumed
=============================================================================
