--------------------------- MODULE EventForwarder ---------------------------
(***************************************************************************)
(* The thread that forwards recorded events to the MQTT broker               *)
(* (autonomy_forwarder.py).  Recording an event and queueing it are one step *)
(* of the event loop.  The thread takes one event at a time and publishes   *)
(* it, again and again, until the broker acknowledges it in time.  Every    *)
(* try is a publication of its own, and the MQTT client (external: paho)    *)
(* keeps each until it is acknowledged and sends it again on every new      *)
(* connection, so that copies of an event are still under way when the      *)
(* thread has long gone on to the next.                                     *)
(***************************************************************************)
EXTENDS EventChannel, FiniteSets

CONSTANTS
    QueueSize,   \* max_queue
    MaxFaults    \* bound: lost connections, refusals and late answers

ASSUME ForwarderAssumption == QueueSize \in Nat /\ MaxFaults \in Nat

VARIABLES
    queue,     \* _queue
    pc,        \* where the forwarder's thread is
    hand,      \* the event it publishes, or None
    stopping,  \* _stop_event
    connected, \* _connected
    link,      \* the client's connection to the broker
    pubs,      \* the client's publications: the event each carries
    unacked,   \* those the broker has not acknowledged
    wire,      \* those on their way to the broker on this connection
    acks,      \* acknowledgements on their way back
    last,      \* history: the one it received last, or None
    trailing,  \* history: an event was taken while a copy of an older one was under way
    faults     \* faults of the network so far

deviceVars == <<recorded, log, queue, accepted>>
threadVars == <<pc, hand, stopping, connected, trailing>>
mqttVars == <<link, pubs, unacked, wire, acks, seen, last, faults>>
forwarderVars == <<deviceVars, threadVars, mqttVars>>

(* Type correctness of the log store, the forwarder and its MQTT client. *)
ForwarderTypeOK ==
    /\ LogTypeOK
    /\ queue \in Seq(Events) /\ Len(queue) <= QueueSize
    /\ accepted \subseteq Events
    /\ pc \in {"idle", "trying", "connecting", "sending", "waiting", "backoff", "over"}
    /\ hand \in Events \cup {None}
    /\ stopping \in BOOLEAN /\ connected \in BOOLEAN
    /\ link \in {"never", "down", "greeting", "up", "closing", "closed"}
    /\ pubs \in Seq(Events)
    /\ unacked \subseteq DOMAIN pubs
    /\ wire \in Seq(DOMAIN pubs) /\ acks \in Seq(DOMAIN pubs)
    /\ seen \subseteq Events /\ last \in Events \cup {None}
    /\ trailing \in BOOLEAN
    /\ faults \in 0 .. MaxFaults

(* The lifespan has built the store and started the thread. *)
ForwarderInit ==
    /\ LogInit
    /\ queue = <<>> /\ accepted = {}
    /\ pc = "idle" /\ hand = None /\ stopping = FALSE /\ connected = FALSE
    /\ link = "never" /\ pubs = <<>> /\ unacked = {} /\ wire = <<>> /\ acks = <<>>
    /\ seen = {} /\ last = None /\ trailing = FALSE /\ faults = 0

Faulty == faults < MaxFaults /\ faults' = faults + 1

-----------------------------------------------------------------------------
(* enqueue_event: a full queue drops the new event. *)
Enqueue(e) ==
    IF Len(queue) < QueueSize
    THEN queue' = Append(queue, e) /\ accepted' = accepted \cup {e}
    ELSE UNCHANGED <<queue, accepted>>

(* Recording an event calls the observer. *)
Recorded ==
    /\ Report \/ SupervisorStop
    /\ Enqueue(Len(recorded) + 1)
    /\ UNCHANGED <<threadVars, mqttVars>>

-----------------------------------------------------------------------------
(* The forwarder's thread. *)

Take ==
    /\ pc = "idle" /\ ~stopping /\ queue # <<>>
    /\ hand' = Head(queue) /\ queue' = Tail(queue)
    /\ pc' = "trying"
    /\ trailing' = (trailing \/ unacked # {})
    /\ UNCHANGED <<recorded, log, accepted, stopping, connected, mqttVars>>

Try ==
    /\ pc = "trying" /\ ~stopping
    /\ pc' = IF connected THEN "sending" ELSE "connecting"
    /\ UNCHANGED <<hand, stopping, connected, trailing, deviceVars, mqttVars>>

(* A new connection replaces the one there may be, with all under way on it. *)
Connects ==
    /\ pc = "connecting"
    /\ link' = "greeting" /\ wire' = <<>> /\ acks' = <<>>
    /\ connected' = TRUE
    /\ pc' = "sending"
    /\ UNCHANGED <<hand, stopping, trailing, deviceVars, pubs, unacked, seen, last, faults>>

(* Slip: an event that cannot be sent is given up. *)
RefusedOnce ==
    /\ pc = "connecting" /\ Faulty
    /\ pc' = "idle" /\ hand' = None
    /\ UNCHANGED <<stopping, connected, trailing, deviceVars, link, pubs, unacked, wire, acks, seen, last>>

Refused ==
    /\ pc = "connecting" /\ Faulty
    /\ pc' = "backoff"
    /\ UNCHANGED <<hand, stopping, connected, trailing, deviceVars,
                   link, pubs, unacked, wire, acks, seen, last>>

Linked == link \in {"greeting", "up", "closing"}

(* The client keeps the publication also when there is no connection. *)
Sends ==
    /\ pc = "sending"
    /\ pubs' = Append(pubs, hand)
    /\ unacked' = unacked \cup {Len(pubs) + 1}
    /\ wire' = IF Linked THEN Append(wire, Len(pubs) + 1) ELSE wire
    /\ pc' = "waiting"
    /\ UNCHANGED <<hand, stopping, connected, trailing, deviceVars, link, acks, seen, last, faults>>

Published ==
    /\ pc = "waiting" /\ Len(pubs) \notin unacked
    /\ pc' = "idle" /\ hand' = None
    /\ UNCHANGED <<stopping, connected, trailing, deviceVars, mqttVars>>

(* Without a connection the wait fails at once, else at its time limit. *)
Unanswered ==
    /\ pc = "waiting" /\ Len(pubs) \in unacked
    /\ Faulty \/ (link \in {"down", "closed"} /\ UNCHANGED faults)

(* Slip: the event goes to the end of the queue for a later try. *)
GivesUpTurn ==
    /\ Unanswered
    /\ connected' = FALSE
    /\ queue' = Append(queue, hand) /\ hand' = None /\ pc' = "idle"
    /\ UNCHANGED <<stopping, trailing, recorded, log, accepted,
                   link, pubs, unacked, wire, acks, seen, last>>

(* Slip: the error ends the thread. *)
GivesUpForGood ==
    /\ Unanswered
    /\ connected' = FALSE
    /\ pc' = "over"
    /\ UNCHANGED <<hand, stopping, trailing, deviceVars, link, pubs, unacked, wire, acks, seen, last>>

GivesUp ==
    /\ Unanswered
    /\ connected' = FALSE
    /\ pc' = "backoff"
    /\ UNCHANGED <<hand, stopping, trailing, deviceVars, link, pubs, unacked, wire, acks, seen, last>>

Retry ==
    /\ pc = "backoff"
    /\ pc' = "trying"
    /\ UNCHANGED <<hand, stopping, connected, trailing, deviceVars, mqttVars>>

(* stop: it reaches the thread at its next look at the event. *)
Stop ==
    /\ ~stopping
    /\ stopping' = TRUE
    /\ link' = IF Linked THEN "closing" ELSE "closed"
    /\ UNCHANGED <<pc, hand, connected, trailing, deviceVars,
                   pubs, unacked, wire, acks, seen, last, faults>>

(* The thread ends, and with it the client's own. *)
Over ==
    /\ stopping /\ pc \in {"idle", "trying", "backoff"}
    /\ pc' = "over"
    /\ link' = IF Linked THEN "closing" ELSE "closed"
    /\ UNCHANGED <<hand, stopping, connected, trailing, deviceVars,
                   pubs, unacked, wire, acks, seen, last, faults>>

Thread == Take \/ Try \/ Connects \/ Refused \/ Sends \/ Published \/ GivesUp \/ Retry \/ Over

-----------------------------------------------------------------------------
(* The MQTT client and its connection (external). *)

(* What the client sends again once the broker has answered its greeting: in  *)
(* the order of the first sending.                                           *)
Missing == unacked \ {wire[i] : i \in DOMAIN wire}
InOrder(s) == \A i, j \in DOMAIN s : i < j => s[i] < s[j]

Greeted ==
    /\ link = "greeting"
    /\ link' = "up"
    /\ \E s \in [1 .. Cardinality(Missing) -> Missing] : InOrder(s) /\ wire' = wire \o s
    /\ UNCHANGED <<deviceVars, threadVars, pubs, unacked, acks, seen, last, faults>>

(* The broker receives a publication and acknowledges it. *)
Receive ==
    /\ link \in {"up", "closing"} /\ wire # <<>>
    /\ wire' = Tail(wire) /\ acks' = Append(acks, Head(wire))
    /\ seen' = seen \cup {pubs[Head(wire)]} /\ last' = pubs[Head(wire)]
    /\ UNCHANGED <<deviceVars, threadVars, link, pubs, unacked, faults>>

Acked ==
    /\ link \in {"up", "closing"} /\ acks # <<>>
    /\ acks' = Tail(acks) /\ unacked' = unacked \ {Head(acks)}
    /\ UNCHANGED <<deviceVars, threadVars, link, pubs, wire, seen, last, faults>>

(* The connection is lost; _on_disconnect. *)
Disconnect ==
    /\ \/ link \in {"greeting", "up"} /\ Faulty /\ link' = "down"
       \/ link = "closing" /\ link' = "closed" /\ UNCHANGED faults
    /\ connected' = FALSE
    /\ wire' = <<>> /\ acks' = <<>>
    /\ UNCHANGED <<pc, hand, stopping, trailing, deviceVars, pubs, unacked, seen, last>>

(* The client's own thread connects again. *)
Reconnect ==
    /\ link = "down"
    /\ link' = "greeting"
    /\ UNCHANGED <<deviceVars, threadVars, pubs, unacked, wire, acks, seen, last, faults>>

Network == Greeted \/ Acked \/ Disconnect \/ Reconnect

-----------------------------------------------------------------------------
ForwarderNext == Recorded \/ Thread \/ Stop \/ Network \/ Receive

ForwarderSpec == ForwarderInit /\ [][ForwarderNext]_forwarderVars

(* The threads run on; the network's faults are bounded. *)
ForwarderFairSpec ==
    /\ ForwarderSpec
    /\ WF_forwarderVars(Thread) /\ WF_forwarderVars(Greeted \/ Reconnect) /\ WF_forwarderVars(Receive) /\ WF_forwarderVars(Acked)

(* Refinement: the forwarder is an EventChannel.  At every moment the broker *)
(* has received a prefix of the accepted events - none skipped, none ahead   *)
(* of an earlier one - through refusals, late answers, new connections and a *)
(* stop (_run_loop's retries of one event, _publish).                        *)
IsChannel == ChannelSpec

NothingUnderWay == queue = <<>> /\ hand = None /\ unacked = {}

(* Safety: the broker's last message is the newest accepted event once      *)
(* nothing is under way, although every try left a publication that the      *)
(* client sends again on its own - unless a copy of an older event was still *)
(* unacknowledged when the next was taken (a late answer and a retry leave  *)
(* one, and the client may send it behind the next event).                   *)
LastWord ==
    NothingUnderWay /\ accepted # {} /\ ~trailing =>
        last # None /\ \A d \in accepted : last >= d

(* Liveness: an accepted event reaches the broker unless the gateway stops. *)
Delivered == \A e \in Events : e \in accepted ~> (e \in seen \/ stopping)
=============================================================================
