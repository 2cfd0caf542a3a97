---------------------------- MODULE EventPipeline ----------------------------
(***************************************************************************)
(* The pipeline from a routine's lifecycle events on the device to the run  *)
(* history on the central server: the EventChannel that EventForwarder       *)
(* implements, and RunHistory behind it, joined at the broker.              *)
(***************************************************************************)
EXTENDS EventChannel

CONSTANTS
    Ingests, Backends, RunsKept, EventsKept, MaxUpsets,
    MaxCopies \* bound: copies of events already received

ASSUME PipelineAssumption ==
    /\ Backends \subseteq {"sql", "memory"}
    /\ RunsKept \in Nat /\ EventsKept \in Nat /\ MaxUpsets \in Nat /\ MaxCopies \in Nat

VARIABLES backend, consumer, feed, task, runs, stored, lost, crossed, upsets,
          copied \* history: the events received again

INSTANCE RunHistory WITH Ids <- Events, RunIds <- Runs, EventTypes <- Types, EventTimes <- Times, Nil <- None

ASSUME IngestAssumption == IsFiniteSet(Ingests) /\ None \notin Ingest

centralVars == <<backend, consumer, feed, task, runs, stored, lost, crossed, upsets>>
vars == <<channelVars, centralVars, copied>>

(* Type correctness of the log store, the channel, the consumer and the store. *)
TypeOK == ChannelTypeOK /\ HistoryTypeOK /\ copied \in Seq(Events)

Init == ChannelInit /\ HistoryInit /\ copied = <<>>

(* The event as it is sent. *)
Content(e) ==
    [ev |-> e, run |-> recorded[e].run, type |-> recorded[e].type, time |-> recorded[e].time]

(* The broker receives an event and sends it on. *)
Broker == \E e \in Events :
    /\ Deliver(e)
    /\ e \in seen => Len(copied) < MaxCopies
    /\ copied' = IF e \in seen THEN Append(copied, e) ELSE copied
    /\ Arrives(Content(e))

Next ==
    \/ Offer /\ UNCHANGED <<centralVars, copied>>
    \/ Broker
    \/ CentralNext /\ UNCHANGED <<channelVars, copied>>

Spec == Init /\ [][Next]_vars

-----------------------------------------------------------------------------
EventsOf(r) == {e \in DOMAIN recorded : recorded[e].run = r}

(* The events of the run that tell its state. *)
Telling(r) == {e \in EventsOf(r) : StatusOf(recorded[e].type) # None}

LastOf(s) == CHOOSE e \in s : \A d \in s : d <= e

Copies(e, s) == Cardinality({j \in DOMAIN s : s[j] = e})

(* Everything sent is stored; every event of the run found room in the      *)
(* queue and a subscribed consumer; each was stored whole, before the next  *)
(* of the run came in.                                                      *)
Undisturbed(r) == Quiet /\ EventsOf(r) \subseteq seen /\ r \notin lost \cup crossed

(* An undisturbed run is one row, in the state its events told last unless   *)
(* a copy of an older one came in after it.                                  *)
StateAgrees(r) ==
    /\ Len(runs[r]) = 1
    /\ Telling(r) = {} => runs[r][1].status = "unknown"
    /\ Telling(r) # {} /\ Range(copied) \cap EventsOf(r) = {} =>
           runs[r][1].status = StatusOf(recorded[LastOf(Telling(r))].type)

(* The device's log says the same of the run that told its state last: a new *)
(* run does not reset the log's status, whose owner need not be log.run, and  *)
(* an event that names no run (the supervisor's stop) is refused centrally.  *)
LogAgrees(r) ==
    LET told == {e \in DOMAIN recorded : StatusOf(recorded[e].type) # None}
    IN  Telling(r) # {} /\ LastOf(told) \in Telling(r) /\ Range(copied) \cap EventsOf(r) = {}
            => log.status = runs[r][1].status

(* Every event is stored with its run, once for every time it was received. *)
EventsStored(r) ==
    backend = "sql" => \A e \in EventsOf(r) : Copies(e, stored[r]) = 1 + Copies(e, copied)

(* Safety, end to end: the central history of an undisturbed run agrees with *)
(* what the device recorded and shows, in state and in events                *)
(* (SqlAutonomyStore.record_event, RoutineLogStore.record).                    *)
HistoryAgrees == OneRow /\ \A r \in Runs :
    Undisturbed(r) /\ EventsOf(r) # {} => StateAgrees(r) /\ LogAgrees(r) /\ EventsStored(r)

(* Safety: the store in memory keeps the runs that started last, in whatever  *)
(* order their events and copies come in: it is without a run that it was     *)
(* told of only while it is full of runs that started no earlier than one of  *)
(* its events.  (Not its first one: a run that was pushed out starts anew     *)
(* with a late event, and may push out another; record_event.)               *)
NewestKept == backend = "memory" /\ Quiet /\ consumer = "online" /\ upsets = 0 =>
    \A r \in Runs : runs[r] = <<>> /\ EventsOf(r) \cap seen # {} =>
        /\ Cardinality(Held(runs)) = RunsKept
        /\ \E e \in EventsOf(r) \cap seen :
               \A q \in Held(runs) : recorded[e].time <= runs[q][1].started
=============================================================================
