----------------------------- MODULE RunHistory -----------------------------
(***************************************************************************)
(* The central side of the event pipeline: the MQTT consumer and the store  *)
(* of runs and their events (telemetry_consumer.py, autonomy_store.py).      *)
(*                                                                          *)
(* Every message starts a coroutine that looks its run up, then creates or  *)
(* updates it, then stores the event.  With the database each of the three  *)
(* is a statement of its own and the coroutines interleave between them; in *)
(* memory they are one step.                                                *)
(***************************************************************************)
EXTENDS Integers, Sequences, SequencesExt

CONSTANTS
    Ids,        \* what identifies an event
    RunIds,     \* run ids
    EventTypes, \* event types
    EventTimes, \* the times that events carry
    Nil,        \* Python's None
    Ingests,    \* coroutines that can be under way at once
    Backends,   \* the stores considered, among "sql" and "memory"
    RunsKept,   \* _max_runs_per_vin of the store in memory
    EventsKept, \* _max_events_per_run of the store in memory
    MaxUpsets   \* bound: lost connections and failed statements

Messages == [ev : Ids, run : RunIds \cup {Nil}, type : EventTypes, time : EventTimes]
RunStates == {"starting", "running", "stopped", "error", "unknown"}

VARIABLES
    backend,  \* which store the gateway was built with
    consumer, \* the consumer's connection
    feed,     \* messages the broker has sent it
    task,     \* [Ingests -> the coroutine's message and statement, or Nil]
    runs,     \* [RunIds -> the run's rows, normally one]
    stored,   \* [RunIds -> the events stored with it]
    lost,     \* history: runs some event of which was not stored whole
    crossed,  \* history: runs two of whose ingests were under way at once
    upsets    \* faults so far

historyVars == <<backend, consumer, feed, task, runs, stored, lost, crossed, upsets>>

Row == [status : RunStates, started : EventTimes]
Ingest == [msg : Messages, at : {"select", "insert", "update", "event"}]

(* Type correctness of the consumer, its coroutines and the store. *)
HistoryTypeOK ==
    /\ backend \in Backends
    /\ consumer \in {"online", "offline", "stopped"}
    /\ feed \in Seq(Messages)
    /\ task \in [Ingests -> Ingest \cup {Nil}]
    /\ runs \in [RunIds -> Seq(Row)]
    /\ stored \in [RunIds -> Seq(Ids)]
    /\ lost \subseteq RunIds /\ crossed \subseteq RunIds
    /\ upsets \in 0 .. MaxUpsets

HistoryInit ==
    /\ backend \in Backends
    /\ consumer = "online" /\ feed = <<>>
    /\ task = [i \in Ingests |-> Nil]
    /\ runs = [r \in RunIds |-> <<>>]
    /\ stored = [r \in RunIds |-> <<>>]
    /\ lost = {} /\ crossed = {} /\ upsets = 0

Upset == upsets < MaxUpsets /\ upsets' = upsets + 1

(* The run state an event type stands for, Nil for free-form types. *)
RunState(t) ==
    CASE t = "starting" -> "starting" [] t = "running" -> "running"
      [] t = "stopping" -> "stopped" [] t = "error" -> "error" [] OTHER -> Nil

KeepNewest(s, n) == IF Len(s) > n THEN SubSeq(s, Len(s) - n + 1, Len(s)) ELSE s

-----------------------------------------------------------------------------
(* The consumer. *)

(* The broker sends a message to whoever is subscribed, and to nobody later. *)
Arrives(m) ==
    IF consumer = "online"
    THEN feed' = Append(feed, m) /\ UNCHANGED <<backend, consumer, task, runs, stored,
                                                lost, crossed, upsets>>
    ELSE /\ lost' = lost \cup ({m.run} \ {Nil})
         /\ UNCHANGED <<backend, consumer, feed, task, runs, stored, crossed, upsets>>

RunsIn(s) == {s[i].run : i \in DOMAIN s} \ {Nil}

(* The connection is lost, and what was on it; the session is not kept. *)
GoesOffline ==
    /\ consumer = "online" /\ Upset
    /\ consumer' = "offline" /\ feed' = <<>> /\ lost' = lost \cup RunsIn(feed)
    /\ UNCHANGED <<backend, task, runs, stored, crossed>>

(* The client connects again and _on_connect subscribes. *)
Subscribes ==
    /\ consumer = "offline"
    /\ consumer' = "online"
    /\ UNCHANGED <<backend, feed, task, runs, stored, lost, crossed, upsets>>

StopConsumer ==
    /\ consumer # "stopped"
    /\ consumer' = "stopped" /\ feed' = <<>> /\ lost' = lost \cup RunsIn(feed)
    /\ UNCHANGED <<backend, task, runs, stored, crossed, upsets>>

(* An event that names no run is refused by the parser. *)
Refuses ==
    /\ feed # <<>> /\ Head(feed).run = Nil
    /\ feed' = Tail(feed)
    /\ UNCHANGED <<backend, consumer, task, runs, stored, lost, crossed, upsets>>

UnderWay(r) == \E i \in Ingests : task[i] # Nil /\ task[i].msg.run = r

(* _on_message: the message becomes a coroutine of the event loop. *)
Accepts(i) ==
    /\ feed # <<>> /\ Head(feed).run # Nil /\ task[i] = Nil
    /\ feed' = Tail(feed)
    /\ task' = [task EXCEPT ![i] = [msg |-> Head(feed), at |-> "select"]]
    /\ crossed' = IF UnderWay(Head(feed).run) THEN crossed \cup {Head(feed).run} ELSE crossed
    /\ UNCHANGED <<backend, consumer, runs, stored, lost, upsets>>

-----------------------------------------------------------------------------
(* SqlAutonomyStore.record_event, statement by statement. *)

NewRow(m) == [status |-> IF RunState(m.type) = Nil THEN "unknown" ELSE RunState(m.type),
              started |-> m.time]

(* Slip: an event that stands for no state resets it. *)
RestatedAlways(rows, m) ==
    [j \in DOMAIN rows |-> [rows[j] EXCEPT !.status = NewRow(m).status]]

(* The update reaches every row of the run. *)
Restated(rows, m) ==
    IF RunState(m.type) = Nil THEN rows
    ELSE [j \in DOMAIN rows |-> [rows[j] EXCEPT !.status = RunState(m.type)]]

At(i, where) == task[i] # Nil /\ task[i].at = where /\ backend = "sql"

Select(i) ==
    /\ At(i, "select")
    /\ task' = [task EXCEPT ![i].at = IF runs[task[i].msg.run] = <<>> THEN "insert" ELSE "update"]
    /\ UNCHANGED <<backend, consumer, feed, runs, stored, lost, crossed, upsets>>

Insert(i) ==
    /\ At(i, "insert")
    /\ runs' = [runs EXCEPT ![task[i].msg.run] = Append(@, NewRow(task[i].msg))]
    /\ task' = [task EXCEPT ![i].at = "event"]
    /\ UNCHANGED <<backend, consumer, feed, stored, lost, crossed, upsets>>

Update(i) ==
    /\ At(i, "update")
    /\ runs' = [runs EXCEPT ![task[i].msg.run] = Restated(@, task[i].msg)]
    /\ task' = [task EXCEPT ![i].at = "event"]
    /\ UNCHANGED <<backend, consumer, feed, stored, lost, crossed, upsets>>

StoreEvent(i) ==
    /\ At(i, "event")
    /\ stored' = [stored EXCEPT ![task[i].msg.run] = Append(@, task[i].msg.ev)]
    /\ task' = [task EXCEPT ![i] = Nil]
    /\ UNCHANGED <<backend, consumer, feed, runs, lost, crossed, upsets>>

(* A statement fails; what earlier ones did stays. *)
StatementFails(i) ==
    /\ task[i] # Nil /\ backend = "sql" /\ Upset
    /\ task' = [task EXCEPT ![i] = Nil]
    /\ lost' = lost \cup {task[i].msg.run}
    /\ UNCHANGED <<backend, consumer, feed, runs, stored, crossed>>

-----------------------------------------------------------------------------
(* InMemoryAutonomyStore.record_event. *)

Held(table) == {r \in RunIds : table[r] # <<>>}

(* Slip: the order is the wrong way round. *)
PushedOutNewest(table) ==
    IF Cardinality(Held(table)) <= RunsKept THEN {{}}
    ELSE {{r} : r \in {x \in Held(table) :
              \A q \in Held(table) : table[x][1].started >= table[q][1].started}}

(* What a new run may push out: a run that started first, by the time its   *)
(* first event carried; the new run itself, if that is the one.             *)
PushedOut(table) ==
    IF Cardinality(Held(table)) <= RunsKept THEN {{}}
    ELSE {{r} : r \in {x \in Held(table) :
              \A q \in Held(table) : table[x][1].started <= table[q][1].started}}

Remember(i) ==
    /\ task[i] # Nil /\ backend = "memory"
    /\ LET m == task[i].msg
           known == runs[m.run] # <<>>
           table == [runs EXCEPT ![m.run] = IF known THEN Restated(@, m) ELSE <<NewRow(m)>>]
       IN  \E out \in IF known THEN {{}} ELSE PushedOut(table) :
           /\ runs' = [r \in RunIds |-> IF r \in out THEN <<>> ELSE table[r]]
           /\ stored' = [r \in RunIds |->
                  IF r \in out THEN <<>>
                  ELSE IF r = m.run THEN KeepNewest(Append(stored[r], m.ev), EventsKept)
                  ELSE stored[r]]
           /\ lost' = lost \cup out
    /\ task' = [task EXCEPT ![i] = Nil]
    /\ UNCHANGED <<backend, consumer, feed, crossed, upsets>>

Ingesting(i) == Accepts(i) \/ Select(i) \/ Insert(i) \/ Update(i) \/ StoreEvent(i) \/ Remember(i)

CentralNext ==
    \/ \E i \in Ingests : Ingesting(i) \/ StatementFails(i)
    \/ Refuses \/ GoesOffline \/ Subscribes \/ StopConsumer

Quiet == feed = <<>> /\ \A i \in Ingests : task[i] = Nil

(* Safety: a run has a second row only after two of its messages were       *)
(* ingested at once (the look-up and the insert are two statements).        *)
OneRow == \A r \in RunIds : Len(runs[r]) > 1 => r \in crossed
=============================================================================
