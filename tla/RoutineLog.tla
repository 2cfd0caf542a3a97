------------------------------ MODULE RoutineLog ------------------------------
(***************************************************************************)
(* The routine log store: what the device knows of a routine's current run  *)
(* from the lifecycle events that the brain reports and the supervisor       *)
(* records (routine_log_store.py, routine_routes.py).                         *)
(*                                                                          *)
(* One routine of one device; events are numbered as they are recorded.     *)
(* Any run id, or none, may come with any event, and any time: the brain    *)
(* names both, in whatever order its reports arrive.                        *)
(***************************************************************************)
EXTENDS Integers, Sequences, FiniteSets

CONSTANTS
    Types,       \* the event types reported
    None,        \* Python's None
    LogSize,     \* max_events
    Runs,        \* the run ids that the brain may name
    Times,       \* the times that an event may carry
    MaxRecorded  \* bound: events recorded in one behaviour

Events == 1 .. MaxRecorded
RunOrNone == Runs \cup {None}
Statuses == {"starting", "running", "stopped", "error", "unknown"}

ASSUME LogAssumption ==
    /\ MaxRecorded \in Nat /\ LogSize \in Nat /\ Times \subseteq Int
    /\ IsFiniteSet(Runs) /\ None \notin Runs \cup Nat \cup Statuses

VARIABLES
    recorded, \* history: the events recorded, [run, type, time] each
    log       \* the routine's record: its run, status and events

logVars == <<recorded, log>>

(* Type correctness of the log store. *)
LogTypeOK ==
    /\ recorded \in Seq([run : RunOrNone, type : Types, time : Times]) /\ Len(recorded) <= MaxRecorded
    /\ log \in [run : RunOrNone, status : Statuses, events : Seq(Events)]
    /\ Len(log.events) <= LogSize

LogInit ==
    /\ recorded = <<>>
    /\ log = [run |-> None, status |-> "unknown", events |-> <<>>]

(* The status an event type stands for, None for free-form types. *)
StatusOf(t) ==
    CASE t = "starting" -> "starting" [] t = "running" -> "running"
      [] t = "stopping" -> "stopped" [] t = "error" -> "error" [] OTHER -> None

(* Slip: one too many. *)
NewestAndOne(s, n) == IF Len(s) > n THEN SubSeq(s, Len(s) - n, Len(s)) ELSE s

(* A bounded deque keeps the newest. *)
Newest(s, n) == IF Len(s) > n THEN SubSeq(s, Len(s) - n + 1, Len(s)) ELSE s

Fresh(r) == r # None /\ r # log.run

(* A run id that is not the last one clears the events of the run before. *)
Logged(r, t) ==
    [run |-> IF Fresh(r) THEN r ELSE log.run,
     status |-> IF StatusOf(t) # None THEN StatusOf(t) ELSE log.status,
     events |-> Newest(Append(IF Fresh(r) THEN <<>> ELSE log.events, Len(recorded) + 1), LogSize)]

Record(r, t, at) ==
    /\ Len(recorded) < MaxRecorded
    /\ recorded' = Append(recorded, [run |-> r, type |-> t, time |-> at])
    /\ log' = Logged(r, t)

(* The brain reports an event: of its run, late of an earlier one, or of none. *)
Report == \E r \in RunOrNone, t \in Types, at \in Times : Record(r, t, at)

(* The supervisor records that it ended the run; it names no run id. *)
SupervisorStop ==
    /\ "stopping" \in Types
    /\ \E now \in Times : Record(None, "stopping", now)
=============================================================================
