-------------------------- MODULE RoutineManager --------------------------
(***************************************************************************)
(* The gateway's routine supervisor: nomothetic.routine_manager.           *)
(*                                                                         *)
(* A routine is an autonomy program run as a child process of the gateway. *)
(* `start` launches it under a renewable lease, a monitor task per launch  *)
(* enforces the lease, `heartbeat` renews it, `stop` and `stop_all` end    *)
(* it, and the gateway's shutdown stops whatever still runs.  All of these *)
(* are coroutines of one event loop, so an action below is the code        *)
(* between two suspension points, and the interleavings are those of the   *)
(* points where a coroutine awaits: the manager's lock, the launcher, the  *)
(* child's exit, the lease timer, the grace timer and the monitor task.    *)
(*                                                                         *)
(* Time is an integer clock.  The lease reads it; the grace period between *)
(* SIGINT and SIGKILL is a timer that may fire at any moment.              *)
(***************************************************************************)
EXTENDS Integers, Sequences, FiniteSets

CONSTANTS
    Routines,        \* routine names
    Calls,           \* slots for concurrent callers of the manager
    VoiceCalls,      \* the callers that are not HTTP requests (wake-word tasks)
    None,            \* Python's None
    Windows,         \* heartbeat_timeout_s values a request may carry
    Caps,            \* max_duration_s values a request may carry
    DefaultTimeout,  \* config.default_heartbeat_timeout_s
    TimeoutCeiling,  \* config.heartbeat_timeout_ceiling_s
    MinTimeout,      \* _MIN_HEARTBEAT_TIMEOUT_S
    DefaultCap,      \* config.max_duration_s, None for no cap
    MaxRuns,         \* bound: launches in one behaviour
    MaxTime          \* bound: the last tick of the clock

Runs == 1 .. MaxRuns

Reasons == {"operator_request", "heartbeat_timeout", "max_duration_exceeded",
            "server_shutdown"}

ASSUME BoundsAssumption == MaxRuns \in Nat /\ MaxTime \in Nat
ASSUME LeaseAssumption ==
    /\ DefaultTimeout \in Nat \ {0}
    /\ TimeoutCeiling \in Nat \ {0}
    /\ MinTimeout \in Nat \ {0}
    /\ DefaultCap \in (Nat \ {0}) \cup {None}
    /\ Windows \subseteq Nat \cup {None}
    /\ Caps \subseteq Nat \cup {None}
ASSUME IdentityAssumption ==
    /\ VoiceCalls \subseteq Calls
    /\ None \notin Nat \cup Calls \cup Routines \cup Reasons
    /\ Calls \cap Runs = {}

VARIABLES
    now,       \* loop.time()
    gateway,   \* "serving", "draining", "closing", "closed", "cancelled"
    lock,      \* the call inside the manager's lock across an await, or None
    waiters,   \* tasks queued on the manager's lock, first come first served
    call,      \* [Calls -> the state of the coroutine a caller runs]
    running,   \* the _running table: [Routines -> Runs or None]
    launched,  \* runs 1 .. launched have been launched
    entry,     \* [Runs -> the _RoutineProcess record]
    proc,      \* [Runs -> "unborn", "alive", "exited"]
    sig,       \* [Runs -> the strongest signal sent: "none", "int", "kill"]
    mon,       \* [Runs -> the monitor task's control point]
    wake,      \* [Runs -> when the monitor's lease timer fires]
    term,      \* [Runs -> the task holding the entry's term_lock, or None]
    recorded   \* [Runs -> the stop reason recorded in the log store, or None]

vars == <<now, gateway, lock, waiters, call, running, launched, entry, proc,
          sig, mon, wake, term, recorded>>
childVars == <<proc, sig, term>>
tableVars == <<running, launched, entry>>
taskVars  == <<lock, waiters, call>>

StopOps == {"stop", "stop_all", "shutdown"}

(* A caller that runs nothing, and a launch slot that was never used. *)
Idle == [pc |-> "idle", op |-> "none", routine |-> None, window |-> 1,
         cap |-> None, run |-> None, todo |-> {}]
Unborn == [routine |-> None, window |-> 1, cap |-> None, started |-> 0,
           beat |-> 0, reason |-> None]

CallType ==
    [pc : {"idle", "queued", "launching", "term", "await"},
     op : {"none", "start", "heartbeat"} \cup StopOps,
     routine : Routines \cup {None}, window : Nat, cap : Nat \cup {None},
     run : Runs \cup {None}, todo : SUBSET Runs]
EntryType ==
    [routine : Routines \cup {None}, window : Nat, cap : Nat \cup {None},
     started : Nat, beat : Nat, reason : Reasons \cup {None}]

(* Type correctness of the supervisor's state (routine_manager.py). *)
TypeOK ==
    /\ now \in Nat
    /\ gateway \in {"serving", "draining", "closing", "closed", "cancelled"}
    /\ lock \in Calls \cup {None}
    /\ waiters \in Seq(Calls \cup Runs)
    /\ call \in [Calls -> CallType]
    /\ running \in [Routines -> Runs \cup {None}]
    /\ launched \in 0 .. MaxRuns
    /\ entry \in [Runs -> EntryType]
    /\ proc \in [Runs -> {"unborn", "alive", "exited"}]
    /\ sig \in [Runs -> {"none", "int", "kill"}]
    /\ mon \in [Runs -> {"none", "new", "wait", "term", "cleanup", "done", "lost"}]
    /\ wake \in [Runs -> Nat]
    /\ term \in [Runs -> Calls \cup Runs \cup {None}]
    /\ recorded \in [Runs -> Reasons \cup {None}]

Init ==
    /\ now = 0
    /\ gateway = "serving"
    /\ lock = None
    /\ waiters = <<>>
    /\ call = [c \in Calls |-> Idle]
    /\ running = [x \in Routines |-> None]
    /\ launched = 0
    /\ entry = [r \in Runs |-> Unborn]
    /\ proc = [r \in Runs |-> "unborn"]
    /\ sig = [r \in Runs |-> "none"]
    /\ mon = [r \in Runs |-> "none"]
    /\ wake = [r \in Runs |-> 0]
    /\ term = [r \in Runs |-> None]
    /\ recorded = [r \in Runs |-> None]

-----------------------------------------------------------------------------
(* Helpers *)

(* A duration that is given must be positive. *)
Accepted(durations) == {d \in durations : d = None \/ d > 0}

AtMost(a, b) == IF a <= b THEN a ELSE b

ResolveHeartbeatTimeout(w) ==
    AtMost(IF w = None THEN DefaultTimeout
           ELSE IF w < MinTimeout THEN MinTimeout ELSE w,
           TimeoutCeiling)

ResolveMaxDuration(k) == IF k = None THEN DefaultCap ELSE k

(* Slip: a process that has been signalled counts as gone. *)
IsRunningUnsignalled(x) ==
    running[x] # None /\ proc[running[x]] = "alive" /\ sig[running[x]] = "none"

(* The entry of routine x whose process has no return code yet. *)
IsRunning(x) == running[x] # None /\ proc[running[x]] = "alive"

RunningNow == {running[x] : x \in {y \in Routines : IsRunning(y)}}

(* Slip: a later stop overwrites the reason. *)
LastReason(old, new) == new

FirstReason(old, new) == IF old = None THEN new ELSE old

WithReason(r, why) == [entry[r] EXCEPT !.reason = FirstReason(@, why)]

CapReached(r) == entry[r].cap # None /\ now >= entry[r].started + entry[r].cap
BeatMissed(r) == now >= entry[r].beat + entry[r].window

(* Slip: whatever woke the watchdog, the lease has lapsed. *)
LapsedOnWake(r) == IF CapReached(r) THEN "max_duration_exceeded" ELSE "heartbeat_timeout"

(* Slip: only the absolute cap is looked at. *)
LapsedByCapOnly(r) == IF CapReached(r) THEN "max_duration_exceeded" ELSE None

LapsedReason(r) ==
    IF CapReached(r) THEN "max_duration_exceeded"
    ELSE IF BeatMissed(r) THEN "heartbeat_timeout" ELSE None

Deadline(r) ==
    LET lease == entry[r].beat + entry[r].window
    IN  IF entry[r].cap = None THEN lease
        ELSE AtMost(lease, entry[r].started + entry[r].cap)

(* asyncio.Lock is fair: the longest waiting task enters a free lock. *)
HasTurn(t) == lock = None /\ waiters # <<>> /\ Head(waiters) = t

(* Task t (a call, or the monitor of run r) is inside _terminate(entry r). *)
InTerminate(t, r) ==
    \/ t \in Calls /\ call[t].pc = "term" /\ call[t].run = r
    \/ t = r /\ mon[r] = "term"

(* Task t leaves _terminate: a caller goes on to await the monitor, the     *)
(* monitor to its clean-up, which queues for the manager's lock.            *)
LeaveTerminate(t, r) ==
    \/ /\ t \in Calls
       /\ call' = [call EXCEPT ![t].pc = "await"]
       /\ UNCHANGED <<mon, waiters>>
    \/ /\ t = r
       /\ mon' = [mon EXCEPT ![r] = "cleanup"]
       /\ waiters' = Append(waiters, r)
       /\ UNCHANGED call

(* Slip: a cancelled monitor ends without terminating its child. *)
AfterCancelEnds(m) == IF m = "none" THEN m ELSE "done"

(* What a task's cancellation does to a monitor at each of its points: it   *)
(* terminates its child if it has begun, and dies where it stands if it has *)
(* not begun or is only waiting for the lock in its clean-up.               *)
AfterCancel(m) ==
    CASE m \in {"wait", "term"}   -> "term"
      [] m \in {"new", "cleanup"} -> "lost"
      [] OTHER                    -> m

EntryAfterCancel(r) ==
    IF mon[r] \in {"wait", "term"} THEN WithReason(r, "server_shutdown") ELSE entry[r]

-----------------------------------------------------------------------------
(* Requests.  HTTP requests arrive while the server accepts them; the tasks *)
(* of a voice command run for as long as the event loop does.               *)

MayCall(c) ==
    /\ call[c].pc = "idle"
    /\ gateway = "serving" \/ (c \in VoiceCalls /\ gateway # "cancelled")

QueueFor(c, request) ==
    /\ call' = [call EXCEPT ![c] = request]
    /\ waiters' = Append(waiters, c)
    /\ UNCHANGED <<now, gateway, lock, tableVars, childVars, mon, wake, recorded>>

(* start: names, parameters, credentials and durations are checked first, a *)
(* refusal changing nothing; then the call queues for the lock.             *)
StartCall(c) ==
    /\ MayCall(c)
    /\ \E x \in Routines, w \in Accepted(Windows), k \in Accepted(Caps) :
          QueueFor(c, [Idle EXCEPT !.pc = "queued", !.op = "start", !.routine = x,
                                   !.window = ResolveHeartbeatTimeout(w),
                                   !.cap = ResolveMaxDuration(k)])

HeartbeatCall(c) ==
    /\ MayCall(c)
    /\ c \notin VoiceCalls
    /\ \E x \in Routines :
          QueueFor(c, [Idle EXCEPT !.pc = "queued", !.op = "heartbeat", !.routine = x])

StopCall(c) ==
    /\ MayCall(c)
    /\ \E x \in Routines :
          QueueFor(c, [Idle EXCEPT !.pc = "queued", !.op = "stop", !.routine = x])

StopAllCall(c) ==
    /\ MayCall(c)
    /\ QueueFor(c, [Idle EXCEPT !.pc = "queued", !.op = "stop_all"])

Served(c, op) == HasTurn(c) /\ call[c].op = op /\ waiters' = Tail(waiters)

(* start, under the lock: a routine whose process lives is refused. *)
StartConflict(c) ==
    /\ Served(c, "start")
    /\ IsRunning(call[c].routine)
    /\ call' = [call EXCEPT ![c] = Idle]
    /\ UNCHANGED <<now, gateway, lock, tableVars, childVars, mon, wake, recorded>>

(* start, under the lock: the launcher is awaited with the lock held. *)
StartLaunch(c) ==
    /\ Served(c, "start")
    /\ ~IsRunning(call[c].routine)
    /\ lock' = c
    /\ call' = [call EXCEPT ![c].pc = "launching"]
    /\ UNCHANGED <<now, gateway, tableVars, childVars, mon, wake, recorded>>

LaunchFails(c) ==
    /\ call[c].pc = "launching"
    /\ lock' = None
    /\ call' = [call EXCEPT ![c] = Idle]
    /\ UNCHANGED <<now, gateway, waiters, tableVars, childVars, mon, wake, recorded>>

(* The launcher returns: the entry is built, replaces any entry of the      *)
(* routine whose process has exited, and its monitor task is created.       *)
LaunchDone(c) ==
    LET r == launched + 1
        x == call[c].routine
    IN  /\ call[c].pc = "launching"
        /\ r \in Runs
        /\ launched' = r
        /\ entry' = [entry EXCEPT ![r] =
              [routine |-> x, window |-> call[c].window, cap |-> call[c].cap,
               started |-> now, beat |-> now, reason |-> None]]
        /\ proc' = [proc EXCEPT ![r] = "alive"]
        /\ running' = [running EXCEPT ![x] = r]
        /\ mon' = [mon EXCEPT ![r] = "new"]
        /\ lock' = None
        /\ call' = [call EXCEPT ![c] = Idle]
        /\ UNCHANGED <<now, gateway, waiters, sig, wake, term, recorded>>

(* heartbeat, under the lock: renews the lease of a live process, whatever  *)
(* its monitor has decided; replies "not running" otherwise.                *)
HeartbeatServed(c) ==
    LET x == call[c].routine
    IN  /\ Served(c, "heartbeat")
        /\ entry' = IF IsRunning(x) THEN [entry EXCEPT ![running[x]].beat = now]
                                    ELSE entry
        /\ call' = [call EXCEPT ![c] = Idle]
        /\ UNCHANGED <<now, gateway, lock, running, launched, childVars, mon, wake,
                       recorded>>

(* stop, under the lock: the reason is noted once, then the caller leaves   *)
(* the lock and goes to terminate the process.                              *)
StopServed(c) ==
    LET x == call[c].routine
        r == running[x]
    IN  /\ Served(c, "stop")
        /\ \/ /\ IsRunning(x)
              /\ entry' = [entry EXCEPT ![r] = WithReason(r, "operator_request")]
              /\ call' = [call EXCEPT ![c] = [@ EXCEPT !.pc = "term", !.run = r]]
           \/ /\ ~IsRunning(x)
              /\ call' = [call EXCEPT ![c] = Idle]
              /\ UNCHANGED entry
        /\ UNCHANGED <<now, gateway, lock, running, launched, childVars, mon, wake,
                       recorded>>

(* stop_all and shutdown, under the lock: every live entry gets its reason, *)
(* then they are terminated one after another.                              *)
StopAllServed(c) ==
    LET op == call[c].op
        why == IF op = "shutdown" THEN "server_shutdown" ELSE "operator_request"
    IN  /\ op \in {"stop_all", "shutdown"}
        /\ Served(c, op)
        /\ entry' = [r \in Runs |-> IF r \in RunningNow
                        THEN WithReason(r, why) ELSE entry[r]]
        /\ \/ \E r \in RunningNow :
                 /\ call' = [call EXCEPT ![c] = [@ EXCEPT !.pc = "term", !.run = r,
                                                         !.todo = RunningNow \ {r}]]
                 /\ UNCHANGED gateway
           \/ /\ RunningNow = {}
              /\ call' = [call EXCEPT ![c] = Idle]
              /\ gateway' = IF op = "shutdown" /\ gateway = "closing"
                            THEN "closed" ELSE gateway
        /\ UNCHANGED <<now, lock, running, launched, childVars, mon, wake, recorded>>

(* Slip: the reply does not wait for the monitor. *)
MonitorNotAwaited(c) ==
    /\ call[c].pc = "await"
    /\ call' = [call EXCEPT ![c] = Idle]
    /\ gateway' = IF call[c].op = "shutdown" /\ gateway = "closing" THEN "closed" ELSE gateway
    /\ UNCHANGED <<now, lock, waiters, tableVars, childVars, mon, wake, recorded>>

(* Slip: stop_all and shutdown are done after their first routine. *)
FirstMonitorAwaited(c) ==
    /\ MonitorNotAwaited(c)
    /\ mon[call[c].run] \in {"done", "lost"}

(* _await_monitor returns: stop_all goes on to its next entry, and the last *)
(* entry of a shutdown closes the gateway.                                  *)
MonitorAwaited(c) ==
    LET last == call[c].todo = {}
    IN  /\ call[c].pc = "await"
        /\ mon[call[c].run] \in {"done", "lost"}
        /\ \/ /\ last
              /\ call' = [call EXCEPT ![c] = Idle]
              /\ gateway' = IF call[c].op = "shutdown" /\ gateway = "closing"
                            THEN "closed" ELSE gateway
           \/ \E r \in call[c].todo :
                 /\ call' = [call EXCEPT ![c] = [@ EXCEPT !.pc = "term", !.run = r,
                                                         !.todo = call[c].todo \ {r}]]
                 /\ UNCHANGED gateway
        /\ UNCHANGED <<now, lock, waiters, tableVars, childVars, mon, wake, recorded>>

-----------------------------------------------------------------------------
(* _terminate, by a caller or by the monitor, serialised by term_lock. *)

Interrupt(t, r) ==
    /\ InTerminate(t, r)
    /\ term[r] = None
    /\ proc[r] = "alive"
    /\ term' = [term EXCEPT ![r] = t]
    /\ sig' = [sig EXCEPT ![r] = IF @ = "kill" THEN @ ELSE "int"]
    /\ UNCHANGED <<now, gateway, taskVars, tableVars, proc, mon, wake, recorded>>

(* Slip: the child that outlives its grace period is interrupted again. *)
InterruptAgain(t, r) ==
    /\ InTerminate(t, r)
    /\ term[r] = t
    /\ proc[r] = "alive"
    /\ sig[r] = "int"
    /\ UNCHANGED vars

(* The grace period elapses with the process still alive. *)
Kill(t, r) ==
    /\ InTerminate(t, r)
    /\ term[r] = t
    /\ proc[r] = "alive"
    /\ sig[r] = "int"
    /\ sig' = [sig EXCEPT ![r] = "kill"]
    /\ UNCHANGED <<now, gateway, taskVars, tableVars, proc, term, mon, wake, recorded>>

(* The process has a return code: found on entry, or awaited after a signal. *)
TerminateReturns(t, r) ==
    /\ InTerminate(t, r)
    /\ term[r] \in {None, t}
    /\ proc[r] = "exited"
    /\ term' = [term EXCEPT ![r] = None]
    /\ LeaveTerminate(t, r)
    /\ UNCHANGED <<now, gateway, lock, tableVars, proc, sig, wake, recorded>>

-----------------------------------------------------------------------------
(* The monitor task of run r. *)

(* Its first step: sleep until the deadline, or clean up a dead process. *)
MonitorStarts(r) ==
    /\ mon[r] = "new"
    /\ \/ /\ proc[r] = "alive"
          /\ mon' = [mon EXCEPT ![r] = "wait"]
          /\ wake' = [wake EXCEPT ![r] = Deadline(r)]
          /\ UNCHANGED waiters
       \/ /\ proc[r] = "exited"
          /\ mon' = [mon EXCEPT ![r] = "cleanup"]
          /\ waiters' = Append(waiters, r)
          /\ UNCHANGED wake
    /\ UNCHANGED <<now, gateway, lock, call, tableVars, childVars, recorded>>

(* proc.wait() returns: the child exited by itself or was terminated. *)
MonitorSeesExit(r) ==
    /\ mon[r] = "wait"
    /\ proc[r] = "exited"
    /\ mon' = [mon EXCEPT ![r] = "cleanup"]
    /\ waiters' = Append(waiters, r)
    /\ UNCHANGED <<now, gateway, lock, call, tableVars, childVars, wake, recorded>>

(* The timer fires and the lease has lapsed: terminate, with the reason.    *)
(* (The process may exit in the same turn of the loop; the timer then wins.) *)
LeaseLapses(r) ==
    /\ mon[r] = "wait"
    /\ now >= wake[r]
    /\ LapsedReason(r) # None
    /\ entry' = [entry EXCEPT ![r] = WithReason(r, LapsedReason(r))]
    /\ mon' = [mon EXCEPT ![r] = "term"]
    /\ UNCHANGED <<now, gateway, taskVars, running, launched, childVars, wake, recorded>>

(* The timer fires but a heartbeat moved the deadline: sleep again. *)
LeaseRenewed(r) ==
    /\ mon[r] = "wait"
    /\ now >= wake[r]
    /\ LapsedReason(r) = None
    /\ proc[r] = "alive"
    /\ wake' = [wake EXCEPT ![r] = Deadline(r)]
    /\ UNCHANGED <<now, gateway, taskVars, tableVars, childVars, mon, recorded>>

(* Slip: the entry is dropped whoever owns it now. *)
CleanUpAny(r) ==
    /\ mon[r] = "cleanup"
    /\ HasTurn(r)
    /\ waiters' = Tail(waiters)
    /\ running' = [running EXCEPT ![entry[r].routine] = None]
    /\ recorded' = [recorded EXCEPT ![r] = entry[r].reason]
    /\ mon' = [mon EXCEPT ![r] = "done"]
    /\ UNCHANGED <<now, gateway, lock, call, launched, entry, childVars, wake>>

(* The monitor's finally: drop the entry from the table if it is still this *)
(* run's, then record a manager-initiated stop.                             *)
CleanUp(r) ==
    LET x == entry[r].routine
    IN  /\ mon[r] = "cleanup"
        /\ HasTurn(r)
        /\ waiters' = Tail(waiters)
        /\ running' = IF running[x] = r THEN [running EXCEPT ![x] = None] ELSE running
        /\ recorded' = [recorded EXCEPT ![r] = entry[r].reason]
        /\ mon' = [mon EXCEPT ![r] = "done"]
        /\ UNCHANGED <<now, gateway, lock, call, launched, entry, childVars, wake>>

-----------------------------------------------------------------------------
(* The child process, the clock and the server around the manager. *)

ProcessExits(r) ==
    /\ proc[r] = "alive"
    /\ proc' = [proc EXCEPT ![r] = "exited"]
    /\ UNCHANGED <<now, gateway, taskVars, tableVars, sig, term, mon, wake, recorded>>

Tick ==
    /\ now < MaxTime
    /\ now' = now + 1
    /\ UNCHANGED <<gateway, taskVars, tableVars, childVars, mon, wake, recorded>>

(* The server stops accepting requests. *)
Drain ==
    /\ gateway = "serving"
    /\ gateway' = "draining"
    /\ UNCHANGED <<now, taskVars, tableVars, childVars, mon, wake, recorded>>

(* Every request has been answered: the lifespan runs its shutdown half,    *)
(* whose manager part is shutdown().                                        *)
LifespanShutdown(c) ==
    /\ gateway = "draining"
    /\ c \notin VoiceCalls
    /\ \A d \in Calls \ VoiceCalls : call[d].pc = "idle"
    /\ gateway' = "closing"
    /\ call' = [call EXCEPT ![c] = [Idle EXCEPT !.pc = "queued", !.op = "shutdown"]]
    /\ waiters' = Append(waiters, c)
    /\ UNCHANGED <<now, lock, tableVars, childVars, mon, wake, recorded>>

(* asyncio.run tears the loop down, after the shutdown or instead of it (a  *)
(* forced exit, an earlier shutdown step that raises): every task is         *)
(* cancelled, and the monitors' CancelledError handlers terminate.          *)
LoopCancelled ==
    /\ gateway \in {"draining", "closing", "closed"}
    /\ gateway' = "cancelled"
    /\ lock' = None
    /\ waiters' = <<>>
    /\ call' = [c \in Calls |-> Idle]
    /\ term' = [r \in Runs |-> None]
    /\ mon' = [r \in Runs |-> AfterCancel(mon[r])]
    /\ entry' = [r \in Runs |-> EntryAfterCancel(r)]
    /\ UNCHANGED <<now, running, launched, proc, sig, wake, recorded>>

(* Task t gives up its place in the queue for the lock. *)
LeaveQueue(t) ==
    \E i \in 1 .. Len(waiters) :
        /\ waiters[i] = t
        /\ waiters' = [j \in 1 .. Len(waiters) - 1 |->
                          IF j < i THEN waiters[j] ELSE waiters[j + 1]]

(* A voice command exceeds its time limit and its task is cancelled while   *)
(* it waits for the lock, launches (the new child is killed), terminates... *)
VoiceTimeout(c) ==
    /\ c \in VoiceCalls
    /\ call[c].pc \in {"queued", "launching", "term"}
    /\ call' = [call EXCEPT ![c] = Idle]
    /\ IF call[c].pc = "queued" THEN LeaveQueue(c) ELSE UNCHANGED waiters
    /\ lock' = IF lock = c THEN None ELSE lock
    /\ term' = [r \in Runs |-> IF term[r] = c THEN None ELSE term[r]]
    /\ UNCHANGED <<now, gateway, tableVars, proc, sig, mon, wake, recorded>>

(* ... or awaits a monitor: awaiting a task passes the cancellation on to   *)
(* it, and the caller goes on awaiting the cancelled monitor.               *)
VoiceTimeoutInAwait(c) ==
    LET r == call[c].run
    IN  /\ c \in VoiceCalls
        /\ call[c].pc = "await"
        /\ mon[r] \in {"new", "wait", "term", "cleanup"}
        /\ mon' = [mon EXCEPT ![r] = AfterCancel(@)]
        /\ entry' = [entry EXCEPT ![r] = EntryAfterCancel(r)]
        /\ term' = [term EXCEPT ![r] = IF @ = r THEN None ELSE @]
        /\ IF mon[r] = "cleanup" THEN LeaveQueue(r) ELSE UNCHANGED waiters
        /\ UNCHANGED <<now, gateway, lock, call, running, launched, proc, sig, wake,
                       recorded>>

(* The event loop has been torn down and every child is gone or abandoned. *)
Finished ==
    /\ gateway = "cancelled"
    /\ waiters = <<>>
    /\ \A r \in 1 .. launched : mon[r] \in {"done", "lost"}
    /\ UNCHANGED vars

CallStep(c) ==
    \/ StartCall(c) \/ HeartbeatCall(c) \/ StopCall(c) \/ StopAllCall(c)
    \/ StartConflict(c) \/ StartLaunch(c) \/ LaunchFails(c) \/ LaunchDone(c)
    \/ HeartbeatServed(c) \/ StopServed(c) \/ StopAllServed(c) \/ MonitorAwaited(c)
    \/ LifespanShutdown(c) \/ VoiceTimeout(c) \/ VoiceTimeoutInAwait(c)

TerminateStep(t, r) == Interrupt(t, r) \/ Kill(t, r) \/ TerminateReturns(t, r)

RunStep(r) ==
    \/ MonitorStarts(r) \/ MonitorSeesExit(r) \/ LeaseLapses(r) \/ LeaseRenewed(r)
    \/ CleanUp(r) \/ ProcessExits(r)
    \/ \E t \in Calls \cup {r} : TerminateStep(t, r)

Next ==
    \/ \E c \in Calls : CallStep(c)
    \/ \E r \in Runs : RunStep(r)
    \/ Tick \/ Drain \/ LoopCancelled \/ Finished

Spec == Init /\ [][Next]_vars

(* The event loop runs what is ready, timers fire, the clock advances, the  *)
(* launcher returns and a killed child dies; a child need not obey SIGINT,  *)
(* clients need not call and the server need not stop.  term_lock is first  *)
(* come first served too, hence the strong fairness of taking it.           *)
LoopRuns(c) ==
    \/ StartConflict(c) \/ StartLaunch(c) \/ LaunchFails(c) \/ LaunchDone(c)
    \/ HeartbeatServed(c) \/ StopServed(c) \/ StopAllServed(c) \/ MonitorAwaited(c)
KilledProcessExits(r) == sig[r] = "kill" /\ ProcessExits(r)

Fairness ==
    /\ WF_vars(Tick)
    /\ \A c \in Calls : WF_vars(LoopRuns(c))
    /\ \A r \in Runs :
          /\ WF_vars(MonitorStarts(r)) /\ WF_vars(CleanUp(r))
          /\ WF_vars(MonitorSeesExit(r) \/ LeaseLapses(r) \/ LeaseRenewed(r))
          /\ WF_vars(KilledProcessExits(r))
          /\ \A t \in Calls \cup {r} :
                /\ WF_vars(TerminateStep(t, r))
                /\ SF_vars(Interrupt(t, r))

FairSpec == Spec /\ Fairness

-----------------------------------------------------------------------------
(* Properties *)

(* A living process is the one its routine's table entry names, so a routine *)
(* never has two (start's check, the launch under the lock, and the monitor's *)
(* "is entry" test before it deletes: lines 478-505 and 661-663).            *)
OneLiveProcess ==
    \A r \in Runs : proc[r] = "alive" => running[entry[r].routine] = r

(* The reason a stop is recorded under is the first one given, and a process *)
(* is never signalled before it has one (lines 555, 566, 652, 657).          *)
FirstReasonKept ==
    [][\A r \in Runs :
          /\ entry[r].reason # None => entry'[r].reason = entry[r].reason
          /\ sig'[r] # sig[r] => entry[r].reason # None]_vars

(* When stop, stop_all or shutdown is done with a run, its process has       *)
(* exited, the table no longer names it and its stop is in the log store     *)
(* (lines 556-557 and 567-569).                                              *)
StopReplyIsFinal ==
    [][\A c \in Calls :
          LET r == call[c].run
          IN  call[c].pc = "await" /\ call'[c].pc # "await" /\ gateway' # "cancelled"
              => /\ proc[r] = "exited"
                 /\ running[entry[r].routine] # r
                 /\ recorded[r] = entry[r].reason /\ recorded[r] # None]_vars

(* The watchdog ends a run only when its window has passed with no heartbeat *)
(* or its absolute cap is reached at that moment, although it went to sleep  *)
(* on a deadline that heartbeats may have moved since (lines 641-655).       *)
LapseIsJustified ==
    [][\A r \in Runs : entry[r].reason # entry'[r].reason =>
          /\ entry'[r].reason = "heartbeat_timeout" => now - entry[r].beat >= entry[r].window
          /\ entry'[r].reason = "max_duration_exceeded"
             => now - entry[r].started >= entry[r].cap]_vars

(* After shutdown() none of the launched routines is left alive              *)
(* (the docstring of shutdown, lines 579-581).                               *)
NoneOrphaned == gateway = "closed" => \A r \in Runs : proc[r] # "alive"

(* Every call is answered: the lock is always handed on, and terminating is  *)
(* bounded by the grace period (lines 478, 535, 551, 563, 678-702).          *)
CallsReturn == \A c \in Calls : call[c].pc # "idle" ~> call[c].pc = "idle"

(* A run whose lease has lapsed is stopped unless it is renewed in time, even *)
(* a child that ignores SIGINT (lines 641-655 and 678-702).                  *)
LapsedLeaseEnds ==
    \A r \in Runs :
        proc[r] = "alive" /\ BeatMissed(r)
        ~> proc[r] = "exited" \/ ~BeatMissed(r) \/ mon[r] = "lost"

(* When the loop is torn down with routines still running, the cancelled     *)
(* monitors end them (lines 656-659); a monitor that had not begun cannot.   *)
CancelledRunsEnd ==
    gateway = "cancelled" ~> \A r \in Runs : proc[r] = "alive" => mon[r] = "lost"

(* What the supervisor promises its callers (RoutineSlots). *)
Slots == INSTANCE RoutineSlots WITH
    live <- [x \in Routines |-> {r \in Runs : proc[r] = "alive" /\ entry[r].routine = x}],
    used <- 1 .. launched
SlotsSpec == Slots!Spec

=============================================================================
