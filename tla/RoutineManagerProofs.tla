------------------------ MODULE RoutineManagerProofs ------------------------
(***************************************************************************)
(* Proofs about the routine supervisor, for any number of routines, callers *)
(* (HTTP or voice) and launches, and any lease parameters.                  *)
(***************************************************************************)
EXTENDS RoutineManager, SequenceTheorems, TLAPS

(* What a request remembers: the routine it names, and the run it stops. *)
CallsKnow ==
    \A c \in Calls :
        /\ call[c].op \in {"start", "heartbeat", "stop"} => call[c].routine \in Routines
        /\ call[c].pc = "launching" => call[c].op = "start"
        /\ call[c].pc \in {"term", "await"} => call[c].run \in Runs

(* Runs are launched in order, under a routine, and the table names its own. *)
Bookkeeping ==
    /\ \A r \in Runs : proc[r] = "unborn" <=> r > launched
    /\ \A r \in Runs : r <= launched => entry[r].routine \in Routines
    /\ \A x \in Routines : running[x] # None =>
           entry[running[x]].routine = x /\ running[x] <= launched
    /\ \A r \in Runs : mon[r] = "cleanup" => proc[r] = "exited"

(* The launcher is awaited with the lock held and no live run of its routine. *)
LaunchExclusive ==
    \A c \in Calls : call[c].pc = "launching" =>
        /\ lock = c
        /\ ~IsRunning(call[c].routine)

Inv == TypeOK /\ CallsKnow /\ Bookkeeping /\ LaunchExclusive /\ OneLiveProcess

-----------------------------------------------------------------------------
(* Lemmas about the operators. *)

(* A window a request ends up with is a natural number, whatever it asked. *)
LEMMA WindowType ==
    ASSUME NEW w \in Accepted(Windows)
    PROVE  ResolveHeartbeatTimeout(w) \in Nat
BY LeaseAssumption, IdentityAssumption DEF ResolveHeartbeatTimeout, AtMost, Accepted

(* So is a cap, unless there is none. *)
LEMMA CapType ==
    ASSUME NEW k \in Accepted(Caps)
    PROVE  ResolveMaxDuration(k) \in Nat \cup {None}
BY LeaseAssumption, IdentityAssumption DEF ResolveMaxDuration, Accepted

(* Leaving the queue leaves a queue. *)
LEMMA QueueType ==
    ASSUME NEW t, waiters \in Seq(Calls \cup Runs), LeaveQueue(t)
    PROVE  waiters' \in Seq(Calls \cup Runs)
<1> DEFINE T == Calls \cup Runs
<1>1. PICK i \in 1 .. Len(waiters) :
          waiters' = [j \in 1 .. Len(waiters) - 1 |->
                         IF j < i THEN waiters[j] ELSE waiters[j + 1]]
  BY DEF LeaveQueue
<1>2. Len(waiters) \in Nat /\ waiters \in [1 .. Len(waiters) -> T]
  BY LenProperties
<1>3. Len(waiters) - 1 \in Nat
  BY <1>1, <1>2
<1>4. waiters' \in [1 .. Len(waiters) - 1 -> T]
  BY <1>1, <1>2, <1>3
<1> QED  BY <1>3, <1>4, SeqDef

(* A deadline is a moment of the clock. *)
LEMMA DeadlineType ==
    ASSUME TypeOK, NEW r \in Runs
    PROVE  Deadline(r) \in Nat
<1>1. entry[r] \in EntryType  BY DEF TypeOK
<1> QED  BY <1>1, IdentityAssumption DEF Deadline, AtMost, EntryType

(* A lapsed lease gives one of the reasons. *)
LEMMA LapseType == ASSUME NEW r PROVE LapsedReason(r) \in Reasons \cup {None}
BY DEF LapsedReason, Reasons

-----------------------------------------------------------------------------
LEMMA InitInv == Init => Inv
<1> SUFFICES ASSUME Init PROVE Inv  OBVIOUS
<1>1. Idle \in CallType /\ Unborn \in EntryType
  BY DEF Idle, CallType, Unborn, EntryType
<1>2. TypeOK
  BY <1>1, BoundsAssumption DEF Init, TypeOK, Runs
<1>3. CallsKnow /\ LaunchExclusive
  BY IdentityAssumption DEF Init, CallsKnow, LaunchExclusive, Idle
<1>4. Bookkeeping /\ OneLiveProcess
  BY IdentityAssumption, BoundsAssumption DEF Init, Bookkeeping, OneLiveProcess, Runs
<1> QED  BY <1>2, <1>3, <1>4 DEF Inv

-----------------------------------------------------------------------------
(* Every step preserves the types. *)

(* A request joins the queue. *)
LEMMA QueueForTypes ==
    ASSUME TypeOK, NEW c \in Calls, NEW request \in CallType, QueueFor(c, request)
    PROVE  TypeOK'
BY DEF TypeOK, QueueFor, tableVars, childVars

LEMMA IdleType == Idle \in CallType
BY DEF Idle, CallType

(* A call moves on, possibly to a run to terminate. *)
LEMMA MoveType ==
    ASSUME NEW k \in CallType, NEW r \in Runs, NEW others \in SUBSET Runs
    PROVE  /\ \A pc \in {"queued", "launching", "term", "await"} :
                  [k EXCEPT !.pc = pc] \in CallType
           /\ [k EXCEPT !.pc = "term", !.run = r] \in CallType
           /\ [k EXCEPT !.pc = "term", !.run = r, !.todo = others] \in CallType
BY DEF CallType

(* An entry is given a reason. *)
LEMMA ReasonType ==
    ASSUME TypeOK, NEW r \in Runs, NEW why \in Reasons
    PROVE  WithReason(r, why) \in EntryType
<1>1. entry[r] \in EntryType
  BY DEF TypeOK
<1>2. FirstReason(entry[r].reason, why) \in Reasons \cup {None}
  BY <1>1 DEF FirstReason, EntryType
<1> QED  BY <1>1, <1>2 DEF WithReason, EntryType

(* A heartbeat is noted. *)
LEMMA BeatType ==
    ASSUME TypeOK, NEW r \in Runs
    PROVE  [entry[r] EXCEPT !.beat = now] \in EntryType
<1>1. entry[r] \in EntryType /\ now \in Nat
  BY DEF TypeOK
<1> QED  BY <1>1 DEF EntryType

LEMMA CallStepTypes ==
    ASSUME Inv, NEW c \in Calls, CallStep(c)
    PROVE  TypeOK'
<1> USE DEF Inv
<1>0. call[c] \in CallType /\ waiters \in Seq(Calls \cup Runs) /\ Idle \in CallType
  BY IdleType DEF TypeOK
<1>1. CASE StartCall(c)
  <2>1. PICK x \in Routines, w \in Accepted(Windows), k \in Accepted(Caps) :
            QueueFor(c, [Idle EXCEPT !.pc = "queued", !.op = "start", !.routine = x,
                                     !.window = ResolveHeartbeatTimeout(w),
                                     !.cap = ResolveMaxDuration(k)])
    BY <1>1 DEF StartCall
  <2> QED  BY <2>1, WindowType, CapType, QueueForTypes DEF CallType, Idle
<1>2. CASE HeartbeatCall(c)
  BY <1>2, QueueForTypes DEF HeartbeatCall, CallType, Idle
<1>3. CASE StopCall(c)
  BY <1>3, QueueForTypes DEF StopCall, CallType, Idle, StopOps
<1>4. CASE StopAllCall(c)
  BY <1>4, QueueForTypes DEF StopAllCall, CallType, Idle, StopOps
<1>5. CASE StartConflict(c)
  BY <1>0, <1>5 DEF StartConflict, Served, HasTurn, TypeOK, tableVars, childVars
<1>6. CASE StartLaunch(c)
  <2>1. call' \in [Calls -> CallType]
    BY <1>0, <1>6 DEF StartLaunch, TypeOK, CallType
  <2> QED  BY <1>0, <1>6, <2>1 DEF StartLaunch, Served, HasTurn, TypeOK, tableVars, childVars
<1>7. CASE LaunchFails(c)
  BY <1>0, <1>7 DEF LaunchFails, TypeOK, tableVars, childVars
<1>8. CASE LaunchDone(c)
  <2>1. launched + 1 \in Runs /\ launched + 1 \in 0 .. MaxRuns
    BY <1>8, BoundsAssumption DEF LaunchDone, Runs
  <2>2. [routine |-> call[c].routine, window |-> call[c].window, cap |-> call[c].cap,
         started |-> now, beat |-> now, reason |-> None] \in EntryType
    BY <1>0 DEF CallType, EntryType, TypeOK
  <2> QED  BY <1>0, <1>8, <2>1, <2>2 DEF LaunchDone, TypeOK
<1>9. CASE HeartbeatServed(c)
  <2> DEFINE r == running[call[c].routine]
  <2>1. CASE IsRunning(call[c].routine)
    <3>1. r \in Runs
      BY <1>9, <2>1 DEF HeartbeatServed, Served, CallsKnow, IsRunning, TypeOK
    <3>2. entry' = [entry EXCEPT ![r] = [entry[r] EXCEPT !.beat = now]]
      BY <1>9, <2>1, <3>1 DEF HeartbeatServed, TypeOK
    <3>3. entry' \in [Runs -> EntryType]
      BY <3>1, <3>2, BeatType DEF TypeOK
    <3> QED  BY <1>0, <1>9, <3>3 DEF HeartbeatServed, Served, HasTurn, TypeOK, childVars
  <2>2. CASE ~IsRunning(call[c].routine)
    BY <1>0, <1>9, <2>2 DEF HeartbeatServed, Served, HasTurn, TypeOK, childVars
  <2> QED  BY <2>1, <2>2
<1>10. CASE StopServed(c)
  <2>1. call[c].routine \in Routines
    BY <1>10 DEF StopServed, Served, CallsKnow
  <2>2. IsRunning(call[c].routine) => running[call[c].routine] \in Runs
    BY <2>1 DEF IsRunning, TypeOK
  <2>3. call' \in [Calls -> CallType]
    <3>1. CASE IsRunning(call[c].routine)
      <4> DEFINE moved == [call[c] EXCEPT !.pc = "term", !.run = running[call[c].routine]]
      <4>1. call' = [call EXCEPT ![c] = moved]
        BY <1>10, <3>1 DEF StopServed
      <4>2. moved \in CallType
        BY <1>0, <2>2, <3>1, MoveType
      <4> QED  BY <4>1, <4>2 DEF TypeOK
    <3>2. CASE ~IsRunning(call[c].routine)
      BY <1>0, <1>10, <3>2 DEF StopServed, TypeOK
    <3> QED  BY <3>1, <3>2
  <2>4. entry' \in [Runs -> EntryType]
    BY <1>10, <2>2, ReasonType DEF StopServed, TypeOK, Reasons
  <2> QED  BY <1>0, <1>10, <2>3, <2>4 DEF StopServed, Served, HasTurn, TypeOK, childVars
<1>11. CASE StopAllServed(c)
  <2>1. RunningNow \subseteq Runs
    BY DEF RunningNow, IsRunning, TypeOK
  <2>2. call' \in [Calls -> CallType]
    <3>1. CASE RunningNow = {}
      BY <1>0, <1>11, <3>1 DEF StopAllServed, TypeOK
    <3>2. CASE RunningNow # {}
      <4>1. PICK r \in RunningNow :
                call' = [call EXCEPT ![c] = [call[c] EXCEPT !.pc = "term", !.run = r,
                                                       !.todo = RunningNow \ {r}]]
        BY <1>11, <3>2 DEF StopAllServed
      <4>2. [call[c] EXCEPT !.pc = "term", !.run = r, !.todo = RunningNow \ {r}]
                \in CallType
        BY <1>0, <2>1, MoveType
      <4> QED  BY <4>1, <4>2 DEF TypeOK
    <3> QED  BY <3>1, <3>2
  <2>3. entry' \in [Runs -> EntryType]
    BY <1>11, ReasonType DEF StopAllServed, TypeOK, Reasons
  <2>4. gateway' \in {"serving", "draining", "closing", "closed", "cancelled"}
    BY <1>11 DEF StopAllServed, TypeOK
  <2>5. waiters' \in Seq(Calls \cup Runs)
    <3>1. waiters # <<>> /\ waiters' = Tail(waiters)
      BY <1>11 DEF StopAllServed, Served, HasTurn
    <3> QED  BY <1>0, <3>1
  <2> QED  BY <1>11, <2>2, <2>3, <2>4, <2>5 DEF StopAllServed, TypeOK, childVars
<1>12. CASE MonitorAwaited(c)
  <2>1. call' \in [Calls -> CallType]
    <3>1. call[c].todo \subseteq Runs
      BY <1>0 DEF CallType
    <3>2. CASE call[c].todo = {}
      BY <1>0, <1>12, <3>2 DEF MonitorAwaited, TypeOK
    <3>3. CASE call[c].todo # {}
      <4>1. PICK r \in call[c].todo :
                call' = [call EXCEPT ![c] = [call[c] EXCEPT !.pc = "term", !.run = r,
                                                       !.todo = call[c].todo \ {r}]]
        BY <1>0, <1>12, <3>3 DEF MonitorAwaited, CallType
      <4>2. [call[c] EXCEPT !.pc = "term", !.run = r, !.todo = call[c].todo \ {r}]
                \in CallType
        BY <1>0, <3>1, MoveType
      <4> QED  BY <4>1, <4>2 DEF TypeOK
    <3> QED  BY <3>2, <3>3
  <2> QED  BY <1>0, <1>12, <2>1 DEF MonitorAwaited, TypeOK, tableVars, childVars
<1>13. CASE LifespanShutdown(c)
  <2>1. [Idle EXCEPT !.pc = "queued", !.op = "shutdown"] \in CallType
    BY DEF CallType, Idle, StopOps
  <2> QED  BY <1>0, <1>13, <2>1 DEF LifespanShutdown, TypeOK, tableVars, childVars
<1>14. CASE VoiceTimeout(c)
  <2>1. waiters' \in Seq(Calls \cup Runs)
    BY <1>0, <1>14, QueueType DEF VoiceTimeout
  <2> QED  BY <1>0, <1>14, <2>1 DEF VoiceTimeout, TypeOK, tableVars
<1>15. CASE VoiceTimeoutInAwait(c)
  <2>1. waiters' \in Seq(Calls \cup Runs)
    BY <1>0, <1>15, QueueType DEF VoiceTimeoutInAwait
  <2>2. entry' \in [Runs -> EntryType]
    BY <1>15, ReasonType DEF VoiceTimeoutInAwait, TypeOK, EntryAfterCancel, Reasons
  <2>3. mon' \in [Runs -> {"none", "new", "wait", "term", "cleanup", "done", "lost"}]
    BY <1>15 DEF VoiceTimeoutInAwait, TypeOK, AfterCancel
  <2> QED  BY <1>0, <1>15, <2>1, <2>2, <2>3 DEF VoiceTimeoutInAwait, TypeOK
<1> QED
  BY <1>1, <1>2, <1>3, <1>4, <1>5, <1>6, <1>7, <1>8, <1>9, <1>10, <1>11, <1>12, <1>13,
     <1>14, <1>15 DEF CallStep

LEMMA TerminateStepTypes ==
    ASSUME TypeOK, NEW r \in Runs, NEW t \in Calls \cup {r}, TerminateStep(t, r)
    PROVE  TypeOK'
<1>1. CASE Interrupt(t, r)
  BY <1>1 DEF Interrupt, TypeOK, taskVars, tableVars
<1>2. CASE Kill(t, r)
  BY <1>2 DEF Kill, TypeOK, taskVars, tableVars
<1>3. CASE TerminateReturns(t, r)
  <2>1. CASE t \in Calls /\ call' = [call EXCEPT ![t].pc = "await"] /\ UNCHANGED <<mon, waiters>>
    <3>0. call[t] \in CallType
      BY <2>1 DEF TypeOK
    <3>1. call' \in [Calls -> CallType]
      BY <2>1, <3>0 DEF TypeOK, CallType
    <3> QED  BY <1>3, <2>1, <3>1 DEF TerminateReturns, TypeOK, tableVars
  <2>2. CASE /\ mon' = [mon EXCEPT ![r] = "cleanup"]
             /\ waiters' = Append(waiters, r)
             /\ UNCHANGED call
    BY <1>3, <2>2 DEF TerminateReturns, TypeOK, tableVars
  <2> QED  BY <1>3, <2>1, <2>2 DEF TerminateReturns, LeaveTerminate
<1> QED  BY <1>1, <1>2, <1>3 DEF TerminateStep

LEMMA RunStepTypes ==
    ASSUME TypeOK, NEW r \in Runs, RunStep(r)
    PROVE  TypeOK'
<1>1. CASE MonitorStarts(r)
  <2>1. CASE proc[r] = "alive"
    BY <1>1, <2>1, DeadlineType DEF MonitorStarts, TypeOK, tableVars, childVars
  <2>2. CASE proc[r] = "exited"
    <3>1. mon' = [mon EXCEPT ![r] = "cleanup"] /\ waiters' = Append(waiters, r)
      BY <1>1, <2>2 DEF MonitorStarts
    <3> QED  BY <1>1, <2>2, <3>1 DEF MonitorStarts, TypeOK, tableVars, childVars
  <2> QED  BY <1>1, <2>1, <2>2 DEF MonitorStarts
<1>2. CASE MonitorSeesExit(r)
  BY <1>2 DEF MonitorSeesExit, TypeOK, tableVars, childVars
<1>3. CASE LeaseLapses(r)
  <2>1. WithReason(r, LapsedReason(r)) \in EntryType
    BY <1>3, LapseType, ReasonType DEF LeaseLapses
  <2> QED  BY <1>3, <2>1 DEF LeaseLapses, TypeOK, taskVars, childVars
<1>4. CASE LeaseRenewed(r)
  BY <1>4, DeadlineType DEF LeaseRenewed, TypeOK, taskVars, tableVars, childVars
<1>5. CASE CleanUp(r)
  <2>1. waiters' \in Seq(Calls \cup Runs)
    BY <1>5 DEF CleanUp, HasTurn, TypeOK
  <2>2. recorded' \in [Runs -> Reasons \cup {None}]
    BY <1>5 DEF CleanUp, TypeOK, EntryType
  <2> QED  BY <1>5, <2>1, <2>2 DEF CleanUp, TypeOK, childVars
<1>6. CASE ProcessExits(r)
  BY <1>6 DEF ProcessExits, TypeOK, taskVars, tableVars
<1>7. CASE \E t \in Calls \cup {r} : TerminateStep(t, r)
  BY <1>7, TerminateStepTypes
<1> QED
  BY <1>1, <1>2, <1>3, <1>4, <1>5, <1>6, <1>7 DEF RunStep

LEMMA LoopCancelledTypes ==
    ASSUME TypeOK, LoopCancelled
    PROVE  TypeOK'
<1>1. entry' \in [Runs -> EntryType]
  <2>1. \A r \in Runs : EntryAfterCancel(r) \in EntryType
    BY ReasonType DEF EntryAfterCancel, TypeOK, Reasons
  <2> QED  BY <2>1 DEF LoopCancelled
<1>2. mon' \in [Runs -> {"none", "new", "wait", "term", "cleanup", "done", "lost"}]
  BY DEF LoopCancelled, TypeOK, AfterCancel
<1>3. call' \in [Calls -> CallType] /\ waiters' \in Seq(Calls \cup Runs)
  BY IdleType DEF LoopCancelled
<1> QED  BY <1>1, <1>2, <1>3 DEF LoopCancelled, TypeOK

LEMMA NextTypes ==
    ASSUME Inv, [Next]_vars
    PROVE  TypeOK'
<1>1. CASE \E c \in Calls : CallStep(c)
  BY <1>1, CallStepTypes
<1>2. CASE \E r \in Runs : RunStep(r)
  BY <1>2, RunStepTypes DEF Inv
<1>3. CASE Tick
  BY <1>3 DEF Inv, Tick, TypeOK, taskVars, tableVars, childVars
<1>4. CASE Drain
  BY <1>4 DEF Inv, Drain, TypeOK, taskVars, tableVars, childVars
<1>5. CASE LoopCancelled
  BY <1>5, LoopCancelledTypes DEF Inv
<1>6. CASE UNCHANGED vars
  BY <1>6 DEF Inv, TypeOK, vars
<1> QED
  BY <1>1, <1>2, <1>3, <1>4, <1>5, <1>6 DEF Next, Finished

-----------------------------------------------------------------------------
(* Every step preserves what requests remember. *)

LEMMA CallStepKnows ==
    ASSUME Inv, NEW c \in Calls, CallStep(c)
    PROVE  CallsKnow'
<1> USE DEF Inv
<1>0. call \in [Calls -> CallType] /\ Idle.op = "none" /\ Idle.pc = "idle"
  BY DEF TypeOK, Idle
<1>1. CASE StartCall(c)
  BY <1>0, <1>1 DEF StartCall, QueueFor, CallsKnow, Idle
<1>2. CASE HeartbeatCall(c)
  BY <1>0, <1>2 DEF HeartbeatCall, QueueFor, CallsKnow, Idle
<1>3. CASE StopCall(c)
  BY <1>0, <1>3 DEF StopCall, QueueFor, CallsKnow, Idle
<1>4. CASE StopAllCall(c)
  BY <1>0, <1>4 DEF StopAllCall, QueueFor, CallsKnow, Idle
<1>5. CASE StartConflict(c)
  BY <1>0, <1>5 DEF StartConflict, CallsKnow
<1>6. CASE StartLaunch(c)
  BY <1>0, <1>6 DEF StartLaunch, Served, CallsKnow, CallType
<1>7. CASE LaunchFails(c) \/ LaunchDone(c) \/ HeartbeatServed(c)
  BY <1>0, <1>7 DEF LaunchFails, LaunchDone, HeartbeatServed, CallsKnow
<1>8. CASE StopServed(c)
  <2>1. call[c].routine \in Routines
    BY <1>8 DEF StopServed, Served, CallsKnow
  <2>2. CASE IsRunning(call[c].routine)
    <3>1. running[call[c].routine] \in Runs
      BY <2>1, <2>2 DEF IsRunning, TypeOK
    <3>2. call' = [call EXCEPT ![c] =
                      [call[c] EXCEPT !.pc = "term", !.run = running[call[c].routine]]]
      BY <1>8, <2>2 DEF StopServed
    <3> QED  BY <1>0, <2>1, <3>1, <3>2 DEF CallsKnow, CallType
  <2>3. CASE ~IsRunning(call[c].routine)
    BY <1>0, <1>8, <2>3 DEF StopServed, CallsKnow
  <2> QED  BY <2>2, <2>3
<1>9. CASE StopAllServed(c)
  <2>0. call[c].op \in {"stop_all", "shutdown"}
    BY <1>9 DEF StopAllServed
  <2>1. RunningNow \subseteq Runs
    BY DEF RunningNow, IsRunning, TypeOK
  <2>2. CASE RunningNow = {}
    BY <1>0, <1>9, <2>2 DEF StopAllServed, CallsKnow
  <2>3. CASE RunningNow # {}
    <3>1. PICK r \in RunningNow :
              call' = [call EXCEPT ![c] = [call[c] EXCEPT !.pc = "term", !.run = r,
                                                     !.todo = RunningNow \ {r}]]
      BY <1>9, <2>3 DEF StopAllServed
    <3> QED  BY <1>0, <2>0, <2>1, <3>1 DEF CallsKnow, CallType
  <2> QED  BY <2>2, <2>3
<1>10. CASE MonitorAwaited(c)
  <2>1. call[c].todo \subseteq Runs
    BY <1>0 DEF CallType
  <2>2. CASE call[c].todo = {}
    BY <1>0, <1>10, <2>2 DEF MonitorAwaited, CallsKnow
  <2>3. CASE call[c].todo # {}
    <3>1. PICK r \in call[c].todo :
              call' = [call EXCEPT ![c] = [call[c] EXCEPT !.pc = "term", !.run = r,
                                                     !.todo = call[c].todo \ {r}]]
      BY <1>10, <2>3 DEF MonitorAwaited
    <3> QED  BY <1>0, <2>1, <3>1 DEF CallsKnow, CallType
  <2> QED  BY <2>2, <2>3
<1>11. CASE LifespanShutdown(c)
  BY <1>0, <1>11 DEF LifespanShutdown, CallsKnow, Idle
<1>12. CASE VoiceTimeout(c) \/ VoiceTimeoutInAwait(c)
  BY <1>0, <1>12 DEF VoiceTimeout, VoiceTimeoutInAwait, CallsKnow
<1> QED
  BY <1>1, <1>2, <1>3, <1>4, <1>5, <1>6, <1>7, <1>8, <1>9, <1>10, <1>11, <1>12 DEF CallStep

LEMMA NextKnows ==
    ASSUME Inv, [Next]_vars
    PROVE  CallsKnow'
<1> USE DEF Inv
<1>0. call \in [Calls -> CallType]
  BY DEF TypeOK
<1>1. CASE \E c \in Calls : CallStep(c)
  BY <1>1, CallStepKnows
<1>2. CASE \E r \in Runs : RunStep(r)
  <2>1. PICK r \in Runs : RunStep(r)
    BY <1>2
  <2>2. CASE \E t \in Calls : TerminateReturns(t, r) /\ call' = [call EXCEPT ![t].pc = "await"]
    <3>1. PICK t \in Calls : TerminateReturns(t, r) /\ call' = [call EXCEPT ![t].pc = "await"]
      BY <2>2
    <3>2. call[t].pc = "term" /\ call[t].run = r /\ call[t] \in CallType
      BY <1>0, <3>1, IdentityAssumption DEF TerminateReturns, InTerminate
    <3> QED  BY <1>0, <3>1, <3>2 DEF CallsKnow, CallType
  <2>3. CASE UNCHANGED call
    BY <2>3 DEF CallsKnow
  <2> QED
    BY <2>1, <2>2, <2>3 DEF RunStep, MonitorStarts, MonitorSeesExit, LeaseLapses,
       LeaseRenewed, CleanUp, ProcessExits, TerminateStep, Interrupt, Kill,
       TerminateReturns, LeaveTerminate, taskVars
<1>3. CASE LoopCancelled
  BY <1>3 DEF LoopCancelled, CallsKnow, Idle
<1>4. CASE UNCHANGED call
  BY <1>4 DEF CallsKnow
<1> QED
  BY <1>1, <1>2, <1>3, <1>4 DEF Next, Tick, Drain, Finished, vars, taskVars

-----------------------------------------------------------------------------
(* Every step preserves the table, the exclusion of launches and, with them, *)
(* the one live process of a routine.  Only LaunchDone, ProcessExits and     *)
(* CleanUp touch what these speak of; every other step is a frame.           *)

Quiet == UNCHANGED <<running, launched, proc>>
         /\ \A r \in Runs : entry'[r].routine = entry[r].routine

LEMMA QuietTable ==
    ASSUME Inv, TypeOK', Quiet,
           \A r \in Runs : mon'[r] = "cleanup" => mon[r] = "cleanup" \/ proc[r] = "exited"
    PROVE  Bookkeeping' /\ OneLiveProcess'
<1>1. \A r \in Runs : entry'[r].routine = entry[r].routine
  BY DEF Quiet
<1>2. running' = running /\ launched' = launched /\ proc' = proc
  BY DEF Quiet
<1>3. \A x \in Routines : running[x] # None => running[x] \in Runs
  BY DEF Inv, TypeOK
<1>4. OneLiveProcess'
  BY <1>1, <1>2 DEF Inv, OneLiveProcess
<1>5. Bookkeeping'
  BY <1>1, <1>2, <1>3 DEF Inv, Bookkeeping
<1> QED  BY <1>4, <1>5

LEMMA QuietLaunch ==
    ASSUME Inv, Quiet,
           \A c \in Calls : call'[c].pc = "launching" =>
               call[c].pc = "launching" /\ call'[c].routine = call[c].routine /\ lock' = c
    PROVE  LaunchExclusive'
BY DEF Inv, Quiet, LaunchExclusive, IsRunning

(* Giving a reason or a heartbeat leaves the entry's routine alone. *)
LEMMA SameRoutine ==
    ASSUME TypeOK, NEW r \in Runs, NEW why
    PROVE  /\ WithReason(r, why).routine = entry[r].routine
           /\ [entry[r] EXCEPT !.beat = now].routine = entry[r].routine
           /\ EntryAfterCancel(r).routine = entry[r].routine
<1>1. entry[r] \in EntryType  BY DEF TypeOK
<1> QED  BY <1>1 DEF WithReason, EntryAfterCancel, EntryType

LEMMA CallStepQuiet ==
    ASSUME Inv, NEW c \in Calls, CallStep(c), ~LaunchDone(c)
    PROVE  Quiet
<1> USE DEF Inv
<1>0. entry \in [Runs -> EntryType]
  BY DEF TypeOK
<1>1. CASE StartCall(c) \/ HeartbeatCall(c) \/ StopCall(c) \/ StopAllCall(c)
  BY <1>1 DEF StartCall, HeartbeatCall, StopCall, StopAllCall, QueueFor, Quiet, tableVars,
     childVars
<1>2. CASE \/ StartConflict(c) \/ StartLaunch(c) \/ LaunchFails(c) \/ MonitorAwaited(c)
           \/ LifespanShutdown(c) \/ VoiceTimeout(c)
  BY <1>2 DEF StartConflict, StartLaunch, LaunchFails, MonitorAwaited, LifespanShutdown,
     VoiceTimeout, Quiet, tableVars, childVars
<1>3. CASE HeartbeatServed(c)
  <2>1. UNCHANGED <<running, launched, proc>>
    BY <1>3 DEF HeartbeatServed, childVars
  <2>2. \A r \in Runs : entry'[r] = entry[r] \/ entry'[r] = [entry[r] EXCEPT !.beat = now]
    BY <1>0, <1>3 DEF HeartbeatServed
  <2> QED  BY <2>1, <2>2, SameRoutine DEF Quiet
<1>4. CASE StopServed(c)
  <2>1. UNCHANGED <<running, launched, proc>>
    BY <1>4 DEF StopServed, childVars
  <2>2. \A r \in Runs : entry'[r] = entry[r] \/ entry'[r] = WithReason(r, "operator_request")
    BY <1>0, <1>4 DEF StopServed
  <2> QED  BY <2>1, <2>2, SameRoutine DEF Quiet
<1>5. CASE StopAllServed(c)
  <2>1. UNCHANGED <<running, launched, proc>>
    BY <1>5 DEF StopAllServed, childVars
  <2>2. \A r \in Runs : \E why : entry'[r] = entry[r] \/ entry'[r] = WithReason(r, why)
    BY <1>0, <1>5 DEF StopAllServed
  <2> QED  BY <2>1, <2>2, SameRoutine DEF Quiet
<1>6. CASE VoiceTimeoutInAwait(c)
  <2>1. UNCHANGED <<running, launched, proc>>
    BY <1>6 DEF VoiceTimeoutInAwait
  <2>2. \A r \in Runs : entry'[r] = entry[r] \/ entry'[r] = EntryAfterCancel(r)
    BY <1>0, <1>6 DEF VoiceTimeoutInAwait
  <2> QED  BY <2>1, <2>2, SameRoutine DEF Quiet
<1> QED  BY <1>1, <1>2, <1>3, <1>4, <1>5, <1>6 DEF CallStep

LEMMA RunStepQuiet ==
    ASSUME Inv, NEW r \in Runs, RunStep(r), ~CleanUp(r), ~ProcessExits(r)
    PROVE  Quiet
<1> USE DEF Inv
<1>0. entry \in [Runs -> EntryType]
  BY DEF TypeOK
<1>1. CASE MonitorStarts(r) \/ MonitorSeesExit(r) \/ LeaseRenewed(r)
  BY <1>1 DEF MonitorStarts, MonitorSeesExit, LeaseRenewed, Quiet, tableVars, childVars
<1>2. CASE LeaseLapses(r)
  <2>1. UNCHANGED <<running, launched, proc>>
    BY <1>2 DEF LeaseLapses, childVars
  <2>2. \A s \in Runs : entry'[s] = entry[s] \/ entry'[s] = WithReason(s, LapsedReason(s))
    BY <1>0, <1>2 DEF LeaseLapses
  <2> QED  BY <2>1, <2>2, SameRoutine DEF Quiet
<1>3. CASE \E t \in Calls \cup {r} : TerminateStep(t, r)
  BY <1>3 DEF TerminateStep, Interrupt, Kill, TerminateReturns, Quiet, tableVars
<1> QED  BY <1>1, <1>2, <1>3 DEF RunStep

(* A launch completes: its routine had no live run, for the lock was held    *)
(* since that was checked.                                                   *)
LEMMA LaunchDoneKeeps ==
    ASSUME Inv, TypeOK', NEW c \in Calls, LaunchDone(c)
    PROVE  Bookkeeping' /\ LaunchExclusive' /\ OneLiveProcess'
<1> DEFINE n == launched + 1
           x == call[c].routine
<1> USE DEF Inv
<1>1. /\ n \in Runs /\ launched \in Nat /\ x \in Routines /\ lock = c
      /\ ~IsRunning(x) /\ lock' = None
      /\ call \in [Calls -> CallType] /\ call' = [call EXCEPT ![c] = Idle]
  BY DEF LaunchDone, CallsKnow, LaunchExclusive, TypeOK
<1>2. /\ launched' = n
      /\ running' = [running EXCEPT ![x] = n] /\ running \in [Routines -> Runs \cup {None}]
      /\ proc' = [proc EXCEPT ![n] = "alive"]
      /\ proc \in [Runs -> {"unborn", "alive", "exited"}]
      /\ mon' = [mon EXCEPT ![n] = "new"] /\ DOMAIN mon = Runs
      /\ DOMAIN entry = Runs /\ entry'[n].routine = x
      /\ \A r \in Runs \ {n} : entry'[r] = entry[r]
  BY <1>1 DEF LaunchDone, TypeOK
<1>3. \A r \in Runs : proc[r] = "alive" => entry[r].routine # x
  BY <1>1, IdentityAssumption DEF OneLiveProcess, IsRunning, Runs
<1>4. proc[n] = "unborn"
  BY <1>1, <1>2 DEF Bookkeeping
<1>5. \A y \in Routines : running[y] # n
  <2>1. SUFFICES ASSUME NEW y \in Routines, running[y] = n PROVE FALSE
    OBVIOUS
  <2> QED  BY <2>1, <1>1, IdentityAssumption DEF Bookkeeping, Runs
<1>6. Bookkeeping'
  BY <1>1, <1>2, <1>4, <1>5, IdentityAssumption DEF Bookkeeping, Runs
<1>7. OneLiveProcess'
  <2>1. ASSUME NEW r \in Runs, proc'[r] = "alive"
        PROVE  running'[entry'[r].routine] = r
    <3>1. CASE r = n
      BY <1>1, <1>2, <3>1
    <3>2. CASE r # n
      <4>1. proc[r] = "alive" /\ entry'[r] = entry[r] /\ r <= launched
        BY <1>1, <1>2, <2>1, <3>2 DEF Bookkeeping, Runs
      <4>2. entry[r].routine \in Routines /\ entry[r].routine # x
        BY <1>3, <4>1 DEF Bookkeeping
      <4> QED  BY <1>2, <4>1, <4>2 DEF OneLiveProcess
    <3> QED  BY <3>1, <3>2
  <2> QED  BY <2>1 DEF OneLiveProcess
<1>8. LaunchExclusive'
  <2>1. \A d \in Calls : call'[d].pc # "launching"
    BY <1>1 DEF LaunchExclusive, Idle
  <2> QED  BY <2>1 DEF LaunchExclusive
<1> QED  BY <1>6, <1>7, <1>8

(* A child exits: nothing becomes alive. *)
LEMMA ProcessExitsKeeps ==
    ASSUME Inv, NEW r \in Runs, ProcessExits(r)
    PROVE  Bookkeeping' /\ LaunchExclusive' /\ OneLiveProcess'
<1>1. /\ UNCHANGED <<running, launched, entry, mon, call, lock>>
      /\ proc[r] = "alive" /\ proc' = [proc EXCEPT ![r] = "exited"] /\ DOMAIN proc = Runs
  BY DEF Inv, TypeOK, ProcessExits, taskVars, tableVars
<1>2. \A s \in Runs : /\ proc'[s] = "alive" => proc[s] = "alive"
                      /\ (proc'[s] = "unborn") <=> (proc[s] = "unborn")
                      /\ proc[s] = "exited" => proc'[s] = "exited"
  <2>1. ASSUME NEW s \in Runs PROVE proc'[s] = IF s = r THEN "exited" ELSE proc[s]
    BY <1>1
  <2>2. ASSUME NEW s \in Runs
        PROVE  /\ proc'[s] = "alive" => proc[s] = "alive"
               /\ (proc'[s] = "unborn") <=> (proc[s] = "unborn")
               /\ proc[s] = "exited" => proc'[s] = "exited"
    <3>1. CASE s = r
      BY <1>1, <2>1, <3>1
    <3>2. CASE s # r
      BY <2>1, <3>2
    <3> QED  BY <3>1, <3>2
  <2> QED  BY <2>2
<1>3. Bookkeeping'
  BY <1>1, <1>2 DEF Inv, Bookkeeping
<1>4. OneLiveProcess'
  BY <1>1, <1>2 DEF Inv, OneLiveProcess
<1>5. LaunchExclusive'
  <2>1. ASSUME NEW c \in Calls, call[c].pc = "launching"
        PROVE  lock = c /\ ~(IsRunning(call[c].routine))'
    <3>1. call[c].routine \in Routines /\ ~IsRunning(call[c].routine) /\ lock = c
      BY <2>1 DEF Inv, CallsKnow, LaunchExclusive
    <3>2. running[call[c].routine] # None => running[call[c].routine] \in Runs
      BY <3>1 DEF Inv, TypeOK
    <3> QED  BY <1>1, <1>2, <3>1, <3>2 DEF IsRunning
  <2> QED  BY <1>1, <2>1 DEF LaunchExclusive
<1> QED  BY <1>3, <1>4, <1>5

(* A monitor cleans up: it removes at most its own entry, whose child has    *)
(* exited.                                                                   *)
LEMMA CleanUpKeeps ==
    ASSUME Inv, NEW r \in Runs, CleanUp(r)
    PROVE  Bookkeeping' /\ LaunchExclusive' /\ OneLiveProcess'
<1>1. /\ UNCHANGED <<launched, entry, proc, call, lock>>
      /\ lock = None /\ proc[r] = "exited"
      /\ running \in [Routines -> Runs \cup {None}]
  BY DEF Inv, TypeOK, CleanUp, HasTurn, childVars, Bookkeeping
<1>2. \A x \in Routines : \/ running'[x] = running[x]
                          \/ running[x] = r /\ running'[x] = None
  <2>1. entry[r].routine \in Routines
    BY <1>1, BoundsAssumption DEF Inv, Bookkeeping, TypeOK, Runs
  <2>2. running' = IF running[entry[r].routine] = r
                   THEN [running EXCEPT ![entry[r].routine] = None] ELSE running
    BY DEF CleanUp
  <2>3. CASE running[entry[r].routine] = r
    <3>1. running' = [running EXCEPT ![entry[r].routine] = None]
      BY <2>2, <2>3
    <3> QED  BY <1>1, <2>1, <2>3, <3>1
  <2>4. CASE running[entry[r].routine] # r
    BY <2>2, <2>4
  <2> QED  BY <2>3, <2>4
<1>3. \A s \in Runs : mon'[s] = "cleanup" => mon[s] = "cleanup"
  BY DEF Inv, TypeOK, CleanUp
<1>4. Bookkeeping'
  BY <1>1, <1>2, <1>3 DEF Inv, Bookkeeping
<1>5. OneLiveProcess'
  <2>1. ASSUME NEW s \in Runs, proc[s] = "alive"
        PROVE  running'[entry[s].routine] = s
    <3>1. running[entry[s].routine] = s /\ s # r
      BY <1>1, <2>1 DEF Inv, OneLiveProcess
    <3>2. entry[s].routine \in Routines
      BY <2>1, BoundsAssumption DEF Inv, Bookkeeping, TypeOK, Runs
    <3> QED  BY <1>2, <3>1, <3>2
  <2> QED  BY <1>1, <2>1 DEF OneLiveProcess
<1>6. LaunchExclusive'
  BY <1>1, IdentityAssumption DEF Inv, LaunchExclusive
<1> QED  BY <1>4, <1>5, <1>6

(* The steps left keep the launches that hold the lock. *)
LEMMA QuietCallLaunch ==
    ASSUME Inv, NEW c \in Calls, CallStep(c), ~LaunchDone(c)
    PROVE  LaunchExclusive'
<1> USE DEF Inv
<1>0. call \in [Calls -> CallType] /\ Idle.pc = "idle"
  BY DEF TypeOK, Idle
<1>1. CASE StartLaunch(c)
  <2>1. /\ lock = None /\ lock' = c /\ ~IsRunning(call[c].routine)
        /\ UNCHANGED <<running, proc>>
        /\ call' = [call EXCEPT ![c].pc = "launching"]
    BY <1>1 DEF StartLaunch, Served, HasTurn, tableVars, childVars
  <2>2. \A d \in Calls : call'[d].pc = "launching" => d = c
    BY <1>0, <2>1, IdentityAssumption DEF LaunchExclusive
  <2>3. call'[c].routine = call[c].routine
    BY <1>0, <2>1 DEF CallType
  <2> QED  BY <2>1, <2>2, <2>3 DEF LaunchExclusive, IsRunning
<1>2. CASE ~StartLaunch(c)
  <2>1. Quiet
    BY CallStepQuiet
  <2>2. ASSUME NEW d \in Calls, call'[d].pc = "launching"
        PROVE  call[d].pc = "launching" /\ call'[d].routine = call[d].routine /\ lock' = d
    <3>1. \A e \in Calls \ {c} : call'[e] = call[e]
      BY <1>0, <1>2 DEF CallStep, StartCall, HeartbeatCall, StopCall, StopAllCall, QueueFor,
         StartConflict, LaunchFails, HeartbeatServed, StopServed, StopAllServed,
         MonitorAwaited, LifespanShutdown, VoiceTimeout, VoiceTimeoutInAwait
    <3>2. call'[c].pc # "launching"
      <4>1. CASE StartCall(c) \/ HeartbeatCall(c) \/ StopCall(c) \/ StopAllCall(c)
        <5>1. CASE StartCall(c)
          BY <1>0, <5>1 DEF StartCall, QueueFor, Idle
        <5>2. CASE HeartbeatCall(c)
          BY <1>0, <5>2 DEF HeartbeatCall, QueueFor, Idle
        <5>3. CASE StopCall(c)
          BY <1>0, <5>3 DEF StopCall, QueueFor, Idle
        <5>4. CASE StopAllCall(c)
          BY <1>0, <5>4 DEF StopAllCall, QueueFor, Idle
        <5> QED  BY <4>1, <5>1, <5>2, <5>3, <5>4
      <4>2. CASE \/ StartConflict(c) \/ LaunchFails(c) \/ HeartbeatServed(c)
                 \/ LifespanShutdown(c) \/ VoiceTimeout(c)
        BY <1>0, <4>2 DEF StartConflict, LaunchFails, HeartbeatServed, LifespanShutdown,
           VoiceTimeout, Idle
      <4>3. CASE StopServed(c) \/ StopAllServed(c) \/ MonitorAwaited(c)
        <5>1. call[c] \in CallType
          BY <1>0
        <5>2. CASE call' = [call EXCEPT ![c] = Idle]
          BY <1>0, <5>2
        <5>3. CASE StopServed(c) /\ call' # [call EXCEPT ![c] = Idle]
          <6>1. call' = [call EXCEPT ![c] =
                           [@ EXCEPT !.pc = "term", !.run = running[call[c].routine]]]
            BY <5>3 DEF StopServed
          <6> QED  BY <1>0, <5>1, <6>1 DEF CallType
        <5>4. CASE (StopAllServed(c) \/ MonitorAwaited(c)) /\ call' # [call EXCEPT ![c] = Idle]
          <6>1. PICK r, rest : call' = [call EXCEPT ![c] =
                           [@ EXCEPT !.pc = "term", !.run = r, !.todo = rest]]
            BY <5>4 DEF StopAllServed, MonitorAwaited
          <6> QED  BY <1>0, <5>1, <6>1 DEF CallType
        <5> QED  BY <4>3, <5>2, <5>3, <5>4
      <4>4. CASE VoiceTimeoutInAwait(c)
        BY <4>4 DEF VoiceTimeoutInAwait
      <4> QED  BY <1>2, <4>1, <4>2, <4>3, <4>4 DEF CallStep
    <3>3. d # c /\ call[d].pc = "launching" /\ lock = d
      BY <2>2, <3>1, <3>2 DEF LaunchExclusive
    <3>4. lock' = d
      BY <1>2, <3>3 DEF CallStep, StartCall, HeartbeatCall, StopCall, StopAllCall, QueueFor,
         StartConflict, LaunchFails, LaunchExclusive, HeartbeatServed, StopServed,
         StopAllServed, MonitorAwaited, LifespanShutdown, VoiceTimeout, VoiceTimeoutInAwait
    <3> QED  BY <3>1, <3>3, <3>4
  <2> QED  BY <2>1, <2>2, QuietLaunch
<1> QED  BY <1>1, <1>2

-----------------------------------------------------------------------------
(* The invariant is inductive. *)

LEMMA NextInv ==
    ASSUME Inv, [Next]_vars
    PROVE  Inv'
<1>1. TypeOK' /\ CallsKnow'
  BY NextTypes, NextKnows
<1>2. CASE \E c \in Calls : CallStep(c)
  <2>1. PICK c \in Calls : CallStep(c)
    BY <1>2
  <2>2. CASE LaunchDone(c)
    BY <1>1, <2>2, LaunchDoneKeeps DEF Inv
  <2>3. CASE ~LaunchDone(c)
    <3>1. Quiet /\ LaunchExclusive'
      BY <2>1, <2>3, CallStepQuiet, QuietCallLaunch
    <3>2. \A r \in Runs : mon'[r] = "cleanup" => mon[r] = "cleanup"
      <4>1. CASE \/ StartCall(c) \/ HeartbeatCall(c) \/ StopCall(c) \/ StopAllCall(c)
                 \/ StartConflict(c) \/ StartLaunch(c) \/ LaunchFails(c)
        BY <4>1 DEF StartCall, HeartbeatCall, StopCall, StopAllCall, QueueFor, StartConflict,
           StartLaunch, LaunchFails
      <4>2. CASE \/ HeartbeatServed(c) \/ StopServed(c) \/ StopAllServed(c)
                 \/ MonitorAwaited(c) \/ LifespanShutdown(c) \/ VoiceTimeout(c)
        BY <4>2 DEF HeartbeatServed, StopServed, StopAllServed, MonitorAwaited,
           LifespanShutdown, VoiceTimeout
      <4>3. CASE VoiceTimeoutInAwait(c)
        BY <4>3 DEF VoiceTimeoutInAwait, AfterCancel, Inv, TypeOK
      <4> QED  BY <2>1, <2>3, <4>1, <4>2, <4>3 DEF CallStep
    <3> QED  BY <1>1, <3>1, <3>2, QuietTable DEF Inv
  <2> QED  BY <2>2, <2>3
<1>3. CASE \E r \in Runs : RunStep(r)
  <2>1. PICK r \in Runs : RunStep(r)
    BY <1>3
  <2>2. CASE ProcessExits(r) \/ CleanUp(r)
    BY <1>1, <2>2, ProcessExitsKeeps, CleanUpKeeps DEF Inv
  <2>3. CASE ~ProcessExits(r) /\ ~CleanUp(r)
    <3>1. Quiet
      BY <2>1, <2>3, RunStepQuiet
    <3>2. \A s \in Runs : mon'[s] = "cleanup" => mon[s] = "cleanup" \/ proc[s] = "exited"
      BY <2>1, <2>3 DEF RunStep, MonitorStarts, MonitorSeesExit, LeaseLapses, LeaseRenewed,
         TerminateStep, Interrupt, Kill, TerminateReturns, LeaveTerminate, Inv, TypeOK
    <3>3. lock' = lock /\ \A c \in Calls : call'[c].pc = "launching" => call'[c] = call[c]
      BY <2>1, <2>3 DEF RunStep, MonitorStarts, MonitorSeesExit, LeaseLapses, LeaseRenewed,
         TerminateStep, Interrupt, Kill, TerminateReturns, LeaveTerminate, taskVars, Inv,
         TypeOK, CallType
    <3>4. LaunchExclusive'
      BY <3>1, <3>3, QuietLaunch DEF Inv, LaunchExclusive
    <3> QED  BY <1>1, <3>1, <3>2, <3>4, QuietTable DEF Inv
  <2> QED  BY <2>2, <2>3
<1>4. CASE LoopCancelled
  <2>1. Quiet
    BY <1>4, SameRoutine DEF LoopCancelled, Quiet, Inv
  <2>2. \A r \in Runs : mon'[r] # "cleanup"
    BY <1>4 DEF LoopCancelled, AfterCancel
  <2>3. \A c \in Calls : call'[c].pc # "launching"
    BY <1>4 DEF LoopCancelled, Idle
  <2> QED  BY <1>1, <2>1, <2>2, <2>3, QuietTable, QuietLaunch DEF Inv
<1>5. CASE Tick \/ Drain \/ UNCHANGED vars
  <2>1. Quiet /\ UNCHANGED <<mon, call, lock>>
    BY <1>5 DEF Tick, Drain, vars, Quiet, taskVars, tableVars, childVars
  <2> QED  BY <1>1, <2>1, QuietTable, QuietLaunch DEF Inv, LaunchExclusive
<1> QED  BY <1>2, <1>3, <1>4, <1>5 DEF Next, Finished

(* The inductive invariant of the supervisor: the types, the bookkeeping of  *)
(* requests, runs and table, and the exclusion of launches.                  *)
THEOREM SupervisorInvariant == Spec => []Inv
BY InitInv, NextInv, PTL DEF Spec

(* The supervisor's state always has its type (routine_manager.py).          *)
THEOREM TypeCorrect == Spec => []TypeOK
<1>1. Inv => TypeOK  BY DEF Inv
<1> QED  BY <1>1, SupervisorInvariant, PTL

(* A living process is always the one its routine's table entry names, so a  *)
(* routine never has two (lines 478-505 and 661-663).                        *)
THEOREM OneLiveProcessAlways == Spec => []OneLiveProcess
<1>1. Inv => OneLiveProcess  BY DEF Inv
<1> QED  BY <1>1, SupervisorInvariant, PTL

-----------------------------------------------------------------------------
(* The supervisor implements the slots of RoutineSlots. *)

Live == [x \in Routines |-> {r \in Runs : proc[r] = "alive" /\ entry[r].routine = x}]

(* A step that neither launches nor ends a process changes no slot. *)
LEMMA QuietSlots ==
    ASSUME Quiet
    PROVE  UNCHANGED <<Live, launched>>
BY DEF Quiet, Live

(* A launch that completes fills an empty slot with a run never used. *)
LEMMA LaunchBegins ==
    ASSUME Inv, NEW c \in Calls, LaunchDone(c)
    PROVE  \E x \in Routines, r \in Runs : Slots!Begin(x, r)
<1>a. launched + 1 \in Runs /\ call[c].routine \in Routines
  BY DEF LaunchDone, CallsKnow, Inv
<1>b. PICK x \in Routines : x = call[c].routine
  BY <1>a
<1>c. PICK n \in Runs : n = launched + 1
  BY <1>a
<1>0. launched \in Nat /\ ~IsRunning(x)
  BY <1>b DEF LaunchDone, LaunchExclusive, Inv, TypeOK
<1>1. /\ launched' = n /\ proc' = [proc EXCEPT ![n] = "alive"] /\ DOMAIN proc = Runs
      /\ DOMAIN entry = Runs /\ entry'[n].routine = x
      /\ \A r \in Runs \ {n} : entry'[r] = entry[r]
  BY <1>b, <1>c DEF LaunchDone, Inv, TypeOK
<1>2. \A r \in Runs : proc[r] = "alive" => entry[r].routine # x
  BY <1>0, IdentityAssumption DEF Inv, OneLiveProcess, IsRunning, Runs
<1>3. proc[n] # "alive" /\ \A r \in Runs \ {n} : proc'[r] = proc[r]
  BY <1>0, <1>1, <1>c DEF Inv, Bookkeeping
<1>4. Live[x] = {}
  BY <1>1, <1>2 DEF Live
<1>5. Live' = [Live EXCEPT ![x] = {n}]
  <2>1. ASSUME NEW y \in Routines
        PROVE  Live'[y] = IF y = x THEN {n} ELSE Live[y]
    <3>1. \A r \in Runs : proc'[r] = "alive" /\ entry'[r].routine = y
                 <=> IF r = n THEN y = x ELSE proc[r] = "alive" /\ entry[r].routine = y
      BY <1>1, <1>3
    <3> QED  BY <1>1, <1>2, <1>3, <3>1 DEF Live
  <2>2. /\ Live' = [y \in Routines |-> Live'[y]]
        /\ Live = [y \in Routines |-> Live[y]]
    BY DEF Live
  <2> QED  BY <2>1, <2>2
<1>6. n \notin 1 .. launched /\ 1 .. launched' = (1 .. launched) \cup {n}
  BY <1>0, <1>1, <1>c
<1>7. Slots!Begin(x, n)
  BY <1>4, <1>5, <1>6 DEF Slots!Begin, Live
<1> QED  BY <1>7

(* A child that exits empties the slot of its routine. *)
LEMMA ExitEnds ==
    ASSUME Inv, NEW r \in Runs, ProcessExits(r)
    PROVE  \E x \in Routines : Slots!End(x)
<1>1. /\ UNCHANGED <<launched, entry>> /\ proc[r] = "alive"
      /\ proc' = [proc EXCEPT ![r] = "exited"] /\ DOMAIN proc = Runs
  BY DEF Inv, TypeOK, ProcessExits, tableVars
<1>a. entry[r].routine \in Routines
  BY <1>1, BoundsAssumption DEF Inv, Bookkeeping, TypeOK, Runs
<1>2. PICK x \in Routines : x = entry[r].routine
  BY <1>a
<1>3. r \in Live[x]
  BY <1>1, <1>2 DEF Live
<1>4. \A s \in Runs : proc[s] = "alive" /\ entry[s].routine = x => s = r
  BY <1>1, <1>2 DEF Inv, OneLiveProcess
<1>5. Live' = [Live EXCEPT ![x] = {}]
  <2>1. ASSUME NEW y \in Routines
        PROVE  Live'[y] = IF y = x THEN {} ELSE Live[y]
    <3>1. \A s \in Runs : proc'[s] = "alive" <=> (s # r /\ proc[s] = "alive")
      BY <1>1
    <3> QED  BY <1>1, <1>2, <1>4, <3>1 DEF Live
  <2> QED  BY <1>2, <2>1 DEF Live
<1>6. Slots!End(x)
  BY <1>1, <1>3, <1>5 DEF Slots!End, Live
<1> QED  BY <1>6

LEMMA SlotsStep ==
    ASSUME Inv, [Next]_vars
    PROVE  [Slots!Next]_(Slots!vars)
<1>1. CASE \E c \in Calls : LaunchDone(c)
  BY <1>1, LaunchBegins DEF Slots!Next
<1>2. CASE \E r \in Runs : ProcessExits(r)
  BY <1>2, ExitEnds DEF Slots!Next
<1>3. CASE /\ ~\E c \in Calls : LaunchDone(c)
           /\ ~\E r \in Runs : ProcessExits(r)
  <2>1. UNCHANGED <<Live, launched>>
    <3>1. CASE \E c \in Calls : CallStep(c)
      BY <1>3, <3>1, CallStepQuiet, QuietSlots
    <3>2. CASE \E r \in Runs : CleanUp(r)
      BY <3>2 DEF CleanUp, childVars, Live
    <3>3. CASE (\E r \in Runs : RunStep(r)) /\ ~\E r \in Runs : CleanUp(r)
      BY <1>3, <3>3, RunStepQuiet, QuietSlots
    <3>4. CASE LoopCancelled
      <4>1. Quiet
        BY <3>4, SameRoutine DEF LoopCancelled, Quiet, Inv
      <4> QED  BY <4>1, QuietSlots
    <3>5. CASE Tick \/ Drain \/ Finished \/ UNCHANGED vars
      BY <3>5 DEF Tick, Drain, Finished, vars, tableVars, childVars, Live
    <3> QED  BY <3>1, <3>2, <3>3, <3>4, <3>5 DEF Next
  <2> QED  BY <2>1 DEF Slots!vars, Live
<1> QED  BY <1>1, <1>2, <1>3

LEMMA SlotsInit == Init => Slots!Init
BY DEF Init, Slots!Init

(* The supervisor implements RoutineSlots: a run begins only in an empty     *)
(* slot and never twice, whatever the callers, timers and exits interleave   *)
(* (routine_manager.py, lines 478-505).                                      *)
THEOREM ImplementsSlots == Spec => SlotsSpec
<1>1. Init => Slots!Init
  BY SlotsInit
<1>2. Inv /\ [Next]_vars => [Slots!Next]_(Slots!vars)
  BY SlotsStep
<1> QED  BY <1>1, <1>2, SupervisorInvariant, PTL DEF Spec, SlotsSpec, Slots!Spec

-----------------------------------------------------------------------------
(* Reasons.  Whoever terminates a run, or is about to, has given its entry a  *)
(* reason; a run not yet launched has none.                                  *)
ReasonsKnown ==
    /\ \A r \in Runs : r > launched => mon[r] = "none" /\ entry[r].reason = None
    /\ \A r \in Runs : mon[r] = "term" => entry[r].reason # None
    /\ \A c \in Calls : call[c].pc \in {"term", "await"} => entry[call[c].run].reason # None
    /\ \A c \in Calls : \A r \in call[c].todo : entry[r].reason # None

(* A step of these gives a run of the past its first reason, or none. *)
Reasons1 ==
    /\ launched' = launched
    /\ \A r \in Runs : \/ entry'[r].reason = entry[r].reason
                       \/ entry[r].reason = None /\ entry'[r].reason # None /\ r <= launched

LEMMA GivenReason ==
    ASSUME TypeOK, NEW r \in Runs, NEW why \in Reasons
    PROVE  /\ WithReason(r, why).reason # None
           /\ entry[r].reason # None => WithReason(r, why).reason = entry[r].reason
           /\ [entry[r] EXCEPT !.beat = now].reason = entry[r].reason
<1>1. entry[r] \in EntryType /\ why # None
  BY IdentityAssumption DEF TypeOK
<1>2. WithReason(r, why).reason = FirstReason(entry[r].reason, why)
  BY <1>1 DEF WithReason, EntryType
<1>3. [entry[r] EXCEPT !.beat = now].reason = entry[r].reason
  BY <1>1 DEF EntryType
<1> QED  BY <1>1, <1>2, <1>3 DEF FirstReason

LEMMA ReasonsStay ==
    ASSUME Inv, ReasonsKnown, Reasons1,
           \A r \in Runs : mon'[r] = mon[r] \/ (r <= launched /\ (mon'[r] = "term" => entry'[r].reason # None)),
           \A c \in Calls : call'[c].pc \in {"term", "await"} =>
               \/ call[c].pc \in {"term", "await"} /\ call'[c].run = call[c].run
               \/ entry'[call'[c].run].reason # None,
           \A c \in Calls : \A r \in call'[c].todo : r \in call[c].todo \/ entry'[r].reason # None
    PROVE  ReasonsKnown'
<1>1. \A r \in Runs : entry[r].reason # None => entry'[r].reason # None
  BY DEF Reasons1
<1>2. \A c \in Calls : call[c].todo \subseteq Runs
  BY DEF Inv, TypeOK, CallType
<1>3. \A r \in Runs : r > launched => ~(r <= launched)
  BY DEF Inv, TypeOK, Runs
<1>4. \A r \in Runs : r > launched' => mon'[r] = "none" /\ entry'[r].reason = None
  BY <1>3 DEF ReasonsKnown, Reasons1
<1>5. \A r \in Runs : mon'[r] = "term" => entry'[r].reason # None
  BY <1>1 DEF ReasonsKnown
<1>6. \A c \in Calls : call'[c].pc \in {"term", "await"} => entry'[call'[c].run].reason # None
  <2> SUFFICES ASSUME NEW c \in Calls, call[c].pc \in {"term", "await"}, call'[c].run = call[c].run
               PROVE  entry'[call'[c].run].reason # None
    OBVIOUS
  <2>1. call[c].run \in Runs /\ entry[call[c].run].reason # None
    BY DEF ReasonsKnown, Inv, CallsKnow
  <2> QED  BY <1>1, <2>1
<1>7. \A c \in Calls : \A r \in call'[c].todo : entry'[r].reason # None
  BY <1>1, <1>2 DEF ReasonsKnown
<1> QED  BY <1>4, <1>5, <1>6, <1>7 DEF ReasonsKnown

(* The entries of the table are of runs launched. *)
LEMMA RunningLaunched ==
    ASSUME Inv
    PROVE  /\ \A r \in RunningNow : r \in Runs /\ r <= launched
           /\ \A x \in Routines : IsRunning(x) => running[x] \in Runs /\ running[x] <= launched
BY DEF RunningNow, IsRunning, Inv, TypeOK, Bookkeeping

LEMMA CallStepReasons ==
    ASSUME Inv, ReasonsKnown, NEW c \in Calls, CallStep(c), ~LaunchDone(c)
    PROVE  ReasonsKnown' /\ Reasons1
<1>0. TypeOK /\ call \in [Calls -> CallType] /\ entry \in [Runs -> EntryType] /\ CallsKnow
      /\ Idle.pc = "idle" /\ Idle.todo = {}
  BY DEF Inv, TypeOK, Idle
<1>a. \A d \in Calls : call[d].todo \subseteq Runs
  BY <1>0 DEF CallType
<1>1. CASE StartCall(c) \/ HeartbeatCall(c) \/ StopCall(c) \/ StopAllCall(c) \/ LifespanShutdown(c)
  <2>1. UNCHANGED <<launched, entry, mon>>
    BY <1>1 DEF StartCall, HeartbeatCall, StopCall, StopAllCall, LifespanShutdown, QueueFor, tableVars
  <2>2. /\ call'[c].pc = "queued" /\ call'[c].todo = {}
        /\ \A d \in Calls \ {c} : call'[d] = call[d]
    <3>1. CASE StartCall(c)
      BY <1>0, <3>1 DEF StartCall, QueueFor, Idle
    <3>2. CASE HeartbeatCall(c)
      BY <1>0, <3>2 DEF HeartbeatCall, QueueFor, Idle
    <3>3. CASE StopCall(c)
      BY <1>0, <3>3 DEF StopCall, QueueFor, Idle
    <3>4. CASE StopAllCall(c) \/ LifespanShutdown(c)
      BY <1>0, <3>4 DEF StopAllCall, LifespanShutdown, QueueFor, Idle
    <3> QED  BY <1>1, <3>1, <3>2, <3>3, <3>4
  <2>3. Reasons1
    BY <2>1 DEF Reasons1
  <2> QED  BY <1>0, <2>1, <2>2, <2>3, ReasonsStay
<1>2. CASE StartConflict(c) \/ LaunchFails(c) \/ VoiceTimeout(c)
  <2>1. UNCHANGED <<launched, entry, mon>> /\ call' = [call EXCEPT ![c] = Idle]
    BY <1>2 DEF StartConflict, LaunchFails, VoiceTimeout, tableVars
  <2>2. Reasons1
    BY <2>1 DEF Reasons1
  <2> QED  BY <1>0, <2>1, <2>2, ReasonsStay
<1>3. CASE StartLaunch(c)
  <2>1. UNCHANGED <<launched, entry, mon>> /\ call' = [call EXCEPT ![c].pc = "launching"]
    BY <1>3 DEF StartLaunch, tableVars
  <2>2. Reasons1
    BY <2>1 DEF Reasons1
  <2>3. \A d \in Calls : /\ call'[d].todo = call[d].todo
                         /\ call'[d] = call[d] \/ call'[d].pc = "launching"
    BY <1>0, <2>1 DEF CallType
  <2> QED  BY <2>1, <2>2, <2>3, ReasonsStay
<1>4. CASE HeartbeatServed(c)
  <2>1. UNCHANGED <<launched, mon>> /\ call' = [call EXCEPT ![c] = Idle]
    BY <1>4 DEF HeartbeatServed
  <2>2. \A r \in Runs : entry'[r] = entry[r] \/ entry'[r] = [entry[r] EXCEPT !.beat = now]
    BY <1>0, <1>4 DEF HeartbeatServed
  <2>3. \A r \in Runs : entry'[r].reason = entry[r].reason
    <3>1. "operator_request" \in Reasons
      BY DEF Reasons
    <3> QED  BY <1>0, <2>2, <3>1, GivenReason
  <2>4. Reasons1
    BY <2>1, <2>3 DEF Reasons1
  <2> QED  BY <1>0, <2>1, <2>4, ReasonsStay
<1>5. CASE StopServed(c)
  <2> PICK x \in Routines : x = call[c].routine
    BY <1>0, <1>5 DEF StopServed, Served, CallsKnow
  <2>1. UNCHANGED <<launched, mon>>
    BY <1>5 DEF StopServed
  <2>2. CASE IsRunning(x)
    <3> PICK r \in Runs : r = running[x] /\ r <= launched
      BY <2>2, RunningLaunched
    <3>1. /\ entry' = [entry EXCEPT ![r] = WithReason(r, "operator_request")]
          /\ call' = [call EXCEPT ![c] = [call[c] EXCEPT !.pc = "term", !.run = r]]
      BY <1>5, <2>2 DEF StopServed
    <3>2. /\ entry'[r].reason # None /\ (entry[r].reason # None => entry'[r].reason = entry[r].reason)
          /\ \A s \in Runs \ {r} : entry'[s] = entry[s]
      BY <1>0, <3>1, GivenReason DEF Reasons
    <3>3. Reasons1
      BY <2>1, <3>2 DEF Reasons1
    <3>4. /\ call'[c].run = r /\ call'[c].todo = call[c].todo
          /\ \A d \in Calls \ {c} : call'[d] = call[d]
      BY <1>0, <3>1 DEF CallType
    <3>5. \A d \in Calls : call'[d].pc \in {"term", "await"} =>
               \/ call[d].pc \in {"term", "await"} /\ call'[d].run = call[d].run
               \/ entry'[call'[d].run].reason # None
      BY <3>2, <3>4
    <3> QED  BY <2>1, <3>3, <3>4, <3>5, ReasonsStay
  <2>3. CASE ~IsRunning(x)
    <3>1. call' = [call EXCEPT ![c] = Idle] /\ entry' = entry
      BY <1>5, <2>3 DEF StopServed
    <3>2. Reasons1
      BY <2>1, <3>1 DEF Reasons1
    <3> QED  BY <1>0, <2>1, <3>1, <3>2, ReasonsStay
  <2> QED  BY <2>2, <2>3
<1>6. CASE StopAllServed(c)
  <2> DEFINE why == IF call[c].op = "shutdown" THEN "server_shutdown" ELSE "operator_request"
  <2>1. UNCHANGED <<launched, mon>> /\ why \in Reasons
    BY <1>6 DEF StopAllServed, Reasons
  <2>2. entry' = [r \in Runs |-> IF r \in RunningNow THEN WithReason(r, why) ELSE entry[r]]
    BY <1>6 DEF StopAllServed
  <2> HIDE DEF why
  <2>3. \A r \in RunningNow : r \in Runs /\ entry'[r].reason # None
    BY <1>0, <2>1, <2>2, GivenReason, RunningLaunched
  <2>4. Reasons1
    <3>1. \A r \in Runs : \/ entry'[r].reason = entry[r].reason
                          \/ entry[r].reason = None /\ entry'[r].reason # None /\ r <= launched
      BY <1>0, <2>1, <2>2, GivenReason, RunningLaunched
    <3> QED  BY <2>1, <3>1 DEF Reasons1
  <2>5. CASE call' = [call EXCEPT ![c] = Idle]
    BY <1>0, <2>1, <2>4, <2>5, ReasonsStay
  <2>6. CASE call' # [call EXCEPT ![c] = Idle]
    <3>1. PICK r \in RunningNow :
              call' = [call EXCEPT ![c] = [call[c] EXCEPT !.pc = "term", !.run = r, !.todo = RunningNow \ {r}]]
      BY <1>6, <2>6 DEF StopAllServed
    <3>2. /\ call'[c].run = r /\ call'[c].todo = RunningNow \ {r}
          /\ \A d \in Calls \ {c} : call'[d] = call[d]
      BY <1>0, <3>1 DEF CallType
    <3>3. /\ \A d \in Calls : call'[d].pc \in {"term", "await"} =>
                 \/ call[d].pc \in {"term", "await"} /\ call'[d].run = call[d].run
                 \/ entry'[call'[d].run].reason # None
          /\ \A d \in Calls : \A s \in call'[d].todo : s \in call[d].todo \/ entry'[s].reason # None
      BY <2>3, <3>2
    <3> QED  BY <2>1, <2>4, <3>3, ReasonsStay
  <2> QED  BY <2>5, <2>6
<1>7. CASE MonitorAwaited(c)
  <2>1. UNCHANGED <<launched, mon, entry>>
    BY <1>7 DEF MonitorAwaited, tableVars
  <2>2. Reasons1
    BY <2>1 DEF Reasons1
  <2>3. CASE call' = [call EXCEPT ![c] = Idle]
    BY <1>0, <2>1, <2>2, <2>3, ReasonsStay
  <2>4. CASE call' # [call EXCEPT ![c] = Idle]
    <3>1. PICK r \in call[c].todo :
              call' = [call EXCEPT ![c] = [call[c] EXCEPT !.pc = "term", !.run = r, !.todo = call[c].todo \ {r}]]
      BY <1>7, <2>4 DEF MonitorAwaited
    <3>2. /\ call'[c].run = r /\ call'[c].todo = call[c].todo \ {r}
          /\ \A d \in Calls \ {c} : call'[d] = call[d]
      BY <1>0, <3>1 DEF CallType
    <3>3. entry'[r].reason # None
      BY <2>1 DEF ReasonsKnown
    <3>4. /\ \A d \in Calls : call'[d].pc \in {"term", "await"} =>
                 \/ call[d].pc \in {"term", "await"} /\ call'[d].run = call[d].run
                 \/ entry'[call'[d].run].reason # None
          /\ \A d \in Calls : \A s \in call'[d].todo : s \in call[d].todo \/ entry'[s].reason # None
      BY <3>2, <3>3
    <3> QED  BY <2>1, <2>2, <3>4, ReasonsStay
  <2> QED  BY <2>3, <2>4
<1>8. CASE VoiceTimeoutInAwait(c)
  <2> PICK r \in Runs : r = call[c].run
    BY <1>0, <1>8 DEF VoiceTimeoutInAwait, CallsKnow
  <2>1. /\ UNCHANGED <<launched, call>> /\ mon[r] # "none" /\ entry[r].reason # None
        /\ mon' = [mon EXCEPT ![r] = AfterCancel(mon[r])]
        /\ entry' = [entry EXCEPT ![r] = EntryAfterCancel(r)]
    BY <1>8 DEF VoiceTimeoutInAwait, ReasonsKnown
  <2>2. EntryAfterCancel(r).reason = entry[r].reason
    BY <1>0, <2>1, GivenReason DEF EntryAfterCancel, Reasons
  <2>3. \A s \in Runs : entry'[s].reason = entry[s].reason
    BY <1>0, <2>1, <2>2
  <2>4. Reasons1
    BY <2>1, <2>3 DEF Reasons1
  <2>5. r <= launched
    BY <2>1 DEF ReasonsKnown, Inv, TypeOK, Runs
  <2>6. \A s \in Runs : mon'[s] = mon[s] \/ (s <= launched /\ entry'[s].reason # None)
    BY <1>0, <2>1, <2>3, <2>5 DEF TypeOK
  <2> QED  BY <2>1, <2>4, <2>6, ReasonsStay
<1> QED  BY <1>1, <1>2, <1>3, <1>4, <1>5, <1>6, <1>7, <1>8 DEF CallStep

LEMMA LaunchReasons ==
    ASSUME Inv, ReasonsKnown, NEW c \in Calls, LaunchDone(c)
    PROVE  ReasonsKnown' /\ \A r \in Runs : entry[r].reason # None => entry'[r].reason = entry[r].reason
<1>0. /\ launched \in Nat /\ launched + 1 \in Runs /\ launched' = launched + 1
      /\ call \in [Calls -> CallType] /\ Idle.pc = "idle" /\ Idle.todo = {}
      /\ call' = [call EXCEPT ![c] = Idle]
  BY DEF LaunchDone, Inv, TypeOK, Idle
<1> PICK n \in Runs : n = launched + 1
  BY <1>0
<1>1. /\ mon' = [mon EXCEPT ![n] = "new"] /\ DOMAIN mon = Runs /\ DOMAIN entry = Runs
      /\ entry'[n].reason = None /\ \A r \in Runs \ {n} : entry'[r] = entry[r]
  BY DEF LaunchDone, Inv, TypeOK
<1>2. entry[n].reason = None
  BY <1>0 DEF ReasonsKnown
<1>3. \A r \in Runs : entry'[r].reason = entry[r].reason
  BY <1>1, <1>2
<1>4. \A r \in Runs : r > launched' => r > launched /\ r # n
  BY <1>0 DEF Runs
<1>5. \A d \in Calls : call'[d] = call[d] \/ call'[d] = Idle
  BY <1>0
<1>6. \A d \in Calls : /\ call[d].todo \subseteq Runs
                       /\ call[d].pc \in {"term", "await"} => call[d].run \in Runs
  BY <1>0 DEF CallType, Inv, CallsKnow
<1>7. \A r \in Runs : mon'[r] = IF r = n THEN "new" ELSE mon[r]
  BY <1>1
<1>8. ReasonsKnown'
  <2>1. \A d \in Calls : call'[d].pc \in {"term", "await"} => entry'[call'[d].run].reason # None
    BY <1>0, <1>3, <1>5, <1>6 DEF ReasonsKnown
  <2>2. \A d \in Calls : \A r \in call'[d].todo : entry'[r].reason # None
    BY <1>0, <1>3, <1>5, <1>6 DEF ReasonsKnown
  <2>3. \A r \in Runs : r > launched' => mon'[r] = "none" /\ entry'[r].reason = None
    BY <1>3, <1>4, <1>7 DEF ReasonsKnown
  <2>4. \A r \in Runs : mon'[r] = "term" => entry'[r].reason # None
    BY <1>3, <1>7 DEF ReasonsKnown
  <2> QED  BY <2>1, <2>2, <2>3, <2>4 DEF ReasonsKnown
<1> QED  BY <1>3, <1>8

LEMMA RunStepReasons ==
    ASSUME Inv, ReasonsKnown, NEW r \in Runs, RunStep(r)
    PROVE  ReasonsKnown' /\ Reasons1
<1>0. TypeOK /\ call \in [Calls -> CallType] /\ entry \in [Runs -> EntryType] /\ DOMAIN mon = Runs /\ CallsKnow
  BY DEF Inv, TypeOK
<1>a. mon[r] # "none" => r <= launched
  BY <1>0 DEF ReasonsKnown, TypeOK, Runs
<1>1. CASE MonitorStarts(r) \/ MonitorSeesExit(r) \/ LeaseRenewed(r) \/ CleanUp(r) \/ ProcessExits(r)
  <2>1. UNCHANGED <<launched, entry, call>>
    BY <1>1 DEF MonitorStarts, MonitorSeesExit, LeaseRenewed, CleanUp, ProcessExits, tableVars, taskVars
  <2>2. \A s \in Runs : mon'[s] = mon[s] \/ (s <= launched /\ mon'[s] # "term")
    BY <1>0, <1>1, <1>a DEF MonitorStarts, MonitorSeesExit, LeaseRenewed, CleanUp, ProcessExits
  <2>3. Reasons1
    BY <2>1 DEF Reasons1
  <2> QED  BY <2>1, <2>2, <2>3, ReasonsStay
<1>2. CASE LeaseLapses(r)
  <2>1. /\ UNCHANGED <<launched, call>> /\ mon[r] = "wait" /\ LapsedReason(r) # None
        /\ mon' = [mon EXCEPT ![r] = "term"]
        /\ entry' = [entry EXCEPT ![r] = WithReason(r, LapsedReason(r))]
    BY <1>2 DEF LeaseLapses, taskVars
  <2>2. LapsedReason(r) \in Reasons
    BY <2>1, LapseType
  <2>3. /\ entry'[r].reason # None /\ (entry[r].reason # None => entry'[r].reason = entry[r].reason)
        /\ \A s \in Runs \ {r} : entry'[s] = entry[s]
    BY <1>0, <2>1, <2>2, GivenReason
  <2>4. Reasons1
    BY <1>a, <2>1, <2>3 DEF Reasons1
  <2>5. \A s \in Runs : mon'[s] = mon[s] \/ (s <= launched /\ entry'[s].reason # None)
    BY <1>0, <1>a, <2>1, <2>3
  <2> QED  BY <2>1, <2>4, <2>5, ReasonsStay
<1>3. CASE \E t \in Calls \cup {r} : TerminateStep(t, r)
  <2>1. UNCHANGED <<launched, entry>>
    BY <1>3 DEF TerminateStep, Interrupt, Kill, TerminateReturns, tableVars
  <2>2. Reasons1
    BY <2>1 DEF Reasons1
  <2>3. \A s \in Runs : mon'[s] = mon[s] \/ (s <= launched /\ mon'[s] # "term")
    BY <1>0, <1>3, <1>a, IdentityAssumption
       DEF TerminateStep, Interrupt, Kill, TerminateReturns, LeaveTerminate, InTerminate
  <2>4. \A d \in Calls : /\ call'[d].todo = call[d].todo
                         /\ call'[d] = call[d] \/ (call[d].pc = "term" /\ call'[d].run = call[d].run)
    <3>1. CASE call' = call
      BY <3>1
    <3>2. CASE \E t \in Calls : call[t].pc = "term" /\ call' = [call EXCEPT ![t].pc = "await"]
      BY <1>0, <3>2 DEF CallType
    <3> QED
      BY <1>3, <3>1, <3>2, IdentityAssumption
         DEF TerminateStep, Interrupt, Kill, TerminateReturns, LeaveTerminate, InTerminate, taskVars
  <2> QED  BY <2>1, <2>2, <2>3, <2>4, ReasonsStay
<1> QED  BY <1>1, <1>2, <1>3 DEF RunStep

LEMMA CancelReasons ==
    ASSUME Inv, ReasonsKnown, LoopCancelled
    PROVE  ReasonsKnown' /\ Reasons1
<1>0. TypeOK /\ DOMAIN mon = Runs /\ Idle.pc = "idle" /\ Idle.todo = {}
  BY DEF Inv, TypeOK, Idle
<1>1. /\ launched' = launched /\ call' = [c \in Calls |-> Idle]
      /\ \A r \in Runs : mon'[r] = AfterCancel(mon[r]) /\ entry'[r] = EntryAfterCancel(r)
  BY DEF LoopCancelled
<1>2. \A r \in Runs : mon[r] # "none" => r <= launched
  BY <1>0 DEF ReasonsKnown, TypeOK, Runs
<1>3. \A r \in Runs : /\ entry[r].reason # None => entry'[r].reason = entry[r].reason
                      /\ mon[r] \in {"wait", "term"} => entry'[r].reason # None
                      /\ mon[r] \notin {"wait", "term"} => entry'[r] = entry[r]
  BY <1>0, <1>1, GivenReason DEF EntryAfterCancel, Reasons
<1>4. Reasons1
  BY <1>1, <1>2, <1>3 DEF Reasons1
<1>5. \A r \in Runs : mon'[r] = mon[r] \/ (r <= launched /\ (mon'[r] = "term" => entry'[r].reason # None))
  BY <1>1, <1>2, <1>3 DEF AfterCancel
<1> QED  BY <1>0, <1>1, <1>4, <1>5, ReasonsStay

LEMMA NextReasons ==
    ASSUME Inv, ReasonsKnown, [Next]_vars
    PROVE  ReasonsKnown' /\ \A r \in Runs : entry[r].reason # None => entry'[r].reason = entry[r].reason
<1>1. CASE \E c \in Calls : CallStep(c)
  BY <1>1, CallStepReasons, LaunchReasons DEF Reasons1
<1>2. CASE \E r \in Runs : RunStep(r)
  BY <1>2, RunStepReasons DEF Reasons1
<1>3. CASE LoopCancelled
  BY <1>3, CancelReasons DEF Reasons1
<1>4. CASE Tick \/ Drain \/ UNCHANGED vars
  <2>1. UNCHANGED <<launched, entry, mon, call>>
    BY <1>4 DEF Tick, Drain, vars, taskVars, tableVars
  <2>2. Reasons1
    BY <2>1 DEF Reasons1
  <2> QED  BY <2>1, <2>2, ReasonsStay
<1> QED  BY <1>1, <1>2, <1>3, <1>4 DEF Next, Finished

(* The reasons of the entries, beside the invariant of the supervisor. *)
THEOREM ReasonsInvariant == Spec => []ReasonsKnown
<1>1. Init => ReasonsKnown
  BY DEF Init, ReasonsKnown, Idle, Unborn
<1>2. Inv /\ ReasonsKnown /\ [Next]_vars => ReasonsKnown'
  BY NextReasons
<1> QED  BY <1>1, <1>2, SupervisorInvariant, PTL DEF Spec

(* Only a termination signals a run, and a run is terminated for a reason. *)
LEMMA SignalledForAReason ==
    ASSUME Inv, ReasonsKnown, [Next]_vars, NEW r \in Runs, sig'[r] # sig[r]
    PROVE  entry[r].reason # None
<1>1. \E s \in Runs : \E t \in Calls \cup {s} : Interrupt(t, s) \/ Kill(t, s)
  BY DEF Next, Finished, vars, CallStep, StartCall, HeartbeatCall, StopCall, StopAllCall, QueueFor,
     StartConflict, StartLaunch, LaunchFails, LaunchDone, HeartbeatServed, StopServed, StopAllServed,
     MonitorAwaited, LifespanShutdown, VoiceTimeout, VoiceTimeoutInAwait, RunStep, MonitorStarts,
     MonitorSeesExit, LeaseLapses, LeaseRenewed, CleanUp, ProcessExits, TerminateStep,
     TerminateReturns, Tick, Drain, LoopCancelled, childVars
<1>2. PICK s \in Runs, t \in Calls \cup Runs : InTerminate(t, s) /\ (Interrupt(t, s) \/ Kill(t, s))
  BY <1>1 DEF Interrupt, Kill
<1>3. s = r
  BY <1>2 DEF Interrupt, Kill, Inv, TypeOK
<1> QED  BY <1>2, <1>3 DEF InTerminate, ReasonsKnown

(* A run's stop is recorded under the first reason given, and a run is not    *)
(* signalled before it has one, however stops, the watchdog and the shutdown *)
(* meet (lines 555, 566, 652, 657).                                          *)
THEOREM FirstReasonKeptAlways == Spec => FirstReasonKept
<1> DEFINE Step == \A r \in Runs :
          /\ entry[r].reason # None => entry'[r].reason = entry[r].reason
          /\ sig'[r] # sig[r] => entry[r].reason # None
<1>1. Inv /\ ReasonsKnown /\ [Next]_vars => [Step]_vars
  BY NextReasons, SignalledForAReason
<1> QED  BY <1>1, SupervisorInvariant, ReasonsInvariant, PTL DEF Spec, FirstReasonKept

(* What other steps than the watchdog's write as a reason. *)
LEMMA OtherReasons ==
    ASSUME Inv, ReasonsKnown, [Next]_vars, NEW r \in Runs, ~LeaseLapses(r)
    PROVE  entry'[r].reason \in {entry[r].reason, "operator_request", "server_shutdown"}
<1>0. TypeOK /\ entry \in [Runs -> EntryType] /\ CallsKnow
  BY DEF Inv, TypeOK
<1>1. \A s \in Runs : \A why \in {"operator_request", "server_shutdown"} :
          /\ WithReason(s, why).reason \in {entry[s].reason, why}
          /\ [entry[s] EXCEPT !.beat = now].reason = entry[s].reason
  BY <1>0 DEF WithReason, FirstReason, EntryType
<1>2. EntryAfterCancel(r).reason \in {entry[r].reason, "server_shutdown"}
  BY <1>1 DEF EntryAfterCancel
<1>3. CASE \E c \in Calls : CallStep(c)
  <2> PICK c \in Calls : CallStep(c)
    BY <1>3
  <2>1. CASE LaunchDone(c)
    <3>1. launched + 1 \in Runs /\ launched \in Nat /\ entry'[launched + 1].reason = None
          /\ \A s \in Runs \ {launched + 1} : entry'[s] = entry[s]
      BY <1>0, <2>1 DEF LaunchDone, TypeOK
    <3>2. entry[launched + 1].reason = None
      BY <3>1 DEF ReasonsKnown
    <3> QED  BY <3>1, <3>2
  <2>2. CASE HeartbeatServed(c)
    <3>1. entry'[r] = entry[r] \/ entry'[r] = [entry[r] EXCEPT !.beat = now]
      BY <1>0, <2>2 DEF HeartbeatServed
    <3> QED  BY <1>1, <3>1
  <2>3. CASE StopServed(c)
    <3>1. entry'[r] = entry[r] \/ entry'[r] = WithReason(r, "operator_request")
      BY <1>0, <2>3 DEF StopServed
    <3> QED  BY <1>1, <3>1
  <2>4. CASE StopAllServed(c)
    <3>1. \/ entry'[r] = entry[r] \/ entry'[r] = WithReason(r, "operator_request")
          \/ entry'[r] = WithReason(r, "server_shutdown")
      BY <2>4 DEF StopAllServed
    <3> QED  BY <1>1, <3>1
  <2>5. CASE VoiceTimeoutInAwait(c)
    <3>1. entry'[r] = entry[r] \/ entry'[r] = EntryAfterCancel(r)
      BY <1>0, <2>5 DEF VoiceTimeoutInAwait, CallsKnow
    <3> QED  BY <1>2, <3>1
  <2>6. CASE \/ StartCall(c) \/ HeartbeatCall(c) \/ StopCall(c) \/ StopAllCall(c)
             \/ StartConflict(c) \/ StartLaunch(c) \/ LaunchFails(c) \/ MonitorAwaited(c)
             \/ LifespanShutdown(c) \/ VoiceTimeout(c)
    BY <2>6 DEF StartCall, HeartbeatCall, StopCall, StopAllCall, QueueFor, StartConflict,
       StartLaunch, LaunchFails, MonitorAwaited, LifespanShutdown, VoiceTimeout, tableVars
  <2> QED  BY <2>1, <2>2, <2>3, <2>4, <2>5, <2>6 DEF CallStep
<1>4. CASE \E s \in Runs : RunStep(s)
  <2> PICK s \in Runs : RunStep(s)
    BY <1>4
  <2>1. CASE LeaseLapses(s)
    BY <1>0, <2>1 DEF LeaseLapses
  <2>2. CASE ~LeaseLapses(s)
    BY <2>2 DEF RunStep, MonitorStarts, MonitorSeesExit, LeaseRenewed, CleanUp, ProcessExits,
       TerminateStep, Interrupt, Kill, TerminateReturns, tableVars
  <2> QED  BY <2>1, <2>2
<1>5. CASE LoopCancelled
  BY <1>2, <1>5 DEF LoopCancelled
<1>6. CASE Tick \/ Drain \/ UNCHANGED vars
  BY <1>6 DEF Tick, Drain, vars, tableVars
<1> QED  BY <1>3, <1>4, <1>5, <1>6 DEF Next, Finished

(* The watchdog's own step has just compared the clock with the lease as it is. *)
LEMMA LapseJustified ==
    ASSUME TypeOK, NEW r \in Runs, LeaseLapses(r), entry[r].reason # entry'[r].reason
    PROVE  /\ entry'[r].reason = "heartbeat_timeout" => now - entry[r].beat >= entry[r].window
           /\ entry'[r].reason = "max_duration_exceeded" => now - entry[r].started >= entry[r].cap
<1>1. /\ entry[r] \in EntryType /\ now \in Nat
      /\ entry'[r] = WithReason(r, LapsedReason(r)) /\ LapsedReason(r) # None
  BY DEF TypeOK, LeaseLapses
<1>2. entry'[r].reason = LapsedReason(r)
  BY <1>1 DEF WithReason, FirstReason, EntryType
<1>3. /\ entry[r].beat \in Nat /\ entry[r].window \in Nat /\ entry[r].started \in Nat
      /\ entry[r].cap \in Nat \cup {None}
  BY <1>1 DEF EntryType
<1>4. CASE CapReached(r)
  <2>1. now - entry[r].started >= entry[r].cap
    BY <1>1, <1>3, <1>4 DEF CapReached
  <2> QED  BY <1>2, <1>4, <2>1 DEF LapsedReason
<1>5. CASE ~CapReached(r)
  <2>1. BeatMissed(r) /\ entry'[r].reason = "heartbeat_timeout"
    BY <1>1, <1>2, <1>5 DEF LapsedReason
  <2>2. now - entry[r].beat >= entry[r].window
    BY <1>1, <1>3, <2>1 DEF BeatMissed
  <2> QED  BY <2>1, <2>2
<1> QED  BY <1>4, <1>5

(* The watchdog ends a run only on a lease that has lapsed at that moment,     *)
(* although it went to sleep on an older deadline (lines 641-655).           *)
THEOREM LapseIsJustifiedAlways == Spec => LapseIsJustified
<1> DEFINE Step == \A r \in Runs : entry[r].reason # entry'[r].reason =>
          /\ entry'[r].reason = "heartbeat_timeout" => now - entry[r].beat >= entry[r].window
          /\ entry'[r].reason = "max_duration_exceeded"
             => now - entry[r].started >= entry[r].cap
<1>1. Inv /\ ReasonsKnown /\ [Next]_vars => [Step]_vars
  BY OtherReasons, LapseJustified DEF Inv
<1> QED  BY <1>1, SupervisorInvariant, ReasonsInvariant, PTL DEF Spec, LapseIsJustified

-----------------------------------------------------------------------------
(* The queue of the lock, when no voice command is under way: a call waits in *)
(* it once, and only while it is queued.                                     *)
QueueKnown ==
    /\ \A i \in 1 .. Len(waiters) : waiters[i] \in Calls => call[waiters[i]].pc = "queued"
    /\ \A i, j \in 1 .. Len(waiters) : waiters[i] \in Calls /\ waiters[i] = waiters[j] => i = j

(* The call whose turn it is leaves the queue, and with it its place. *)
LEMMA TurnTaken ==
    ASSUME Inv, QueueKnown, NEW t \in Calls \cup Runs, HasTurn(t), waiters' = Tail(waiters),
           \A d \in Calls \ {t} : call'[d] = call[d]
    PROVE  QueueKnown' /\ (t \in Calls => call[t].pc = "queued")
<1>1. /\ waiters \in Seq(Calls \cup Runs) /\ waiters # <<>> /\ t = Head(waiters)
  BY DEF Inv, TypeOK, HasTurn
<1>2. /\ Tail(waiters) \in Seq(Calls \cup Runs) /\ Len(Tail(waiters)) = Len(waiters) - 1
      /\ \A i \in 1 .. Len(Tail(waiters)) : Tail(waiters)[i] = waiters[i + 1]
  BY <1>1, HeadTailProperties
<1>3. Len(waiters) \in Nat \ {0} /\ t = waiters[1]
  BY <1>1, LenProperties, EmptySeq
<1>4. \A i \in 1 .. Len(waiters') : i + 1 \in 1 .. Len(waiters) /\ i + 1 # 1 /\ waiters'[i] = waiters[i + 1]
  BY <1>2, <1>3
<1>5. \A i \in 1 .. Len(waiters') : waiters'[i] \in Calls => waiters'[i] # t
  BY <1>3, <1>4 DEF QueueKnown
<1>6. \A i \in 1 .. Len(waiters') : waiters'[i] \in Calls => call'[waiters'[i]].pc = "queued"
  BY <1>4, <1>5 DEF QueueKnown
<1>7. \A i, j \in 1 .. Len(waiters') : waiters'[i] \in Calls /\ waiters'[i] = waiters'[j] => i = j
  <2> SUFFICES ASSUME NEW i \in 1 .. Len(waiters'), NEW j \in 1 .. Len(waiters'),
                      waiters'[i] \in Calls, waiters'[i] = waiters'[j]
               PROVE  i = j
    OBVIOUS
  <2>1. i + 1 = j + 1
    BY <1>4 DEF QueueKnown
  <2> QED  BY <2>1, <1>2
<1>8. t \in Calls => call[t].pc = "queued"
  BY <1>3 DEF QueueKnown
<1> QED  BY <1>6, <1>7, <1>8 DEF QueueKnown

(* A task queues: a call that was not queued, or a monitor. *)
LEMMA QueuedUp ==
    ASSUME Inv, QueueKnown, NEW t \in Calls \cup Runs, waiters' = Append(waiters, t),
           t \in Calls => call[t].pc # "queued" /\ call'[t].pc = "queued",
           \A d \in Calls \ {t} : call'[d] = call[d]
    PROVE  QueueKnown'
<1>1. /\ waiters \in Seq(Calls \cup Runs) /\ Len(waiters) \in Nat
  BY LenProperties DEF Inv, TypeOK
<1>2. /\ Len(waiters') = Len(waiters) + 1 /\ waiters'[Len(waiters) + 1] = t
      /\ \A i \in 1 .. Len(waiters) : waiters'[i] = waiters[i]
  BY <1>1, AppendProperties
<1>3. \A i \in 1 .. Len(waiters') : i \in 1 .. Len(waiters) \/ i = Len(waiters) + 1
  BY <1>1, <1>2
<1>4. \A i \in 1 .. Len(waiters) : waiters[i] \in Calls => waiters[i] # t
  BY DEF QueueKnown
<1>5. \A i \in 1 .. Len(waiters') : waiters'[i] \in Calls => call'[waiters'[i]].pc = "queued"
  BY <1>2, <1>3, <1>4 DEF QueueKnown
<1>6. \A i, j \in 1 .. Len(waiters') : waiters'[i] \in Calls /\ waiters'[i] = waiters'[j] => i = j
  BY <1>2, <1>3, <1>4 DEF QueueKnown
<1> QED  BY <1>5, <1>6 DEF QueueKnown

(* A call that is not queued goes on. *)
LEMMA QueueStays ==
    ASSUME QueueKnown, waiters' = waiters,
           \A d \in Calls : call[d].pc = "queued" => call'[d].pc = "queued"
    PROVE  QueueKnown'
BY DEF QueueKnown

LEMMA CallStepQueue ==
    ASSUME Inv, QueueKnown, VoiceCalls = {}, NEW c \in Calls, CallStep(c)
    PROVE  /\ QueueKnown' /\ \A d \in Calls \ {c} : call'[d] = call[d]
           /\ HasTurn(c) /\ waiters' = Tail(waiters) => call[c].pc = "queued"
<1>0. call \in [Calls -> CallType] /\ Idle.pc = "idle"
  BY DEF Inv, TypeOK, Idle
<1>1. \A d \in Calls \ {c} : call'[d] = call[d]
  BY <1>0 DEF CallStep, StartCall, HeartbeatCall, StopCall, StopAllCall, QueueFor,
     StartConflict, StartLaunch, LaunchFails, LaunchDone, HeartbeatServed, StopServed, StopAllServed,
     MonitorAwaited, LifespanShutdown, VoiceTimeout, VoiceTimeoutInAwait
<1>2. CASE HasTurn(c) /\ waiters' = Tail(waiters)
  BY <1>1, <1>2, TurnTaken
<1>3. CASE ~(HasTurn(c) /\ waiters' = Tail(waiters))
  <2>1. ~\/ StartConflict(c) \/ StartLaunch(c) \/ HeartbeatServed(c) \/ StopServed(c) \/ StopAllServed(c)
         \/ VoiceTimeout(c) \/ VoiceTimeoutInAwait(c)
    BY <1>3 DEF StartConflict, StartLaunch, HeartbeatServed, StopServed, StopAllServed, Served,
       VoiceTimeout, VoiceTimeoutInAwait
  <2>2. CASE StartCall(c) \/ HeartbeatCall(c) \/ StopCall(c) \/ StopAllCall(c) \/ LifespanShutdown(c)
    <3>1. waiters' = Append(waiters, c) /\ call[c].pc = "idle"
      BY <2>2 DEF StartCall, HeartbeatCall, StopCall, StopAllCall, LifespanShutdown, MayCall, QueueFor
    <3>2. call'[c].pc = "queued"
      <4>1. CASE StartCall(c)
        BY <1>0, <4>1 DEF StartCall, QueueFor, Idle
      <4>2. CASE HeartbeatCall(c)
        BY <1>0, <4>2 DEF HeartbeatCall, QueueFor, Idle
      <4>3. CASE StopCall(c)
        BY <1>0, <4>3 DEF StopCall, QueueFor, Idle
      <4>4. CASE StopAllCall(c) \/ LifespanShutdown(c)
        BY <1>0, <4>4 DEF StopAllCall, LifespanShutdown, QueueFor, Idle
      <4> QED  BY <2>2, <4>1, <4>2, <4>3, <4>4
    <3>3. QueueKnown'
      BY <1>1, <3>1, <3>2, QueuedUp
    <3> QED  BY <1>1, <1>3, <3>3
  <2>3. CASE LaunchFails(c) \/ LaunchDone(c) \/ MonitorAwaited(c)
    <3>1. waiters' = waiters /\ call[c].pc # "queued"
      BY <2>3 DEF LaunchFails, LaunchDone, MonitorAwaited
    <3>2. QueueKnown'
      BY <1>1, <3>1, QueueStays
    <3> QED  BY <1>1, <1>3, <3>2
  <2> QED  BY <2>1, <2>2, <2>3 DEF CallStep
<1> QED  BY <1>2, <1>3

LEMMA NextQueue ==
    ASSUME Inv, QueueKnown, VoiceCalls = {}, [Next]_vars
    PROVE  QueueKnown'
<1>0. call \in [Calls -> CallType] /\ \A r \in Runs : r \notin Calls
  BY IdentityAssumption DEF Inv, TypeOK
<1>1. CASE \E c \in Calls : CallStep(c)
  BY <1>1, CallStepQueue
<1>2. CASE \E r \in Runs : RunStep(r)
  <2> PICK r \in Runs : RunStep(r)
    BY <1>2
  <2>1. CASE CleanUp(r)
    <3>1. HasTurn(r) /\ waiters' = Tail(waiters) /\ call' = call
      BY <2>1 DEF CleanUp
    <3> QED  BY <3>1, TurnTaken
  <2>2. CASE waiters' = Append(waiters, r) /\ call' = call
    BY <1>0, <2>2, QueuedUp
  <2>3. CASE waiters' = waiters /\ call' = call
    BY <2>3, QueueStays
  <2>4. CASE waiters' = waiters /\ \E t \in Calls : call[t].pc = "term" /\ call' = [call EXCEPT ![t].pc = "await"]
    <3>1. \A d \in Calls : call[d].pc = "queued" => call'[d] = call[d]
      BY <1>0, <2>4
    <3> QED  BY <2>4, <3>1, QueueStays
  <2> QED
    BY <1>0, <2>1, <2>2, <2>3, <2>4
       DEF RunStep, MonitorStarts, MonitorSeesExit, LeaseLapses, LeaseRenewed, ProcessExits, TerminateStep,
           Interrupt, Kill, TerminateReturns, LeaveTerminate, InTerminate, taskVars
<1>3. CASE LoopCancelled
  BY <1>3, EmptySeq DEF LoopCancelled, QueueKnown
<1>4. CASE UNCHANGED <<waiters, call>>
  BY <1>4, QueueStays
<1> QED  BY <1>1, <1>2, <1>3, <1>4 DEF Next, Tick, Drain, Finished, vars, taskVars

-----------------------------------------------------------------------------
(* The shutdown, when no voice command is under way.  Its call is then the    *)
(* only one: once it has the lock, what still lives is the run it terminates *)
(* and those it has yet to.                                                  *)
Shuts(c) ==
    /\ call[c].op = "shutdown" /\ call[c].pc \in {"queued", "term", "await"}
    /\ \A d \in Calls \ {c} : call[d].pc = "idle"
    /\ call[c].pc = "term" => \A r \in Runs : proc[r] = "alive" => r \in call[c].todo \cup {call[c].run}
    /\ call[c].pc = "await" => \A r \in Runs : proc[r] = "alive" => r \in call[c].todo
ShutsDown ==
    /\ gateway = "closing" => \E c \in Calls : Shuts(c)
    /\ gateway = "closed" => /\ \A c \in Calls : call[c].pc = "idle"
                             /\ \A r \in Runs : proc[r] # "alive"
    /\ gateway = "cancelled" => \A c \in Calls : call[c].pc = "idle"

LEMMA AliveRuns ==
    ASSUME Inv, NEW r \in Runs, proc[r] = "alive"
    PROVE  r \in RunningNow
<1>1. entry[r].routine \in Routines
  BY BoundsAssumption DEF Inv, Bookkeeping, TypeOK, Runs
<1>2. running[entry[r].routine] = r /\ r # None
  BY IdentityAssumption DEF Inv, OneLiveProcess, Runs
<1> QED  BY <1>1, <1>2 DEF RunningNow, IsRunning

LEMMA ShutsDownCall ==
    ASSUME Inv, QueueKnown, ShutsDown, VoiceCalls = {}, NEW c \in Calls, CallStep(c)
    PROVE  ShutsDown'
<1>0. TypeOK /\ CallsKnow /\ call \in [Calls -> CallType] /\ Idle.pc = "idle" /\ Idle.op = "none"
  BY DEF Inv, TypeOK, Idle
<1>1. ~VoiceTimeout(c) /\ ~VoiceTimeoutInAwait(c)
  BY DEF VoiceTimeout, VoiceTimeoutInAwait
<1>2. CASE gateway = "serving" \/ (gateway = "draining" /\ ~LifespanShutdown(c))
  <2>1. gateway' = gateway
    BY <1>1, <1>2 DEF CallStep, StartCall, HeartbeatCall, StopCall, StopAllCall, QueueFor,
       StartConflict, StartLaunch, LaunchFails, LaunchDone, HeartbeatServed, StopServed, StopAllServed,
       MonitorAwaited, LifespanShutdown
  <2> QED  BY <1>2, <2>1 DEF ShutsDown
<1>3. CASE LifespanShutdown(c)
  <2>1. /\ gateway' = "closing" /\ call'[c].op = "shutdown" /\ call'[c].pc = "queued"
        /\ \A d \in Calls \ {c} : call'[d].pc = "idle"
    BY <1>0, <1>3 DEF LifespanShutdown, Idle
  <2>2. Shuts(c)'
    BY <2>1 DEF Shuts
  <2> QED  BY <2>1, <2>2 DEF ShutsDown
<1>4. CASE gateway = "closing" /\ ~LifespanShutdown(c)
  <2> PICK e \in Calls : Shuts(e)
    BY <1>4 DEF ShutsDown
  <2>0. /\ call[e].op = "shutdown" /\ call[e].pc \in {"queued", "term", "await"} /\ call[e] \in CallType
        /\ \A d \in Calls \ {e} : call[d].pc = "idle"
    BY <1>0 DEF Shuts
  <2>1. CASE MonitorAwaited(c)
    <3>1. c = e /\ call[c].pc = "await"
      BY <2>0, <2>1 DEF MonitorAwaited
    <3>2. \A r \in Runs : proc[r] = "alive" => r \in call[c].todo
      BY <3>1 DEF Shuts
    <3>3. proc' = proc
      BY <2>1 DEF MonitorAwaited, childVars
    <3>4. CASE call[c].todo = {}
      <4>1. call' = [call EXCEPT ![c] = Idle] /\ gateway' = "closed"
        BY <1>4, <2>0, <2>1, <3>1, <3>4 DEF MonitorAwaited
      <4>2. \A d \in Calls : call'[d].pc = "idle"
        BY <1>0, <2>0, <3>1, <4>1
      <4> QED  BY <3>2, <3>3, <3>4, <4>1, <4>2 DEF ShutsDown
    <3>5. CASE call[c].todo # {}
      <4>1. PICK r \in call[c].todo :
                call' = [call EXCEPT ![c] = [call[c] EXCEPT !.pc = "term", !.run = r, !.todo = call[c].todo \ {r}]]
        BY <2>1, <3>5 DEF MonitorAwaited
      <4>2. /\ call'[c].pc = "term" /\ call'[c].run = r /\ call'[c].todo = call[c].todo \ {r}
            /\ call'[c].op = "shutdown" /\ \A d \in Calls \ {c} : call'[d] = call[d]
        BY <1>0, <2>0, <3>1, <4>1 DEF CallType
      <4>3. gateway' = gateway
        BY <2>1, <3>5 DEF MonitorAwaited
      <4>4. Shuts(c)'
        BY <2>0, <3>1, <3>2, <3>3, <4>2 DEF Shuts
      <4> QED  BY <1>4, <4>3, <4>4 DEF ShutsDown
    <3> QED  BY <3>4, <3>5
  <2>2. CASE StopAllServed(c) /\ call[c].pc = "queued"
    <3>1. c = e
      BY <2>0, <2>2
    <3>2. proc' = proc
      BY <2>2 DEF StopAllServed, childVars
    <3>3. CASE RunningNow = {}
      <4>1. call' = [call EXCEPT ![c] = Idle] /\ gateway' = "closed"
        BY <1>4, <2>0, <2>2, <3>1, <3>3 DEF StopAllServed
      <4>2. \A d \in Calls : call'[d].pc = "idle"
        BY <1>0, <2>0, <3>1, <4>1
      <4> QED  BY <3>2, <3>3, <4>1, <4>2, AliveRuns DEF ShutsDown
    <3>4. CASE RunningNow # {}
      <4>1. PICK r \in RunningNow :
                call' = [call EXCEPT ![c] = [call[c] EXCEPT !.pc = "term", !.run = r, !.todo = RunningNow \ {r}]]
        BY <2>2, <3>4 DEF StopAllServed
      <4>2. /\ call'[c].pc = "term" /\ call'[c].run = r /\ call'[c].todo = RunningNow \ {r}
            /\ call'[c].op = "shutdown" /\ \A d \in Calls \ {c} : call'[d] = call[d]
        BY <1>0, <2>0, <3>1, <4>1 DEF CallType
      <4>3. gateway' = gateway
        BY <2>2, <3>4 DEF StopAllServed
      <4>4. Shuts(c)'
        BY <2>0, <3>1, <3>2, <4>2, AliveRuns DEF Shuts
      <4> QED  BY <1>4, <4>3, <4>4 DEF ShutsDown
    <3> QED  BY <3>3, <3>4
  <2>3. ~\/ StartCall(c) \/ HeartbeatCall(c) \/ StopCall(c) \/ StopAllCall(c)
         \/ LaunchFails(c) \/ LaunchDone(c)
    BY <1>4, <2>0 DEF StartCall, HeartbeatCall, StopCall, StopAllCall, MayCall, LaunchFails, LaunchDone
  <2>4. HasTurn(c) /\ waiters' = Tail(waiters) => c = e /\ call[c].pc = "queued"
    BY <2>0, CallStepQueue
  <2>5. ~\/ StartConflict(c) \/ StartLaunch(c) \/ HeartbeatServed(c) \/ StopServed(c)
    BY <2>0, <2>4 DEF StartConflict, StartLaunch, HeartbeatServed, StopServed, Served
  <2>6. CASE StopAllServed(c)
    BY <2>2, <2>4, <2>6 DEF StopAllServed, Served
  <2> QED  BY <1>1, <1>4, <2>1, <2>3, <2>5, <2>6 DEF CallStep
<1>5. CASE gateway \in {"closed", "cancelled"} /\ ~LifespanShutdown(c)
  <2>1. \A d \in Calls : call[d].pc = "idle"
    BY <1>5 DEF ShutsDown
  <2>2. ~(HasTurn(c) /\ waiters' = Tail(waiters))
    BY <2>1, CallStepQueue
  <2>3. ~\/ StartConflict(c) \/ StartLaunch(c) \/ HeartbeatServed(c) \/ StopServed(c) \/ StopAllServed(c)
    BY <2>2 DEF StartConflict, StartLaunch, HeartbeatServed, StopServed, StopAllServed, Served
  <2>4. ~\/ StartCall(c) \/ HeartbeatCall(c) \/ StopCall(c) \/ StopAllCall(c)
         \/ LaunchFails(c) \/ LaunchDone(c) \/ MonitorAwaited(c)
    BY <1>5, <2>1
       DEF StartCall, HeartbeatCall, StopCall, StopAllCall, MayCall, LaunchFails, LaunchDone, MonitorAwaited
  <2> QED  BY <1>1, <1>5, <2>3, <2>4 DEF CallStep
<1> QED  BY <1>0, <1>2, <1>3, <1>4, <1>5 DEF TypeOK


(* A call goes from term to await, or a run changes its state. *)
LEMMA ShutsDownKept ==
    ASSUME Inv, ShutsDown, gateway' = gateway,
           \A r \in Runs : proc'[r] = "alive" => proc[r] = "alive",
           \A c \in Calls : \/ call'[c] = call[c]
                            \/ /\ call[c].pc = "term" /\ call'[c] = [call[c] EXCEPT !.pc = "await"]
                               /\ proc[call[c].run] = "exited"
    PROVE  ShutsDown'
<1>0. \A c \in Calls : call[c] \in CallType
  BY DEF Inv, TypeOK
<1>1. \A c \in Calls : /\ call[c].pc = "idle" => call'[c].pc = "idle"
                       /\ call'[c].op = call[c].op /\ call'[c].todo = call[c].todo
                       /\ call'[c].run = call[c].run
                       /\ call'[c].pc = call[c].pc
                          \/ (call[c].pc = "term" /\ call'[c].pc = "await" /\ proc[call[c].run] = "exited")
  <2> TAKE c \in Calls
  <2>1. CASE call'[c] = call[c]
    BY <2>1
  <2>2. CASE /\ call[c].pc = "term" /\ call'[c] = [call[c] EXCEPT !.pc = "await"]
             /\ proc[call[c].run] = "exited"
    <3>1. /\ call'[c].pc = "await" /\ call'[c].op = call[c].op /\ call'[c].todo = call[c].todo
          /\ call'[c].run = call[c].run
      BY <1>0, <2>2 DEF CallType
    <3> QED  BY <2>2, <3>1
  <2> QED  BY <2>1, <2>2
<1>2. \A c \in Calls : Shuts(c) => Shuts(c)'
  <2> SUFFICES ASSUME NEW c \in Calls, Shuts(c) PROVE Shuts(c)'
    OBVIOUS
  <2>1. /\ call'[c].op = "shutdown" /\ call'[c].pc \in {"queued", "term", "await"}
        /\ \A d \in Calls \ {c} : call'[d].pc = "idle"
    BY <1>1 DEF Shuts
  <2>2. CASE call'[c].pc = call[c].pc
    BY <1>1, <2>1, <2>2 DEF Shuts
  <2>3. CASE call[c].pc = "term" /\ call'[c].pc = "await" /\ proc[call[c].run] = "exited"
    <3>1. \A r \in Runs : proc[r] = "alive" => r \in call[c].todo
      BY <2>3 DEF Shuts
    <3> QED  BY <1>1, <2>1, <2>3, <3>1 DEF Shuts
  <2> QED  BY <1>1, <2>2, <2>3
<1> QED  BY <1>1, <1>2 DEF ShutsDown

LEMMA NextShutsDown ==
    ASSUME Inv, QueueKnown, ShutsDown, VoiceCalls = {}, [Next]_vars
    PROVE  ShutsDown'
<1>0. /\ call \in [Calls -> CallType] /\ proc \in [Runs -> {"unborn", "alive", "exited"}]
      /\ Idle.pc = "idle"
  BY DEF Inv, TypeOK, Idle
<1>1. CASE \E c \in Calls : CallStep(c)
  BY <1>1, ShutsDownCall
<1>2. CASE \E r \in Runs : RunStep(r)
  <2> PICK r \in Runs : RunStep(r)
    BY <1>2
  <2>1. CASE ProcessExits(r)
    <3>1. proc' = [proc EXCEPT ![r] = "exited"] /\ call' = call /\ gateway' = gateway
      BY <2>1 DEF ProcessExits, taskVars
    <3>2. \A s \in Runs : proc'[s] = "alive" => proc[s] = "alive"
      BY <1>0, <3>1
    <3> QED  BY <3>1, <3>2, ShutsDownKept
  <2>2. CASE call' = call /\ proc' = proc /\ gateway' = gateway
    BY <2>2, ShutsDownKept
  <2>3. ASSUME NEW t \in Calls \cup {r}, TerminateReturns(t, r)
        PROVE  ShutsDown'
    <3>1. proc' = proc /\ gateway' = gateway /\ proc[r] = "exited" /\ InTerminate(t, r)
      BY <2>3 DEF TerminateReturns
    <3>2. CASE t \in Calls /\ call' = [call EXCEPT ![t].pc = "await"]
      <4>1. call[t].pc = "term" /\ call[t].run = r
        BY <3>1, <3>2, IdentityAssumption DEF InTerminate
      <4>2. \A c \in Calls : call'[c] = call[c]
                             \/ (c = t /\ call'[c] = [call[c] EXCEPT !.pc = "await"])
        BY <1>0, <3>2
      <4> QED  BY <3>1, <4>1, <4>2, ShutsDownKept
    <3>3. CASE call' = call
      BY <3>1, <3>3, ShutsDownKept
    <3> QED  BY <2>3, <3>2, <3>3 DEF TerminateReturns, LeaveTerminate
  <2>4. CASE \/ MonitorStarts(r) \/ MonitorSeesExit(r) \/ LeaseLapses(r) \/ LeaseRenewed(r) \/ CleanUp(r)
             \/ \E t \in Calls \cup {r} : Interrupt(t, r) \/ Kill(t, r)
    BY <2>2, <2>4
       DEF MonitorStarts, MonitorSeesExit, LeaseLapses, LeaseRenewed, CleanUp, Interrupt, Kill,
           taskVars, childVars
  <2> QED  BY <2>1, <2>3, <2>4 DEF RunStep, TerminateStep
<1>3. CASE LoopCancelled
  <2>1. gateway' = "cancelled" /\ \A c \in Calls : call'[c].pc = "idle"
    BY <1>0, <1>3 DEF LoopCancelled
  <2> QED  BY <2>1 DEF ShutsDown
<1>4. CASE Drain
  <2>1. gateway' = "draining"
    BY <1>4 DEF Drain
  <2> QED  BY <2>1 DEF ShutsDown
<1>5. CASE Tick \/ UNCHANGED vars
  <2>1. call' = call /\ proc' = proc /\ gateway' = gateway
    BY <1>5 DEF Tick, vars, taskVars, childVars
  <2> QED  BY <2>1, ShutsDownKept
<1> QED  BY <1>1, <1>2, <1>3, <1>4, <1>5 DEF Next, Finished

(* What shutdown() promises holds as long as no voice command is under way:  *)
(* it waits for the lock behind every other call, so the routines it finds    *)
(* are all there are (the docstring of shutdown, lines 579-581).              *)
THEOREM NoneOrphanedWithoutVoice ==
    ASSUME VoiceCalls = {}
    PROVE  Spec => []NoneOrphaned
<1> DEFINE I == QueueKnown /\ ShutsDown
<1>1. Init => I
  BY DEF Init, QueueKnown, ShutsDown, EmptySeq
<1>2. Inv /\ I /\ [Next]_vars => I'
  BY NextQueue, NextShutsDown
<1>3. I => NoneOrphaned
  BY DEF ShutsDown, NoneOrphaned
<1> HIDE DEF I
<1> QED  BY <1>1, <1>2, <1>3, SupervisorInvariant, PTL DEF Spec

-----------------------------------------------------------------------------
(* What a monitor that is done has seen to. *)
DoneKnown ==
    /\ gateway # "cancelled" => \A r \in Runs : mon[r] # "lost"
    /\ \A r \in Runs : mon[r] = "done" =>
           proc[r] = "exited" /\ running[entry[r].routine] # r /\ recorded[r] = entry[r].reason

(* A step that ends no monitor and leaves the runs that are over alone. *)
LEMMA DoneStays ==
    ASSUME Inv, DoneKnown,
           gateway' # "cancelled" => gateway # "cancelled",
           \A r \in Runs : mon'[r] = "lost" => mon[r] = "lost" \/ gateway' = "cancelled",
           \A r \in Runs : mon'[r] = "done" => mon[r] = "done",
           \A r \in Runs : proc[r] = "exited" =>
               /\ proc'[r] = "exited" /\ recorded'[r] = recorded[r]
               /\ entry'[r].routine = entry[r].routine
               /\ mon[r] = "done" => entry'[r].reason = entry[r].reason,
           \A x \in Routines : running'[x] = running[x] \/ proc[running'[x]] = "unborn" \/ running'[x] = None
    PROVE  DoneKnown'
<1>1. \A r \in Runs : mon'[r] = "done" => running'[entry[r].routine] # r
  <2> SUFFICES ASSUME NEW r \in Runs, mon'[r] = "done" PROVE running'[entry[r].routine] # r
    OBVIOUS
  <2>1. /\ proc[r] = "exited" /\ running[entry[r].routine] # r /\ r # None
    BY IdentityAssumption DEF DoneKnown, Runs
  <2>2. entry[r].routine \in Routines
    BY <2>1, BoundsAssumption DEF Inv, Bookkeeping, TypeOK, Runs
  <2> QED  BY <2>1, <2>2
<1> QED  BY <1>1 DEF DoneKnown

(* A run that is over is in nobody's hands. *)
LEMMA OverAlone ==
    ASSUME Inv, NEW r \in Runs, proc[r] = "exited", mon[r] = "done"
    PROVE  r \notin RunningNow /\ EntryAfterCancel(r) = entry[r]
           /\ \A x \in Routines : IsRunning(x) => running[x] # r
BY DEF RunningNow, IsRunning, EntryAfterCancel

LEMMA CallStepDone ==
    ASSUME Inv, DoneKnown, VoiceCalls = {}, NEW c \in Calls, CallStep(c)
    PROVE  DoneKnown'
<1>0. /\ entry \in [Runs -> EntryType] /\ launched \in Nat /\ None \notin Runs
      /\ proc \in [Runs -> {"unborn", "alive", "exited"}] /\ mon \in [Runs -> {"none", "new", "wait", "term", "cleanup", "done", "lost"}]
      /\ running \in [Routines -> Runs \cup {None}]
  BY IdentityAssumption DEF Inv, TypeOK, Runs
<1>1. ~VoiceTimeout(c) /\ ~VoiceTimeoutInAwait(c)
  BY DEF VoiceTimeout, VoiceTimeoutInAwait
<1>2. CASE LaunchDone(c)
  <2> DEFINE n == launched + 1
  <2>1. /\ n \in Runs /\ proc[n] = "unborn"
        /\ gateway' = gateway /\ recorded' = recorded
        /\ mon' = [mon EXCEPT ![n] = "new"] /\ proc' = [proc EXCEPT ![n] = "alive"]
        /\ \A r \in Runs \ {n} : entry'[r] = entry[r]
        /\ running' = [running EXCEPT ![call[c].routine] = n]
    BY <1>0, <1>2 DEF LaunchDone, Inv, Bookkeeping
  <2>2. \A x \in Routines : running'[x] = running[x] \/ proc[running'[x]] = "unborn"
    BY <1>0, <2>1
  <2>3. \A r \in Runs : proc[r] = "exited" => r # n /\ proc'[r] = "exited" /\ entry'[r] = entry[r]
    BY <1>0, <2>1
  <2>4. \A r \in Runs : mon'[r] \in {"lost", "done"} => mon'[r] = mon[r]
    BY <1>0, <2>1
  <2> QED  BY <2>1, <2>2, <2>3, <2>4, DoneStays
<1>3. CASE ~LaunchDone(c)
  <2>1. Quiet
    BY <1>3, CallStepQuiet
  <2>2. gateway' # "cancelled" \/ gateway' = gateway
    BY <1>1, <1>3 DEF CallStep, StartCall, HeartbeatCall, StopCall, StopAllCall, QueueFor,
       StartConflict, StartLaunch, LaunchFails, HeartbeatServed, StopServed, StopAllServed,
       MonitorAwaited, LifespanShutdown
  <2>3. gateway' # "cancelled" => gateway # "cancelled"
    BY <1>1, <1>3 DEF CallStep, StartCall, HeartbeatCall, StopCall, StopAllCall, QueueFor,
       StartConflict, StartLaunch, LaunchFails, HeartbeatServed, StopServed, StopAllServed,
       MonitorAwaited, LifespanShutdown
  <2>4. mon' = mon /\ recorded' = recorded
    BY <1>1, <1>3 DEF CallStep, StartCall, HeartbeatCall, StopCall, StopAllCall, QueueFor,
       StartConflict, StartLaunch, LaunchFails, HeartbeatServed, StopServed, StopAllServed,
       MonitorAwaited, LifespanShutdown
  <2>5. \A r \in Runs : proc[r] = "exited" /\ mon[r] = "done" => entry'[r].reason = entry[r].reason
    <3> SUFFICES ASSUME NEW r \in Runs, proc[r] = "exited", mon[r] = "done"
                 PROVE  entry'[r].reason = entry[r].reason
      OBVIOUS
    <3>1. CASE HeartbeatServed(c)
      <4>1. entry'[r] = entry[r] \/ entry'[r] = [entry[r] EXCEPT !.beat = now]
        BY <1>0, <3>1 DEF HeartbeatServed
      <4>2. [entry[r] EXCEPT !.beat = now].reason = entry[r].reason
        BY <1>0 DEF EntryType
      <4> QED  BY <4>1, <4>2
    <3>2. CASE StopServed(c)
      <4>1. call[c].routine \in Routines
        BY <3>2 DEF StopServed, Served, Inv, CallsKnow
      <4>2. entry'[r] = entry[r]
        BY <1>0, <3>2, <4>1, OverAlone DEF StopServed
      <4> QED  BY <4>2
    <3>3. CASE StopAllServed(c)
      BY <3>3, OverAlone DEF StopAllServed
    <3>4. CASE ~HeartbeatServed(c) /\ ~StopServed(c) /\ ~StopAllServed(c)
      BY <1>1, <1>3, <3>4 DEF CallStep, StartCall, HeartbeatCall, StopCall, StopAllCall, QueueFor,
         StartConflict, StartLaunch, LaunchFails, MonitorAwaited, LifespanShutdown, tableVars
    <3> QED  BY <3>1, <3>2, <3>3, <3>4
  <2> QED  BY <2>1, <2>2, <2>3, <2>4, <2>5, DoneStays DEF Quiet
<1> QED  BY <1>2, <1>3

LEMMA NextDone ==
    ASSUME Inv, DoneKnown, VoiceCalls = {}, [Next]_vars
    PROVE  DoneKnown'
<1>0. /\ entry \in [Runs -> EntryType] /\ None \notin Runs
      /\ proc \in [Runs -> {"unborn", "alive", "exited"}]
      /\ mon \in [Runs -> {"none", "new", "wait", "term", "cleanup", "done", "lost"}]
      /\ running \in [Routines -> Runs \cup {None}]
      /\ recorded \in [Runs -> Reasons \cup {None}]
  BY IdentityAssumption DEF Inv, TypeOK, Runs
<1>1. CASE \E c \in Calls : CallStep(c)
  BY <1>1, CallStepDone
<1>2. CASE \E s \in Runs : RunStep(s)
  <2> PICK s \in Runs : RunStep(s)
    BY <1>2
  <2>1. CASE CleanUp(s)
    <3> DEFINE x == entry[s].routine
    <3>1. /\ mon[s] = "cleanup" /\ proc[s] = "exited" /\ UNCHANGED <<gateway, entry, proc>>
          /\ mon' = [mon EXCEPT ![s] = "done"]
          /\ recorded' = [recorded EXCEPT ![s] = entry[s].reason]
          /\ running' = IF running[x] = s THEN [running EXCEPT ![x] = None] ELSE running
      BY <2>1 DEF CleanUp, childVars, Inv, Bookkeeping
    <3>2. x \in Routines
      BY <3>1, BoundsAssumption DEF Inv, Bookkeeping, TypeOK, Runs
    <3>3. running'[x] # s /\ \A y \in Routines : running'[y] = running[y] \/ running'[y] = None
      BY <1>0, <3>1, <3>2
    <3>4. \A r \in Runs \ {s} : mon'[r] = mon[r] /\ recorded'[r] = recorded[r]
      BY <1>0, <3>1
    <3>5. ASSUME NEW r \in Runs \ {s}, mon'[r] = "done"
          PROVE  proc'[r] = "exited" /\ running'[entry'[r].routine] # r /\ recorded'[r] = entry'[r].reason
      <4>1. proc[r] = "exited" /\ running[entry[r].routine] # r /\ recorded[r] = entry[r].reason
        BY <3>4, <3>5 DEF DoneKnown
      <4>2. entry[r].routine \in Routines
        BY <4>1, BoundsAssumption DEF Inv, Bookkeeping, TypeOK, Runs
      <4> QED  BY <1>0, <3>1, <3>3, <3>4, <4>1, <4>2
    <3>6. proc'[s] = "exited" /\ running'[entry'[s].routine] # s /\ recorded'[s] = entry'[s].reason
      BY <1>0, <3>1, <3>3
    <3>7. gateway' # "cancelled" => \A r \in Runs : mon'[r] # "lost"
      BY <1>0, <3>1, <3>4 DEF DoneKnown
    <3> QED  BY <3>5, <3>6, <3>7 DEF DoneKnown
  <2>2. CASE ProcessExits(s)
    <3>1. /\ UNCHANGED <<gateway, running, entry, mon, recorded>>
          /\ \A r \in Runs : proc[r] = "exited" => proc'[r] = "exited"
      BY <1>0, <2>2 DEF ProcessExits, tableVars
    <3> QED  BY <3>1, DoneStays
  <2>3. CASE ~CleanUp(s) /\ ~ProcessExits(s)
    <3>1. Quiet
      BY <2>3, RunStepQuiet
    <3>2. gateway' = gateway /\ recorded' = recorded
      BY <2>3 DEF RunStep, MonitorStarts, MonitorSeesExit, LeaseLapses, LeaseRenewed, TerminateStep,
         Interrupt, Kill, TerminateReturns
    <3>3. \/ mon' = mon
          \/ \E m \in {"wait", "cleanup", "term"} : mon' = [mon EXCEPT ![s] = m]
      BY <2>3 DEF RunStep, MonitorStarts, MonitorSeesExit, LeaseLapses, LeaseRenewed, TerminateStep,
         Interrupt, Kill, TerminateReturns, LeaveTerminate
    <3>4. \A r \in Runs : mon'[r] \in {"done", "lost"} => mon'[r] = mon[r]
      BY <1>0, <3>3
    <3>5. \A r \in Runs : mon[r] = "done" => entry'[r] = entry[r]
      BY <1>0, <2>3 DEF RunStep, MonitorStarts, MonitorSeesExit, LeaseLapses, LeaseRenewed,
         TerminateStep, Interrupt, Kill, TerminateReturns, tableVars
    <3> QED  BY <3>1, <3>2, <3>4, <3>5, DoneStays DEF Quiet
  <2> QED  BY <2>1, <2>2, <2>3
<1>3. CASE LoopCancelled
  <2>1. /\ UNCHANGED <<running, proc, recorded>> /\ gateway' = "cancelled"
        /\ \A r \in Runs : mon'[r] = AfterCancel(mon[r]) /\ entry'[r] = EntryAfterCancel(r)
    BY <1>3 DEF LoopCancelled
  <2>2. \A r \in Runs : /\ mon'[r] = "done" => mon[r] = "done"
                        /\ entry'[r].routine = entry[r].routine
                        /\ mon[r] = "done" => entry'[r] = entry[r]
    BY <1>0, <2>1, SameRoutine DEF AfterCancel, EntryAfterCancel, Inv
  <2> QED  BY <2>1, <2>2, DoneStays
<1>4. CASE Tick \/ Drain \/ UNCHANGED vars
  <2>1. UNCHANGED <<running, entry, proc, mon, recorded>>
        /\ (gateway' = gateway \/ (gateway' = "draining" /\ gateway = "serving"))
    BY <1>4 DEF Tick, Drain, vars, tableVars, childVars
  <2> QED  BY <2>1, DoneStays
<1> QED  BY <1>1, <1>2, <1>3, <1>4 DEF Next, Finished

LEMMA ReplyIsFinal ==
    ASSUME Inv, ReasonsKnown, QueueKnown, DoneKnown, VoiceCalls = {}, Next, NEW c \in Calls,
           call[c].pc = "await", call'[c].pc # "await", gateway' # "cancelled"
    PROVE  LET r == call[c].run
           IN  /\ proc[r] = "exited"
               /\ running[entry[r].routine] # r
               /\ recorded[r] = entry[r].reason /\ recorded[r] # None
<1>0. call \in [Calls -> CallType] /\ call[c].run \in Runs /\ entry[call[c].run].reason # None
  BY DEF Inv, TypeOK, CallsKnow, ReasonsKnown
<1>1. CASE CallStep(c)
  <2>1. ~(HasTurn(c) /\ waiters' = Tail(waiters))
    BY <1>1, CallStepQueue
  <2>2. ~\/ StartConflict(c) \/ StartLaunch(c) \/ HeartbeatServed(c) \/ StopServed(c) \/ StopAllServed(c)
    BY <2>1 DEF StartConflict, StartLaunch, HeartbeatServed, StopServed, StopAllServed, Served
  <2>3. ~\/ StartCall(c) \/ HeartbeatCall(c) \/ StopCall(c) \/ StopAllCall(c)
         \/ LaunchFails(c) \/ LaunchDone(c) \/ LifespanShutdown(c)
         \/ VoiceTimeout(c) \/ VoiceTimeoutInAwait(c)
    BY DEF StartCall, HeartbeatCall, StopCall, StopAllCall, MayCall, LaunchFails, LaunchDone,
       LifespanShutdown, VoiceTimeout, VoiceTimeoutInAwait
  <2>4. MonitorAwaited(c)
    BY <1>1, <2>2, <2>3 DEF CallStep
  <2>5. gateway # "cancelled"
    BY <2>4 DEF MonitorAwaited
  <2>6. mon[call[c].run] = "done"
    BY <1>0, <2>4, <2>5 DEF MonitorAwaited, DoneKnown
  <2> QED  BY <1>0, <2>6 DEF DoneKnown
<1>2. ASSUME NEW d \in Calls \ {c}, CallStep(d)
      PROVE  FALSE
  <2>1. call'[c] = call[c]
    BY <1>2, CallStepQueue
  <2> QED  BY <2>1
<1>3. ASSUME NEW r \in Runs, RunStep(r)
      PROVE  FALSE
  <2>1. call' = call \/ \E t \in Calls : call' = [call EXCEPT ![t].pc = "await"]
    BY <1>3 DEF RunStep, MonitorStarts, MonitorSeesExit, LeaseLapses, LeaseRenewed, CleanUp,
       ProcessExits, TerminateStep, Interrupt, Kill, TerminateReturns, LeaveTerminate, taskVars
  <2>2. call'[c] = call[c] \/ call'[c] = [call[c] EXCEPT !.pc = "await"]
    BY <1>0, <2>1
  <2>3. [call[c] EXCEPT !.pc = "await"].pc = "await"
    BY <1>0 DEF CallType
  <2> QED  BY <2>2, <2>3
<1>4. ~LoopCancelled /\ ~Tick /\ ~Drain /\ ~Finished
  BY DEF LoopCancelled, Tick, Drain, Finished, taskVars, vars
<1> QED  BY <1>1, <1>2, <1>3, <1>4 DEF Next

(* Without voice commands to time out, no monitor is lost, and a caller that  *)
(* has awaited one finds the run ended, unlisted and recorded (lines 556-557  *)
(* and 567-569).                                                             *)
THEOREM StopReplyIsFinalWithoutVoice ==
    ASSUME VoiceCalls = {}
    PROVE  Spec => StopReplyIsFinal
<1> DEFINE I == QueueKnown /\ DoneKnown
           Final(c) == LET r == call[c].run
                       IN  call[c].pc = "await" /\ call'[c].pc # "await" /\ gateway' # "cancelled"
                           => /\ proc[r] = "exited"
                              /\ running[entry[r].routine] # r
                              /\ recorded[r] = entry[r].reason /\ recorded[r] # None
           Step == \A c \in Calls : Final(c)
<1>1. Init => I
  BY DEF Init, QueueKnown, DoneKnown, EmptySeq
<1>2. Inv /\ I /\ [Next]_vars => I'
  BY NextQueue, NextDone
<1>3. Inv /\ I /\ ReasonsKnown /\ [Next]_vars => [Step]_vars
  BY ReplyIsFinal
<1>4. [][Step]_vars <=> StopReplyIsFinal
  BY DEF StopReplyIsFinal
<1> HIDE DEF I, Step
<1> QED  BY <1>1, <1>2, <1>3, <1>4, SupervisorInvariant, ReasonsInvariant, PTL DEF Spec

=============================================================================
