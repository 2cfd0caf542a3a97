------------------------- MODULE WakeListenerProofs -------------------------
(***************************************************************************)
(* Proofs about the wake-word listener, for any number of configuration and *)
(* recording requests, listener threads and capture streams.                *)
(***************************************************************************)
EXTENDS WakeListener, FiniteSetTheorems, TLAPS

(* Threads start in order, and the listener and its requests know started    *)
(* ones only; a request that has joined its thread may forget it.            *)
ThreadsKnown ==
    /\ \A t \in Threads : pc[t] = "unborn" <=> t > launched
    /\ current # None => current <= launched
    /\ \A p \in Puts :
          LET t == put[p].thread
          IN  /\ t # None => t <= launched
              /\ put[p].pc = "forget" => ~Alive(t) \/ t \in abandoned

(* The stream that _stream refers to is one of those open on the device. *)
HeldIsOpen == held => mic > 0

(* The points of a conversation, or before an opening, at which a thread has *)
(* its stream closed.                                                        *)
Quiet == {"opening", "reopening", "turn", "dispatch", "await"}

(* What a thread speaks ends, or outlives its wait, before it goes on. *)
SpeechTold == \A t \in Threads : speech[t] = "plays" => pc[t] \in {"dispatch", "await"}

(* With no thread given up, a thread at such a point has it closed. *)
StreamsTold ==
    abandoned = {} =>
        /\ closed = ~held
        /\ mic = IF held THEN 1 ELSE 0
        /\ \A t \in Threads :
              pc[t] \in Quiet => ~held

Inv == TypeOK /\ ThreadsKnown /\ OneListener /\ HeldIsOpen /\ StreamsTold /\ SpeechTold

-----------------------------------------------------------------------------
LEMMA InitInv == Init => Inv
<1> SUFFICES ASSUME Init PROVE Inv
  OBVIOUS
<1>1. TypeOK
  <2>1. Idle \in PutType
    BY DEF Idle, PutType
  <2>2. /\ pc \in [Threads -> Points] /\ put \in [Puts -> PutType]
        /\ speech \in [Threads -> {"none", "plays", "outlived"}]
    BY <2>1 DEF Init, Points
  <2>3. rec \in [Recs -> {"idle", "pausing", "released", "unreleased", "stopping"}]
    BY DEF Init
  <2>4. launched \in 0 .. MaxThreads /\ mic \in 0 .. MaxStreams
    BY ThreadsAssumption DEF Init
  <2>5. /\ current \in Threads \cup {None} /\ hears \subseteq Threads
        /\ abandoned \subseteq Threads /\ recording \in BOOLEAN /\ serving \in BOOLEAN
        /\ enabled \in BOOLEAN /\ stop \in BOOLEAN /\ paused \in BOOLEAN
        /\ closed \in BOOLEAN /\ held \in BOOLEAN
    BY DEF Init
  <2> QED  BY <2>2, <2>3, <2>4, <2>5 DEF TypeOK
<1>2. ThreadsKnown
  BY ThreadsAssumption DEF Init, ThreadsKnown, Idle, Threads
<1> QED
  BY <1>1, <1>2 DEF Init, Inv, OneListener, Alive, HeldIsOpen, StreamsTold, SpeechTold

(* A thread's step touches neither the requests nor the table of threads. *)
LEMMA ThreadStepTypes ==
    ASSUME TypeOK, HeldIsOpen, NEW t \in Threads, ThreadStep(t)
    PROVE  TypeOK' /\ HeldIsOpen'
<1> USE DEF TypeOK, HeldIsOpen, restVars, GoTo
<1>0. pc' \in [Threads -> Points]
  BY DEF ThreadStep, SetUp, SetUpFails, Ends, Parks, Unparks, Listens, Opens, OpenFails,
     StopsListening, ReadFails, Wakes, Turns, Captured, SpeakAsync, Answered, SpeechJoined, SpeechOutlives,
     Resumes, Crashes, Points
<1>s. speech' \in [Threads -> {"none", "plays", "outlived"}]
  BY DEF ThreadStep, SetUp, SetUpFails, Ends, Parks, Unparks, Listens, Opens, OpenFails,
     StopsListening, ReadFails, Wakes, Turns, Captured, SpeakAsync, Answered, SpeechJoined,
     SpeechOutlives, Crashes
<1>1. CASE SetUp(t) \/ SetUpFails(t)
  <2>1. hears' \subseteq Threads /\ enabled' \in BOOLEAN
    BY <1>1 DEF SetUp, SetUpFails, flagVars
  <2>2. UNCHANGED <<launched, current, stop, paused, closed, held, mic, put, rec, recording,
                    serving, abandoned>>
    BY <1>1 DEF SetUp, SetUpFails, flagVars, micVars
  <2> QED  BY <1>0, <1>s, <2>1, <2>2
<1>2. CASE Ends(t) \/ Parks(t) \/ ReadFails(t) \/ Wakes(t) \/ Captured(t) \/ Crashes(t)
  <2>1. closed' = TRUE /\ held' = FALSE /\ mic' \in 0 .. MaxStreams
    BY <1>2, ThreadsAssumption DEF Ends, Parks, ReadFails, Wakes, Captured, Crashes, CloseStream
  <2>2. hears' \subseteq Threads /\ enabled' \in BOOLEAN
    BY <1>2 DEF Ends, Parks, ReadFails, Wakes, Captured, Crashes, flagVars
  <2> QED
    BY <1>0, <1>s, <1>2, <2>1, <2>2 DEF Ends, Parks, ReadFails, Wakes, Captured, Crashes, flagVars
<1>3. CASE Unparks(t) \/ Listens(t) \/ OpenFails(t) \/ StopsListening(t) \/ Turns(t)
           \/ Answered(t) \/ SpeechJoined(t) \/ SpeechOutlives(t)
  BY <1>0, <1>s, <1>3 DEF Unparks, Listens, OpenFails, StopsListening, Turns, Answered,
     SpeechJoined, SpeechOutlives, flagVars, micVars
<1>4. CASE Opens(t)
  <2>1. closed' = FALSE /\ held' = TRUE /\ mic' \in 0 .. MaxStreams /\ mic' > 0
    BY <1>4, ThreadsAssumption DEF Opens, OpenStream
  <2>2. UNCHANGED <<launched, current, enabled, stop, paused, hears, put, rec, recording,
                    serving, abandoned>>
    BY <1>4 DEF Opens, flagVars
  <2> QED  BY <1>0, <1>s, <2>1, <2>2
<1> QED  BY <1>1, <1>2, <1>3, <1>4 DEF ThreadStep

LEMMA PutStepTypes ==
    ASSUME TypeOK, HeldIsOpen, NEW p \in Puts, PutCall(p) \/ LifespanStop(p) \/ PutStep(p)
    PROVE  TypeOK' /\ HeldIsOpen'
<1> USE DEF TypeOK
<1>1. put[p] \in PutType /\ Idle \in PutType
  BY DEF Idle, PutType
<1>2. put' \in [Puts -> PutType]
  <2>1. CASE PutCall(p)
    <3>1. PICK target \in BOOLEAN, where \in {"stop", "start"} :
             put' = [put EXCEPT ![p] = [Idle EXCEPT !.pc = where, !.target = target]]
      BY <2>1 DEF PutCall
    <3>2. [Idle EXCEPT !.pc = where, !.target = target] \in PutType
      BY <1>1 DEF PutType
    <3> QED  BY <3>1, <3>2
  <2>2. CASE LifespanStop(p)
    <3>1. [Idle EXCEPT !.pc = "stop", !.target = FALSE] \in PutType
      BY <1>1 DEF PutType
    <3> QED  BY <2>2, <3>1 DEF LifespanStop
  <2>3. CASE StopNotes(p)
    <3>1. [put[p] EXCEPT !.pc = "signal", !.thread = current] \in PutType
      BY <1>1 DEF PutType
    <3> QED  BY <2>3, <3>1 DEF StopNotes
  <2>4. CASE PutStep(p) /\ ~StopNotes(p)
    <3>1. PICK where \in {"idle", "join", "forget", "check", "unload", "start"} :
             Proceed(p, where)
      BY <2>4 DEF PutStep, StopSignals, StopJoins, StopGivesUp, StopForgets, AfterStop,
         UnloadChecks, Unloads, AlreadyRuns, Starts
    <3>2. [put[p] EXCEPT !.pc = where] \in PutType
      BY <1>1 DEF PutType
    <3> QED  BY <1>1, <3>1, <3>2 DEF Proceed
  <2> QED  BY <2>1, <2>2, <2>3, <2>4
<1>3. /\ pc' \in [Threads -> Points]
      /\ launched' \in 0 .. MaxThreads
      /\ current' \in Threads \cup {None}
      /\ hears' \subseteq Threads
      /\ abandoned' \subseteq Threads
  <2>1. CASE Starts(p)
    BY <2>1 DEF Starts, GoTo, Points, Threads
  <2>2. CASE StopGivesUp(p)
    <3>1. put[p].thread \in Threads
      BY <1>1, <2>2 DEF StopGivesUp, Alive, PutType
    <3> QED  BY <2>2, <3>1 DEF StopGivesUp
  <2>3. CASE ~Starts(p) /\ ~StopGivesUp(p)
    BY <2>3 DEF PutCall, LifespanStop, PutStep, StopNotes, StopSignals, StopJoins, StopForgets,
       UnloadChecks, Unloads, AlreadyRuns
  <2> QED  BY <2>1, <2>2, <2>3
<1>4. /\ enabled' \in BOOLEAN /\ stop' \in BOOLEAN /\ paused' \in BOOLEAN
      /\ serving' \in BOOLEAN
  BY DEF PutCall, LifespanStop, PutStep, StopNotes, StopSignals, StopJoins, StopGivesUp,
     StopForgets, UnloadChecks, Unloads, AlreadyRuns, Starts, flagVars
<1>5. UNCHANGED putFrame
  BY DEF PutCall, LifespanStop, PutStep, StopNotes, StopSignals, StopJoins, StopGivesUp,
     StopForgets, UnloadChecks, Unloads, AlreadyRuns, Starts
<1> QED  BY <1>2, <1>3, <1>4, <1>5 DEF putFrame, HeldIsOpen

(* A recording request touches its own state and the pause event. *)
LEMMA RecStepFrame ==
    ASSUME TypeOK, NEW q \in Recs, RecordCall(q) \/ RecordStopCall(q) \/ RecStep(q)
    PROVE  /\ UNCHANGED recFrame
           /\ paused' \in BOOLEAN /\ recording' \in BOOLEAN
           /\ rec' \in [Recs -> {"idle", "pausing", "released", "unreleased", "stopping"}]
BY DEF TypeOK, RecordCall, RecordStopCall, RecStep, PauseReturns, RecordStarts, RecordFails,
   RecordStopped

LEMMA NextTypes ==
    ASSUME TypeOK, HeldIsOpen, [Next]_vars
    PROVE  TypeOK' /\ HeldIsOpen'
<1>1. CASE \E t \in Threads : ThreadStep(t)
  BY <1>1, ThreadStepTypes
<1>s. CASE \E t \in Threads : SpeechEnds(t)
  BY <1>s DEF SpeechEnds, flagVars, micVars, restVars, TypeOK, HeldIsOpen
<1>2. CASE \E p \in Puts : PutCall(p) \/ LifespanStop(p) \/ PutStep(p)
  BY <1>2, PutStepTypes
<1>3. CASE \E q \in Recs : RecordCall(q) \/ RecordStopCall(q) \/ RecStep(q)
  BY <1>3, RecStepFrame DEF recFrame, micVars, TypeOK, HeldIsOpen
<1>4. CASE UNCHANGED vars
  BY <1>4 DEF vars, TypeOK, HeldIsOpen
<1> QED  BY <1>1, <1>s, <1>2, <1>3, <1>4 DEF Next, Finished

-----------------------------------------------------------------------------
(* A thread moves from a point where it lives, and may end. *)
LEMMA ThreadMoves ==
    ASSUME TypeOK, NEW t \in Threads, ThreadStep(t)
    PROVE  /\ UNCHANGED <<launched, current, stop, paused, restVars>>
           /\ Alive(t)
           /\ pc'[t] # "unborn"
           /\ \A s \in Threads \ {t} : pc'[s] = pc[s]
<1>1. \E where \in Points \ {"unborn"} : GoTo(t, where)
  BY DEF ThreadStep, SetUp, SetUpFails, Ends, Parks, Unparks, Listens, Opens, OpenFails,
     StopsListening, ReadFails, Wakes, Turns, Captured, SpeakAsync, Answered, SpeechJoined, SpeechOutlives,
     Resumes, Crashes, Points
<1>2. pc[t] \notin {"unborn", "dead"}
  BY DEF ThreadStep, SetUp, SetUpFails, Ends, Parks, Unparks, Listens, Opens, OpenFails,
     StopsListening, ReadFails, Wakes, Turns, Captured, SpeakAsync, Answered, SpeechJoined, SpeechOutlives,
     Resumes, Crashes
<1>3. UNCHANGED <<launched, current, stop, paused, restVars>>
  BY DEF ThreadStep, SetUp, SetUpFails, Ends, Parks, Unparks, Listens, Opens, OpenFails,
     StopsListening, ReadFails, Wakes, Turns, Captured, SpeakAsync, Answered, SpeechJoined, SpeechOutlives,
     Resumes, Crashes, flagVars
<1>4. t # None
  BY ThreadsAssumption DEF Threads
<1> QED  BY <1>1, <1>2, <1>3, <1>4 DEF GoTo, TypeOK, Alive

(* A configuration request leaves the threads alone, unless it starts one. *)
LEMMA PutMoves ==
    ASSUME NEW p \in Puts, PutCall(p) \/ LifespanStop(p) \/ PutStep(p), ~Starts(p)
    PROVE  /\ UNCHANGED <<pc, launched, micVars>>
           /\ abandoned \subseteq abandoned'
           /\ current' = current \/ StopForgets(p)
BY DEF PutCall, LifespanStop, PutStep, StopNotes, StopSignals, StopJoins, StopGivesUp,
   StopForgets, UnloadChecks, Unloads, AlreadyRuns, putFrame, micVars

-----------------------------------------------------------------------------
(* The table of threads and the one listener. *)

LEMMA ThreadStepKeeps ==
    ASSUME Inv, NEW t \in Threads, ThreadStep(t)
    PROVE  ThreadsKnown' /\ OneListener'
<1>1. /\ UNCHANGED <<launched, current, put, abandoned>>
      /\ Alive(t) /\ pc'[t] # "unborn"
      /\ \A s \in Threads \ {t} : pc'[s] = pc[s]
  BY ThreadMoves DEF Inv, restVars
<1>2. \A s \in Threads : (Alive(s))' => Alive(s)
  BY <1>1 DEF Alive
<1>3. OneListener'
  BY <1>1, <1>2 DEF Inv, OneListener
<1>4. \A s \in Threads : pc'[s] = "unborn" <=> pc[s] = "unborn"
  BY <1>1 DEF Alive
<1>5. \A p \in Puts : put[p].thread \in Threads \cup {None}
  BY DEF Inv, TypeOK, PutType
<1>6. ThreadsKnown'
  <2>1. ASSUME NEW p \in Puts, put[p].pc = "forget"
        PROVE  ~(Alive(put[p].thread))' \/ put[p].thread \in abandoned
    <3>1. CASE put[p].thread = None
      BY <1>1, <3>1 DEF Alive
    <3>2. CASE put[p].thread \in Threads
      BY <1>1, <1>2, <2>1, <3>2 DEF Inv, ThreadsKnown
    <3> QED  BY <1>5, <3>1, <3>2
  <2> QED  BY <1>1, <1>4, <2>1 DEF Inv, ThreadsKnown, Alive
<1> QED  BY <1>3, <1>6

(* A thread starts only when the one the listener knows of has ended. *)
LEMMA StartsKeeps ==
    ASSUME Inv, TypeOK', NEW p \in Puts, Starts(p)
    PROVE  ThreadsKnown' /\ OneListener' /\ StreamsTold'
<1>1. launched + 1 \in Threads /\ launched \in Nat
  BY DEF Starts, Inv, TypeOK
<1>2. PICK t \in Threads : t = launched + 1
  BY <1>1
<1>3. /\ ~Alive(current) /\ launched' = t /\ current' = t
      /\ pc' = [pc EXCEPT ![t] = "setup"] /\ DOMAIN pc = Threads
      /\ put' = [put EXCEPT ![p] = Idle] /\ DOMAIN put = Puts
      /\ UNCHANGED <<abandoned, closed, held, mic>>
  BY <1>2 DEF Starts, GoTo, Proceed, Inv, TypeOK, putFrame
<1>4. \A s \in Threads \ {t} : pc'[s] = pc[s]
  BY <1>3
<1>5. pc'[t] = "setup" /\ pc[t] = "unborn"
  BY <1>1, <1>2, <1>3 DEF Inv, ThreadsKnown
<1>6. OneListener'
  <2>1. ASSUME NEW s \in Threads, (Alive(s))', s # t
        PROVE  s \in abandoned
    <3>1. Alive(s)
      BY <1>4, <2>1 DEF Alive
    <3> QED  BY <1>3, <3>1 DEF Inv, OneListener
  <2> QED  BY <1>3, <2>1 DEF OneListener
<1>7. \A s \in Threads : pc'[s] = "unborn" <=> s > t
  <2>1. ASSUME NEW s \in Threads
        PROVE  (pc'[s] = "unborn") <=> (s > t)
    <3>1. s \in Nat /\ t \in Nat
      BY ThreadsAssumption DEF Threads
    <3>2. CASE s = t
      BY <1>5, <3>1, <3>2
    <3>3. CASE s # t
      <4>1. (pc[s] = "unborn") <=> (s > launched)
        BY DEF Inv, ThreadsKnown
      <4> QED  BY <1>1, <1>2, <1>4, <3>1, <3>3, <4>1
    <3> QED  BY <3>2, <3>3
  <2> QED  BY <2>1
<1>8. ASSUME NEW o \in Puts
      PROVE  (LET u == put[o].thread
              IN  /\ u # None => u <= launched
                  /\ put[o].pc = "forget" => ~Alive(u) \/ u \in abandoned)'
  <2>1. CASE o = p
    BY <1>3, <2>1 DEF Idle
  <2>2. CASE o # p
    <3>1. put'[o] = put[o] /\ put[o].thread \in Threads \cup {None}
      BY <1>3, <2>2 DEF Inv, TypeOK, PutType
    <3>2. put[o].thread # None => put[o].thread <= launched /\ put[o].thread \in Nat
      BY <3>1, ThreadsAssumption DEF Inv, ThreadsKnown, Threads
    <3>3. put[o].thread # None => put[o].thread # t /\ put[o].thread <= t
      BY <1>1, <1>2, <3>2
    <3>4. put[o].thread # None => (Alive(put[o].thread))' = Alive(put[o].thread)
      BY <1>4, <3>1, <3>3 DEF Alive
    <3>5. put[o].pc = "forget" => ~(Alive(put[o].thread))' \/ put[o].thread \in abandoned
      BY <3>1, <3>4 DEF Inv, ThreadsKnown, Alive
    <3> QED  BY <1>3, <3>1, <3>3, <3>5 DEF Alive
  <2> QED  BY <2>1, <2>2
<1>9. ThreadsKnown'
  BY <1>1, <1>2, <1>3, <1>7, <1>8 DEF ThreadsKnown
<1>10. StreamsTold'
  <2>1. ASSUME NEW s \in Threads, pc'[s] \in Quiet
        PROVE  pc[s] = pc'[s]
    BY <1>4, <1>5, <2>1 DEF Quiet
  <2> QED  BY <1>3, <2>1 DEF Inv, StreamsTold
<1> QED  BY <1>6, <1>9, <1>10

LEMMA PutStepKeeps ==
    ASSUME Inv, NEW p \in Puts, PutCall(p) \/ LifespanStop(p) \/ PutStep(p), ~Starts(p)
    PROVE  ThreadsKnown' /\ OneListener' /\ StreamsTold'
<1>1. /\ UNCHANGED <<pc, launched, closed, held, mic>>
      /\ abandoned \subseteq abandoned'
      /\ current' = current \/ StopForgets(p)
  BY PutMoves DEF micVars
<1>2. StreamsTold'
  BY <1>1 DEF Inv, StreamsTold
<1>3. put \in [Puts -> PutType] /\ current \in Threads \cup {None}
  BY DEF Inv, TypeOK
<1>4. \/ current' = current
      \/ current' = None /\ current = put[p].thread /\ put[p].pc = "forget"
  BY <1>1 DEF StopForgets
<1>5. OneListener'
  <2>1. ASSUME NEW t \in Threads, Alive(t) PROVE t = current' \/ t \in abandoned'
    BY <1>1, <1>4, <2>1 DEF Inv, OneListener, ThreadsKnown
  <2> QED  BY <1>1, <2>1 DEF OneListener, Alive
<1>6. \A o \in Puts \ {p} : put'[o] = put[o]
  BY <1>3 DEF PutCall, LifespanStop, PutStep, StopNotes, StopSignals, StopJoins, StopGivesUp,
     StopForgets, UnloadChecks, Unloads, AlreadyRuns, Proceed
<1>7. /\ put'[p].thread \in {None, put[p].thread, current}
      /\ put'[p].pc = "forget" => \/ ~Alive(put'[p].thread)
                                 \/ put'[p].thread \in abandoned'
  <2>1. CASE PutCall(p) \/ LifespanStop(p)
    <3>1. PICK where \in {"stop", "start"}, target \in BOOLEAN :
             put' = [put EXCEPT ![p] = [Idle EXCEPT !.pc = where, !.target = target]]
      BY <2>1 DEF PutCall, LifespanStop
    <3> QED  BY <1>3, <3>1 DEF Idle
  <2>2. CASE StopNotes(p)
    <3>1. put' = [put EXCEPT ![p] = [@ EXCEPT !.pc = "signal", !.thread = current]]
      BY <2>2 DEF StopNotes
    <3>2. put[p] \in PutType
      BY <1>3
    <3> QED  BY <1>3, <3>1, <3>2 DEF PutType
  <2>3. CASE StopJoins(p) \/ StopGivesUp(p)
    <3>1. Proceed(p, "forget") /\ (~Alive(put[p].thread) \/ put[p].thread \in abandoned')
      BY <2>3 DEF StopJoins, StopGivesUp
    <3>2. put[p] \in PutType
      BY <1>3
    <3> QED  BY <1>3, <3>1, <3>2 DEF PutType, Proceed
  <2>4. CASE StopSignals(p) \/ StopForgets(p) \/ UnloadChecks(p) \/ Unloads(p) \/ AlreadyRuns(p)
    <3>1. PICK where \in {"idle", "join", "check", "unload", "start"} : Proceed(p, where)
      BY <2>4 DEF StopSignals, StopForgets, AfterStop, UnloadChecks, Unloads, AlreadyRuns
    <3>2. put[p] \in PutType
      BY <1>3
    <3> QED  BY <1>3, <3>1, <3>2 DEF PutType, Proceed, Idle
  <2> QED  BY <2>1, <2>2, <2>3, <2>4 DEF PutStep
<1>8. ThreadsKnown'
  <2>1. ASSUME NEW o \in Puts
        PROVE  LET u == put'[o].thread
               IN  /\ u # None => u <= launched
                   /\ put'[o].pc = "forget" => ~Alive(u) \/ u \in abandoned'
    <3>1. CASE o = p
      BY <1>7, <3>1 DEF Inv, ThreadsKnown
    <3>2. CASE o # p
      BY <1>1, <1>6, <3>2 DEF Inv, ThreadsKnown
    <3> QED  BY <3>1, <3>2
  <2> QED  BY <1>1, <1>4, <2>1 DEF Inv, ThreadsKnown, Alive
<1> QED  BY <1>2, <1>5, <1>8

(* The only thread there is opens and closes the only stream. *)
LEMMA ThreadStepStreams ==
    ASSUME Inv, NEW t \in Threads, ThreadStep(t)
    PROVE  StreamsTold'
<1>0. SUFFICES ASSUME abandoned' = {}
               PROVE  /\ closed' = ~held'
                      /\ mic' = IF held' THEN 1 ELSE 0
                      /\ \A s \in Threads :
                            pc'[s] \in Quiet => ~held'
  BY DEF StreamsTold
<1>1. /\ abandoned = {} /\ current' = current /\ Alive(t)
      /\ \A s \in Threads \ {t} : pc'[s] = pc[s]
  BY <1>0, ThreadMoves DEF Inv, restVars
<1>2. /\ closed = ~held
      /\ mic = IF held THEN 1 ELSE 0
      /\ pc[t] \in Quiet => ~held
  BY <1>1 DEF Inv, StreamsTold
<1>3. \A s \in Threads \ {t} : pc'[s] \notin Quiet
  <2>1. ASSUME NEW s \in Threads \ {t} PROVE ~Alive(s)
    BY <1>1 DEF Inv, OneListener
  <2>2. \A s \in Threads : s # None
    BY ThreadsAssumption DEF Threads
  <2> QED  BY <1>1, <2>1, <2>2 DEF Alive, Quiet
<1>4. DOMAIN pc = Threads /\ held \in BOOLEAN /\ closed \in BOOLEAN
  BY DEF Inv, TypeOK
<1>5. CASE CloseStream
  <2>1. closed' = TRUE /\ held' = FALSE
    BY <1>5 DEF CloseStream
  <2>2. mic' = 0
    <3>1. CASE held
      BY <1>2, <1>5, <3>1 DEF CloseStream
    <3>2. CASE ~held
      BY <1>2, <1>5, <3>2 DEF CloseStream
    <3> QED  BY <3>1, <3>2
  <2> QED  BY <2>1, <2>2
<1>6. CASE Opens(t)
  <2>1. closed' = FALSE /\ held' = TRUE /\ mic' = 1
    BY <1>2, <1>6 DEF Opens, OpenStream, Quiet
  <2>2. pc'[t] \notin Quiet
    BY <1>4, <1>6 DEF Opens, GoTo, Quiet
  <2> QED  BY <1>3, <2>1, <2>2
<1>7. CASE UNCHANGED micVars
  <2>1. /\ closed' = ~held' /\ held' = held
        /\ mic' = IF held' THEN 1 ELSE 0
    BY <1>2, <1>7 DEF micVars
  <2>2. pc'[t] \in Quiet => ~held
    <3>1. CASE SetUp(t) \/ SetUpFails(t) \/ Unparks(t) \/ OpenFails(t) \/ StopsListening(t)
      BY <1>4, <3>1 DEF SetUp, SetUpFails, Unparks, OpenFails, StopsListening, GoTo, Quiet
    <3>2. CASE Listens(t) \/ Turns(t) \/ Answered(t) \/ SpeechJoined(t) \/ SpeechOutlives(t)
      BY <1>2, <1>4, <3>2 DEF Listens, Turns, Answered, SpeechJoined, SpeechOutlives, Resumes,
         GoTo, Quiet
    <3>3. CASE ~(\/ SetUp(t) \/ SetUpFails(t) \/ Unparks(t) \/ OpenFails(t)
                 \/ StopsListening(t) \/ Listens(t) \/ Turns(t) \/ Answered(t)
                 \/ SpeechJoined(t) \/ SpeechOutlives(t))
      <4>1. CloseStream \/ Opens(t)
        BY <3>3 DEF ThreadStep, Ends, Parks, ReadFails, Wakes, Captured, Crashes
      <4>2. held' # held \/ ~held
        BY <1>2, <4>1 DEF CloseStream, Opens, OpenStream, Quiet
      <4> QED  BY <2>1, <4>2
    <3> QED  BY <3>1, <3>2, <3>3
  <2> QED  BY <1>3, <2>1, <2>2
<1> QED
  BY <1>5, <1>6, <1>7 DEF ThreadStep, SetUp, SetUpFails, Ends, Parks, Unparks, Listens,
     OpenFails, StopsListening, ReadFails, Wakes, Turns, Captured, SpeakAsync, Answered, SpeechJoined, SpeechOutlives,
     Resumes, Crashes

-----------------------------------------------------------------------------
(* A thread speaks and waits at the two points only; no request speaks. *)
LEMMA SpeechKept ==
    ASSUME Inv, [Next]_vars
    PROVE  SpeechTold'
<1> USE DEF SpeechTold
<1>0. DOMAIN pc = Threads /\ DOMAIN speech = Threads
  BY DEF Inv, TypeOK
<1>1. CASE \E t \in Threads : ThreadStep(t)
  <2>1. PICK t \in Threads : ThreadStep(t)
    BY <1>1
  <2>2. \A s \in Threads \ {t} : pc'[s] = pc[s] /\ speech'[s] = speech[s]
    BY <1>0, <2>1 DEF ThreadStep, SetUp, SetUpFails, Ends, Parks, Unparks, Listens, Opens,
       OpenFails, StopsListening, ReadFails, Wakes, Turns, Captured, SpeakAsync, Answered, SpeechJoined,
       SpeechOutlives, Resumes, Crashes, GoTo
  <2>3. speech'[t] = "plays" => pc'[t] \in {"dispatch", "await"}
    BY <1>0, <2>1 DEF Inv, ThreadStep, SetUp, SetUpFails, Ends, Parks, Unparks, Listens, Opens,
       OpenFails, StopsListening, ReadFails, Wakes, Turns, Captured, SpeakAsync, Answered, SpeechJoined,
       SpeechOutlives, Resumes, Crashes, GoTo
  <2> QED  BY <2>2, <2>3 DEF Inv
<1>2. CASE \E t \in Threads : SpeechEnds(t)
  BY <1>0, <1>2 DEF SpeechEnds, Inv
<1>3. CASE \E p \in Puts : PutCall(p) \/ LifespanStop(p) \/ PutStep(p)
  <2>1. PICK p \in Puts : PutCall(p) \/ LifespanStop(p) \/ PutStep(p)
    BY <1>3
  <2>2. UNCHANGED speech
    BY <2>1 DEF PutCall, LifespanStop, PutStep, StopNotes, StopSignals, StopJoins, StopGivesUp,
       StopForgets, UnloadChecks, Unloads, AlreadyRuns, Starts, putFrame
  <2>3. CASE Starts(p)
    <3>1. launched + 1 \in Threads /\ pc[launched + 1] = "unborn"
      BY <2>3 DEF Starts, Inv, TypeOK, ThreadsKnown, Threads
    <3> QED  BY <1>0, <2>2, <2>3, <3>1 DEF Starts, GoTo, Inv
  <2>4. CASE ~Starts(p)
    BY <2>1, <2>2, <2>4, PutMoves DEF Inv
  <2> QED  BY <2>3, <2>4
<1>4. CASE (\E q \in Recs : RecordCall(q) \/ RecordStopCall(q) \/ RecStep(q)) \/ UNCHANGED vars
  BY <1>4, RecStepFrame DEF vars, recFrame, Inv
<1> QED  BY <1>1, <1>2, <1>3, <1>4 DEF Next, Finished

(* The invariant is inductive. *)

LEMMA NextInv ==
    ASSUME Inv, [Next]_vars
    PROVE  Inv'
<1>1. TypeOK' /\ HeldIsOpen' /\ SpeechTold'
  BY NextTypes, SpeechKept DEF Inv
<1>s. CASE \E t \in Threads : SpeechEnds(t)
  BY <1>1, <1>s DEF SpeechEnds, flagVars, micVars, restVars, Inv, ThreadsKnown, OneListener,
     StreamsTold, Alive
<1>2. CASE \E t \in Threads : ThreadStep(t)
  BY <1>1, <1>2, ThreadStepKeeps, ThreadStepStreams DEF Inv
<1>3. CASE \E p \in Puts : PutCall(p) \/ LifespanStop(p) \/ PutStep(p)
  BY <1>1, <1>3, StartsKeeps, PutStepKeeps DEF Inv
<1>4. CASE (\E q \in Recs : RecordCall(q) \/ RecordStopCall(q) \/ RecStep(q)) \/ UNCHANGED vars
  <2>1. UNCHANGED <<pc, launched, current, micVars, put, abandoned>>
    BY <1>4, RecStepFrame DEF vars, recFrame, micVars, Inv
  <2> QED  BY <1>1, <2>1 DEF Inv, ThreadsKnown, OneListener, StreamsTold, Alive, micVars
<1> QED  BY <1>s, <1>2, <1>3, <1>4 DEF Next, Finished

(* Types, the table of threads, the one listener and its one stream. *)
THEOREM ListenerInvariant == Spec => []Inv
BY InitInv, NextInv, PTL DEF Spec

(* The listener's state always has its type (wake.py, lines 640-668). *)
THEOREM ListenerTypeCorrect == Spec => []TypeOK
<1>1. Inv => TypeOK  BY DEF Inv
<1> QED  BY <1>1, ListenerInvariant, PTL

(* However configuration requests race, a listener thread that lives is the  *)
(* one the listener knows of, unless a stop gave up on it (lines 747-790).   *)
THEOREM OneListenerAlways == Spec => []OneListener
<1>1. Inv => OneListener  BY DEF Inv
<1> QED  BY <1>1, ListenerInvariant, PTL

(* As long as no stop gave up on a thread, no capture stream is leaked and   *)
(* _stream_closed tells whether one is open (lines 936-991).                 *)
THEOREM NoStreamLeakedAlways == Spec => []NoStreamLeaked
<1>1. Inv => NoStreamLeaked  BY DEF Inv, StreamsTold, NoStreamLeaked
<1> QED  BY <1>1, ListenerInvariant, PTL

(* Nor does the listener then hear its own chimes, nor its speech while it   *)
(* waits for it, as long as that lasts (lines 506 and 1300-1305).            *)
THEOREM HalfDuplexAlways == Spec => []HalfDuplex
<1>1. Inv => HalfDuplex
  BY DEF Inv, StreamsTold, SpeechTold, Quiet, HalfDuplex
<1> QED  BY <1>1, ListenerInvariant, PTL

=============================================================================
