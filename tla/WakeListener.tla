---------------------------- MODULE WakeListener ----------------------------
(***************************************************************************)
(* The gateway's wake-word listener and the routes that share its           *)
(* microphone: nomothetic.wake, wake_routes and the recording routes of     *)
(* nomothetic.api.                                                          *)
(*                                                                          *)
(* A listener thread owns the microphone while it waits for the catch       *)
(* phrase and captures commands, and gives it up while it chimes, speaks    *)
(* and waits for the AI service.  Requests start and stop it from worker    *)
(* threads (start_background, stop, unload_model) and park it while the     *)
(* app records (pause, resume).  Threads and requests share the events and  *)
(* fields of one WakeWordListener; an action is a step between two reads or *)
(* writes of those that another thread can come between.                    *)
(*                                                                          *)
(* A dispatched command is a voice call of RoutineManager.  The audio stack *)
(* is installed and a phrase configured, or the listener never starts.      *)
(***************************************************************************)
EXTENDS Integers, FiniteSets

CONSTANTS
    Puts,        \* slots for concurrent PUT /api/voice/wake requests
    Recs,        \* slots for concurrent recording requests
    None,        \* Python's None
    MaxThreads,  \* bound: listener threads started in one behaviour
    MaxStreams   \* the device opens no more capture streams than this

Threads == 1 .. MaxThreads

ASSUME ThreadsAssumption == MaxThreads \in Nat /\ MaxStreams \in Nat /\ None \notin Nat

VARIABLES
    pc,          \* [Threads -> the control point of a listener thread]
    launched,    \* threads 1 .. launched have been started
    current,     \* _thread: the thread the listener knows of, or None
    enabled,     \* _enabled
    stop,        \* _stop_event
    paused,      \* _pause_event
    closed,      \* _stream_closed
    held,        \* _stream is not None
    mic,         \* capture streams the listener has open on the device
    hears,       \* threads whose recognizers use the model now loaded
    speech,      \* [Threads -> the transcript a thread has spoken back: none plays,
                 \*  it plays, or it plays on after the wait for it timed out]
    put,         \* [Puts -> the state of a wake configuration request]
    rec,         \* [Recs -> the state of a recording request]
    recording,   \* AudioRecorder._recording
    serving,     \* the lifespan has not begun to stop the listener
    abandoned    \* history: threads a stop gave up joining

micVars  == <<closed, held, mic>>
flagVars == <<enabled, stop, paused>>
restVars == <<put, rec, recording, serving, abandoned>>
vars == <<pc, launched, current, enabled, stop, paused, closed, held, mic, hears, speech,
          put, rec, recording, serving, abandoned>>

Idle == [pc |-> "idle", target |-> FALSE, thread |-> None]

PutType ==
    [pc : {"idle", "stop", "signal", "join", "forget", "check", "unload", "start"},
     target : BOOLEAN, thread : Threads \cup {None}]

Points == {"unborn", "setup", "loop", "parked", "opening", "listening", "turn",
           "reopening", "capture", "dispatch", "await", "dead"}

(* Type correctness of the listener's state (wake.py, lines 640-668). *)
TypeOK ==
    /\ pc \in [Threads -> Points]
    /\ launched \in 0 .. MaxThreads
    /\ current \in Threads \cup {None}
    /\ enabled \in BOOLEAN /\ stop \in BOOLEAN /\ paused \in BOOLEAN
    /\ closed \in BOOLEAN /\ held \in BOOLEAN
    /\ mic \in 0 .. MaxStreams
    /\ hears \subseteq Threads
    /\ speech \in [Threads -> {"none", "plays", "outlived"}]
    /\ put \in [Puts -> PutType]
    /\ rec \in [Recs -> {"idle", "pausing", "released", "unreleased", "stopping"}]
    /\ recording \in BOOLEAN /\ serving \in BOOLEAN
    /\ abandoned \subseteq Threads

Init ==
    /\ pc = [t \in Threads |-> "unborn"]
    /\ launched = 0
    /\ current = None
    /\ enabled = FALSE /\ stop = FALSE /\ paused = FALSE
    /\ closed = TRUE /\ held = FALSE
    /\ mic = 0
    /\ hears = {}
    /\ speech = [t \in Threads |-> "none"]
    /\ put = [p \in Puts |-> Idle]
    /\ rec = [q \in Recs |-> "idle"]
    /\ recording = FALSE
    /\ serving = TRUE
    /\ abandoned = {}

-----------------------------------------------------------------------------
(* The listener thread. *)

Alive(t) == t # None /\ pc[t] \notin {"unborn", "dead"}

Interrupted == stop \/ paused

GoTo(t, where) == pc' = [pc EXCEPT ![t] = where]

OpenStream ==
    /\ mic' = mic + 1
    /\ held' = TRUE
    /\ closed' = FALSE

(* Slip: the event is not set. *)
CloseStreamSilently ==
    /\ mic' = IF held THEN mic - 1 ELSE mic
    /\ held' = FALSE
    /\ UNCHANGED closed

CloseStream ==
    /\ mic' = IF held THEN mic - 1 ELSE mic
    /\ held' = FALSE
    /\ closed' = TRUE

(* The thread makes its recognizers, which load the model if need be ... *)
SetUp(t) ==
    /\ pc[t] = "setup"
    /\ GoTo(t, "loop")
    /\ hears' = hears \cup {t}
    /\ UNCHANGED <<launched, current, flagVars, micVars, speech, restVars>>

(* ... or finds that it cannot. *)
SetUpFails(t) ==
    /\ pc[t] = "setup"
    /\ GoTo(t, "dead")
    /\ enabled' = FALSE
    /\ UNCHANGED <<launched, current, stop, paused, micVars, hears, speech, restVars>>

(* The head of the loop of _run: stop, park, open the microphone or listen. *)
Ends(t) ==
    /\ pc[t] = "loop" /\ stop
    /\ GoTo(t, "dead")
    /\ hears' = hears \ {t}
    /\ CloseStream
    /\ UNCHANGED <<launched, current, flagVars, speech, restVars>>

(* Slip: the listener parks with its stream open. *)
ParksOpen(t) ==
    /\ pc[t] = "loop" /\ ~stop /\ paused
    /\ GoTo(t, "parked")
    /\ UNCHANGED <<launched, current, flagVars, micVars, hears, speech, restVars>>

Parks(t) ==
    /\ pc[t] = "loop" /\ ~stop /\ paused
    /\ GoTo(t, "parked")
    /\ CloseStream
    /\ UNCHANGED <<launched, current, flagVars, hears, speech, restVars>>

Unparks(t) ==
    /\ pc[t] = "parked"
    /\ stop \/ ~paused
    /\ GoTo(t, "loop")
    /\ UNCHANGED <<launched, current, flagVars, micVars, hears, speech, restVars>>

(* Slip: the stop event is not looked at between two openings. *)
ListensOn(t) ==
    /\ pc[t] = "loop" /\ ~paused
    /\ GoTo(t, IF held THEN "listening" ELSE "opening")
    /\ UNCHANGED <<launched, current, flagVars, micVars, hears, speech, restVars>>

Listens(t) ==
    /\ pc[t] = "loop" /\ ~Interrupted
    /\ GoTo(t, IF held THEN "listening" ELSE "opening")
    /\ UNCHANGED <<launched, current, flagVars, micVars, hears, speech, restVars>>

(* The microphone opens, whatever the events say by now, or does not. *)
Opens(t) ==
    /\ pc[t] \in {"opening", "reopening"}
    /\ mic < MaxStreams
    /\ GoTo(t, IF pc[t] = "opening" THEN "listening" ELSE "capture")
    /\ OpenStream
    /\ UNCHANGED <<launched, current, flagVars, hears, speech, restVars>>

OpenFails(t) ==
    /\ pc[t] \in {"opening", "reopening"}
    /\ GoTo(t, "loop")
    /\ UNCHANGED <<launched, current, flagVars, micVars, hears, speech, restVars>>

(* _listen_for_wake gives up: interrupted, or no stream to read from. *)
StopsListening(t) ==
    /\ pc[t] = "listening"
    /\ Interrupted \/ ~held
    /\ GoTo(t, "loop")
    /\ UNCHANGED <<launched, current, flagVars, micVars, hears, speech, restVars>>

(* A read fails (the microphone was unplugged): the stream is closed. *)
ReadFails(t) ==
    /\ pc[t] \in {"listening", "capture"}
    /\ GoTo(t, "loop")
    /\ CloseStream
    /\ UNCHANGED <<launched, current, flagVars, hears, speech, restVars>>

(* The wake phrase is heard: the stream is closed for the chime. *)
Wakes(t) ==
    /\ pc[t] = "listening" /\ held
    /\ GoTo(t, "turn")
    /\ CloseStream
    /\ UNCHANGED <<launched, current, flagVars, hears, speech, restVars>>

(* A turn of the conversation: reopen the microphone unless interrupted. *)
Turns(t) ==
    /\ pc[t] = "turn"
    /\ GoTo(t, IF Interrupted THEN "loop" ELSE IF held THEN "capture" ELSE "reopening")
    /\ UNCHANGED <<launched, current, flagVars, micVars, hears, speech, restVars>>

(* A thread of its own speaks a command back, unless there is no engine or  *)
(* no device for it.                                                        *)
SpeakAsync(t) == \E s \in {"plays", speech[t]} : speech' = [speech EXCEPT ![t] = s]

(* The capture ends: nothing is heard, it is interrupted, or a command is   *)
(* heard, which is spoken back while the AI service works on it; the stream *)
(* is closed in each case.                                                  *)
Captured(t) ==
    /\ pc[t] = "capture"
    /\ CloseStream
    /\ \/ GoTo(t, "loop") /\ UNCHANGED speech
       \/ ~Interrupted /\ GoTo(t, "dispatch") /\ SpeakAsync(t)
    /\ UNCHANGED <<launched, current, flagVars, hears, restVars>>

(* The command is answered, fails or times out: the thread waits for its    *)
(* speech to end.                                                           *)
Answered(t) ==
    /\ pc[t] = "dispatch"
    /\ GoTo(t, "await")
    /\ UNCHANGED <<launched, current, flagVars, micVars, hears, speech, restVars>>

(* A speech ends when all is played, it fails, or the stop event is set.    *)
SpeechEnds(t) ==
    /\ speech[t] # "none"
    /\ speech' = [speech EXCEPT ![t] = "none"]
    /\ UNCHANGED <<pc, launched, current, flagVars, micVars, hears, restVars>>

(* After the reply comes another turn, or the conversation is over. *)
Resumes(t) == \E where \in {"turn", "loop"} : GoTo(t, where)

(* Slip: the next turn does not wait for the speech. *)
ResumesAtOnce(t) ==
    /\ pc[t] = "await"
    /\ Resumes(t)
    /\ UNCHANGED <<launched, current, flagVars, micVars, hears, speech, restVars>>

SpeechJoined(t) ==
    /\ pc[t] = "await"
    /\ speech[t] # "plays"
    /\ Resumes(t)
    /\ UNCHANGED <<launched, current, flagVars, micVars, hears, speech, restVars>>

(* The wait has a time limit, after which the thread goes on as it would    *)
(* have, and the speech may play into what it does next.                    *)
SpeechOutlives(t) ==
    /\ pc[t] = "await"
    /\ speech[t] = "plays"
    /\ speech' = [speech EXCEPT ![t] = "outlived"]
    /\ Resumes(t)
    /\ UNCHANGED <<launched, current, flagVars, micVars, hears, restVars>>

(* An exception of a recognizer ends the thread. *)
Crashes(t) ==
    /\ pc[t] \in {"listening", "capture"}
    /\ GoTo(t, "dead")
    /\ enabled' = FALSE
    /\ hears' = hears \ {t}
    /\ CloseStream
    /\ UNCHANGED <<launched, current, stop, paused, speech, restVars>>

-----------------------------------------------------------------------------
(* The wake configuration request: PUT /api/voice/wake. *)

putFrame == <<mic, held, closed, speech, rec, recording>>

Proceed(p, where) ==
    put' = [put EXCEPT ![p] = IF where = "idle" THEN Idle ELSE [@ EXCEPT !.pc = where]]

(* Requests that have yet to start a thread. *)
Starting == {o \in Puts : put[o].pc # "idle" /\ put[o].target}

(* The request may enable, disable or leave the listener as it is now, and  *)
(* may change the phrase, which restarts it.                                *)
PutCall(p) ==
    /\ serving /\ put[p].pc = "idle"
    /\ \E target \in BOOLEAN, change \in BOOLEAN :
          /\ target => launched + Cardinality(Starting) < MaxThreads
          /\ put' = [put EXCEPT ![p] = [Idle EXCEPT
                       !.pc = IF change \/ ~target THEN "stop" ELSE "start",
                       !.target = target]]
    /\ UNCHANGED <<pc, launched, current, flagVars, hears, serving, abandoned, putFrame>>

(* The lifespan starts the listener before it serves (a PUT here); when     *)
(* every request has been answered it only stops it.                        *)
LifespanStop(p) ==
    /\ serving
    /\ \A o \in Puts : put[o].pc = "idle"
    /\ \A q \in Recs : rec[q] = "idle"
    /\ serving' = FALSE
    /\ put' = [put EXCEPT ![p] = [Idle EXCEPT !.pc = "stop", !.target = FALSE]]
    /\ UNCHANGED <<pc, launched, current, flagVars, hears, abandoned, putFrame>>

(* stop: note the thread, set the event, join the thread, forget it. *)
StopNotes(p) ==
    /\ put[p].pc = "stop"
    /\ enabled' = FALSE
    /\ put' = [put EXCEPT ![p] = [@ EXCEPT !.pc = "signal", !.thread = current]]
    /\ UNCHANGED <<pc, launched, current, stop, paused, hears, serving, abandoned, putFrame>>

StopSignals(p) ==
    /\ put[p].pc = "signal"
    /\ stop' = TRUE
    /\ Proceed(p, "join")
    /\ UNCHANGED <<pc, launched, current, enabled, paused, hears, serving, abandoned,
                   putFrame>>

StopJoins(p) ==
    /\ put[p].pc = "join"
    /\ ~Alive(put[p].thread)
    /\ Proceed(p, "forget")
    /\ UNCHANGED <<pc, launched, current, flagVars, hears, serving, abandoned, putFrame>>

(* The five seconds pass while the thread loads the model, waits for an      *)
(* answer or for its speech, or has not seen the event because a start       *)
(* cleared it.                                                               *)
StopGivesUp(p) ==
    /\ put[p].pc = "join"
    /\ Alive(put[p].thread)
    /\ stop => pc[put[p].thread] \in {"setup", "dispatch", "await"}
    /\ abandoned' = abandoned \cup {put[p].thread}
    /\ Proceed(p, "forget")
    /\ UNCHANGED <<pc, launched, current, flagVars, hears, serving, putFrame>>

AfterStop(p) ==
    IF put[p].target THEN "start" ELSE IF serving THEN "check" ELSE "idle"

StopForgets(p) ==
    /\ put[p].pc = "forget"
    /\ current' = IF current = put[p].thread THEN None ELSE current
    /\ Proceed(p, AfterStop(p))
    /\ UNCHANGED <<pc, launched, flagVars, hears, serving, abandoned, putFrame>>

(* unload_model: refused while the listener is seen to run, ... *)
UnloadChecks(p) ==
    /\ put[p].pc = "check"
    /\ Proceed(p, IF Alive(current) THEN "idle" ELSE "unload")
    /\ UNCHANGED <<pc, launched, current, flagVars, hears, serving, abandoned, putFrame>>

(* ... else the engine drops the model, whoever's recognizers use it. *)
Unloads(p) ==
    /\ put[p].pc = "unload"
    /\ hears' = {}
    /\ Proceed(p, "idle")
    /\ UNCHANGED <<pc, launched, current, flagVars, serving, abandoned, putFrame>>

(* start_background: a thread that runs is left alone. *)
AlreadyRuns(p) ==
    /\ put[p].pc = "start"
    /\ Alive(current)
    /\ Proceed(p, "idle")
    /\ UNCHANGED <<pc, launched, current, flagVars, hears, serving, abandoned, putFrame>>

(* Slip: the thread that runs is not looked at. *)
StartsAnyway(p) ==
    LET t == launched + 1
    IN  /\ put[p].pc = "start"
        /\ t \in Threads
        /\ launched' = t
        /\ current' = t
        /\ GoTo(t, "setup")
        /\ enabled' = TRUE /\ stop' = FALSE /\ paused' = FALSE
        /\ Proceed(p, "idle")
        /\ UNCHANGED <<hears, serving, abandoned, putFrame>>

Starts(p) ==
    LET t == launched + 1
    IN  /\ put[p].pc = "start"
        /\ ~Alive(current)
        /\ t \in Threads
        /\ launched' = t
        /\ current' = t
        /\ GoTo(t, "setup")
        /\ enabled' = TRUE /\ stop' = FALSE /\ paused' = FALSE
        /\ Proceed(p, "idle")
        /\ UNCHANGED <<hears, serving, abandoned, putFrame>>

-----------------------------------------------------------------------------
(* The recording requests: POST /api/audio/record/start and .../stop. *)

recFrame == <<pc, launched, current, enabled, stop, micVars, hears, speech, put, serving,
              abandoned>>

(* A start is refused while a recording runs; else the listener is paused. *)
RecordCall(q) ==
    /\ serving /\ rec[q] = "idle" /\ ~recording
    /\ paused' = TRUE
    /\ rec' = [rec EXCEPT ![q] = "pausing"]
    /\ UNCHANGED <<recording, recFrame>>

(* pause returns when the stream is closed, or gives up waiting for that. *)
PauseReturns(q) ==
    /\ rec[q] = "pausing"
    /\ rec' = [rec EXCEPT ![q] = IF closed THEN "released" ELSE "unreleased"]
    /\ UNCHANGED <<paused, recording, recFrame>>

(* The recorder starts, or fails (another recording began meanwhile, a bad  *)
(* name, no device) and the listener is resumed.                            *)
RecordStarts(q) ==
    /\ rec[q] \in {"released", "unreleased"}
    /\ ~recording
    /\ recording' = TRUE
    /\ rec' = [rec EXCEPT ![q] = "idle"]
    /\ UNCHANGED <<paused, recFrame>>

RecordFails(q) ==
    /\ rec[q] \in {"released", "unreleased"}
    /\ paused' = FALSE
    /\ rec' = [rec EXCEPT ![q] = "idle"]
    /\ UNCHANGED <<recording, recFrame>>

(* The recorder is stopped; then the listener is resumed. *)
RecordStopCall(q) ==
    /\ serving /\ rec[q] = "idle"
    /\ recording' = FALSE
    /\ rec' = [rec EXCEPT ![q] = "stopping"]
    /\ UNCHANGED <<paused, recFrame>>

RecordStopped(q) ==
    /\ rec[q] = "stopping"
    /\ paused' = FALSE
    /\ rec' = [rec EXCEPT ![q] = "idle"]
    /\ UNCHANGED <<recording, recFrame>>

ThreadStep(t) ==
    \/ SetUp(t) \/ SetUpFails(t) \/ Ends(t) \/ Parks(t) \/ Unparks(t) \/ Listens(t)
    \/ Opens(t) \/ OpenFails(t) \/ StopsListening(t) \/ ReadFails(t) \/ Wakes(t)
    \/ Turns(t) \/ Captured(t) \/ Answered(t) \/ SpeechJoined(t) \/ SpeechOutlives(t)
    \/ Crashes(t)

PutStep(p) ==
    \/ StopNotes(p) \/ StopSignals(p) \/ StopJoins(p) \/ StopGivesUp(p) \/ StopForgets(p)
    \/ UnloadChecks(p) \/ Unloads(p) \/ AlreadyRuns(p) \/ Starts(p)

RecStep(q) ==
    PauseReturns(q) \/ RecordStarts(q) \/ RecordFails(q) \/ RecordStopped(q)

(* The gateway has stopped and its threads have ended. *)
Finished ==
    /\ ~serving
    /\ \A t \in Threads : ~Alive(t)
    /\ \A p \in Puts : put[p].pc = "idle"
    /\ \A q \in Recs : rec[q] = "idle"
    /\ UNCHANGED vars

Next ==
    \/ \E t \in Threads : ThreadStep(t) \/ SpeechEnds(t)
    \/ \E p \in Puts : PutCall(p) \/ LifespanStop(p) \/ PutStep(p)
    \/ \E q \in Recs : RecordCall(q) \/ RecordStopCall(q) \/ RecStep(q)
    \/ Finished

Spec == Init /\ [][Next]_vars

(* Threads are scheduled, streams open or fail to, a capture, a command and  *)
(* the wait for a speech have time limits and a request's worker thread      *)
(* runs; nobody need speak, unplug the microphone, call or shut down.        *)
Runs(t) ==
    \/ SetUp(t) \/ SetUpFails(t) \/ Ends(t) \/ Parks(t) \/ Unparks(t) \/ Listens(t)
    \/ Opens(t) \/ OpenFails(t) \/ StopsListening(t) \/ Turns(t) \/ Captured(t)
    \/ Answered(t) \/ SpeechJoined(t) \/ SpeechOutlives(t)

Fairness ==
    /\ \A t \in Threads : WF_vars(Runs(t))
    /\ \A p \in Puts : WF_vars(PutStep(p))
    /\ \A q \in Recs : WF_vars(RecStep(q))

FairSpec == Spec /\ Fairness

-----------------------------------------------------------------------------
(* Properties *)

(* A listener thread that lives is the one the listener knows of, unless a   *)
(* stop gave up waiting for it: configuration requests that race never run   *)
(* two listeners (start_background and stop, lines 747-790).                 *)
OneListener == \A t \in Threads : Alive(t) => t = current \/ t \in abandoned

(* The listener has one capture stream open or none, and _stream_closed says *)
(* which, as long as no thread was given up (lines 936-991).                 *)
NoStreamLeaked ==
    abandoned = {} => closed = ~held /\ mic = IF held THEN 1 ELSE 0

(* The microphone is closed while the listener chimes, speaks and waits for  *)
(* the AI service (the class docstring, line 506), and stays closed until    *)
(* the speech has ended that plays beside the waiting.  The exception is a   *)
(* speech that has outlived the time limit of the wait for it (line 1305).   *)
HalfDuplex ==
    abandoned = {} =>
        \A t \in Threads :
            pc[t] \in {"turn", "dispatch", "await"} \/ speech[t] = "plays" => mic = 0

(* A listener that stays paused leaves the microphone alone in the end, even *)
(* if it was opening it when it was paused (lines 864-887 and 815-830).      *)
PausedMicReleased == <>[]paused => <>[](mic = 0 \/ abandoned # {})

(* The lifespan's stop ends every listener thread in the end, also one that  *)
(* outlived its join or was parked (lines 778-790 and 863-869).              *)
StopEndsThreads == ~serving ~> \A t \in Threads : ~Alive(t)

=============================================================================
