------------------------------ MODULE SttEngine ------------------------------
(***************************************************************************)
(* The speech-to-text engine: nomothetic.stt.VoskSttEngine.                 *)
(*                                                                          *)
(* One model, a large share of the robot's memory, serves two users.  An     *)
(* upload is transcribed under the engine's lock, and an idle timer frees   *)
(* the model some time after the last one.  The wake-word listener builds   *)
(* recognizers that hold the model's raw handle outside the lock; from then *)
(* on the model is `shared` and only the listener's unload may free it.      *)
(*                                                                          *)
(* A timer is a thread: once it has fired it cannot be cancelled and waits  *)
(* for the lock, while the model is used, shared, freed and loaded again.    *)
(* Its number tells it whether it is still the timer of the moment.         *)
(***************************************************************************)
EXTENDS PythonNone, Sequences

CONSTANTS
    Clips,       \* threads that transcribe uploads
    IdleUnloads, \* is _idle_unload_s positive
    MaxTimers,   \* bound: timers armed in one behaviour
    MaxLoads     \* bound: times the model is loaded in one behaviour

Timers == 1 .. MaxTimers
Models == 1 .. MaxLoads

ASSUME EngineAssumption ==
    MaxTimers \in Nat /\ MaxLoads \in Nat /\ IdleUnloads \in BOOLEAN /\ None \notin Clips

VARIABLES
    lock,       \* the thread that transcribes inside _lock, or None
    clip,       \* [Clips -> where the upload is]
    model,      \* _model: which loading of it, or None
    loads,      \* how often it has been loaded
    shared,     \* _shared
    idleTimer,  \* _idle_timer, or None
    generation, \* _idle_generation
    timer,      \* [Timers -> the timer thread of that generation]
    listener,   \* the wake-word listener: "off", "builds", "hears"
    handle,     \* the model a recognizer is being built from, or None
    ears,       \* the models the listener's recognizers hold
    spoiled,    \* history: an upload failed on the model since its last use
    used        \* history: timers armed before the model's last use

timerVars == <<idleTimer, generation, timer>>
earVars == <<listener, handle, ears>>
vars == <<lock, clip, model, loads, shared, timerVars, earVars, spoiled, used>>

(* Type correctness of the engine's, its timers' and its users' state (stt.py). *)
TypeOK ==
    /\ lock \in Clips \cup {None}
    /\ clip \in [Clips -> {"idle", "waiting", "decoding"}]
    /\ model \in Models \cup {None}
    /\ loads \in 0 .. MaxLoads
    /\ shared \in BOOLEAN
    /\ idleTimer \in Timers \cup {None}
    /\ generation \in 0 .. MaxTimers
    /\ timer \in [Timers -> {"unset", "armed", "fired", "over"}]
    /\ listener \in {"off", "builds", "hears"}
    /\ handle \in Models \cup {None}
    /\ ears \subseteq Models
    /\ spoiled \in BOOLEAN
    /\ used \subseteq Timers

Init ==
    /\ lock = None
    /\ clip = [c \in Clips |-> "idle"]
    /\ model = None /\ loads = 0
    /\ shared = FALSE
    /\ idleTimer = None /\ generation = 0
    /\ timer = [g \in Timers |-> "unset"]
    /\ listener = "off" /\ handle = None /\ ears = {}
    /\ spoiled = FALSE /\ used = {}

-----------------------------------------------------------------------------
(* The model and its timer. *)

(* Cancelling a timer that has fired does nothing. *)
Cancelled ==
    IF idleTimer # None /\ timer[idleTimer] = "armed"
    THEN [timer EXCEPT ![idleTimer] = "over"] ELSE timer

(* _schedule_idle_unload, with the model loaded. *)
Schedule(share) ==
    IF share \/ ~IdleUnloads
    THEN timer' = Cancelled /\ idleTimer' = None /\ UNCHANGED generation
    ELSE /\ generation' = generation + 1
         /\ idleTimer' = generation + 1
         /\ timer' = [Cancelled EXCEPT ![generation + 1] = "armed"]

(* Loading what is loaded changes nothing. *)
Load ==
    IF model # None THEN UNCHANGED <<model, loads>>
    ELSE loads < MaxLoads /\ loads' = loads + 1 /\ model' = loads + 1

Freed == model' = None /\ spoiled' = FALSE /\ used' = {}

-----------------------------------------------------------------------------
(* An upload. *)

Upload(c) ==
    /\ clip[c] = "idle"
    /\ clip' = [clip EXCEPT ![c] = "waiting"]
    /\ UNCHANGED <<lock, model, loads, shared, timerVars, earVars, spoiled, used>>

(* Entering the lock and loading the model, which takes seconds. *)
Begin(c) ==
    /\ clip[c] = "waiting"
    /\ lock = None
    /\ generation < MaxTimers
    /\ Load
    /\ lock' = c
    /\ clip' = [clip EXCEPT ![c] = "decoding"]
    /\ UNCHANGED <<shared, timerVars, earVars, spoiled, used>>

(* vosk or the model's directory is missing: nothing is changed. *)
Unavailable(c) ==
    /\ clip[c] = "waiting"
    /\ lock = None
    /\ clip' = [clip EXCEPT ![c] = "idle"]
    /\ UNCHANGED <<lock, model, loads, shared, timerVars, earVars, spoiled, used>>

(* ffmpeg is missing, is too slow or finds no audio. *)
DecodeFails(c) ==
    /\ clip[c] = "decoding"
    /\ lock' = None
    /\ clip' = [clip EXCEPT ![c] = "idle"]
    /\ spoiled' = TRUE
    /\ UNCHANGED <<model, loads, shared, timerVars, earVars, used>>

Transcribed(c) ==
    /\ clip[c] = "decoding"
    /\ lock' = None
    /\ clip' = [clip EXCEPT ![c] = "idle"]
    /\ Schedule(shared)
    /\ spoiled' = FALSE
    /\ used' = 1 .. generation
    /\ UNCHANGED <<model, loads, shared, earVars>>

-----------------------------------------------------------------------------
(* The timer threads. *)

Fires(g) ==
    /\ timer[g] = "armed"
    /\ timer' = [timer EXCEPT ![g] = "fired"]
    /\ UNCHANGED <<lock, clip, model, loads, shared, idleTimer, generation, earVars, spoiled,
                   used>>

(* Slip: any timer releases an unshared model. *)
ReleasesLate(g) == ~shared /\ model # None

(* Slip: the timer of the moment releases a shared model. *)
ReleasesShared(g) == g = generation /\ model # None

(* Slip: a timer waits for the next one to be armed. *)
ReleasesNext(g) == g = generation + 1 /\ ~shared /\ model # None

Releases(g) == g = generation /\ ~shared /\ model # None

(* _idle_unload, when it has the lock. *)
Expires(g) ==
    /\ timer[g] = "fired"
    /\ lock = None
    /\ timer' = [timer EXCEPT ![g] = "over"]
    /\ IF Releases(g)
       THEN Freed /\ idleTimer' = None
       ELSE UNCHANGED <<model, spoiled, used, idleTimer>>
    /\ UNCHANGED <<lock, clip, loads, shared, generation, earVars>>

-----------------------------------------------------------------------------
(* The listener. *)

(* create_recognizer up to the end of its lock. *)
Shares ==
    /\ listener \in {"off", "hears"}
    /\ lock = None
    /\ Load
    /\ shared' = TRUE
    /\ Schedule(TRUE)
    /\ listener' = "builds"
    /\ handle' = model'
    /\ UNCHANGED <<lock, clip, ears, spoiled, used>>

(* The recognizer is built from the model outside the lock. *)
Builds ==
    /\ listener = "builds"
    /\ listener' = "hears"
    /\ ears' = ears \cup {handle}
    /\ handle' = None
    /\ UNCHANGED <<lock, clip, model, loads, shared, timerVars, spoiled, used>>

(* The thread ends and its recognizers with it. *)
Ends ==
    /\ listener # "off"
    /\ listener' = "off"
    /\ handle' = None /\ ears' = {}
    /\ UNCHANGED <<lock, clip, model, loads, shared, timerVars, spoiled, used>>

(* unload, which its caller makes sure comes after the listener's end. *)
Unload ==
    /\ listener = "off"
    /\ lock = None
    /\ shared' = FALSE
    /\ timer' = Cancelled /\ idleTimer' = None
    /\ Freed
    /\ UNCHANGED <<lock, clip, loads, generation, earVars>>

-----------------------------------------------------------------------------
Next ==
    \/ \E c \in Clips :
           Upload(c) \/ Begin(c) \/ Unavailable(c) \/ DecodeFails(c) \/ Transcribed(c)
    \/ \E g \in Timers : Fires(g) \/ Expires(g)
    \/ Shares \/ Builds \/ Ends \/ Unload

Spec == Init /\ [][Next]_vars

(* A transcription ends (ffmpeg has a time limit), a timer fires, and a timer *)
(* that fired gets the lock when nothing else takes it.                      *)
FairSpec ==
    /\ Spec
    /\ \A c \in Clips : WF_vars(DecodeFails(c) \/ Transcribed(c))
    /\ \A g \in Timers : WF_vars(Fires(g)) /\ WF_vars(Expires(g))

-----------------------------------------------------------------------------
(* Properties *)

(* Every recognizer, also one being built, holds the model that is loaded:   *)
(* no timer frees a model under the listener ("a use-after-free", lines      *)
(* 241-245, 304-306).                                                        *)
HandlesAreLive == \A m \in ears : m = model

(* A timer frees a model only if no upload was transcribed on it since the   *)
(* timer was armed, however late the timer gets the lock (lines 262-268).    *)
TimerFreesIdle ==
    [][\A g \in Timers :
          timer[g] = "fired" /\ timer'[g] = "over" /\ model' # model => g \notin used]_vars

(* A loaded model that is not shared has a timer that will free it, unless   *)
(* the last upload on it failed (lines 249-260).                             *)
IdleIsTimed ==
    model # None /\ ~shared /\ lock = None /\ ~spoiled /\ IdleUnloads
    => idleTimer = generation /\ timer[idleTimer] \in {"armed", "fired"}

Busy == \E c \in Clips : clip[c] # "idle"

(* A model nobody uses is freed in the end, unless the last upload on it     *)
(* failed (lines 224-229).                                                   *)
IdleModelFreed == IdleUnloads => []<>(model = None \/ shared \/ Busy \/ spoiled)

=============================================================================
