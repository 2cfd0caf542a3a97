---------------------------- MODULE CommandProofs ----------------------------
(***************************************************************************)
(* Proofs about the speech-to-text engine, for any number of uploads,       *)
(* timers and loadings of the model; and about the AI commands, their        *)
(* conversations and the rate limiter before them, for any number of         *)
(* commands under way, any limits and any length of time.                    *)
(***************************************************************************)
EXTENDS SttEngine, AiCommands, FiniteSetTheorems, SequenceTheorems, WellFoundedInduction, TLAPS

(* A transcription has the lock, a loaded model and a timer to arm. *)
Locked ==
    /\ \A c \in Clips : clip[c] = "decoding" => lock = c
    /\ lock # None => model # None /\ generation < MaxTimers

(* A listener's recognizers, made or being made, are of the loaded model, and *)
(* while it has any the model is shared.                                     *)
Sharing ==
    /\ listener # "off" => shared /\ model # None
    /\ listener = "off" => ears = {}
    /\ listener = "builds" => handle = model
    /\ HandlesAreLive

(* _idle_timer is the timer of the moment, and it may free the model. *)
TimerOfTheMoment ==
    /\ idleTimer # None => idleTimer = generation /\ timer[idleTimer] \in {"armed", "fired"}
    /\ idleTimer # None => ~shared /\ model # None
    /\ ~IdleUnloads => generation = 0

(* Only a shared model is used without a new timer being armed. *)
LaterUses == generation \in used => shared

EngineInv == TypeOK /\ Locked /\ Sharing /\ TimerOfTheMoment /\ LaterUses /\ IdleIsTimed

LEMMA EngineInitInv == Init => EngineInv
<1> SUFFICES ASSUME Init PROVE EngineInv
  OBVIOUS
<1>1. TypeOK
  <2>1. 0 \in 0 .. MaxTimers /\ 0 \in 0 .. MaxLoads
    BY EngineAssumption, NoneAssumption
  <2> QED  BY <2>1 DEF Init, TypeOK
<1>2. Locked /\ Sharing /\ TimerOfTheMoment /\ LaterUses /\ IdleIsTimed
  BY DEF Init, Locked, Sharing, HandlesAreLive, TimerOfTheMoment, LaterUses, IdleIsTimed
<1> QED  BY <1>1, <1>2 DEF EngineInv

-----------------------------------------------------------------------------
(* Loading, cancelling and arming. *)

LEMMA Loads ==
    ASSUME EngineInv, Load
    PROVE  /\ model' \in Models /\ loads' \in 0 .. MaxLoads /\ model' # None
           /\ model # None => model' = model
BY EngineAssumption, NoneAssumption DEF EngineInv, TypeOK, Load, Models

LEMMA Cancels ==
    ASSUME EngineInv
    PROVE  /\ Cancelled \in [Timers -> {"unset", "armed", "fired", "over"}]
           /\ \A g \in Timers : timer[g] # "armed" => Cancelled[g] = timer[g]
BY DEF EngineInv, TypeOK, Cancelled

(* A timer that has fired is not touched by arming the next. *)
LEMMA Schedules ==
    ASSUME EngineInv, NEW share \in BOOLEAN, generation < MaxTimers \/ share, Schedule(share)
    PROVE  /\ timer' \in [Timers -> {"unset", "armed", "fired", "over"}]
           /\ generation' \in 0 .. MaxTimers /\ idleTimer' \in Timers \cup {None}
           /\ \A g \in 1 .. generation : timer[g] = "fired" => timer'[g] = "fired"
           /\ idleTimer' # None =>
                  ~share /\ idleTimer' = generation' /\ timer'[idleTimer'] = "armed"
           /\ ~share /\ IdleUnloads => idleTimer' # None /\ generation' = generation + 1
           /\ share \/ ~IdleUnloads => generation' = generation
<1>1. generation \in 0 .. MaxTimers /\ generation \in Int /\ MaxTimers \in Int /\ None \notin Timers
  BY EngineAssumption, NoneAssumption DEF EngineInv, TypeOK, Timers
<1>2. CASE share \/ ~IdleUnloads
  <2>1. timer' = Cancelled /\ idleTimer' = None /\ generation' = generation
    BY <1>2 DEF Schedule
  <2>2. \A g \in 1 .. generation : g \in Timers
    BY <1>1 DEF Timers
  <2> QED  BY <1>1, <1>2, <2>1, <2>2, Cancels
<1>3. CASE ~(share \/ ~IdleUnloads)
  <2>1. /\ generation' = generation + 1 /\ idleTimer' = generation + 1
        /\ timer' = [Cancelled EXCEPT ![generation + 1] = "armed"]
    BY <1>3 DEF Schedule
  <2>2. generation + 1 \in Timers /\ \A g \in 1 .. generation : g \in Timers /\ g # generation + 1
    BY <1>1, <1>3 DEF Timers
  <2>3. timer' \in [Timers -> {"unset", "armed", "fired", "over"}]
        /\ timer'[generation + 1] = "armed"
    BY <2>1, <2>2, Cancels
  <2>4. \A g \in 1 .. generation : timer[g] = "fired" => timer'[g] = "fired"
    BY <2>1, <2>2, Cancels
  <2> QED  BY <1>1, <1>3, <2>1, <2>2, <2>3, <2>4 DEF Timers
<1> QED  BY <1>2, <1>3

-----------------------------------------------------------------------------
(* One lemma per user of the engine. *)

LEMMA ClipKeeps ==
    ASSUME EngineInv, NEW c \in Clips,
           Upload(c) \/ Begin(c) \/ Unavailable(c) \/ DecodeFails(c) \/ Transcribed(c)
    PROVE  EngineInv'
<1> USE DEF EngineInv
<1>1. None \notin Clips /\ None \notin Nat
  BY EngineAssumption, NoneAssumption
<1>2. CASE Upload(c) \/ Unavailable(c)
  <2>1. TypeOK' /\ Locked'
    BY <1>2 DEF TypeOK, Locked, Upload, Unavailable, timerVars, earVars
  <2>2. Sharing' /\ TimerOfTheMoment' /\ LaterUses' /\ IdleIsTimed'
    BY <1>2 DEF Sharing, HandlesAreLive, TimerOfTheMoment, LaterUses, IdleIsTimed, Upload,
       Unavailable, timerVars, earVars
  <2> QED  BY <2>1, <2>2
<1>3. CASE Begin(c)
  <2>1. /\ model' \in Models /\ loads' \in 0 .. MaxLoads /\ model' # None
        /\ model # None => model' = model
    BY <1>3, Loads DEF Begin
  <2>2. TypeOK' /\ Locked'
    BY <1>1, <1>3, <2>1 DEF TypeOK, Locked, Begin, timerVars, earVars
  <2>3. Sharing' /\ TimerOfTheMoment' /\ LaterUses'
    BY <1>3, <2>1 DEF Sharing, HandlesAreLive, TimerOfTheMoment, LaterUses, Begin, timerVars,
       earVars
  <2>4. IdleIsTimed'
    BY <1>1, <1>3 DEF IdleIsTimed, Begin
  <2> QED  BY <2>2, <2>3, <2>4
<1>4. CASE DecodeFails(c)
  <2>1. TypeOK' /\ Locked'
    BY <1>1, <1>4 DEF TypeOK, Locked, DecodeFails, timerVars, earVars
  <2>2. Sharing' /\ TimerOfTheMoment' /\ LaterUses' /\ IdleIsTimed'
    BY <1>4 DEF Sharing, HandlesAreLive, TimerOfTheMoment, LaterUses, IdleIsTimed,
       DecodeFails, timerVars, earVars
  <2> QED  BY <2>1, <2>2
<1>5. CASE Transcribed(c)
  <2>1. /\ lock = c /\ lock # None /\ model # None /\ generation < MaxTimers
        /\ shared \in BOOLEAN /\ lock' = None /\ Schedule(shared)
    BY <1>1, <1>5 DEF TypeOK, Locked, Transcribed
  <2>2. /\ timer' \in [Timers -> {"unset", "armed", "fired", "over"}]
        /\ generation' \in 0 .. MaxTimers /\ idleTimer' \in Timers \cup {None}
        /\ idleTimer' # None =>
               ~shared /\ idleTimer' = generation' /\ timer'[idleTimer'] = "armed"
        /\ ~shared /\ IdleUnloads => idleTimer' # None /\ generation' = generation + 1
        /\ shared \/ ~IdleUnloads => generation' = generation
    BY <2>1, Schedules
  <2>3. generation \in 0 .. MaxTimers /\ MaxTimers \in Nat
    BY EngineAssumption, NoneAssumption DEF TypeOK
  <2>4. used' = 1 .. generation /\ used' \subseteq Timers
    BY <1>5, <2>3 DEF Transcribed, Timers
  <2>5. TypeOK'
    BY <1>5, <2>1, <2>2, <2>4 DEF TypeOK, Transcribed, earVars
  <2>6. Locked'
    BY <1>5, <2>1 DEF TypeOK, Locked, Transcribed
  <2>7. Sharing'
    BY <1>5 DEF Sharing, HandlesAreLive, Transcribed, earVars
  <2>8. TimerOfTheMoment' /\ IdleIsTimed'
    BY <1>5, <2>1, <2>2 DEF TimerOfTheMoment, IdleIsTimed, Transcribed
  <2>9. LaterUses'
    BY <1>5, <2>2, <2>3, <2>4 DEF LaterUses, TimerOfTheMoment, Transcribed
  <2> QED  BY <2>5, <2>6, <2>7, <2>8, <2>9
<1> QED  BY <1>2, <1>3, <1>4, <1>5

LEMMA TimerKeeps ==
    ASSUME EngineInv, NEW g \in Timers, Fires(g) \/ Expires(g)
    PROVE  EngineInv'
<1> USE DEF EngineInv
<1>1. None \notin Timers
  BY EngineAssumption, NoneAssumption DEF Timers
<1>2. CASE Fires(g)
  <2>1. TypeOK' /\ Locked'
    BY <1>2 DEF TypeOK, Locked, Fires, earVars
  <2>2. Sharing' /\ LaterUses'
    BY <1>2 DEF Sharing, HandlesAreLive, LaterUses, Fires, earVars
  <2>3. TimerOfTheMoment' /\ IdleIsTimed'
    BY <1>2 DEF TypeOK, TimerOfTheMoment, IdleIsTimed, Fires
  <2> QED  BY <2>1, <2>2, <2>3
<1>3. CASE Expires(g) /\ Releases(g)
  <2>1. /\ model' = None /\ idleTimer' = None /\ lock = None /\ lock' = None /\ ~shared
        /\ used' = {} /\ spoiled' = FALSE /\ timer' = [timer EXCEPT ![g] = "over"]
        /\ UNCHANGED <<clip, loads, shared, generation, earVars>>
    BY <1>3 DEF Expires, Releases, Freed
  <2>2. TypeOK' /\ Locked'
    BY <2>1 DEF TypeOK, Locked, earVars
  <2>3. Sharing'
    BY <2>1 DEF TypeOK, Sharing, HandlesAreLive, earVars
  <2>4. TimerOfTheMoment' /\ LaterUses' /\ IdleIsTimed'
    BY <2>1 DEF TimerOfTheMoment, LaterUses, IdleIsTimed
  <2> QED  BY <2>2, <2>3, <2>4
<1>4. CASE Expires(g) /\ ~Releases(g)
  <2>1. /\ timer' = [timer EXCEPT ![g] = "over"]
        /\ UNCHANGED <<lock, clip, model, loads, shared, idleTimer, generation, earVars, spoiled,
                       used>>
    BY <1>4 DEF Expires
  <2>2. idleTimer # None => g # idleTimer
    BY <1>4 DEF Releases, TimerOfTheMoment
  <2>3. TypeOK' /\ Locked'
    BY <2>1 DEF TypeOK, Locked, earVars
  <2>4. Sharing' /\ LaterUses'
    BY <2>1 DEF Sharing, HandlesAreLive, LaterUses, earVars
  <2>5. idleTimer # None => timer'[idleTimer] = timer[idleTimer]
    BY <2>1, <2>2 DEF TypeOK
  <2>6. TimerOfTheMoment' /\ IdleIsTimed'
    BY <1>1, <2>1, <2>5, EngineAssumption, NoneAssumption DEF TypeOK, TimerOfTheMoment, IdleIsTimed
  <2> QED  BY <2>3, <2>4, <2>6
<1> QED  BY <1>2, <1>3, <1>4

LEMMA ListenerKeeps ==
    ASSUME EngineInv, Shares \/ Builds \/ Ends \/ Unload
    PROVE  EngineInv'
<1> USE DEF EngineInv
<1>1. CASE Shares
  <2>1. /\ model' \in Models /\ loads' \in 0 .. MaxLoads /\ model' # None
        /\ model # None => model' = model
    BY <1>1, Loads DEF Shares
  <2>2. /\ timer' \in [Timers -> {"unset", "armed", "fired", "over"}]
        /\ generation' = generation /\ idleTimer' = None
    BY <1>1, Schedules DEF Shares
  <2>3. TypeOK' /\ Locked'
    BY <1>1, <2>1, <2>2 DEF TypeOK, Locked, Shares
  <2>4. Sharing'
    BY <1>1, <2>1 DEF TypeOK, Sharing, HandlesAreLive, Shares
  <2>5. TimerOfTheMoment' /\ LaterUses' /\ IdleIsTimed'
    BY <1>1, <2>2 DEF TimerOfTheMoment, LaterUses, IdleIsTimed, Shares
  <2> QED  BY <2>3, <2>4, <2>5
<1>2. CASE Builds \/ Ends
  <2>1. TypeOK' /\ Locked'
    BY <1>2, EngineAssumption, NoneAssumption DEF TypeOK, Locked, Sharing, Builds, Ends, timerVars, Models
  <2>2. Sharing'
    BY <1>2 DEF Sharing, HandlesAreLive, Builds, Ends
  <2>3. TimerOfTheMoment' /\ LaterUses' /\ IdleIsTimed'
    BY <1>2 DEF TimerOfTheMoment, LaterUses, IdleIsTimed, Builds, Ends, timerVars
  <2> QED  BY <2>1, <2>2, <2>3
<1>3. CASE Unload
  <2>1. TypeOK' /\ Locked'
    BY <1>3, Cancels DEF TypeOK, Locked, Unload, Freed, earVars
  <2>2. Sharing'
    BY <1>3 DEF Sharing, HandlesAreLive, Unload, earVars
  <2>3. TimerOfTheMoment' /\ LaterUses' /\ IdleIsTimed'
    BY <1>3 DEF TimerOfTheMoment, LaterUses, IdleIsTimed, Unload, Freed
  <2> QED  BY <2>1, <2>2, <2>3
<1> QED  BY <1>1, <1>2, <1>3

LEMMA EngineStutterInv == EngineInv /\ UNCHANGED vars => EngineInv'
BY DEF EngineInv, vars, TypeOK, Locked, Sharing, HandlesAreLive, TimerOfTheMoment, LaterUses,
       IdleIsTimed, timerVars, earVars

LEMMA EngineNextInv == EngineInv /\ [Next]_vars => EngineInv'
BY ClipKeeps, TimerKeeps, ListenerKeeps, EngineStutterInv DEF Next

-----------------------------------------------------------------------------
(* The inductive invariant of the engine, its timers and its users. *)
THEOREM EngineInvariant == Spec => []EngineInv
BY EngineInitInv, EngineNextInv, PTL DEF Spec

(* Every variable of the engine keeps its type. *)
THEOREM EngineTypeCorrect == Spec => []TypeOK
<1>1. EngineInv => TypeOK
  BY DEF EngineInv
<1> QED  BY <1>1, EngineInvariant, PTL

(* No timer and no upload frees or replaces the model under a recognizer of   *)
(* the listener (stt.py, create_recognizer and _idle_unload).                *)
THEOREM HandlesAreLiveAlways == Spec => []HandlesAreLive
<1>1. EngineInv => HandlesAreLive
  BY DEF EngineInv, Sharing
<1> QED  BY <1>1, EngineInvariant, PTL

(* A model that nobody shares has a timer that will free it, unless the last *)
(* upload on it failed (stt.py, _schedule_idle_unload).                      *)
THEOREM IdleIsTimedAlways == Spec => []IdleIsTimed
<1>1. EngineInv => IdleIsTimed
  BY DEF EngineInv
<1> QED  BY <1>1, EngineInvariant, PTL

(* A timer that was late to get the lock frees nothing that was used since    *)
(* it was armed (stt.py, _idle_unload's generation).                         *)
THEOREM TimerFreesIdleAlways == Spec => TimerFreesIdle
<1>1. ASSUME EngineInv, [Next]_vars, NEW g \in Timers,
             timer[g] = "fired", timer'[g] = "over", model' # model
      PROVE  g \notin used
  <2>1. CASE \E c \in Clips :
               Upload(c) \/ Begin(c) \/ Unavailable(c) \/ DecodeFails(c) \/ Transcribed(c)
    BY <1>1, <2>1 DEF Upload, Begin, Unavailable, DecodeFails, Transcribed, timerVars
  <2>2. CASE \E h \in Timers : Fires(h)
    BY <1>1, <2>2 DEF Fires
  <2>3. ASSUME NEW h \in Timers, Expires(h) PROVE g \notin used
    <3>1. h = g /\ Releases(g)
      BY <1>1, <2>3 DEF EngineInv, TypeOK, Expires
    <3> QED  BY <1>1, <3>1 DEF EngineInv, LaterUses, Releases
  <2>4. CASE Shares
    <3>1. timer' = Cancelled
      BY <2>4 DEF Shares, Schedule
    <3> QED  BY <1>1, <3>1, Cancels
  <2>5. CASE Builds \/ Ends \/ UNCHANGED vars
    BY <1>1, <2>5 DEF Builds, Ends, vars
  <2>6. CASE Unload
    BY <1>1, <2>6, Cancels DEF Unload
  <2> QED  BY <1>1, <2>1, <2>2, <2>3, <2>4, <2>5, <2>6 DEF Next
<1>2. EngineInv /\ [Next]_vars =>
        [\A g \in Timers :
           timer[g] = "fired" /\ timer'[g] = "over" /\ model' # model => g \notin used]_vars
  BY <1>1
<1> QED  BY <1>2, EngineInvariant, PTL DEF Spec, TimerFreesIdle

-----------------------------------------------------------------------------
(* The rate limiter. *)

(* The requests admitted are in the order of time; the limiter keeps the last *)
(* of them, all of the window among them; and between a request and the one  *)
(* MaxAdmitted later lies a window.                                          *)
RateInv ==
    /\ LimiterTypeOK
    /\ \A i, j \in DOMAIN admitted : i <= j => admitted[i] <= admitted[j]
    /\ Len(stamps) <= Len(admitted)
    /\ \A i \in DOMAIN stamps : stamps[i] = admitted[Len(admitted) - Len(stamps) + i]
    /\ \A i \in 1 .. (Len(admitted) - Len(stamps)) : ~Recent(admitted[i])
    /\ \A i, j \in DOMAIN admitted : j >= i + MaxAdmitted => admitted[j] - admitted[i] >= Window

(* Every nonempty set of naturals has a least element. *)
LEMMA LeastOfNaturals ==
    ASSUME NEW S \in SUBSET Nat, S # {}
    PROVE  \E n \in S : \A m \in S : n <= m
<1>1. IsWellFoundedOn(OpToRel(<, Nat), Nat)
  BY NatLessThanWellFounded
<1>2. PICK n \in S : \A m \in S : ~ (<<m, n>> \in OpToRel(<, Nat))
  BY <1>1, WFMin
<1>3. \A m \in S : ~(m < n)
  BY <1>2 DEF OpToRel
<1> QED  BY <1>3

(* The requests out of the window are the first of the list. *)
LEMMA OldOnesFirst ==
    ASSUME RateInv
    PROVE  \E k \in 0 .. Len(stamps) :
               /\ {i \in DOMAIN stamps : ~Recent(stamps[i])} = 1 .. k
               /\ Cleaned = SubSeq(stamps, k + 1, Len(stamps))
<1> DEFINE Old == {i \in DOMAIN stamps : ~Recent(stamps[i])}
           Rest == (DOMAIN stamps) \ Old
           n == Len(stamps)
<1>1. n \in Nat /\ DOMAIN stamps = 1 .. n /\ \A i \in 1 .. n : stamps[i] \in 0 .. now
  BY LenProperties DEF RateInv, LimiterTypeOK
<1>2. now \in Nat /\ \A i, j \in 1 .. n : i <= j => stamps[i] <= stamps[j]
  <2>1. now \in Nat /\ Len(admitted) \in Nat /\ DOMAIN admitted = 1 .. Len(admitted)
    BY LimiterAssumption, LenProperties DEF RateInv, LimiterTypeOK
  <2>2. \A i \in 1 .. n : Len(admitted) - n + i \in DOMAIN admitted
    BY <1>1, <2>1 DEF RateInv
  <2>3. ASSUME NEW i \in 1 .. n, NEW j \in 1 .. n, i <= j PROVE stamps[i] <= stamps[j]
    <3>1. stamps[i] = admitted[Len(admitted) - n + i] /\ stamps[j] = admitted[Len(admitted) - n + j]
      BY <1>1 DEF RateInv
    <3>2. Len(admitted) - n + i <= Len(admitted) - n + j
      BY <1>1, <2>1, <2>3
    <3> QED  BY <2>2, <3>1, <3>2 DEF RateInv
  <2> QED  BY <2>1, <2>3
<1>3. \E k \in 0 .. n : Old = 1 .. k
  <2>1. CASE Rest = {}
    <3>1. Old = 1 .. n
      BY <1>1, <2>1
    <3> QED  BY <1>1, <3>1
  <2>2. CASE Rest # {}
    <3> Rest \in SUBSET Nat
      BY <1>1
    <3> PICK m \in Rest : \A j \in Rest : m <= j
      BY <2>2, LeastOfNaturals
    <3>1. m \in 1 .. n /\ \A i \in 1 .. n : i < m => i \in Old
      BY <1>1
    <3>2. \A i \in 1 .. n : m <= i => i \notin Old
      BY <1>1, <1>2, LimiterAssumption DEF Recent
    <3>3. Old = 1 .. (m - 1)
      BY <1>1, <3>1, <3>2
    <3> QED  BY <1>1, <3>1, <3>3
  <2> QED  BY <2>1, <2>2
<1> PICK k \in 0 .. n : Old = 1 .. k
  BY <1>3
<1>4. Cardinality(Old) = k
  <2>1. k \in Int /\ k >= 0
    BY <1>1
  <2>2. Cardinality(1 .. k) = IF 1 > k THEN 0 ELSE k - 1 + 1
    BY <2>1, FS_Interval
  <2> HIDE DEF Old
  <2> QED  BY <2>1, <2>2
<1> QED  BY <1>4 DEF Cleaned

(* What is left are the recent ones, and they are the last admitted. *)
LEMMA CleanedIsRecent ==
    ASSUME RateInv
    PROVE  /\ Cleaned \in Seq(0 .. now) /\ Len(Cleaned) <= Len(stamps)
           /\ \A i \in DOMAIN Cleaned : Cleaned[i] = admitted[Len(admitted) - Len(Cleaned) + i]
           /\ \A i \in 1 .. (Len(admitted) - Len(Cleaned)) : ~Recent(admitted[i])
<1>1. PICK k \in 0 .. Len(stamps) :
        {i \in DOMAIN stamps : ~Recent(stamps[i])} = 1 .. k /\ Cleaned = SubSeq(stamps, k + 1, Len(stamps))
  BY OldOnesFirst
<1> DEFINE n == Len(stamps)
           a == Len(admitted)
<1>2. /\ n \in Nat /\ DOMAIN stamps = 1 .. n /\ a \in Nat /\ n <= a
      /\ \A i \in 1 .. n : stamps[i] \in 0 .. now
  BY LenProperties DEF RateInv, LimiterTypeOK
<1>3. \A i \in (k + 1) .. n : stamps[i] \in 0 .. now
  BY <1>2
<1>4. /\ Cleaned \in Seq(0 .. now) /\ Len(Cleaned) = n - k
      /\ \A i \in 1 .. (n - k) : Cleaned[i] = stamps[k + i]
  <2>1. /\ Cleaned \in Seq(0 .. now) /\ Len(Cleaned) = IF k + 1 <= n THEN n - (k + 1) + 1 ELSE 0
        /\ \A i \in 1 .. (n - (k + 1) + 1) : Cleaned[i] = stamps[(k + 1) + i - 1]
    BY <1>1, <1>2, <1>3, SubSeqProperties
  <2>2. \A i \in 1 .. (n - k) : (k + 1) + i - 1 = k + i
    BY <1>2
  <2>3. Len(Cleaned) = n - k
    <3>1. k \in Int /\ n \in Int /\ 0 <= k /\ k <= n
      BY <1>2
    <3>2. (IF k + 1 <= n THEN n - (k + 1) + 1 ELSE 0) = n - k
      BY <3>1
    <3> QED  BY <2>1, <3>2
  <2>4. n - (k + 1) + 1 = n - k
    BY <1>2
  <2> QED  BY <2>1, <2>2, <2>3, <2>4
<1>5. DOMAIN Cleaned = 1 .. (n - k)
  BY <1>4, LenProperties
<1>6. \A i \in DOMAIN Cleaned : Cleaned[i] = admitted[a - (n - k) + i]
  <2> TAKE i \in DOMAIN Cleaned
  <2>1. Cleaned[i] = stamps[k + i] /\ k + i \in DOMAIN stamps
    BY <1>2, <1>4, <1>5
  <2>2. stamps[k + i] = admitted[a - n + (k + i)]
    BY <2>1 DEF RateInv
  <2>3. a - n + (k + i) = a - (n - k) + i
    BY <1>2, <1>5
  <2> QED  BY <2>1, <2>2, <2>3
<1>7. ASSUME NEW i \in 1 .. (a - (n - k)) PROVE ~Recent(admitted[i])
  <2>1. CASE i <= a - n
    <3>1. i \in 1 .. (a - n)
      BY <1>1, <1>2, <1>7, <2>1
    <3> QED  BY <3>1 DEF RateInv
  <2>2. CASE i > a - n
    <3>1. i - (a - n) \in 1 .. k /\ i - (a - n) \in DOMAIN stamps
      BY <1>1, <1>2, <2>2
    <3>2. ~Recent(stamps[i - (a - n)])
      BY <1>1, <3>1
    <3>3. stamps[i - (a - n)] = admitted[a - n + (i - (a - n))]
      BY <3>1 DEF RateInv
    <3>4. a - n + (i - (a - n)) = i
      BY <1>2
    <3> QED  BY <3>2, <3>3, <3>4
  <2> QED  BY <1>2, <2>1, <2>2
<1> QED  BY <1>2, <1>4, <1>6, <1>7

LEMMA RateInvInit == ASSUME LimiterInit PROVE RateInv
<1>1. stamps = <<>> /\ admitted = <<>> /\ now = 0 /\ DOMAIN stamps = {} /\ DOMAIN admitted = {} /\ Len(stamps) = 0
      /\ stamps \in Seq(0 .. now)
  BY EmptySeq DEF LimiterInit
<1> QED  BY <1>1, LimiterAssumption DEF RateInv, LimiterTypeOK

LEMMA AdmitKeepsRate == ASSUME RateInv, Admit PROVE RateInv'
<1> DEFINE a == Len(admitted)
           m == Len(Cleaned)
<1>1. /\ Cleaned \in Seq(0 .. now) /\ m <= Len(stamps)
      /\ \A i \in DOMAIN Cleaned : Cleaned[i] = admitted[a - m + i]
      /\ \A i \in 1 .. (a - m) : ~Recent(admitted[i])
  BY CleanedIsRecent
<1>2. /\ now \in Nat /\ admitted \in Seq(0 .. now) /\ a \in Nat /\ m \in Nat /\ m <= a
      /\ DOMAIN admitted = 1 .. a /\ DOMAIN Cleaned = 1 .. m /\ now \in 0 .. now
      /\ MaxAdmitted \in Nat /\ Window \in Nat /\ Window > 0 /\ Len(stamps) \in Nat
      /\ \A i \in 1 .. a : admitted[i] \in 0 .. now
  BY <1>1, LenProperties, LimiterAssumption DEF RateInv, LimiterTypeOK
<1>3. /\ stamps' \in Seq(0 .. now) /\ Len(stamps') = m + 1 /\ DOMAIN stamps' = 1 .. (m + 1)
      /\ \A i \in 1 .. m : stamps'[i] = Cleaned[i]
      /\ stamps'[m + 1] = now
  BY <1>1, <1>2, AppendProperties, LenProperties DEF Admit
<1>4. /\ admitted' \in Seq(0 .. now) /\ Len(admitted') = a + 1 /\ DOMAIN admitted' = 1 .. (a + 1)
      /\ \A i \in 1 .. a : admitted'[i] = admitted[i]
      /\ admitted'[a + 1] = now
  BY <1>1, <1>2, AppendProperties, LenProperties DEF Admit
<1>5. now' = now /\ m < MaxAdmitted
  BY DEF Admit
<1>6. LimiterTypeOK'
  BY <1>2, <1>3, <1>4, <1>5 DEF RateInv, LimiterTypeOK
<1>7. \A i, j \in 1 .. a : i <= j => admitted[i] <= admitted[j]
  BY <1>2 DEF RateInv
<1> HIDE DEF a, m
<1>8. \A i, j \in DOMAIN admitted' : i <= j => admitted'[i] <= admitted'[j]
  <2> TAKE i, j \in DOMAIN admitted'
  <2> HAVE i <= j
  <2>1. CASE j = a + 1
    BY <1>2, <1>4, <2>1
  <2>2. CASE j # a + 1
    <3>1. i \in 1 .. a /\ j \in 1 .. a
      BY <1>2, <1>4, <2>2
    <3> QED  BY <1>4, <1>7, <3>1
  <2> QED  BY <2>1, <2>2
<1>9. Len(stamps') <= Len(admitted') /\ Len(admitted') - Len(stamps') = a - m /\ a \in Nat /\ m \in Nat
  <2>1. Len(stamps') = m + 1 /\ Len(admitted') = a + 1 /\ m <= a /\ a \in Nat /\ m \in Nat
    BY <1>2, <1>3, <1>4
  <2> QED  BY <2>1
<1>10. \A i \in DOMAIN stamps' : stamps'[i] = admitted'[Len(admitted') - Len(stamps') + i]
  <2> TAKE i \in DOMAIN stamps'
  <2>1. CASE i = m + 1
    <3>1. a - m + i = a + 1
      BY <1>2, <2>1
    <3> QED  BY <1>3, <1>4, <1>9, <2>1, <3>1
  <2>2. CASE i # m + 1
    <3>1. i \in 1 .. m /\ a - m + i \in 1 .. a
      BY <1>2, <1>3, <2>2
    <3> QED  BY <1>1, <1>2, <1>3, <1>4, <1>9, <3>1
  <2> QED  BY <2>1, <2>2
<1>11. \A i \in 1 .. (Len(admitted') - Len(stamps')) : ~(admitted'[i] > now' - Window)
  <2> TAKE i \in 1 .. (Len(admitted') - Len(stamps'))
  <2>1. i \in 1 .. (a - m) /\ i \in 1 .. a
    BY <1>2, <1>9
  <2> QED  BY <1>1, <1>4, <1>5, <2>1 DEF Recent
<1>12. \A i, j \in DOMAIN admitted' : j >= i + MaxAdmitted => admitted'[j] - admitted'[i] >= Window
  <2> SUFFICES ASSUME NEW i \in 1 .. (a + 1), NEW j \in 1 .. (a + 1), j >= i + MaxAdmitted
               PROVE  admitted'[j] - admitted'[i] >= Window
    BY <1>4
  <2>1. CASE j = a + 1
    <3>1. i \in 1 .. (a - m) /\ i \in 1 .. a
      BY <1>2, <1>4, <1>5, <2>1
    <3>2. ~(admitted[i] > now - Window)
      BY <1>1, <3>1 DEF Recent
    <3>3. admitted[i] \in Nat
      BY <1>2, <3>1
    <3> QED  BY <1>2, <1>4, <2>1, <3>1, <3>2, <3>3
  <2>2. CASE j # a + 1
    <3>1. j \in 1 .. a /\ i \in 1 .. a
      BY <1>2, <1>4, <2>2
    <3>2. admitted'[i] = admitted[i] /\ admitted'[j] = admitted[j]
      BY <1>4, <3>1
    <3> QED  BY <1>2, <3>1, <3>2 DEF RateInv
  <2> QED  BY <2>1, <2>2
<1> QED  BY <1>6, <1>8, <1>9, <1>10, <1>11, <1>12 DEF RateInv, Recent

LEMMA TooManyKeepsRate == ASSUME RateInv, TooMany PROVE RateInv'
<1>1. stamps' = Cleaned /\ now' = now /\ admitted' = admitted
  BY DEF TooMany
<1>2. Len(stamps) \in Nat /\ Len(Cleaned) \in Nat /\ Len(admitted) \in Nat /\ MaxAdmitted \in Nat
  BY CleanedIsRecent, LenProperties, LimiterAssumption DEF RateInv, LimiterTypeOK
<1> QED  BY <1>1, <1>2, CleanedIsRecent DEF RateInv, LimiterTypeOK, Recent

LEMMA TickKeepsRate == ASSUME RateInv, Tick, UNCHANGED <<stamps, admitted>> PROVE RateInv'
<1>1. now' = now + 1 /\ now' \in 0 .. MaxTime /\ now \in Nat /\ stamps' = stamps /\ admitted' = admitted
  BY LimiterAssumption DEF RateInv, LimiterTypeOK, Tick
<1>2. 0 .. now \subseteq 0 .. now'
  BY <1>1
<1>3. stamps \in Seq(0 .. now') /\ admitted \in Seq(0 .. now')
  BY <1>2, SeqMonotonic DEF RateInv, LimiterTypeOK
<1>4. \A i \in 1 .. (Len(admitted) - Len(stamps)) : i \in DOMAIN admitted /\ admitted[i] \in Nat
  BY <1>1, LenProperties, ElementOfSeq DEF RateInv, LimiterTypeOK
<1>5. \A i \in 1 .. (Len(admitted) - Len(stamps)) : ~(admitted[i] > now + 1 - Window)
  BY <1>1, <1>4, LimiterAssumption DEF RateInv, Recent
<1>6. LimiterTypeOK'
  BY <1>1, <1>3 DEF RateInv, LimiterTypeOK
<1>7. \A i \in 1 .. (Len(admitted') - Len(stamps')) : ~(admitted'[i] > now' - Window)
  BY <1>1, <1>5, LimiterAssumption
<1> QED  BY <1>1, <1>6, <1>7 DEF RateInv, Recent

(* The indices of a window's requests lie in an interval of MaxAdmitted. *)
LEMMA RateInvHolds == ASSUME RateInv PROVE RateHeld
<1> SUFFICES ASSUME NEW end \in 0 .. now
             PROVE  Cardinality({i \in DOMAIN admitted : admitted[i] \in (end - Window + 1) .. end}) <= MaxAdmitted
  BY DEF RateHeld
<1> DEFINE S == {i \in DOMAIN admitted : admitted[i] \in (end - Window + 1) .. end}
<1>1. /\ Len(admitted) \in Nat /\ DOMAIN admitted = 1 .. Len(admitted) /\ Window \in Nat /\ MaxAdmitted \in Nat
      /\ \A i \in DOMAIN admitted : admitted[i] \in 0 .. now
  BY LenProperties, LimiterAssumption DEF RateInv, LimiterTypeOK
<1>2. CASE S = {}
  BY <1>1, <1>2, FS_EmptySet
<1>3. CASE S # {}
  <2> S \in SUBSET Nat
    BY <1>1
  <2> PICK lo \in S : \A i \in S : lo <= i
    BY <1>3, LeastOfNaturals
  <2>1. \A i \in S : i < lo + MaxAdmitted
    BY <1>1 DEF RateInv
  <2>2. S \in SUBSET (lo .. (lo + MaxAdmitted - 1))
    BY <1>1, <2>1
  <2>3. IsFiniteSet(lo .. (lo + MaxAdmitted - 1)) /\ Cardinality(lo .. (lo + MaxAdmitted - 1)) <= MaxAdmitted
    <3>1. lo \in Int /\ lo + MaxAdmitted - 1 \in Int
      BY <1>1
    <3>2. /\ IsFiniteSet(lo .. (lo + MaxAdmitted - 1))
          /\ Cardinality(lo .. (lo + MaxAdmitted - 1)) =
                 IF lo > lo + MaxAdmitted - 1 THEN 0 ELSE (lo + MaxAdmitted - 1) - lo + 1
      BY <3>1, FS_Interval
    <3> QED  BY <1>1, <3>1, <3>2
  <2>4. Cardinality(S) <= Cardinality(lo .. (lo + MaxAdmitted - 1)) /\ Cardinality(S) \in Nat
    BY <2>2, <2>3, FS_Subset, FS_CardinalityType
  <2>5. Cardinality(lo .. (lo + MaxAdmitted - 1)) \in Nat
    BY <2>3, FS_CardinalityType
  <2> QED  BY <1>1, <2>3, <2>4, <2>5
<1> QED  BY <1>2, <1>3

-----------------------------------------------------------------------------
(* AI commands and their conversations. *)

(* The messages m are the turns of the last commands of a, as many as the    *)
(* history holds.                                                            *)
LastTurns(m, a) ==
    LET most == IF 2 * Len(a) <= MaxHistory THEN Len(a) ELSE MaxHistory \div 2
    IN  /\ Len(m) = 2 * most
        /\ \A i \in 1 .. most :
              /\ m[2 * i - 1] = [who |-> "user", command |-> a[Len(a) - most + i]]
              /\ m[2 * i] = [who |-> "assistant", command |-> a[Len(a) - most + i]]

(* The messages s are the turns of the last commands of a, as many as the    *)
(* history holds beside one message, and that message, of command n.         *)
LastSent(s, a, n) ==
    LET most == IF Len(a) <= (MaxHistory - 1) \div 2 THEN Len(a) ELSE (MaxHistory - 1) \div 2
    IN  /\ Len(s) = 2 * most + 1 /\ s[2 * most + 1] = Said(n)
        /\ \A i \in 1 .. most :
              /\ s[2 * i - 1] = [who |-> "user", command |-> a[Len(a) - most + i]]
              /\ s[2 * i] = [who |-> "assistant", command |-> a[Len(a) - most + i]]

(* What a command is once it has begun, and that it is within its limit. *)
Knows(k, n) ==
    /\ k.at \in {"key", "begin"} => k.conv = None
    /\ k.at \notin {"key", "begin"} => k.conv \in 1 .. n /\ k.id \in 1 .. n
    /\ k.at \in {"key", "begin", "ask", "tool"} => k.round < MaxRounds
    /\ k.at = "tool" => k.tools > 0

Serves(cl, c, v) == cl[c] # None /\ cl[c].conv = v

(* Conversations cs, commands cl, n of them begun, and the history an agree:  *)
(* a conversation is busy while one command serves it, which told the last    *)
(* that was answered in it, and holds the last turns of it.                  *)
ConvInv(cs, cl, an, n) ==
    /\ n \in 0 .. MaxCommands
    /\ cs \in [Commands -> Conversation \cup {None}]
    /\ cl \in [Calls -> Command \cup {None}]
    /\ an \in [Commands -> Seq(Commands)]
    /\ \A c \in Calls : cl[c] # None => Knows(cl[c], n)
    /\ \A v \in Commands, c \in Calls : Serves(cl, c, v) =>
          /\ cs[v] # None /\ cs[v].busy /\ LastSent(cl[c].sent, an[v], cl[c].id)
          /\ \A d \in Calls : Serves(cl, d, v) => d = c
    /\ \A v \in Commands : cs[v] # None =>
          /\ v <= n /\ LastTurns(cs[v].messages, an[v])
          /\ cs[v].busy => \E c \in Calls : Serves(cl, c, v)
          /\ ~cs[v].busy => cs[v].messages # <<>>
    /\ \A v \in Commands : v > n => an[v] = <<>>

(* The limit is passed by no more than the commands that run. *)
RoomInv == Cardinality(Kept) <= MaxKept \/ Cardinality(Kept) <= Cardinality(Calls)

AiInv == RateInv /\ key \in BOOLEAN /\ ConvInv(convs, call, answered, begun) /\ RoomInv

(* The turn of an answer is added, and the oldest one dropped if need be. *)
LEMMA TurnAdded ==
    ASSUME NEW m \in Seq(Message), NEW a \in Seq(Commands), NEW n \in Commands, LastTurns(m, a)
    PROVE  /\ Trimmed(m \o Turn(n)) \in Seq(Message) /\ Trimmed(m \o Turn(n)) # <<>>
           /\ Append(a, n) \in Seq(Commands)
           /\ LastTurns(Trimmed(m \o Turn(n)), Append(a, n))
<1> PICK h \in 1 .. 50 : MaxHistory = 2 * h
  BY AiAssumption
<1> DEFINE all == Len(a)
           most == IF 2 * all <= MaxHistory THEN all ELSE MaxHistory \div 2
           turn == Turn(n)
           b == Append(a, n)
           w == m \o turn
           later == IF 2 * (all + 1) <= MaxHistory THEN all + 1 ELSE MaxHistory \div 2
<1>1. all \in Nat /\ MaxHistory \div 2 = h /\ most \in 0 .. all /\ most <= h /\ h \in Nat /\ h >= 1
      /\ later = (IF most < h THEN most + 1 ELSE h) /\ (most < h => most = all)
  BY LenProperties
<1>2. turn \in Seq(Message) /\ Len(turn) = 2
      /\ turn[1] = [who |-> "user", command |-> n] /\ turn[2] = [who |-> "assistant", command |-> n]
  BY DEF Turn, Said, Message
<1>3. /\ b \in Seq(Commands) /\ Len(b) = all + 1 /\ b[all + 1] = n
      /\ \A i \in 1 .. all : b[i] = a[i]
  BY AppendProperties
<1>4. /\ Len(m) = 2 * most
      /\ \A i \in 1 .. most :
            /\ m[2 * i - 1] = [who |-> "user", command |-> a[all - most + i]]
            /\ m[2 * i] = [who |-> "assistant", command |-> a[all - most + i]]
  BY DEF LastTurns
<1> HIDE DEF turn, b, all
<1>5. /\ w \in Seq(Message) /\ Len(w) = 2 * most + 2
      /\ \A i \in 1 .. (2 * most + 2) : w[i] = IF i <= 2 * most THEN m[i] ELSE turn[i - 2 * most]
  <2>1. /\ m \o turn \in Seq(Message) /\ Len(m \o turn) = Len(m) + Len(turn)
        /\ \A i \in 1 .. Len(m) + Len(turn) : (m \o turn)[i] = IF i <= Len(m) THEN m[i] ELSE turn[i - Len(m)]
    BY <1>2, ConcatProperties
  <2> QED  BY <1>2, <1>4, <2>1
<1> HIDE DEF w
<1>6. \A i \in 1 .. (most + 1) :
        /\ w[2 * i - 1] = [who |-> "user", command |-> b[all - most + i]]
        /\ w[2 * i] = [who |-> "assistant", command |-> b[all - most + i]]
  <2> TAKE i \in 1 .. (most + 1)
  <2>1. CASE i = most + 1
    <3>1. 2 * i - 1 = 2 * most + 1 /\ 2 * i = 2 * most + 2 /\ all - most + i = all + 1
      BY <1>1, <2>1
    <3>2. w[2 * most + 1] = turn[1] /\ w[2 * most + 2] = turn[2]
      <4>1. 2 * most + 1 \in 1 .. (2 * most + 2) /\ ~(2 * most + 1 <= 2 * most) /\ (2 * most + 1) - 2 * most = 1
        BY <1>1
      <4>2. 2 * most + 2 \in 1 .. (2 * most + 2) /\ ~(2 * most + 2 <= 2 * most) /\ (2 * most + 2) - 2 * most = 2
        BY <1>1
      <4> QED  BY <1>5, <4>1, <4>2
    <3> QED  BY <1>2, <1>3, <3>1, <3>2
  <2>2. CASE i # most + 1
    <3>1. i \in 1 .. most /\ 2 * i \in 1 .. (2 * most) /\ 2 * i - 1 \in 1 .. (2 * most) /\ all - most + i \in 1 .. all
      BY <1>1, <2>2
    <3>2. w[2 * i] = m[2 * i] /\ w[2 * i - 1] = m[2 * i - 1]
      BY <1>1, <1>5, <3>1
    <3> QED  BY <1>3, <1>4, <3>1, <3>2
  <2> QED  BY <2>1, <2>2
<1>7. CASE most < h
  <2>1. Trimmed(w) = w
    BY <1>1, <1>5, <1>7 DEF Trimmed
  <2>2. later = most + 1 /\ 2 * later = 2 * most + 2 /\ Len(b) - later = all - most
    BY <1>1, <1>3, <1>7
  <2>3. LastTurns(w, b)
    <3>1. later = IF 2 * Len(b) <= MaxHistory THEN Len(b) ELSE MaxHistory \div 2
      BY <1>3
    <3>2. Len(w) = 2 * later
      BY <1>5, <2>2
    <3>3. \A i \in 1 .. later :
             /\ w[2 * i - 1] = [who |-> "user", command |-> b[Len(b) - later + i]]
             /\ w[2 * i] = [who |-> "assistant", command |-> b[Len(b) - later + i]]
      BY <1>6, <2>2
    <3> HIDE DEF later
    <3> QED  BY <3>1, <3>2, <3>3 DEF LastTurns
  <2>4. w # <<>>
    BY <1>1, <1>5
  <2> QED  BY <1>3, <1>5, <2>1, <2>3, <2>4 DEF w, b, turn
<1>8. CASE most = h
  <2> DEFINE s == SubSeq(w, 3, Len(w))
  <2>1. Trimmed(w) = s
    <3>1. Len(w) - MaxHistory = 2 /\ (2 + 1) \div 2 = 1
      BY <1>1, <1>5, <1>8
    <3> QED  BY <3>1 DEF Trimmed
  <2>2. /\ s \in Seq(Message) /\ Len(s) = 2 * h
        /\ \A i \in 1 .. (2 * h) : s[i] = w[i + 2]
    <3>1. \A i \in 3 .. Len(w) : w[i] \in Message
      BY <1>5, ElementOfSeq
    <3>2. /\ SubSeq(w, 3, Len(w)) \in Seq(Message)
          /\ Len(SubSeq(w, 3, Len(w))) = IF 3 <= Len(w) THEN Len(w) - 3 + 1 ELSE 0
          /\ \A i \in 1 .. (Len(w) - 3 + 1) : SubSeq(w, 3, Len(w))[i] = w[3 + i - 1]
      <4>1. Len(w) \in Int
        BY <1>1, <1>5
      <4> QED  BY <3>1, <4>1, SubSeqProperties
    <3>3. Len(w) - 3 + 1 = 2 * h /\ 3 <= Len(w) /\ \A i \in 1 .. (2 * h) : 3 + i - 1 = i + 2
      BY <1>1, <1>5, <1>8
    <3> QED  BY <3>2, <3>3
  <2> HIDE DEF s
  <2>3. later = h /\ Len(b) - later = all - most + 1
    BY <1>1, <1>3, <1>8
  <2>4. ASSUME NEW i \in 1 .. h
        PROVE  /\ s[2 * i - 1] = [who |-> "user", command |-> b[Len(b) - later + i]]
               /\ s[2 * i] = [who |-> "assistant", command |-> b[Len(b) - later + i]]
    <3>1. /\ i + 1 \in 1 .. (most + 1) /\ 2 * i \in 1 .. (2 * h) /\ 2 * i - 1 \in 1 .. (2 * h)
          /\ 2 * i - 1 + 2 = 2 * (i + 1) - 1 /\ 2 * i + 2 = 2 * (i + 1)
          /\ all - most + (i + 1) = Len(b) - later + i
      BY <1>1, <1>8, <2>3
    <3>2. s[2 * i - 1] = w[2 * (i + 1) - 1] /\ s[2 * i] = w[2 * (i + 1)]
      BY <2>2, <3>1
    <3> QED  BY <1>6, <3>1, <3>2
  <2>5. LastTurns(s, b)
    <3>1. later = IF 2 * Len(b) <= MaxHistory THEN Len(b) ELSE MaxHistory \div 2
      BY <1>3
    <3>2. Len(s) = 2 * later
      BY <2>2, <2>3
    <3> HIDE DEF later
    <3> QED  BY <2>3, <2>4, <3>1, <3>2 DEF LastTurns
  <2>6. s # <<>>
    BY <1>1, <2>2
  <2> QED  BY <1>3, <2>1, <2>2, <2>5, <2>6 DEF w, b, turn
<1> QED  BY <1>1, <1>7, <1>8

(* What a command tells the provider: it is trimmed by a turn if the history  *)
(* of the conversation is full.                                              *)
LEMMA UserTold ==
    ASSUME NEW m \in Seq(Message), NEW a \in Seq(Commands), NEW n \in Commands, LastTurns(m, a)
    PROVE  Trimmed(Append(m, Said(n))) \in Seq(Message) /\ LastSent(Trimmed(Append(m, Said(n))), a, n)
<1> PICK h \in 1 .. 50 : MaxHistory = 2 * h
  BY AiAssumption
<1> DEFINE all == Len(a)
           most == IF 2 * all <= MaxHistory THEN all ELSE MaxHistory \div 2
           fewer == IF all <= (MaxHistory - 1) \div 2 THEN all ELSE (MaxHistory - 1) \div 2
           x == Said(n)
           w == Append(m, x)
<1>1. all \in Nat /\ MaxHistory \div 2 = h /\ (MaxHistory - 1) \div 2 = h - 1 /\ h \in Nat /\ h >= 1
      /\ most \in 0 .. all /\ most <= h /\ fewer \in 0 .. all
      /\ fewer = (IF most < h THEN most ELSE h - 1)
  BY LenProperties
<1>2. x \in Message
  BY DEF Said, Message
<1>3. /\ Len(m) = 2 * most
      /\ \A i \in 1 .. most :
            /\ m[2 * i - 1] = [who |-> "user", command |-> a[all - most + i]]
            /\ m[2 * i] = [who |-> "assistant", command |-> a[all - most + i]]
  BY DEF LastTurns
<1> HIDE DEF x
<1>4. /\ w \in Seq(Message) /\ Len(w) = 2 * most + 1 /\ w[2 * most + 1] = x
      /\ \A i \in 1 .. (2 * most) : w[i] = m[i]
  BY <1>2, <1>3, AppendProperties
<1> HIDE DEF w, all
<1>5. CASE most < h
  <2>1. Trimmed(w) = w /\ fewer = most
    BY <1>1, <1>4, <1>5 DEF Trimmed
  <2>2. ASSUME NEW i \in 1 .. most
        PROVE  w[2 * i - 1] = m[2 * i - 1] /\ w[2 * i] = m[2 * i]
    <3>1. 2 * i - 1 \in 1 .. (2 * most) /\ 2 * i \in 1 .. (2 * most)
      BY <1>1
    <3> QED  BY <1>4, <3>1
  <2> HIDE DEF fewer, most
  <2>3. LastSent(w, a, n)
    <3>1. fewer = IF Len(a) <= (MaxHistory - 1) \div 2 THEN Len(a) ELSE (MaxHistory - 1) \div 2
      BY DEF fewer, all
    <3>2. Len(w) = 2 * fewer + 1 /\ w[2 * fewer + 1] = Said(n)
      BY <1>4, <2>1 DEF x
    <3>3. \A i \in 1 .. fewer :
             /\ w[2 * i - 1] = [who |-> "user", command |-> a[Len(a) - fewer + i]]
             /\ w[2 * i] = [who |-> "assistant", command |-> a[Len(a) - fewer + i]]
      BY <1>3, <2>1, <2>2 DEF all
    <3> QED  BY <3>1, <3>2, <3>3 DEF LastSent
  <2> QED  BY <1>4, <2>1, <2>3 DEF w, x
<1>6. CASE most = h
  <2> DEFINE s == SubSeq(w, 3, Len(w))
  <2>1. Trimmed(w) = s
    <3>1. Len(w) - MaxHistory = 1 /\ (1 + 1) \div 2 = 1
      BY <1>1, <1>4, <1>6
    <3> QED  BY <3>1 DEF Trimmed
  <2>2. /\ s \in Seq(Message) /\ Len(s) = 2 * h - 1
        /\ \A i \in 1 .. (2 * h - 1) : s[i] = w[i + 2]
    <3>1. \A i \in 3 .. Len(w) : w[i] \in Message
      BY <1>4, ElementOfSeq
    <3>2. /\ SubSeq(w, 3, Len(w)) \in Seq(Message)
          /\ Len(SubSeq(w, 3, Len(w))) = IF 3 <= Len(w) THEN Len(w) - 3 + 1 ELSE 0
          /\ \A i \in 1 .. (Len(w) - 3 + 1) : SubSeq(w, 3, Len(w))[i] = w[3 + i - 1]
      <4>1. Len(w) \in Int
        BY <1>1, <1>4
      <4> QED  BY <3>1, <4>1, SubSeqProperties
    <3>3. Len(w) - 3 + 1 = 2 * h - 1 /\ 3 <= Len(w) /\ \A i \in 1 .. (2 * h - 1) : 3 + i - 1 = i + 2
      BY <1>1, <1>4, <1>6
    <3> QED  BY <3>2, <3>3
  <2> HIDE DEF s
  <2>3. fewer = h - 1
    BY <1>1, <1>6
  <2>4. ASSUME NEW i \in 1 .. (h - 1)
        PROVE  /\ s[2 * i - 1] = [who |-> "user", command |-> a[all - (h - 1) + i]]
               /\ s[2 * i] = [who |-> "assistant", command |-> a[all - (h - 1) + i]]
    <3>1. /\ i + 1 \in 1 .. most /\ 2 * i \in 1 .. (2 * h - 1) /\ 2 * i - 1 \in 1 .. (2 * h - 1)
          /\ 2 * i - 1 + 2 = 2 * (i + 1) - 1 /\ 2 * i + 2 = 2 * (i + 1)
          /\ 2 * (i + 1) - 1 \in 1 .. (2 * most) /\ 2 * (i + 1) \in 1 .. (2 * most)
          /\ all - most + (i + 1) = all - (h - 1) + i
      BY <1>1, <1>6
    <3>2. s[2 * i - 1] = m[2 * (i + 1) - 1] /\ s[2 * i] = m[2 * (i + 1)]
      BY <1>4, <2>2, <3>1
    <3> QED  BY <1>3, <3>1, <3>2
  <2>5. s[2 * fewer + 1] = x
    <3>1. 2 * fewer + 1 \in 1 .. (2 * h - 1) /\ 2 * fewer + 1 + 2 = 2 * most + 1
      BY <1>1, <1>6, <2>3
    <3> QED  BY <1>4, <2>2, <3>1
  <2>6. LastSent(s, a, n)
    <3>1. fewer = IF Len(a) <= (MaxHistory - 1) \div 2 THEN Len(a) ELSE (MaxHistory - 1) \div 2
      BY DEF all
    <3>2. Len(s) = 2 * fewer + 1
      BY <1>1, <2>2, <2>3
    <3> HIDE DEF fewer
    <3> QED  BY <2>3, <2>4, <2>5, <3>1, <3>2 DEF LastSent, all, x
  <2> QED  BY <2>1, <2>2, <2>6 DEF w, x
<1> QED  BY <1>1, <1>5, <1>6

(* The latest of a list of commands, and the messages of their turns. *)
LEMMA LatestOf ==
    ASSUME NEW a \in Seq(Commands), NEW n \in Nat
    PROVE  LET most == IF Len(a) <= n THEN Len(a) ELSE n
           IN  /\ Latest(a, n) \in Seq(Commands) /\ Len(Latest(a, n)) = most
               /\ \A i \in 1 .. most : Latest(a, n)[i] = a[Len(a) - most + i]
<1> DEFINE all == Len(a)
<1>1. all \in Nat
  BY LenProperties
<1>2. CASE all <= n
  <2>1. Latest(a, n) = a
    BY <1>1, <1>2 DEF Latest
  <2>2. \A i \in 1 .. all : all - all + i = i
    BY <1>1
  <2> QED  BY <1>2, <2>1, <2>2
<1>3. CASE ~(all <= n)
  <2> DEFINE s == SubSeq(a, all - n + 1, all)
  <2>1. Latest(a, n) = s
    BY <1>1, <1>3 DEF Latest
  <2>2. \A j \in (all - n + 1) .. all : a[j] \in Commands
    <3>1. \A j \in (all - n + 1) .. all : j \in 1 .. all
      BY <1>1, <1>3
    <3> QED  BY <3>1, ElementOfSeq
  <2> HIDE DEF all
  <2>3. all - n + 1 \in Int /\ all \in Int
    BY <1>1
  <2>4. /\ s \in Seq(Commands)
        /\ Len(s) = IF all - n + 1 <= all THEN all - (all - n + 1) + 1 ELSE 0
        /\ \A i \in 1 .. (all - (all - n + 1) + 1) : s[i] = a[(all - n + 1) + i - 1]
    BY <2>2, <2>3, SubSeqProperties
  <2>5. /\ all - (all - n + 1) + 1 = n /\ (all - n + 1 <= all <=> n >= 1)
        /\ \A i \in 1 .. n : (all - n + 1) + i - 1 = all - n + i
    BY <1>1
  <2>6. s \in Seq(Commands) /\ Len(s) = n /\ \A i \in 1 .. n : s[i] = a[all - n + i]
    BY <2>4, <2>5
  <2> QED  BY <1>3, <2>1, <2>6 DEF all
<1> QED  BY <1>2, <1>3

LEMMA WholeOf ==
    ASSUME NEW s \in Seq(Commands)
    PROVE  /\ WholeTurns(s) \in Seq(Message) /\ Len(WholeTurns(s)) = 2 * Len(s)
           /\ \A i \in 1 .. Len(s) :
                 /\ WholeTurns(s)[2 * i - 1] = [who |-> "user", command |-> s[i]]
                 /\ WholeTurns(s)[2 * i] = [who |-> "assistant", command |-> s[i]]
<1> DEFINE n == Len(s)
           t == WholeTurns(s)
<1>1. n \in Nat /\ \A i \in 1 .. n : s[i] \in Commands
  BY LenProperties, ElementOfSeq
<1>2. t = [i \in 1 .. 2 * n |->
             [who |-> IF i % 2 = 1 THEN "user" ELSE "assistant", command |-> s[(i + 1) \div 2]]]
  BY DEF WholeTurns
<1> HIDE DEF n, t
<1>3. \A i \in 1 .. 2 * n : (i + 1) \div 2 \in 1 .. n
  BY <1>1
<1>4. t \in [1 .. 2 * n -> Message]
  BY <1>1, <1>2, <1>3 DEF Message
<1>5. t \in Seq(Message) /\ Len(t) = 2 * n
  <2>1. 2 * n \in Nat
    BY <1>1
  <2>2. t \in Seq(Message)
    BY <1>4, <2>1, SeqDef
  <2>3. Len(t) \in Nat /\ DOMAIN t = 1 .. Len(t) /\ DOMAIN t = 1 .. 2 * n
    BY <1>4, <2>2, LenProperties
  <2> DEFINE l == Len(t)
  <2>4. l \in Nat /\ 1 .. l = 1 .. 2 * n
    BY <2>3
  <2> HIDE DEF l
  <2>5. l = 2 * n
    BY <2>1, <2>4
  <2> QED  BY <2>2, <2>5 DEF l
<1>6. ASSUME NEW i \in 1 .. n
      PROVE  /\ t[2 * i - 1] = [who |-> "user", command |-> s[i]]
             /\ t[2 * i] = [who |-> "assistant", command |-> s[i]]
  <2>1. /\ 2 * i - 1 \in 1 .. 2 * n /\ 2 * i \in 1 .. 2 * n
        /\ (2 * i - 1) % 2 = 1 /\ (2 * i) % 2 = 0
        /\ (2 * i - 1 + 1) \div 2 = i /\ (2 * i + 1) \div 2 = i
    BY <1>1
  <2>2. t[2 * i - 1] = [who |-> IF (2 * i - 1) % 2 = 1 THEN "user" ELSE "assistant",
                        command |-> s[(2 * i - 1 + 1) \div 2]]
    BY <1>2, <2>1
  <2>3. t[2 * i] = [who |-> IF (2 * i) % 2 = 1 THEN "user" ELSE "assistant", command |-> s[(2 * i + 1) \div 2]]
    BY <1>2, <2>1
  <2> QED  BY <2>1, <2>2, <2>3
<1> QED  BY <1>5, <1>6 DEF n, t

(* Messages that are those turns one by one are those turns. *)
LEMMA AreWhole ==
    ASSUME NEW m \in Seq(Message), NEW s \in Seq(Commands), Len(m) = 2 * Len(s),
           \A i \in 1 .. Len(s) : /\ m[2 * i - 1] = [who |-> "user", command |-> s[i]]
                                 /\ m[2 * i] = [who |-> "assistant", command |-> s[i]]
    PROVE  m = WholeTurns(s)
<1> DEFINE t == WholeTurns(s)
<1>1. t \in Seq(Message) /\ Len(t) = 2 * Len(s)
      /\ \A i \in 1 .. Len(s) : t[2 * i - 1] = m[2 * i - 1] /\ t[2 * i] = m[2 * i]
  BY WholeOf
<1> HIDE DEF t
<1>2. ASSUME NEW j \in 1 .. Len(m) PROVE m[j] = t[j]
  <2>1. \E i \in 1 .. Len(s) : j = 2 * i - 1 \/ j = 2 * i
    <3>1. Len(s) \in Nat /\ (j + 1) \div 2 \in 1 .. Len(s) /\ (j = 2 * ((j + 1) \div 2) - 1 \/ j = 2 * ((j + 1) \div 2))
      BY LenProperties
    <3> QED  BY <3>1
  <2> QED  BY <1>1, <2>1
<1> QED  BY <1>1, <1>2, SeqEqual DEF t

(* A command that has not begun in a conversation changes nothing of them. *)
LEMMA BeforeItBegins ==
    ASSUME NEW cs, NEW cl, NEW an, NEW n, ConvInv(cs, cl, an, n), NEW c \in Calls,
           cl[c] # None => cl[c].conv = None,
           NEW e \in Command \cup {None}, e # None => e.conv = None /\ Knows(e, n)
    PROVE  ConvInv(cs, [cl EXCEPT ![c] = e], an, n)
<1> DEFINE next == [cl EXCEPT ![c] = e]
<1>1. next \in [Calls -> Command \cup {None}] /\ \A d \in Calls : next[d] = IF d = c THEN e ELSE cl[d]
  BY DEF ConvInv
<1>2. \A d \in Calls, v \in Commands : Serves(next, d, v) <=> Serves(cl, d, v)
  BY <1>1, NoneAssumption DEF Serves, Commands
<1>3. \A d \in Calls : next[d] # None => Knows(next[d], n)
  BY <1>1 DEF ConvInv
<1>4. \A d \in Calls, v \in Commands : Serves(cl, d, v) => next[d] = cl[d]
  BY <1>1, NoneAssumption DEF Serves, Commands
<1> HIDE DEF next
<1>5. ASSUME NEW v \in Commands, NEW d \in Calls, Serves(next, d, v)
      PROVE  cs[v] # None /\ cs[v].busy /\ LastSent(next[d].sent, an[v], next[d].id) /\ \A x \in Calls : Serves(next, x, v) => x = d
  BY <1>2, <1>4, <1>5 DEF ConvInv
<1>6. ASSUME NEW v \in Commands, cs[v] # None
      PROVE  /\ v <= n /\ LastTurns(cs[v].messages, an[v])
             /\ cs[v].busy => \E x \in Calls : Serves(next, x, v)
             /\ ~cs[v].busy => cs[v].messages # <<>>
  BY <1>2, <1>6 DEF ConvInv
<1>7. ConvInv(cs, next, an, n)
  BY <1>1, <1>3, <1>5, <1>6 DEF ConvInv
<1> QED  BY <1>7 DEF next

(* A command goes on in its conversation. *)
LEMMA GoesOnThere ==
    ASSUME NEW cs, NEW cl, NEW an, NEW n, ConvInv(cs, cl, an, n), NEW c \in Calls, cl[c] # None,
           NEW e \in Command, e.conv = cl[c].conv, e.sent = cl[c].sent, e.id = cl[c].id, Knows(e, n)
    PROVE  ConvInv(cs, [cl EXCEPT ![c] = e], an, n)
<1> DEFINE next == [cl EXCEPT ![c] = e]
<1>1. next \in [Calls -> Command \cup {None}] /\ \A d \in Calls : next[d] = IF d = c THEN e ELSE cl[d]
  BY DEF ConvInv
<1>2. \A d \in Calls, v \in Commands : Serves(next, d, v) <=> Serves(cl, d, v)
  BY <1>1, RecordAssumption DEF Serves
<1>3. \A d \in Calls : next[d] # None => Knows(next[d], n)
  BY <1>1 DEF ConvInv
<1>4. \A d \in Calls, v \in Commands : Serves(cl, d, v) => next[d].sent = cl[d].sent /\ next[d].id = cl[d].id
  BY <1>1 DEF Serves
<1> HIDE DEF next
<1>5. ASSUME NEW v \in Commands, NEW d \in Calls, Serves(next, d, v)
      PROVE  cs[v] # None /\ cs[v].busy /\ LastSent(next[d].sent, an[v], next[d].id) /\ \A x \in Calls : Serves(next, x, v) => x = d
  BY <1>2, <1>4, <1>5 DEF ConvInv
<1>6. ASSUME NEW v \in Commands, cs[v] # None
      PROVE  /\ v <= n /\ LastTurns(cs[v].messages, an[v])
             /\ cs[v].busy => \E x \in Calls : Serves(next, x, v)
             /\ ~cs[v].busy => cs[v].messages # <<>>
  BY <1>2, <1>6 DEF ConvInv
<1>7. ConvInv(cs, next, an, n)
  BY <1>1, <1>3, <1>5, <1>6 DEF ConvInv
<1> QED  BY <1>7 DEF next

(* Idle conversations may be forgotten. *)
LEMMA IdleOnesForgotten ==
    ASSUME NEW cs, NEW cl, NEW an, NEW n, ConvInv(cs, cl, an, n),
           NEW s \in [Commands -> Conversation \cup {None}],
           \A v \in Commands : s[v] = cs[v] \/ (s[v] = None /\ v \in Idle(cs))
    PROVE  ConvInv(s, cl, an, n)
<1>1. ASSUME NEW v \in Commands, NEW d \in Calls, Serves(cl, d, v)
      PROVE  s[v] # None /\ s[v].busy /\ LastSent(cl[d].sent, an[v], cl[d].id) /\ \A x \in Calls : Serves(cl, x, v) => x = d
  <2>1. cs[v] # None /\ cs[v].busy /\ LastSent(cl[d].sent, an[v], cl[d].id) /\ \A x \in Calls : Serves(cl, x, v) => x = d
    BY <1>1 DEF ConvInv
  <2>2. v \notin Idle(cs)
    BY <2>1 DEF Idle
  <2> QED  BY <2>1, <2>2
<1>2. ASSUME NEW v \in Commands, s[v] # None
      PROVE  /\ v <= n /\ LastTurns(s[v].messages, an[v])
             /\ s[v].busy => \E x \in Calls : Serves(cl, x, v)
             /\ ~s[v].busy => s[v].messages # <<>>
  <2>1. s[v] = cs[v]
    BY <1>2
  <2> QED  BY <1>2, <2>1 DEF ConvInv
<1> QED  BY <1>1, <1>2 DEF ConvInv

(* A command begins in a conversation that is new or free. *)
LEMMA BeginsThere ==
    ASSUME NEW cs, NEW cl, NEW an, NEW n, ConvInv(cs, cl, an, n), n < MaxCommands, NEW c \in Calls,
           cl[c] # None => cl[c].conv = None,
           NEW v \in 1 .. (n + 1), cs[v] = None => v = n + 1, cs[v] # None => ~cs[v].busy,
           NEW k \in Conversation, k.busy, LastTurns(k.messages, an[v]),
           NEW e \in Command, e.conv = v, LastSent(e.sent, an[v], e.id), Knows(e, n + 1)
    PROVE  ConvInv([cs EXCEPT ![v] = k], [cl EXCEPT ![c] = e], an, n + 1)
<1> DEFINE after == [cs EXCEPT ![v] = k]
           next == [cl EXCEPT ![c] = e]
<1>0. n \in Nat /\ MaxCommands \in Nat /\ n + 1 \in 0 .. MaxCommands /\ v \in Commands
  BY AiAssumption DEF ConvInv, Commands
<1>1. next \in [Calls -> Command \cup {None}] /\ \A d \in Calls : next[d] = IF d = c THEN e ELSE cl[d]
  BY DEF ConvInv
<1>2. after \in [Commands -> Conversation \cup {None}] /\ \A u \in Commands : after[u] = IF u = v THEN k ELSE cs[u]
  BY <1>0 DEF ConvInv
<1> HIDE DEF next, after
<1>3. k # None /\ e # None
  BY RecordAssumption
<1>4. \A d \in Calls : ~Serves(cl, d, v)
  BY <1>0 DEF ConvInv
<1>5. \A d \in Calls, u \in Commands : Serves(next, d, u) <=> (IF u = v THEN d = c ELSE Serves(cl, d, u))
  <2> TAKE d \in Calls, u \in Commands
  <2>1. CASE d = c
    <3>1. ~Serves(cl, c, u)
      BY NoneAssumption DEF Serves, Commands
    <3>2. Serves(next, c, u) <=> u = v
      BY <1>1, <1>3 DEF Serves
    <3> QED  BY <2>1, <3>1, <3>2
  <2>2. CASE d # c
    <3>1. Serves(next, d, u) <=> Serves(cl, d, u)
      BY <1>1, <2>2 DEF Serves
    <3> QED  BY <1>4, <2>2, <3>1
  <2> QED  BY <2>1, <2>2
<1>6. ASSUME NEW d \in Calls, next[d] # None PROVE Knows(next[d], n + 1)
  <2>1. CASE d = c
    BY <1>1, <2>1
  <2>2. CASE d # c
    <3>1. next[d] = cl[d] /\ Knows(cl[d], n)
      BY <1>1, <1>6, <2>2 DEF ConvInv
    <3>2. 1 .. n \subseteq 1 .. (n + 1)
      BY <1>0
    <3> QED  BY <3>1, <3>2 DEF Knows
  <2> QED  BY <2>1, <2>2
<1>7. ASSUME NEW u \in Commands, NEW d \in Calls, Serves(next, d, u)
      PROVE  after[u] # None /\ after[u].busy /\ LastSent(next[d].sent, an[u], next[d].id) /\ \A x \in Calls : Serves(next, x, u) => x = d
  <2>1. CASE u = v
    BY <1>1, <1>2, <1>3, <1>5, <1>7, <2>1
  <2>2. CASE u # v
    <3>1. Serves(cl, d, u) /\ after[u] = cs[u]
      BY <1>2, <1>5, <1>7, <2>2
    <3>2. d # c
      BY <3>1, NoneAssumption DEF Serves, Commands
    <3>3. \A x \in Calls : Serves(next, x, u) => Serves(cl, x, u)
      BY <1>5, <2>2
    <3> QED  BY <1>1, <3>1, <3>2, <3>3 DEF ConvInv
  <2> QED  BY <2>1, <2>2
<1>8. ASSUME NEW u \in Commands, after[u] # None
      PROVE  /\ u <= n + 1 /\ LastTurns(after[u].messages, an[u])
             /\ after[u].busy => \E x \in Calls : Serves(next, x, u)
             /\ ~after[u].busy => after[u].messages # <<>>
  <2>1. CASE u = v
    BY <1>0, <1>2, <1>5, <2>1
  <2>2. CASE u # v
    <3>1. after[u] = cs[u]
      BY <1>2, <2>2
    <3>2. u <= n /\ LastTurns(cs[u].messages, an[u])
          /\ (cs[u].busy => \E x \in Calls : Serves(cl, x, u))
          /\ (~cs[u].busy => cs[u].messages # <<>>)
      BY <1>8, <3>1 DEF ConvInv
    <3>3. u <= n + 1
      BY <1>0, <3>2 DEF Commands
    <3> QED  BY <1>5, <2>2, <3>1, <3>2, <3>3
  <2> QED  BY <2>1, <2>2
<1>9. \A u \in Commands : u > n + 1 => an[u] = <<>>
  BY <1>0 DEF ConvInv, Commands
<1>10. ConvInv(after, next, an, n + 1)
  BY <1>0, <1>1, <1>2, <1>6, <1>7, <1>8, <1>9 DEF ConvInv
<1> QED  BY <1>10 DEF after, next

(* A command is over, with an answer or without. *)
LEMMA LeavesItFree ==
    ASSUME NEW cs, NEW cl, NEW an, NEW n, ConvInv(cs, cl, an, n), NEW c \in Calls, NEW v \in Commands,
           Serves(cl, c, v), NEW b \in Seq(Commands),
           NEW k \in Conversation \cup {None},
           k # None => ~k.busy /\ k.messages # <<>> /\ LastTurns(k.messages, b)
    PROVE  ConvInv([cs EXCEPT ![v] = k], [cl EXCEPT ![c] = None], [an EXCEPT ![v] = b], n)
<1> DEFINE after == [cs EXCEPT ![v] = k]
           next == [cl EXCEPT ![c] = None]
           now2 == [an EXCEPT ![v] = b]
<1>0. n \in Nat /\ cs[v] # None /\ v <= n /\ cl[c] # None /\ cl[c].conv = v
  BY DEF ConvInv, Serves, Commands
<1>1. next \in [Calls -> Command \cup {None}] /\ \A d \in Calls : next[d] = IF d = c THEN None ELSE cl[d]
  BY DEF ConvInv
<1>2. after \in [Commands -> Conversation \cup {None}] /\ \A u \in Commands : after[u] = IF u = v THEN k ELSE cs[u]
  BY DEF ConvInv
<1>3. now2 \in [Commands -> Seq(Commands)] /\ \A u \in Commands : now2[u] = IF u = v THEN b ELSE an[u]
  BY DEF ConvInv
<1> HIDE DEF next, after, now2
<1>4. \A d \in Calls, u \in Commands : Serves(next, d, u) <=> (Serves(cl, d, u) /\ d # c)
  BY <1>1 DEF Serves
<1>5. \A d \in Calls : d # c => ~Serves(cl, d, v)
  BY DEF ConvInv
<1>6. ASSUME NEW u \in Commands, NEW d \in Calls, Serves(next, d, u)
      PROVE  after[u] # None /\ after[u].busy /\ LastSent(next[d].sent, now2[u], next[d].id) /\ \A x \in Calls : Serves(next, x, u) => x = d
  <2>1. d # c /\ Serves(cl, d, u) /\ u # v
    BY <1>4, <1>5, <1>6
  <2>2. after[u] = cs[u] /\ now2[u] = an[u] /\ next[d] = cl[d]
    BY <1>1, <1>2, <1>3, <2>1
  <2> QED  BY <1>4, <2>1, <2>2 DEF ConvInv
<1>7. ASSUME NEW u \in Commands, after[u] # None
      PROVE  /\ u <= n /\ LastTurns(after[u].messages, now2[u])
             /\ after[u].busy => \E x \in Calls : Serves(next, x, u)
             /\ ~after[u].busy => after[u].messages # <<>>
  <2>1. CASE u = v
    BY <1>0, <1>2, <1>3, <1>7, <2>1
  <2>2. CASE u # v
    <3>1. after[u] = cs[u] /\ now2[u] = an[u]
      BY <1>2, <1>3, <2>2
    <3>2. \A x \in Calls : Serves(cl, x, u) => x # c
      BY <1>0, <2>2 DEF Serves
    <3> QED  BY <1>4, <1>7, <3>1, <3>2 DEF ConvInv
  <2> QED  BY <2>1, <2>2
<1>8. \A d \in Calls : next[d] # None => Knows(next[d], n)
  BY <1>1 DEF ConvInv
<1>9. \A u \in Commands : u > n => now2[u] = <<>>
  BY <1>0, <1>3 DEF ConvInv, Commands
<1>10. n \in 0 .. MaxCommands
  BY DEF ConvInv
<1>11. ConvInv(after, next, now2, n)
  BY <1>1, <1>2, <1>3, <1>6, <1>7, <1>8, <1>9, <1>10 DEF ConvInv
<1> QED  BY <1>11 DEF after, next, now2

-----------------------------------------------------------------------------
(* The limit of conversations. *)

LEMMA CommandsFinite == IsFiniteSet(Commands)
<1>1. 1 \in Int /\ MaxCommands \in Int
  BY AiAssumption
<1> QED  BY <1>1, FS_Interval DEF Commands

LEMMA KeptFinite == IsFiniteSet(Kept) /\ Cardinality(Kept) \in Nat /\ IsFiniteSet(Calls) /\ Cardinality(Calls) \in Nat
<1>1. IsFiniteSet(Commands)
  BY CommandsFinite
<1>2. Kept \in SUBSET Commands
  BY DEF Kept
<1> QED  BY <1>1, <1>2, FS_Subset, FS_CardinalityType, AiAssumption

LEMMA FewerKept == ASSUME RoomInv, Kept' \subseteq Kept PROVE RoomInv'
<1>1. IsFiniteSet(Kept') /\ Cardinality(Kept') <= Cardinality(Kept) /\ Cardinality(Kept') \in Nat
  BY KeptFinite, FS_Subset, FS_CardinalityType
<1> QED  BY <1>1, KeptFinite, AiAssumption DEF RoomInv

(* There is room for one more, or all that are left are busy. *)
LEMMA RoomMade ==
    ASSUME NEW cs \in [Commands -> Conversation \cup {None}], NEW s \in Room(cs)
    PROVE  /\ s \in [Commands -> Conversation \cup {None}]
           /\ \A v \in Commands : s[v] = cs[v] \/ (s[v] = None /\ v \in Idle(cs))
           /\ \/ Cardinality({v \in Commands : s[v] # None}) < MaxKept
              \/ \A v \in Commands : s[v] # None => s[v].busy
<1> DEFINE K == {v \in Commands : cs[v] # None}
           surplus == Cardinality(K) - MaxKept + 1
           fewest == IF surplus <= 0 THEN 0
                     ELSE IF surplus <= Cardinality(Idle(cs)) THEN surplus ELSE Cardinality(Idle(cs))
<1>1. PICK gone \in SUBSET Idle(cs) :
        Cardinality(gone) = fewest /\ s = [v \in Commands |-> IF v \in gone THEN None ELSE cs[v]]
  BY DEF Room
<1>2. \A v \in Commands : s[v] = IF v \in gone THEN None ELSE cs[v]
  BY <1>1
<1>3. s \in [Commands -> Conversation \cup {None}]
  BY <1>1
<1>4. IsFiniteSet(K) /\ IsFiniteSet(Idle(cs)) /\ IsFiniteSet(gone)
      /\ Cardinality(K) \in Nat /\ Cardinality(Idle(cs)) \in Nat
  <2>1. IsFiniteSet(Commands)
    BY CommandsFinite
  <2>2. K \in SUBSET Commands /\ Idle(cs) \in SUBSET Commands
    BY DEF Idle
  <2>3. IsFiniteSet(K) /\ IsFiniteSet(Idle(cs))
    BY <2>1, <2>2, FS_Subset
  <2> QED  BY <2>3, FS_Subset, FS_CardinalityType
<1>5. gone \subseteq K /\ {v \in Commands : s[v] # None} = K \ gone
  BY <1>2 DEF Idle
<1>6. Cardinality(K \ gone) = Cardinality(K) - Cardinality(gone)
  <2>1. K \cap gone = gone
    BY <1>5
  <2>2. Cardinality(K \ gone) = Cardinality(K) - Cardinality(K \cap gone)
    BY <1>4, FS_Difference
  <2> QED  BY <2>1, <2>2
<1> HIDE DEF K
<1>7. MaxKept \in Nat
  BY AiAssumption
<1>8. CASE surplus <= 0 \/ surplus <= Cardinality(Idle(cs))
  <2>1. fewest >= surplus /\ Cardinality(gone) = fewest /\ surplus \in Int
    BY <1>1, <1>4, <1>7, <1>8
  <2>2. Cardinality(K \ gone) < MaxKept
    BY <1>4, <1>6, <1>7, <2>1
  <2> QED  BY <1>2, <1>3, <1>5, <2>2
<1>9. CASE ~(surplus <= 0) /\ ~(surplus <= Cardinality(Idle(cs)))
  <2>1. gone = Idle(cs)
    BY <1>1, <1>4, <1>9, FS_Subset
  <2> QED  BY <1>2, <1>3, <2>1 DEF Idle
<1> QED  BY <1>8, <1>9

(* Conversations that are all busy are no more than the commands that run. *)
LEMMA AllBusy ==
    ASSUME NEW cs, NEW cl, NEW an, NEW n, ConvInv(cs, cl, an, n), \A v \in Commands : cs[v] # None => cs[v].busy
    PROVE  Cardinality({v \in Commands : cs[v] # None}) <= Cardinality(Calls)
<1> DEFINE K == {v \in Commands : cs[v] # None}
           f == [v \in K |-> CHOOSE c \in Calls : Serves(cl, c, v)]
<1>1. \A v \in K : f[v] \in Calls /\ Serves(cl, f[v], v)
  BY DEF ConvInv
<1>2. \A v, u \in K : f[v] = f[u] => v = u
  <2> HIDE DEF f, K
  <2>1. \A v \in K : cl[f[v]].conv = v
    BY <1>1 DEF Serves
  <2> QED  BY <2>1
<1>3. f \in [K -> Calls]
  BY <1>1
<1> HIDE DEF f, K
<1>4. f \in Injection(K, Calls)
  BY <1>2, <1>3 DEF Injection, IsInjective
<1>5. Cardinality(K) <= Cardinality(Calls)
  BY <1>4, FS_Injection, AiAssumption
<1> QED  BY <1>5 DEF K

-----------------------------------------------------------------------------
LEMMA AiInitInv == AiInit => AiInv
<1> SUFFICES ASSUME AiInit PROVE AiInv
  OBVIOUS
<1>1. RateInv
  BY RateInvInit DEF AiInit
<1>2. \A v \in Commands : convs[v] = None /\ answered[v] = <<>>
  BY DEF AiInit
<1>3. \A c \in Calls : call[c] = None
  BY DEF AiInit
<1>4. /\ convs \in [Commands -> Conversation \cup {None}] /\ call \in [Calls -> Command \cup {None}]
      /\ answered \in [Commands -> Seq(Commands)]
  BY EmptySeq DEF AiInit
<1>5. begun \in 0 .. MaxCommands
  BY AiAssumption DEF AiInit
<1>6. ConvInv(convs, call, answered, begun)
  BY <1>2, <1>3, <1>4, <1>5 DEF ConvInv, Serves
<1>7. RoomInv
  <2>1. Kept = {}
    BY <1>2 DEF Kept
  <2> QED  BY <2>1, FS_EmptySet, AiAssumption DEF RoomInv
<1> QED  BY <1>1, <1>6, <1>7 DEF AiInv, AiInit

(* The conversations that have not expired, as a begin leaves them. *)
LEMMA UnexpiredInv ==
    ASSUME AiInv
    PROVE  /\ Unexpired \in [Commands -> Conversation \cup {None}]
           /\ \A v \in Commands : Unexpired[v] = convs[v] \/ (Unexpired[v] = None /\ v \in Idle(convs))
           /\ ConvInv(Unexpired, call, answered, begun)
<1>1. /\ Unexpired \in [Commands -> Conversation \cup {None}]
      /\ \A v \in Commands : Unexpired[v] = convs[v] \/ (Unexpired[v] = None /\ v \in Idle(convs))
  BY DEF AiInv, ConvInv, Unexpired
<1> QED  BY <1>1, IdleOnesForgotten DEF AiInv

(* A command begins in a conversation of its own. *)
LEMMA BeginNewInv == ASSUME AiInv, NEW c \in Calls, BeginNew(c) PROVE AiInv'
<1> PICK s \in Room(Unexpired) : Starts(c, begun + 1, s, <<>>)
  BY DEF BeginNew
<1> DEFINE v == begun + 1
           k == [messages |-> <<>>, used |-> now, busy |-> TRUE]
           e == [call[c] EXCEPT !.at = "ask", !.conv = v, !.id = v, !.sent = Trimmed(Append(<<>>, Said(v)))]
<1>1. At(c, "begin") /\ begun < MaxCommands /\ UNCHANGED <<limiterVars, key, answered>>
  BY DEF BeginNew
<1>2. /\ s \in [Commands -> Conversation \cup {None}]
      /\ \A u \in Commands : s[u] = Unexpired[u] \/ (s[u] = None /\ u \in Idle(Unexpired))
      /\ \/ Cardinality({u \in Commands : s[u] # None}) < MaxKept
         \/ \A u \in Commands : s[u] # None => s[u].busy
  BY UnexpiredInv, RoomMade
<1>3. ConvInv(s, call, answered, begun)
  BY <1>2, UnexpiredInv, IdleOnesForgotten
<1>4. begun \in Nat /\ v \in Commands /\ v \in Nat /\ now \in Nat /\ call[c] \in Command /\ call[c].conv = None
      /\ call[c].round < MaxRounds /\ s[v] = None /\ answered[v] = <<>> /\ answered[v] \in Seq(Commands)
  <2>1. begun \in Nat /\ v \in Commands /\ v > begun /\ v \in Nat
    BY <1>1, <1>3, AiAssumption DEF ConvInv, Commands
  <2>2. now \in Nat
    BY LimiterAssumption DEF AiInv, RateInv, LimiterTypeOK
  <2>3. call[c] \in Command /\ Knows(call[c], begun)
    BY <1>1, <1>3 DEF ConvInv, At
  <2>4. s[v] = None
    <3>1. ~(v <= begun)
      BY <2>1
    <3> QED  BY <1>3, <2>1, <3>1 DEF ConvInv
  <2> QED  BY <1>1, <1>3, <2>1, <2>2, <2>3, <2>4 DEF ConvInv, At, Knows
<1>5. k \in Conversation /\ k.busy /\ LastTurns(k.messages, answered[v])
  <2>1. <<>> \in Seq(Message) /\ Len(<<>>) = 0
    BY EmptySeq
  <2>2. k \in Conversation /\ k.busy /\ k.messages = <<>>
    BY <1>4, <2>1 DEF Conversation
  <2>3. MaxHistory \in Nat
    <3> PICK h \in 1 .. 50 : MaxHistory = 2 * h
      BY AiAssumption
    <3> QED  OBVIOUS
  <2>4. LastTurns(<<>>, <<>>)
    BY <2>1, <2>3 DEF LastTurns
  <2> QED  BY <1>4, <2>2, <2>4
<1>6. e \in Command /\ e.at = "ask" /\ e.conv = v /\ e.id = v /\ e.round = call[c].round
      /\ LastSent(e.sent, answered[v], e.id)
  <2> DEFINE told == Trimmed(Append(<<>>, Said(v)))
  <2>1. call[c] \in Command /\ v \in Commands
    BY <1>4
  <2>2. told \in Seq(Message) /\ LastSent(told, answered[v], v)
    <3>1. <<>> \in Seq(Message) /\ LastTurns(<<>>, answered[v])
      BY <1>5, EmptySeq
    <3> QED  BY <1>4, <3>1, UserTold
  <2> HIDE DEF v, told
  <2>3. call[c] \in Command /\ v \in Commands /\ told \in Seq(Message)
    BY <2>1, <2>2
  <2> HIDE DEF Commands, Message
  <2>4. [call[c] EXCEPT !.at = "ask", !.conv = v, !.id = v, !.sent = told] \in Command
    BY <2>3 DEF Command
  <2> QED  BY <2>2, <2>3, <2>4 DEF Command, told
<1>7. convs' = [s EXCEPT ![v] = k] /\ begun' = begun + 1 /\ call' = [call EXCEPT ![c] = e]
  BY DEF Starts
<1> HIDE DEF k, e
<1>8. ConvInv(convs', call', answered', begun')
  <2>1. Knows(e, begun + 1)
    BY <1>4, <1>6 DEF Knows
  <2>2. v \in 1 .. (begun + 1) /\ (call[c] # None => call[c].conv = None)
    BY <1>4
  <2>3. ConvInv([s EXCEPT ![v] = k], [call EXCEPT ![c] = e], answered, begun + 1)
    BY <1>1, <1>3, <1>4, <1>5, <1>6, <2>1, <2>2, BeginsThere
  <2> QED  BY <1>1, <1>7, <2>3
<1>9. RoomInv'
  <2>1. \A u \in Commands : convs'[u] = IF u = v THEN k ELSE s[u]
    BY <1>2, <1>7
  <2>2. CASE Cardinality({u \in Commands : s[u] # None}) < MaxKept
    <3> DEFINE K == {u \in Commands : s[u] # None}
    <3>1. Kept' = K \cup {v}
      BY <1>4, <1>5, <2>1, RecordAssumption DEF Kept
    <3>2. IsFiniteSet(K) /\ v \notin K
      <4>1. IsFiniteSet(Commands)
        BY CommandsFinite
      <4> QED  BY <1>4, <4>1, FS_Subset
    <3>3. Cardinality(Kept') = Cardinality(K) + 1 /\ Cardinality(K) \in Nat
      BY <3>1, <3>2, FS_AddElement, FS_CardinalityType
    <3> QED  BY <2>2, <3>3, AiAssumption DEF RoomInv
  <2>3. CASE \A u \in Commands : s[u] # None => s[u].busy
    <3>1. \A u \in Commands : convs'[u] # None => convs'[u].busy
      BY <1>5, <2>1, <2>3
    <3>2. Cardinality({u \in Commands : convs'[u] # None}) <= Cardinality(Calls)
      BY <1>8, <3>1, AllBusy
    <3> QED  BY <3>2 DEF RoomInv, Kept
  <2> QED  BY <1>2, <2>2, <2>3
<1> QED  BY <1>1, <1>8, <1>9 DEF AiInv, RateInv, LimiterTypeOK, Recent, limiterVars

(* A command begins in a conversation that is free, or is refused. *)
LEMMA BeginInInv == ASSUME AiInv, NEW c \in Calls, BeginIn(c) PROVE AiInv'
<1> PICK v \in 1 .. begun :
      /\ At(c, "begin") /\ begun < MaxCommands
      /\ IF Free(v) THEN Starts(c, v, Unexpired, Unexpired[v].messages)
         ELSE /\ convs' = Unexpired /\ call' = [call EXCEPT ![c] = None]
              /\ UNCHANGED begun
      /\ UNCHANGED <<limiterVars, key, answered>>
  BY DEF BeginIn
<1>1. /\ Unexpired \in [Commands -> Conversation \cup {None}]
      /\ \A u \in Commands : Unexpired[u] = convs[u] \/ (Unexpired[u] = None /\ u \in Idle(convs))
      /\ ConvInv(Unexpired, call, answered, begun)
  BY UnexpiredInv
<1>2. begun \in Nat /\ v \in Commands /\ begun + 1 \in Commands /\ now \in Nat /\ call[c] \in Command
      /\ call[c].conv = None /\ call[c].round < MaxRounds /\ answered[v] \in Seq(Commands)
  <2>1. begun \in Nat /\ v \in Commands /\ begun + 1 \in Commands
    BY <1>1, AiAssumption DEF ConvInv, Commands
  <2>2. now \in Nat
    BY LimiterAssumption DEF AiInv, RateInv, LimiterTypeOK
  <2>3. call[c] \in Command /\ Knows(call[c], begun)
    BY <1>1 DEF ConvInv, At
  <2> QED  BY <1>1, <2>1, <2>2, <2>3 DEF ConvInv, At, Knows
<1>3. CASE Free(v)
  <2> DEFINE k == [messages |-> Unexpired[v].messages, used |-> now, busy |-> TRUE]
             e == [call[c] EXCEPT !.at = "ask", !.conv = v, !.id = begun + 1,
                            !.sent = Trimmed(Append(Unexpired[v].messages, Said(begun + 1)))]
  <2>1. Unexpired[v] # None /\ ~Unexpired[v].busy /\ Unexpired[v] \in Conversation
        /\ LastTurns(Unexpired[v].messages, answered[v])
    BY <1>1, <1>2, <1>3 DEF Free, ConvInv
  <2>2. k \in Conversation /\ k.busy /\ LastTurns(k.messages, answered[v])
    BY <1>2, <2>1 DEF Conversation
  <2>3. e \in Command /\ e.at = "ask" /\ e.conv = v /\ e.id = begun + 1 /\ LastSent(e.sent, answered[v], e.id)
        /\ e.round = call[c].round
    <3> DEFINE n == begun + 1
               told == Trimmed(Append(Unexpired[v].messages, Said(n)))
    <3>1. Unexpired[v].messages \in Seq(Message)
      BY <2>1 DEF Conversation
    <3>2. told \in Seq(Message) /\ LastSent(told, answered[v], n)
      BY <1>2, <2>1, <3>1, UserTold
    <3>3. call[c] \in Command /\ v \in Commands /\ n \in Commands
      BY <1>2
    <3> HIDE DEF n, told, Commands, Message
    <3>4. [call[c] EXCEPT !.at = "ask", !.conv = v, !.id = n, !.sent = told] \in Command
      BY <3>2, <3>3 DEF Command
    <3> QED  BY <3>2, <3>3, <3>4 DEF Command, n, told
  <2>4. convs' = [Unexpired EXCEPT ![v] = k] /\ begun' = begun + 1 /\ call' = [call EXCEPT ![c] = e]
    BY <1>3 DEF Starts
  <2> HIDE DEF k, e
  <2>5. ConvInv(convs', call', answered', begun')
    <3>1. Knows(e, begun + 1)
      BY <1>2, <2>3 DEF Knows
    <3>2. v \in 1 .. (begun + 1) /\ (call[c] # None => call[c].conv = None)
      BY <1>2
    <3>3. ConvInv([Unexpired EXCEPT ![v] = k], [call EXCEPT ![c] = e], answered, begun + 1)
      BY <1>1, <1>2, <2>1, <2>2, <2>3, <3>1, <3>2, BeginsThere
    <3> QED  BY <2>4, <3>3
  <2>6. RoomInv'
    <3>1. Kept' \subseteq Kept
      BY <1>1, <2>1, <2>4 DEF Kept
    <3> QED  BY <3>1, FewerKept DEF AiInv
  <2> QED  BY <2>5, <2>6 DEF AiInv, RateInv, LimiterTypeOK, Recent, limiterVars
<1>4. CASE ~Free(v)
  <2>1. ConvInv(convs', call', answered', begun')
    BY <1>1, <1>2, <1>4, BeforeItBegins
  <2>2. Kept' \subseteq Kept
    BY <1>1, <1>4 DEF Kept
  <2> QED  BY <2>1, <2>2, FewerKept DEF AiInv, RateInv, LimiterTypeOK, Recent, limiterVars
<1> QED  BY <1>3, <1>4

(* Steps that touch only one command that has not begun, or goes on. *)
LEMMA RequestInv == ASSUME AiInv, NEW c \in Calls, Request(c) PROVE AiInv'
<1> DEFINE e == [at |-> "key", conv |-> None, id |-> None, round |-> 0, tools |-> 0, sent |-> <<>>]
<1>1. call[c] = None /\ UNCHANGED <<key, convs, begun, answered>>
  BY DEF Request
<1>2. e \in Command /\ e.conv = None /\ Knows(e, begun)
  <2>1. <<>> \in Seq(Message)
    BY EmptySeq
  <2> QED  BY <2>1, AiAssumption DEF Command, Knows
<1>3. CASE Admit /\ call' = [call EXCEPT ![c] = e]
  <2>1. RateInv'
    BY <1>3, AdmitKeepsRate DEF AiInv
  <2> HIDE DEF e
  <2>2. ConvInv(convs, [call EXCEPT ![c] = e], answered, begun)
    BY <1>1, <1>2, BeforeItBegins DEF AiInv
  <2> QED  BY <1>1, <1>3, <2>1, <2>2 DEF AiInv, RoomInv, Kept
<1>4. CASE TooMany /\ UNCHANGED call
  <2>1. RateInv'
    BY <1>4, TooManyKeepsRate DEF AiInv
  <2> QED  BY <1>1, <1>4, <2>1 DEF AiInv, RoomInv, Kept
<1> QED  BY <1>3, <1>4 DEF Request

LEMMA ResolveKeyInv == ASSUME AiInv, NEW c \in Calls, ResolveKey(c) PROVE AiInv'
<1>1. call[c] # None /\ call[c].at = "key" /\ UNCHANGED <<limiterVars, key, convs, begun, answered>>
  BY DEF ResolveKey, At
<1>2. call[c] \in Command /\ Knows(call[c], begun) /\ call[c].conv = None
  BY <1>1 DEF AiInv, ConvInv, Knows
<1>3. ConvInv(convs, call', answered, begun)
  <2>1. CASE call' = [call EXCEPT ![c].at = "begin"]
    <3> DEFINE e == [call[c] EXCEPT !.at = "begin"]
    <3>1. e \in Command /\ e.at = "begin" /\ e.conv = None /\ e.round = call[c].round
      BY <1>2 DEF Command
    <3>2. call' = [call EXCEPT ![c] = e]
      BY <2>1
    <3> HIDE DEF e
    <3>3. Knows(e, begun)
      BY <1>1, <1>2, <3>1 DEF Knows
    <3>4. ConvInv(convs, [call EXCEPT ![c] = e], answered, begun)
      BY <1>2, <3>1, <3>3, BeforeItBegins DEF AiInv
    <3> QED  BY <3>2, <3>4
  <2>2. CASE call' = [call EXCEPT ![c] = None]
    BY <1>2, <2>2, BeforeItBegins DEF AiInv
  <2> QED  BY <2>1, <2>2 DEF ResolveKey
<1> QED  BY <1>1, <1>3 DEF AiInv, RoomInv, Kept, RateInv, LimiterTypeOK, Recent, limiterVars

LEMMA GoesOnInv ==
    ASSUME AiInv, NEW c \in Calls, call[c] # None, call[c].at \in {"ask", "tool", "answer"},
           NEW e \in Command, e.conv = call[c].conv, e.sent = call[c].sent, e.id = call[c].id,
           e.at \in {"ask", "tool", "answer", "fail"}, e.at \in {"ask", "tool"} => e.round < MaxRounds,
           e.at = "tool" => e.tools > 0,
           call' = [call EXCEPT ![c] = e], UNCHANGED <<limiterVars, key, convs, begun, answered>>
    PROVE  AiInv'
<1>1. Knows(call[c], begun)
  BY DEF AiInv, ConvInv
<1>2. Knows(e, begun)
  BY <1>1 DEF Knows
<1>3. ConvInv(convs, [call EXCEPT ![c] = e], answered, begun)
  BY <1>2, GoesOnThere DEF AiInv
<1> QED  BY <1>3 DEF AiInv, RoomInv, Kept, RateInv, LimiterTypeOK, Recent, limiterVars

LEMMA ProviderAnswersInv == ASSUME AiInv, NEW c \in Calls, ProviderAnswers(c) PROVE AiInv'
<1>1. call[c] # None /\ call[c].at = "ask" /\ UNCHANGED <<limiterVars, key, convs, begun, answered>>
  BY DEF ProviderAnswers, At
<1>2. call[c] \in Command /\ Knows(call[c], begun)
  BY <1>1 DEF AiInv, ConvInv
<1>3. ASSUME NEW a \in {"answer", "fail"}, call' = [call EXCEPT ![c].at = a] PROVE AiInv'
  <2> DEFINE e == [call[c] EXCEPT !.at = a]
  <2>1. /\ e \in Command /\ e.at = a /\ e.conv = call[c].conv /\ e.id = call[c].id /\ e.sent = call[c].sent
    BY <1>2 DEF Command
  <2>2. call' = [call EXCEPT ![c] = e]
    BY <1>3
  <2> HIDE DEF e
  <2> QED  BY <1>1, <2>1, <2>2, GoesOnInv
<1>4. ASSUME NEW n \in 1 .. MaxBlocks, call' = [call EXCEPT ![c].at = "tool", ![c].tools = n] PROVE AiInv'
  <2> DEFINE e == [call[c] EXCEPT !.at = "tool", !.tools = n]
  <2>1. n \in 0 .. MaxBlocks /\ n > 0
    BY AiAssumption
  <2>2. /\ e \in Command /\ e.at = "tool" /\ e.conv = call[c].conv /\ e.id = call[c].id
        /\ e.sent = call[c].sent /\ e.round = call[c].round /\ e.tools = n
    BY <1>2, <2>1 DEF Command
  <2>3. call' = [call EXCEPT ![c] = e]
    BY <1>4
  <2>4. call[c].round < MaxRounds
    BY <1>1, <1>2 DEF Knows
  <2> HIDE DEF e
  <2> QED  BY <1>1, <2>1, <2>2, <2>3, <2>4, GoesOnInv
<1> QED  BY <1>3, <1>4 DEF ProviderAnswers

LEMMA ToolRunsInv == ASSUME AiInv, NEW c \in Calls, ToolRuns(c) PROVE AiInv'
<1> DEFINE left == call[c].tools - 1
           n == IF left = 0 THEN RoundAfter(c) ELSE call[c].round
           a == IF left > 0 THEN "tool" ELSE IF RoundAfter(c) < MaxRounds THEN "ask" ELSE "answer"
           e == [call[c] EXCEPT !.tools = left, !.round = n, !.at = a]
<1>1. call[c] # None /\ call[c].at = "tool" /\ UNCHANGED <<limiterVars, key, convs, begun, answered>>
  BY DEF ToolRuns, At
<1>2. call[c] \in Command /\ Knows(call[c], begun)
  BY <1>1 DEF AiInv, ConvInv
<1>3. call[c].tools \in 0 .. MaxBlocks /\ call[c].tools > 0 /\ call[c].round \in 0 .. MaxRounds
      /\ call[c].round < MaxRounds /\ RoundAfter(c) = call[c].round + 1 /\ MaxRounds \in Nat /\ MaxBlocks \in Nat
  BY <1>1, <1>2, AiAssumption DEF Command, Knows, RoundAfter
<1>4. /\ left \in 0 .. MaxBlocks /\ n \in 0 .. MaxRounds /\ a \in {"ask", "tool", "answer"}
      /\ (a = "tool" => left > 0) /\ (a \in {"ask", "tool"} => n < MaxRounds)
  BY <1>3
<1>5. call' = [call EXCEPT ![c] = e]
  BY DEF ToolRuns
<1> HIDE DEF left, n, a
<1>6. e \in Command /\ e.at = a /\ e.conv = call[c].conv /\ e.id = call[c].id /\ e.sent = call[c].sent
      /\ e.round = n /\ e.tools = left
  BY <1>2, <1>4 DEF Command
<1> HIDE DEF e
<1> QED  BY <1>1, <1>4, <1>5, <1>6, GoesOnInv

LEMMA RequestCancelledInv == ASSUME AiInv, NEW c \in Calls, RequestCancelled(c) PROVE AiInv'
<1> DEFINE e == [call[c] EXCEPT !.at = "fail"]
<1>1. call[c] # None /\ UNCHANGED <<limiterVars, key, convs, begun, answered>>
  BY DEF RequestCancelled, At
<1>2. call[c] \in Command /\ Knows(call[c], begun)
  BY <1>1 DEF AiInv, ConvInv
<1>3. CASE call[c].at = "key" /\ call' = [call EXCEPT ![c] = None]
  <2>1. ConvInv(convs, call', answered, begun)
    BY <1>2, <1>3, BeforeItBegins DEF AiInv, Knows
  <2> QED  BY <1>1, <2>1 DEF AiInv, RoomInv, Kept, RateInv, LimiterTypeOK, Recent, limiterVars
<1>4. CASE call[c].at \in {"ask", "tool", "answer"} /\ call' = [call EXCEPT ![c].at = "fail"]
  <2>1. e \in Command /\ e.at = "fail" /\ e.conv = call[c].conv /\ e.id = call[c].id /\ e.sent = call[c].sent
    BY <1>2 DEF Command
  <2>2. call' = [call EXCEPT ![c] = e]
    BY <1>4
  <2> HIDE DEF e
  <2> QED  BY <1>1, <1>4, <2>1, <2>2, GoesOnInv
<1> QED  BY <1>3, <1>4 DEF RequestCancelled, At

(* The end of a command. *)
LEMMA AnswerInv == ASSUME AiInv, NEW c \in Calls, Answer(c) PROVE AiInv'
<1> DEFINE v == call[c].conv
           n == call[c].id
           m == convs[v].messages
           k == [messages |-> Trimmed(m \o Turn(n)), busy |-> FALSE, used |-> now]
           b == Append(answered[v], n)
<1>1. At(c, "answer") /\ call' = [call EXCEPT ![c] = None] /\ UNCHANGED <<limiterVars, key, begun>>
  BY DEF Answer
<1>2. call[c] \in Command /\ Knows(call[c], begun) /\ begun \in 0 .. MaxCommands /\ now \in Nat
  BY <1>1, LimiterAssumption DEF AiInv, ConvInv, At, RateInv, LimiterTypeOK
<1>3. v \in Commands /\ n \in Commands /\ Serves(call, c, v)
  BY <1>1, <1>2, AiAssumption DEF Knows, Commands, Serves, At
<1>4. convs[v] # None /\ convs[v] \in Conversation /\ LastTurns(m, answered[v]) /\ answered[v] \in Seq(Commands)
      /\ m \in Seq(Message)
  BY <1>3 DEF AiInv, ConvInv, Conversation
<1>5. /\ convs' = [convs EXCEPT ![v] = k] /\ answered' = [answered EXCEPT ![v] = b]
  BY <1>4 DEF Answer, Committed
<1>6. /\ Trimmed(m \o Turn(n)) \in Seq(Message) /\ Trimmed(m \o Turn(n)) # <<>> /\ b \in Seq(Commands)
      /\ LastTurns(Trimmed(m \o Turn(n)), b)
  BY <1>3, <1>4, TurnAdded
<1>7. k \in Conversation /\ ~k.busy /\ k.messages # <<>> /\ LastTurns(k.messages, b)
  BY <1>2, <1>6 DEF Conversation
<1> HIDE DEF k, b, v
<1>8. ConvInv(convs', call', answered', begun')
  <2>1. ConvInv([convs EXCEPT ![v] = k], [call EXCEPT ![c] = None], [answered EXCEPT ![v] = b], begun)
    BY <1>3, <1>6, <1>7, LeavesItFree DEF AiInv
  <2> QED  BY <1>1, <1>5, <2>1
<1>9. Kept' \subseteq Kept
  BY <1>3, <1>4, <1>5 DEF Kept, AiInv, ConvInv
<1> QED  BY <1>1, <1>8, <1>9, FewerKept DEF AiInv, RateInv, LimiterTypeOK, Recent, limiterVars

LEMMA FailInv == ASSUME AiInv, NEW c \in Calls, Fail(c) PROVE AiInv'
<1> DEFINE v == call[c].conv
           k == IF convs[v].messages = <<>> THEN None ELSE [convs[v] EXCEPT !.busy = FALSE]
<1>1. At(c, "fail") /\ call' = [call EXCEPT ![c] = None] /\ UNCHANGED <<limiterVars, key, begun, answered>>
  BY DEF Fail
<1>2. call[c] \in Command /\ Knows(call[c], begun) /\ begun \in 0 .. MaxCommands
  BY <1>1 DEF AiInv, ConvInv, At
<1>3. v \in Commands /\ Serves(call, c, v)
  BY <1>1, <1>2, AiAssumption DEF Knows, Commands, Serves, At
<1>4. convs[v] # None /\ convs[v] \in Conversation /\ LastTurns(convs[v].messages, answered[v])
      /\ answered[v] \in Seq(Commands)
  BY <1>3 DEF AiInv, ConvInv
<1>5. convs' = [convs EXCEPT ![v] = k]
  <2>1. CASE convs[v].messages = <<>>
    BY <1>4, <2>1 DEF Fail, Aborted
  <2>2. CASE convs[v].messages # <<>>
    <3>1. convs' = [convs EXCEPT ![v].busy = FALSE]
      BY <1>4, <2>2 DEF Fail, Aborted
    <3> QED  BY <2>2, <3>1
  <2> QED  BY <2>1, <2>2
<1>6. k \in Conversation \cup {None}
      /\ (k # None => ~k.busy /\ k.messages # <<>> /\ LastTurns(k.messages, answered[v]))
  <2>1. CASE convs[v].messages = <<>>
    BY <2>1
  <2>2. CASE convs[v].messages # <<>>
    <3> DEFINE e == [convs[v] EXCEPT !.busy = FALSE]
    <3>1. e \in Conversation /\ ~e.busy /\ e.messages = convs[v].messages
      BY <1>4 DEF Conversation
    <3> HIDE DEF e
    <3>2. k = e
      BY <2>2 DEF e
    <3> QED  BY <1>4, <2>2, <3>1, <3>2
  <2> QED  BY <2>1, <2>2
<1> HIDE DEF k, v
<1>7. [answered EXCEPT ![v] = answered[v]] = answered
  BY <1>3 DEF AiInv, ConvInv
<1>8. ConvInv(convs', call', answered', begun')
  <2>1. ConvInv([convs EXCEPT ![v] = k], [call EXCEPT ![c] = None], [answered EXCEPT ![v] = answered[v]], begun)
    BY <1>3, <1>4, <1>6, LeavesItFree DEF AiInv
  <2> QED  BY <1>1, <1>5, <1>7, <2>1
<1>9. Kept' \subseteq Kept
  BY <1>3, <1>4, <1>5 DEF Kept, AiInv, ConvInv
<1> QED  BY <1>1, <1>8, <1>9, FewerKept DEF AiInv, RateInv, LimiterTypeOK, Recent, limiterVars

LEMMA AiNextInv == AiInv /\ [AiNext]_aiVars => AiInv'
<1> SUFFICES ASSUME AiInv, [AiNext]_aiVars PROVE AiInv'
  OBVIOUS
<1>1. CASE Time
  <2>1. RateInv'
    BY <1>1, TickKeepsRate DEF Time, AiInv
  <2> QED  BY <1>1, <2>1 DEF Time, AiInv, RoomInv, Kept
<1>2. CASE SetKey
  <2>1. key' \in BOOLEAN /\ UNCHANGED <<limiterVars, convs, call, begun, answered>>
    BY <1>2 DEF SetKey, SaveKey, ClearKey
  <2> QED  BY <2>1 DEF AiInv, RoomInv, Kept, RateInv, LimiterTypeOK, Recent, limiterVars
<1>3. ASSUME NEW c \in Calls, Request(c) \/ RequestCancelled(c) \/ Proceeds(c) PROVE AiInv'
  BY <1>3, RequestInv, RequestCancelledInv, ResolveKeyInv, BeginNewInv, BeginInInv, ProviderAnswersInv,
     ToolRunsInv, AnswerInv, FailInv DEF Proceeds
<1>4. CASE UNCHANGED aiVars
  BY <1>4 DEF aiVars, AiInv, RoomInv, Kept, RateInv, LimiterTypeOK, Recent, limiterVars
<1> QED  BY <1>1, <1>2, <1>3, <1>4 DEF AiNext

(* The inductive invariant of the commands, the conversations and the limiter *)
(* holds throughout.                                                         *)
THEOREM AiInvariant == AiSpec => []AiInv
BY AiInitInv, AiNextInv, PTL DEF AiSpec

(* The state of commands, conversations and the limiter always has its type,  *)
(* and no more conversations are kept than the limit, or than run at once.    *)
THEOREM AiTypeCorrect == AiSpec => []AiTypeOK
<1>1. AiInv => AiTypeOK
  BY DEF AiInv, RateInv, ConvInv, RoomInv, AiTypeOK
<1> QED  BY <1>1, AiInvariant, PTL

(* No window of time holds more admitted requests than the limit. *)
THEOREM RateHeldAlways == AiSpec => []RateHeld
BY AiInvariant, RateInvHolds, PTL DEF AiInv

(* A conversation is the whole turns answered last in it, whatever else runs, *)
(* expires or is given up, and is busy exactly while one command runs in it;  *)
(* that command told the provider its message after the last whole turns.    *)
THEOREM TurnsKeptAlways == AiSpec => []TurnsKept
<1>1. AiInv => TurnsKept
  <2> SUFFICES ASSUME AiInv PROVE TurnsKept
    OBVIOUS
  <2> PICK h \in 1 .. 50 : MaxHistory = 2 * h
    BY AiAssumption
  <2>0. MaxHistory \div 2 = h /\ (MaxHistory - 1) \div 2 = h - 1 /\ h \in Nat /\ h - 1 \in Nat
    OBVIOUS
  <2>1. ASSUME NEW v \in Kept
        PROVE  convs[v].messages = WholeTurns(Latest(answered[v], MaxHistory \div 2))
    <3> DEFINE m == convs[v].messages
               a == answered[v]
               k == MaxHistory \div 2
               s == Latest(a, k)
               most == IF 2 * Len(a) <= MaxHistory THEN Len(a) ELSE MaxHistory \div 2
    <3>1. v \in Commands /\ m \in Seq(Message) /\ a \in Seq(Commands) /\ LastTurns(m, a)
      BY DEF Kept, AiInv, ConvInv, Conversation
    <3> HIDE DEF m, a
    <3>2. Len(a) \in Nat /\ most = IF Len(a) <= MaxHistory \div 2 THEN Len(a) ELSE MaxHistory \div 2
      BY <2>0, <3>1, LenProperties
    <3>3. s \in Seq(Commands) /\ Len(s) = most /\ \A i \in 1 .. most : s[i] = a[Len(a) - most + i]
      <4>1. k \in Nat
        BY <2>0
      <4> HIDE DEF k
      <4>2. LET n == IF Len(a) <= k THEN Len(a) ELSE k
            IN  s \in Seq(Commands) /\ Len(s) = n /\ \A i \in 1 .. n : s[i] = a[Len(a) - n + i]
        BY <3>1, <4>1, LatestOf
      <4>3. most = IF Len(a) <= k THEN Len(a) ELSE k
        BY <3>2 DEF k
      <4> HIDE DEF most, s
      <4> QED  BY <4>2, <4>3
    <3> HIDE DEF s
    <3>4. Len(m) = 2 * Len(s) /\ \A i \in 1 .. Len(s) :
             /\ m[2 * i - 1] = [who |-> "user", command |-> s[i]]
             /\ m[2 * i] = [who |-> "assistant", command |-> s[i]]
      BY <3>1, <3>3 DEF LastTurns
    <3>5. m = WholeTurns(s)
      BY <3>1, <3>3, <3>4, AreWhole
    <3> QED  BY <3>5 DEF m, a, s, k
  <2>2. ASSUME NEW v \in Kept, convs[v].busy PROVE Cardinality(InFlight(v)) = 1
    <3>1. PICK c \in Calls : Serves(call, c, v) /\ \A d \in Calls : Serves(call, d, v) => d = c
      BY <2>2 DEF Kept, AiInv, ConvInv
    <3>2. InFlight(v) = {c}
      BY <3>1 DEF InFlight, Serves
    <3> QED  BY <3>2, FS_Singleton
  <2>3. ASSUME NEW v \in Kept, ~convs[v].busy PROVE convs[v].messages # <<>> /\ InFlight(v) = {}
    BY <2>3 DEF Kept, AiInv, ConvInv, InFlight, Serves
  <2>4. ASSUME NEW c \in Calls, call[c] # None, call[c].conv # None
        PROVE  /\ convs[call[c].conv] # None
               /\ call[c].sent = Append(WholeTurns(Latest(answered[call[c].conv], (MaxHistory - 1) \div 2)),
                                        Said(call[c].id))
    <3> DEFINE m == call[c].sent
               n == call[c].id
               a == answered[call[c].conv]
               k == (MaxHistory - 1) \div 2
               s == Latest(a, k)
               t == WholeTurns(s)
               x == Said(n)
               most == IF Len(a) <= (MaxHistory - 1) \div 2 THEN Len(a) ELSE (MaxHistory - 1) \div 2
    <3>1. call[c] \in Command /\ Knows(call[c], begun)
      BY <2>4 DEF AiInv, ConvInv
    <3>2. call[c].conv \in Commands /\ Serves(call, c, call[c].conv) /\ m \in Seq(Message)
      BY <2>4, <3>1 DEF Command, Serves
    <3>3. convs[call[c].conv] # None /\ a \in Seq(Commands) /\ LastSent(m, a, n)
      BY <3>2 DEF AiInv, ConvInv
    <3>4. n \in Commands
      <4>1. call[c].at \notin {"key", "begin"}
        BY <2>4, <3>1 DEF Knows
      <4>2. n \in 1 .. begun /\ begun \in 0 .. MaxCommands /\ MaxCommands \in Nat
        BY <3>1, <4>1, AiAssumption DEF Knows, AiInv, ConvInv
      <4> QED  BY <4>2 DEF Commands
    <3> HIDE DEF m, a, n
    <3>5. s \in Seq(Commands) /\ Len(s) = most /\ \A i \in 1 .. most : s[i] = a[Len(a) - most + i]
      <4>1. k \in Nat
        BY <2>0
      <4>2. most = IF Len(a) <= k THEN Len(a) ELSE k
        OBVIOUS
      <4> HIDE DEF k
      <4>3. LET e == IF Len(a) <= k THEN Len(a) ELSE k
            IN  s \in Seq(Commands) /\ Len(s) = e /\ \A i \in 1 .. e : s[i] = a[Len(a) - e + i]
        BY <3>3, <4>1, LatestOf
      <4> HIDE DEF most, s
      <4> QED  BY <4>2, <4>3
    <3>6. most \in Nat
      BY <3>5, LenProperties
    <3> HIDE DEF s
    <3>7. /\ Len(m) = 2 * most + 1 /\ m[2 * most + 1] = x
          /\ \A i \in 1 .. most : /\ m[2 * i - 1] = [who |-> "user", command |-> s[i]]
                                  /\ m[2 * i] = [who |-> "assistant", command |-> s[i]]
      BY <3>3, <3>5 DEF LastSent
    <3>8. x \in Message
      BY <3>4 DEF Said, Message
    <3>9. /\ t \in Seq(Message) /\ Len(t) = 2 * most
          /\ \A i \in 1 .. most : t[2 * i - 1] = m[2 * i - 1] /\ t[2 * i] = m[2 * i]
      <4> HIDE DEF most
      <4>1. /\ t \in Seq(Message) /\ Len(t) = 2 * Len(s)
            /\ \A i \in 1 .. Len(s) : /\ t[2 * i - 1] = [who |-> "user", command |-> s[i]]
                                     /\ t[2 * i] = [who |-> "assistant", command |-> s[i]]
        BY <3>5, WholeOf
      <4> HIDE DEF t
      <4> QED  BY <3>5, <3>7, <4>1
    <3> HIDE DEF most, t, x
    <3>10. /\ Append(t, x) \in Seq(Message) /\ Len(Append(t, x)) = 2 * most + 1 /\ Append(t, x)[2 * most + 1] = x
           /\ \A i \in 1 .. 2 * most : Append(t, x)[i] = t[i]
      BY <3>8, <3>9, AppendProperties
    <3>11. ASSUME NEW j \in 1 .. (2 * most + 1) PROVE m[j] = Append(t, x)[j]
      <4>1. CASE j = 2 * most + 1
        BY <3>7, <3>10, <4>1
      <4>2. CASE j # 2 * most + 1
        <5>1. j \in 1 .. 2 * most /\ (j + 1) \div 2 \in 1 .. most
              /\ (j = 2 * ((j + 1) \div 2) - 1 \/ j = 2 * ((j + 1) \div 2))
          BY <3>6, <4>2
        <5> QED  BY <3>9, <3>10, <5>1
      <4> QED  BY <4>1, <4>2
    <3>12. m = Append(t, x)
      BY <3>2, <3>7, <3>10, <3>11, SeqEqual DEF m
    <3> QED  BY <3>3, <3>12 DEF m, n, a, s, k, t, x
  <2> QED  BY <2>1, <2>2, <2>3, <2>4 DEF TurnsKept
<1> QED  BY <1>1, AiInvariant, PTL
=============================================================================
