------------------------- MODULE EventProofs -------------------------------
(***************************************************************************)
(* Proofs about the event forwarder and the pipeline behind it, for any       *)
(* number of events, runs, faults and coroutines, any size of the queue and  *)
(* any limits of the stores: the forwarder is an EventChannel, and what comes  *)
(* through one ends as the history the device recorded.                      *)
(***************************************************************************)
EXTENDS EventForwarder, EventPipeline, FiniteSetTheorems, SequenceTheorems, TLAPS

Elems(s) == {s[i] : i \in DOMAIN s}
Rising(s) == \A i, j \in DOMAIN s : i < j => s[i] < s[j]

-----------------------------------------------------------------------------
(* Sequences. *)

LEMMA EmptyElems == Elems(<<>>) = {} /\ Rising(<<>>) /\ \A S : <<>> \in Seq(S) /\ Len(<<>>) = 0
<1>1. DOMAIN <<>> = {} /\ \A S : <<>> \in Seq(S) /\ Len(<<>>) = 0
  BY EmptySeq
<1> QED  BY <1>1 DEF Elems, Rising

LEMMA AppendElems ==
    ASSUME NEW S, NEW s \in Seq(S), NEW e \in S
    PROVE  /\ Append(s, e) \in Seq(S) /\ Len(Append(s, e)) = Len(s) + 1
           /\ Elems(Append(s, e)) = Elems(s) \cup {e}
<1>1. /\ Append(s, e) \in Seq(S) /\ Len(Append(s, e)) = Len(s) + 1
      /\ \A i \in 1 .. Len(s) : Append(s, e)[i] = s[i]
      /\ Append(s, e)[Len(s) + 1] = e
  BY AppendProperties
<1>2. DOMAIN s = 1 .. Len(s) /\ Len(s) \in Nat /\ DOMAIN Append(s, e) = 1 .. (Len(s) + 1)
  BY <1>1, LenProperties
<1>3. \A i \in 1 .. (Len(s) + 1) : i \in 1 .. Len(s) \/ i = Len(s) + 1
  BY <1>2
<1>4. 1 .. Len(s) \subseteq 1 .. (Len(s) + 1) /\ Len(s) + 1 \in 1 .. (Len(s) + 1)
  BY <1>2
<1>5. Elems(Append(s, e)) \subseteq Elems(s) \cup {e}
  BY <1>1, <1>2, <1>3 DEF Elems
<1>6. Elems(s) \cup {e} \subseteq Elems(Append(s, e))
  BY <1>1, <1>2, <1>4 DEF Elems
<1> QED  BY <1>1, <1>5, <1>6

LEMMA AppendRising ==
    ASSUME NEW s \in Seq(Nat), NEW e \in Nat, Rising(s), \A d \in Elems(s) : d < e
    PROVE  Rising(Append(s, e))
<1>1. /\ Append(s, e) \in Seq(Nat) /\ Len(Append(s, e)) = Len(s) + 1
      /\ \A i \in 1 .. Len(s) : Append(s, e)[i] = s[i]
      /\ Append(s, e)[Len(s) + 1] = e
  BY AppendProperties
<1>2. DOMAIN s = 1 .. Len(s) /\ Len(s) \in Nat /\ DOMAIN Append(s, e) = 1 .. (Len(s) + 1)
  BY <1>1, LenProperties
<1> SUFFICES ASSUME NEW i \in 1 .. (Len(s) + 1), NEW j \in 1 .. (Len(s) + 1), i < j
    PROVE  Append(s, e)[i] < Append(s, e)[j]
  BY <1>2 DEF Rising
<1>3. i \in 1 .. Len(s) /\ Append(s, e)[i] = s[i]
  BY <1>1, <1>2
<1>4. CASE j = Len(s) + 1
  BY <1>1, <1>2, <1>3, <1>4 DEF Elems
<1>5. CASE j # Len(s) + 1
  <2>1. j \in 1 .. Len(s)
    BY <1>2, <1>5
  <2> QED  BY <1>1, <1>2, <1>3, <2>1 DEF Rising
<1> QED  BY <1>4, <1>5

LEMMA TailElems ==
    ASSUME NEW S, NEW s \in Seq(S), s # <<>>
    PROVE  /\ Head(s) \in S /\ Tail(s) \in Seq(S) /\ Len(Tail(s)) = Len(s) - 1
           /\ Elems(s) = Elems(Tail(s)) \cup {Head(s)}
<1>1. /\ Head(s) \in S /\ Tail(s) \in Seq(S) /\ Len(Tail(s)) = Len(s) - 1
      /\ \A i \in 1 .. Len(Tail(s)) : Tail(s)[i] = s[i + 1]
  BY HeadTailProperties
<1>2. DOMAIN s = 1 .. Len(s) /\ Len(s) \in Nat \ {0} /\ DOMAIN Tail(s) = 1 .. (Len(s) - 1) /\ Head(s) = s[1]
  BY <1>1, LenProperties, EmptySeq
<1>3. \A i \in 1 .. Len(s) : i = 1 \/ (i - 1 \in 1 .. (Len(s) - 1) /\ (i - 1) + 1 = i)
  BY <1>2
<1>4. Elems(s) \subseteq Elems(Tail(s)) \cup {Head(s)}
  <2> SUFFICES ASSUME NEW i \in 1 .. Len(s) PROVE s[i] \in Elems(Tail(s)) \cup {Head(s)}
    BY <1>2 DEF Elems
  <2>1. CASE i = 1
    BY <1>2, <2>1
  <2>2. CASE i # 1
    <3>1. i - 1 \in DOMAIN Tail(s) /\ Tail(s)[i - 1] = s[i]
      BY <1>1, <1>2, <1>3, <2>2
    <3> QED  BY <3>1 DEF Elems
  <2> QED  BY <2>1, <2>2
<1>5. Elems(Tail(s)) \cup {Head(s)} \subseteq Elems(s)
  <2>1. 1 \in 1 .. Len(s) /\ \A i \in 1 .. (Len(s) - 1) : i + 1 \in 1 .. Len(s)
    BY <1>2
  <2> QED  BY <1>1, <1>2, <2>1 DEF Elems
<1> QED  BY <1>1, <1>4, <1>5

LEMMA TailRising ==
    ASSUME NEW s \in Seq(Nat), s # <<>>, Rising(s)
    PROVE  Rising(Tail(s)) /\ \A d \in Elems(Tail(s)) : Head(s) < d
<1>1. /\ Tail(s) \in Seq(Nat) /\ Len(Tail(s)) = Len(s) - 1
      /\ \A i \in 1 .. Len(Tail(s)) : Tail(s)[i] = s[i + 1]
  BY HeadTailProperties
<1>2. DOMAIN s = 1 .. Len(s) /\ Len(s) \in Nat \ {0} /\ DOMAIN Tail(s) = 1 .. (Len(s) - 1) /\ Head(s) = s[1]
  BY <1>1, LenProperties, EmptySeq
<1>3. 1 \in DOMAIN s /\ \A i \in 1 .. (Len(s) - 1) : i + 1 \in DOMAIN s /\ 1 < i + 1
  BY <1>2
<1>4. \A i, j \in 1 .. (Len(s) - 1) : i < j => i + 1 < j + 1
  BY <1>2
<1> QED  BY <1>1, <1>2, <1>3, <1>4 DEF Rising, Elems

(* No element twice. *)
Distinct(s) == \A i, j \in DOMAIN s : s[i] = s[j] => i = j

LEMMA AppendDistinct ==
    ASSUME NEW S, NEW s \in Seq(S), NEW e \in S, Distinct(s), e \notin Elems(s)
    PROVE  Distinct(Append(s, e))
<1>1. /\ Append(s, e) \in Seq(S) /\ Len(Append(s, e)) = Len(s) + 1
      /\ \A i \in 1 .. Len(s) : Append(s, e)[i] = s[i]
      /\ Append(s, e)[Len(s) + 1] = e
  BY AppendProperties
<1>2. DOMAIN s = 1 .. Len(s) /\ Len(s) \in Nat /\ DOMAIN Append(s, e) = 1 .. (Len(s) + 1)
  BY <1>1, LenProperties
<1>3. \A i \in 1 .. (Len(s) + 1) : i \in 1 .. Len(s) \/ i = Len(s) + 1
  BY <1>2
<1> QED  BY <1>1, <1>2, <1>3 DEF Distinct, Elems

LEMMA TailDistinct ==
    ASSUME NEW S, NEW s \in Seq(S), s # <<>>, Distinct(s)
    PROVE  Distinct(Tail(s)) /\ Head(s) \notin Elems(Tail(s))
<1>1. /\ Tail(s) \in Seq(S) /\ Len(Tail(s)) = Len(s) - 1
      /\ \A i \in 1 .. Len(Tail(s)) : Tail(s)[i] = s[i + 1]
  BY HeadTailProperties
<1>2. DOMAIN s = 1 .. Len(s) /\ Len(s) \in Nat \ {0} /\ DOMAIN Tail(s) = 1 .. (Len(s) - 1) /\ Head(s) = s[1]
  BY <1>1, LenProperties, EmptySeq
<1>3. 1 \in DOMAIN s /\ \A i \in 1 .. (Len(s) - 1) : i + 1 \in DOMAIN s /\ i + 1 # 1
  BY <1>2
<1>4. \A i, j \in 1 .. (Len(s) - 1) : i + 1 = j + 1 => i = j
  BY <1>2
<1> QED  BY <1>1, <1>2, <1>3, <1>4 DEF Distinct, Elems

LEMMA ConcatElems ==
    ASSUME NEW S, NEW s \in Seq(S), NEW t \in Seq(S)
    PROVE  /\ s \o t \in Seq(S) /\ Elems(s \o t) \subseteq Elems(s) \cup Elems(t)
           /\ Distinct(s) /\ Distinct(t) /\ Elems(s) \cap Elems(t) = {} => Distinct(s \o t)
<1>1. /\ s \o t \in Seq(S) /\ Len(s \o t) = Len(s) + Len(t)
      /\ \A i \in 1 .. Len(s) + Len(t) : (s \o t)[i] = IF i <= Len(s) THEN s[i] ELSE t[i - Len(s)]
  BY ConcatProperties
<1>2. /\ DOMAIN s = 1 .. Len(s) /\ Len(s) \in Nat /\ DOMAIN t = 1 .. Len(t) /\ Len(t) \in Nat
      /\ DOMAIN (s \o t) = 1 .. (Len(s) + Len(t))
  BY <1>1, LenProperties
<1>3. ASSUME NEW i \in DOMAIN (s \o t)
      PROVE  \/ i <= Len(s) /\ i \in DOMAIN s /\ (s \o t)[i] = s[i]
             \/ ~(i <= Len(s)) /\ i - Len(s) \in DOMAIN t /\ (s \o t)[i] = t[i - Len(s)]
  BY <1>1, <1>2, <1>3
<1>4. Elems(s \o t) \subseteq Elems(s) \cup Elems(t)
  BY <1>3 DEF Elems
<1>5. ASSUME Distinct(s), Distinct(t), Elems(s) \cap Elems(t) = {}, NEW i \in DOMAIN (s \o t), NEW j \in DOMAIN (s \o t),
             (s \o t)[i] = (s \o t)[j]
      PROVE  i = j
  <2>1. CASE i <= Len(s) /\ j <= Len(s)
    BY <1>3, <1>5, <2>1 DEF Distinct
  <2>2. CASE ~(i <= Len(s)) /\ ~(j <= Len(s))
    <3>1. i - Len(s) = j - Len(s)
      BY <1>3, <1>5, <2>2 DEF Distinct
    <3> QED  BY <1>2, <3>1
  <2>3. CASE i <= Len(s) /\ ~(j <= Len(s))
    BY <1>3, <1>5, <2>3 DEF Elems
  <2>4. CASE ~(i <= Len(s)) /\ j <= Len(s)
    BY <1>3, <1>5, <2>4 DEF Elems
  <2> QED  BY <2>1, <2>2, <2>3, <2>4
<1> QED  BY <1>1, <1>4, <1>5 DEF Distinct

-----------------------------------------------------------------------------
(* The log. *)

LEMMA NewestOf ==
    ASSUME NEW s \in Seq(Events)
    PROVE  Newest(s, LogSize) \in Seq(Events) /\ Len(Newest(s, LogSize)) <= LogSize
<1>1. LogSize \in Nat /\ Len(s) \in Nat
  BY LogAssumption, LenProperties
<1>2. CASE Len(s) > LogSize
  <2> DEFINE m == Len(s) - LogSize + 1
  <2>1. m \in Int /\ m \in Nat /\ m >= 1
    BY <1>1, <1>2
  <2>2. \A i \in m .. Len(s) : i \in 1 .. Len(s)
    BY <1>1, <2>1
  <2>3. \A i \in m .. Len(s) : s[i] \in Events
    BY <2>2, ElementOfSeq
  <2>4. /\ SubSeq(s, m, Len(s)) \in Seq(Events)
        /\ Len(SubSeq(s, m, Len(s))) = IF m <= Len(s) THEN Len(s) - m + 1 ELSE 0
    <3> HIDE DEF m
    <3> QED  BY <1>1, <2>1, <2>3, SubSeqProperties
  <2> QED  BY <1>1, <1>2, <2>4 DEF Newest
<1>3. CASE ~(Len(s) > LogSize)
  BY <1>1, <1>3 DEF Newest
<1> QED  BY <1>2, <1>3

LEMMA RecordLog ==
    ASSUME LogTypeOK, NEW r \in RunOrNone, NEW t \in Types, NEW at \in Times, Record(r, t, at)
    PROVE  LogTypeOK' /\ Len(recorded) \in Nat /\ Len(recorded') = Len(recorded) + 1 /\ Len(recorded) + 1 \in Events
<1> DEFINE E == [run : RunOrNone, type : Types, time : Times]
<1>1. /\ recorded \in Seq(E) /\ Len(recorded) \in Nat /\ MaxRecorded \in Nat /\ Len(recorded) < MaxRecorded
      /\ recorded' = Append(recorded, [run |-> r, type |-> t, time |-> at]) /\ log' = Logged(r, t)
      /\ log.run \in RunOrNone /\ log.status \in Statuses /\ log.events \in Seq(Events)
  BY LogAssumption, LenProperties DEF LogTypeOK, Record
<1>2. recorded' \in Seq(E) /\ Len(recorded') = Len(recorded) + 1
  <2>1. [run |-> r, type |-> t, time |-> at] \in E
    OBVIOUS
  <2> HIDE DEF E
  <2> QED  BY <1>1, <2>1, AppendProperties
<1>3. Len(recorded) + 1 \in Events
  BY <1>1 DEF Events
<1> DEFINE kept == IF Fresh(r) THEN <<>> ELSE log.events
           all == Append(kept, Len(recorded) + 1)
<1>4. all \in Seq(Events)
  <2>1. kept \in Seq(Events)
    BY <1>1, EmptySeq
  <2> HIDE DEF kept
  <2> QED  BY <1>3, <2>1, AppendProperties
<1>5. Newest(all, LogSize) \in Seq(Events) /\ Len(Newest(all, LogSize)) <= LogSize
  <2> HIDE DEF all
  <2> QED  BY <1>4, NewestOf
<1>6. StatusOf(t) \in Statuses \cup {None}
  BY DEF StatusOf, Statuses
<1>7. /\ log'.run \in RunOrNone /\ log'.status \in Statuses /\ log'.events = Newest(all, LogSize)
      /\ log' = [run |-> log'.run, status |-> log'.status, events |-> log'.events]
  BY <1>1, <1>6 DEF Logged
<1>8. log' \in [run : RunOrNone, status : Statuses, events : Seq(Events)] /\ Len(log'.events) <= LogSize
  <2> HIDE DEF all
  <2> QED  BY <1>5, <1>7
<1> QED  BY <1>1, <1>2, <1>3, <1>8 DEF LogTypeOK

LEMMA RecordsOne ==
    ASSUME LogTypeOK, Report \/ SupervisorStop
    PROVE  LogTypeOK' /\ Len(recorded) \in Nat /\ Len(recorded') = Len(recorded) + 1 /\ Len(recorded) + 1 \in Events
<1>1. CASE Report
  <2> PICK r \in RunOrNone, t \in Types, at \in Times : Record(r, t, at)
    BY <1>1 DEF Report
  <2> QED  BY RecordLog
<1>2. CASE SupervisorStop
  BY <1>2, RecordLog DEF SupervisorStop, RunOrNone
<1> QED  BY <1>1, <1>2

-----------------------------------------------------------------------------
(* The forwarder. *)

(* What is taken and queued are the newest of the accepted, in order; all        *)
(* before them the broker has got.                                           *)
OrderInv ==
    /\ accepted \subseteq 1 .. Len(recorded) /\ seen \subseteq accepted
    /\ Rising(queue) /\ Elems(queue) \subseteq accepted
    /\ hand # None => /\ hand \in accepted /\ \A d \in Elems(queue) : hand < d
                      /\ \A d \in accepted : hand < d => d \in Elems(queue)
    /\ pc \in {"trying", "connecting", "sending", "waiting", "backoff"} => hand # None
    /\ pc = "idle" => hand = None
    /\ \A d \in accepted : d \in seen \/ d = hand \/ d \in Elems(queue)
    /\ \A d \in seen, q \in Elems(queue) : d < q

(* Whatever the client has been given, the broker has got all that is older:     *)
(* it may arrive at any time, and be acknowledged only when it has.           *)
SentInv ==
    /\ \A i \in DOMAIN pubs : pubs[i] \in accepted /\ \A d \in accepted : d < pubs[i] => d \in seen
    /\ \A i \in DOMAIN pubs, q \in Elems(queue) : pubs[i] < q
    /\ pc = "waiting" => Len(pubs) \in DOMAIN pubs /\ pubs[Len(pubs)] = hand
    /\ \A i \in DOMAIN pubs : i \in unacked \/ pubs[i] \in seen
    /\ \A i \in Elems(acks) : pubs[i] \in seen

(* What is on its way is unacknowledged, and there once. *)
WireInv ==
    /\ Elems(wire) \subseteq unacked /\ Distinct(wire) /\ Elems(wire) \cap Elems(acks) = {}
    /\ link \notin {"up", "closing"} => acks = <<>>

(* As long as no copy of an older event was under way when one was taken. *)
NewestInv == ~trailing =>
    /\ \A i \in unacked, d \in accepted : pubs[i] < d => d \in Elems(queue)
    /\ \A d \in seen : last # None /\ d <= last

ForwarderInv == ForwarderTypeOK /\ OrderInv /\ SentInv /\ WireInv /\ NewestInv

LEMMA ForwarderInitInv == ForwarderInit => ForwarderInv
<1> SUFFICES ASSUME ForwarderInit PROVE ForwarderInv
  OBVIOUS
<1>1. /\ Elems(<<>>) = {} /\ Rising(<<>>) /\ \A S : <<>> \in Seq(S)
      /\ Len(<<>>) = 0 /\ DOMAIN <<>> = {} /\ Distinct(<<>>)
  BY EmptyElems DEF Distinct
<1>2. QueueSize \in Nat /\ MaxFaults \in Nat /\ LogSize \in Nat /\ MaxRecorded \in Nat
  BY ForwarderAssumption, LogAssumption
<1>3. LogTypeOK
  BY <1>1, <1>2 DEF ForwarderInit, LogInit, LogTypeOK, RunOrNone, Statuses
<1>4. ForwarderTypeOK
  <2>1. queue \in Seq(Events) /\ Len(queue) <= QueueSize
    BY <1>1, <1>2 DEF ForwarderInit
  <2>2. pubs \in Seq(Events) /\ wire \in Seq(DOMAIN pubs) /\ acks \in Seq(DOMAIN pubs)
    BY <1>1 DEF ForwarderInit
  <2>3. unacked \subseteq DOMAIN pubs /\ faults \in 0 .. MaxFaults
    BY <1>2 DEF ForwarderInit
  <2> QED  BY <1>3, <2>1, <2>2, <2>3 DEF ForwarderInit, ForwarderTypeOK
<1> QED  BY <1>1, <1>4 DEF ForwarderInit, ForwarderInv, OrderInv, SentInv, WireInv, NewestInv

(* The numbers that name events and publications. *)
LEMMA Numbered ==
    ASSUME ForwarderTypeOK
    PROVE  /\ DOMAIN pubs = 1 .. Len(pubs) /\ Len(pubs) \in Nat /\ \A i \in DOMAIN pubs : pubs[i] \in Events
           /\ Events \subseteq Nat /\ None \notin Nat /\ None \notin Events
           /\ Elems(queue) \subseteq Events /\ Elems(wire) \subseteq DOMAIN pubs /\ Elems(acks) \subseteq DOMAIN pubs
<1>1. Events \subseteq Nat /\ None \notin Nat
  BY LogAssumption DEF Events
<1>2. DOMAIN pubs = 1 .. Len(pubs) /\ Len(pubs) \in Nat /\ \A i \in DOMAIN pubs : pubs[i] \in Events
  BY LenProperties, ElementOfSeq DEF ForwarderTypeOK
<1>3. Elems(queue) \subseteq Events
  BY LenProperties, ElementOfSeq DEF ForwarderTypeOK, Elems
<1>4. Elems(wire) \subseteq DOMAIN pubs
  BY LenProperties, ElementOfSeq DEF ForwarderTypeOK, Elems
<1>5. Elems(acks) \subseteq DOMAIN pubs
  BY LenProperties, ElementOfSeq DEF ForwarderTypeOK, Elems
<1> QED  BY <1>1, <1>2, <1>3, <1>4, <1>5

LEMMA RecordedInv == ASSUME ForwarderInv, Recorded PROVE ForwarderInv'
<1> DEFINE e == Len(recorded) + 1
<1>0. /\ ForwarderTypeOK /\ LogTypeOK' /\ Len(recorded) \in Nat /\ Len(recorded') = e /\ e \in Events
  BY RecordsOne DEF ForwarderInv, ForwarderTypeOK, Recorded
<1>1. /\ \/ Len(queue) < QueueSize /\ queue' = Append(queue, e) /\ accepted' = accepted \cup {e}
         \/ UNCHANGED <<queue, accepted>>
      /\ UNCHANGED <<pc, hand, stopping, connected, trailing, link, pubs, unacked, wire, acks, seen, last, faults>>
  BY DEF Recorded, Enqueue, threadVars, mqttVars
<1>2. CASE Len(queue) < QueueSize /\ queue' = Append(queue, e) /\ accepted' = accepted \cup {e}
  <2>1. /\ queue \in Seq(Events) /\ Len(queue) \in Nat /\ QueueSize \in Nat
        /\ queue' \in Seq(Events) /\ Len(queue') = Len(queue) + 1 /\ Elems(queue') = Elems(queue) \cup {e}
    BY <1>0, <1>2, AppendElems, ForwarderAssumption, LenProperties DEF ForwarderTypeOK
  <2>2. accepted \subseteq 1 .. Len(recorded) /\ \A d \in accepted : d < e /\ d \in Nat
    BY <1>0 DEF ForwarderInv, OrderInv
  <2>3. ForwarderTypeOK'
    BY <1>0, <1>1, <1>2, <2>1 DEF ForwarderTypeOK
  <2>4. Rising(queue')
    <3>1. queue \in Seq(Nat) /\ e \in Nat
      BY <1>0, <2>1, Numbered, SeqMonotonic
    <3>2. Rising(queue) /\ \A d \in Elems(queue) : d < e
      BY <2>2 DEF ForwarderInv, OrderInv
    <3> HIDE DEF e
    <3> QED  BY <1>2, <3>1, <3>2, AppendRising
  <2>5. accepted' \subseteq 1 .. Len(recorded')
    <3>1. \A d \in accepted' : d = e \/ d \in 1 .. Len(recorded)
      BY <1>2, <2>2
    <3>2. e \in 1 .. Len(recorded') /\ \A d \in 1 .. Len(recorded) : d \in 1 .. Len(recorded')
      BY <1>0
    <3> QED  BY <3>1, <3>2
  <2>6. e \in accepted' /\ e \in Elems(queue') /\ accepted \subseteq accepted' /\ Elems(queue) \subseteq Elems(queue')
    BY <1>2, <2>1
  <2>7. OrderInv'
    <3>1. \A d \in seen, q \in Elems(queue') : d < q
      BY <2>1, <2>2 DEF ForwarderInv, OrderInv
    <3>2. hand # None => /\ hand \in accepted' /\ \A d \in Elems(queue') : hand < d
                         /\ \A d \in accepted' : hand < d => d \in Elems(queue')
      BY <1>2, <2>1, <2>2, <2>6 DEF ForwarderInv, OrderInv
    <3>3. \A d \in accepted' : d \in seen \/ d = hand \/ d \in Elems(queue')
      BY <1>2, <2>6 DEF ForwarderInv, OrderInv
    <3>4. Elems(queue') \subseteq accepted' /\ seen \subseteq accepted'
      BY <1>2, <2>1 DEF ForwarderInv, OrderInv
    <3> QED  BY <1>1, <2>4, <2>5, <3>1, <3>2, <3>3, <3>4 DEF ForwarderInv, OrderInv
  <2>8. SentInv'
    <3>1. \A i \in DOMAIN pubs : pubs[i] \in accepted /\ pubs[i] < e /\ ~(e < pubs[i])
      <4>1. \A i \in DOMAIN pubs : pubs[i] \in accepted
        BY DEF ForwarderInv, SentInv
      <4>2. \A d \in accepted : d < e /\ ~(e < d)
        BY <1>0, <2>2
      <4> QED  BY <4>1, <4>2
    <3> HIDE DEF e
    <3> QED  BY <1>1, <1>2, <2>1, <3>1 DEF ForwarderInv, SentInv
  <2>9. NewestInv'
    BY <1>1, <1>2, <2>6 DEF ForwarderInv, NewestInv
  <2> QED  BY <1>1, <2>3, <2>7, <2>8, <2>9 DEF ForwarderInv, WireInv
<1>3. CASE UNCHANGED <<queue, accepted>>
  <2>1. ForwarderTypeOK'
    BY <1>0, <1>1, <1>3 DEF ForwarderTypeOK
  <2>2. accepted' \subseteq 1 .. Len(recorded')
    BY <1>0, <1>3 DEF ForwarderInv, OrderInv
  <2>3. OrderInv'
    BY <1>1, <1>3, <2>2 DEF ForwarderInv, OrderInv
  <2> QED  BY <1>1, <1>3, <2>1, <2>3 DEF ForwarderInv, SentInv, WireInv, NewestInv
<1> QED  BY <1>1, <1>2, <1>3

(* The forwarder's thread. *)

LEMMA TakeInv == ASSUME ForwarderInv, Take PROVE ForwarderInv'
<1> PICK h : h = Head(queue)
  OBVIOUS
<1>0. /\ ForwarderTypeOK /\ pc = "idle" /\ hand = None /\ queue # <<>>
      /\ hand' = h /\ queue' = Tail(queue) /\ pc' = "trying"
      /\ trailing' = (trailing \/ unacked # {})
      /\ UNCHANGED <<recorded, log, accepted, stopping, connected, link, pubs, unacked, wire, acks, seen, last, faults>>
  BY DEF ForwarderInv, OrderInv, Take, mqttVars
<1>1. queue \in Seq(Events) /\ queue \in Seq(Nat) /\ Len(queue) \in Nat /\ QueueSize \in Nat
  BY <1>0, Numbered, SeqMonotonic, ForwarderAssumption, LenProperties DEF ForwarderTypeOK
<1>2. /\ h \in Events /\ queue' \in Seq(Events) /\ Len(queue') = Len(queue) - 1
      /\ Elems(queue) = Elems(queue') \cup {h}
  BY <1>0, <1>1, TailElems
<1>3. Rising(queue') /\ \A d \in Elems(queue') : h < d
  BY <1>0, <1>1, TailRising DEF ForwarderInv, OrderInv
<1>4. ForwarderTypeOK'
  <2>1. Len(queue') <= QueueSize
    BY <1>0, <1>1, <1>2 DEF ForwarderTypeOK
  <2>2. LogTypeOK'
    BY <1>0 DEF ForwarderTypeOK, LogTypeOK
  <2> QED  BY <1>0, <1>2, <2>1, <2>2 DEF ForwarderTypeOK
<1>5. h # None /\ h \in Nat
  BY <1>0, <1>2, Numbered
<1>6. \A d \in accepted : h < d => d \in Elems(queue')
  <2> SUFFICES ASSUME NEW d \in accepted, h < d PROVE d \in Elems(queue')
    OBVIOUS
  <2>1. d \in Nat /\ d # h /\ ~(d < h) /\ d # None
    BY <1>0, <1>5, Numbered DEF ForwarderTypeOK
  <2>2. h \in Elems(queue)
    BY <1>2
  <2>3. d \in seen \/ d \in Elems(queue)
    BY <1>0, <2>1 DEF ForwarderInv, OrderInv
  <2>4. d \notin seen
    BY <2>1, <2>2 DEF ForwarderInv, OrderInv
  <2> QED  BY <1>2, <2>1, <2>3, <2>4
<1>7. OrderInv'
  <2>1. h \in accepted /\ Elems(queue') \subseteq Elems(queue)
    BY <1>2 DEF ForwarderInv, OrderInv
  <2>2. \A d \in accepted : d \in seen \/ d = h \/ d \in Elems(queue')
    <3>1. \A d \in accepted : d # None
      BY <1>0, Numbered DEF ForwarderTypeOK
    <3> QED  BY <1>0, <1>2, <3>1 DEF ForwarderInv, OrderInv
  <2> QED  BY <1>0, <1>3, <1>5, <1>6, <2>1, <2>2 DEF ForwarderInv, OrderInv
<1>8. SentInv'
  BY <1>0, <1>2 DEF ForwarderInv, SentInv
<1>9. NewestInv'
  BY <1>0 DEF ForwarderInv, NewestInv
<1> QED  BY <1>0, <1>4, <1>7, <1>8, <1>9 DEF ForwarderInv, WireInv

(* The steps that change neither the queue nor what the client has. *)
LEMMA QuietInv ==
    ASSUME ForwarderInv, UNCHANGED <<recorded, log, accepted, queue, pubs, unacked, seen, last, trailing>>,
           pc' \in {"idle", "trying", "connecting", "sending", "backoff", "over"} \/ pc' = pc,
           pc' \in {"trying", "connecting", "sending", "backoff"} => hand # None,
           hand' = hand \/ (hand' = None /\ pc' = "idle" /\ (hand \in seen \/ hand = None)),
           pc' = "idle" => hand' = None,
           link' \in {"never", "down", "greeting", "up", "closing", "closed"},
           stopping' \in BOOLEAN, connected' \in BOOLEAN, faults' \in 0 .. MaxFaults,
           \/ UNCHANGED <<wire, acks>> /\ (link' \in {"up", "closing"} \/ link \notin {"up", "closing"})
           \/ wire' = <<>> /\ acks' = <<>>
    PROVE  ForwarderInv'
<1>0. ForwarderTypeOK
  BY DEF ForwarderInv
<1>1. ForwarderTypeOK'
  <2>1. wire' \in Seq(DOMAIN pubs) /\ acks' \in Seq(DOMAIN pubs)
    BY <1>0, EmptySeq DEF ForwarderTypeOK
  <2>2. LogTypeOK'
    BY <1>0 DEF ForwarderTypeOK, LogTypeOK
  <2> QED  BY <1>0, <2>1, <2>2 DEF ForwarderTypeOK
<1>2. OrderInv'
  BY DEF ForwarderInv, OrderInv
<1>3. Elems(<<>>) = {} /\ Distinct(<<>>)
  BY EmptyElems, EmptySeq DEF Distinct
<1>4. Elems(acks') \subseteq Elems(acks) /\ Elems(wire') \subseteq Elems(wire) /\ Distinct(wire')
  BY <1>3 DEF ForwarderInv, WireInv
<1>5. SentInv'
  BY <1>4 DEF ForwarderInv, SentInv, OrderInv
<1>6. WireInv'
  BY <1>4 DEF ForwarderInv, WireInv
<1> QED  BY <1>1, <1>2, <1>5, <1>6 DEF ForwarderInv, NewestInv

LEMMA SendsInv == ASSUME ForwarderInv, Sends PROVE ForwarderInv'
<1> PICK n \in Nat : n = Len(pubs) + 1
  BY Numbered DEF ForwarderInv
<1>0. /\ ForwarderTypeOK /\ pc = "sending" /\ hand # None
      /\ pubs' = Append(pubs, hand) /\ unacked' = unacked \cup {n}
      /\ wire' = (IF Linked THEN Append(wire, n) ELSE wire)
      /\ pc' = "waiting"
      /\ UNCHANGED <<recorded, log, queue, accepted, hand, stopping, connected, trailing, link, acks, seen, last, faults>>
  BY DEF ForwarderInv, OrderInv, Sends, deviceVars
<1>1. DOMAIN pubs = 1 .. (n - 1) /\ n >= 1 /\ n \notin DOMAIN pubs /\ Elems(wire) \subseteq DOMAIN pubs /\ Elems(acks) \subseteq DOMAIN pubs
  BY <1>0, Numbered
<1>2. hand \in Events /\ hand \in Nat /\ hand \in accepted
  BY <1>0, Numbered DEF ForwarderTypeOK, ForwarderInv, OrderInv
<1>3. /\ pubs' \in Seq(Events) /\ Len(pubs') = n /\ DOMAIN pubs' = 1 .. n /\ pubs'[n] = hand
      /\ \A i \in DOMAIN pubs : pubs'[i] = pubs[i]
  BY <1>0, <1>1, <1>2, AppendProperties, LenProperties DEF ForwarderTypeOK
<1>4. DOMAIN pubs' = DOMAIN pubs \cup {n}
  <2>1. \A i \in 1 .. n : i \in 1 .. (n - 1) \/ i = n
    OBVIOUS
  <2>2. \A i \in 1 .. (n - 1) : i \in 1 .. n
    OBVIOUS
  <2>3. n \in 1 .. n
    BY <1>1
  <2> QED  BY <1>1, <1>3, <2>1, <2>2, <2>3
<1>5. /\ wire \in Seq(DOMAIN pubs') /\ acks \in Seq(DOMAIN pubs')
      /\ wire' \in Seq(DOMAIN pubs') /\ Elems(wire') \subseteq Elems(wire) \cup {n} /\ Distinct(wire')
  <2>1. wire \in Seq(DOMAIN pubs') /\ acks \in Seq(DOMAIN pubs') /\ n \in DOMAIN pubs'
    BY <1>0, <1>4, SeqMonotonic DEF ForwarderTypeOK
  <2>2. n \notin Elems(wire) /\ Distinct(wire)
    BY <1>1 DEF ForwarderInv, WireInv
  <2>3. /\ Append(wire, n) \in Seq(DOMAIN pubs') /\ Elems(Append(wire, n)) = Elems(wire) \cup {n}
        /\ Distinct(Append(wire, n))
    BY <2>1, <2>2, AppendElems, AppendDistinct
  <2> QED  BY <1>0, <2>1, <2>2, <2>3
<1>6. ForwarderTypeOK'
  <2>1. unacked' \subseteq DOMAIN pubs'
    BY <1>0, <1>4 DEF ForwarderTypeOK
  <2>2. LogTypeOK'
    BY <1>0 DEF ForwarderTypeOK, LogTypeOK
  <2> QED  BY <1>0, <1>3, <1>5, <2>1, <2>2 DEF ForwarderTypeOK
<1>7. OrderInv'
  BY <1>0 DEF ForwarderInv, OrderInv
<1>8. \A d \in accepted : d < hand => d \in seen
  <2> SUFFICES ASSUME NEW d \in accepted, d < hand PROVE d \in seen
    OBVIOUS
  <2>1. d \in Nat /\ d # hand /\ ~(hand < d)
    BY <1>0, <1>2, Numbered DEF ForwarderTypeOK
  <2> QED  BY <1>0, <2>1 DEF ForwarderInv, OrderInv
<1>9. SentInv'
  <2>1. \A i \in DOMAIN pubs' : pubs'[i] \in accepted /\ \A d \in accepted : d < pubs'[i] => d \in seen
    BY <1>2, <1>3, <1>4, <1>8 DEF ForwarderInv, SentInv
  <2>2. \A i \in DOMAIN pubs', q \in Elems(queue) : pubs'[i] < q
    BY <1>0, <1>3, <1>4 DEF ForwarderInv, SentInv, OrderInv
  <2>3. \A i \in DOMAIN pubs' : i \in unacked' \/ pubs'[i] \in seen
    BY <1>0, <1>3, <1>4 DEF ForwarderInv, SentInv
  <2>4. \A i \in Elems(acks) : pubs'[i] \in seen
    BY <1>1, <1>3 DEF ForwarderInv, SentInv
  <2>5. Len(pubs') \in DOMAIN pubs' /\ pubs'[Len(pubs')] = hand
    BY <1>3, <1>4
  <2> QED  BY <1>0, <2>1, <2>2, <2>3, <2>4, <2>5 DEF SentInv
<1>10. WireInv'
  BY <1>0, <1>1, <1>5 DEF ForwarderInv, WireInv
<1>11. NewestInv'
  <2>1. \A i \in unacked : i \in DOMAIN pubs /\ pubs'[i] = pubs[i]
    BY <1>0, <1>3 DEF ForwarderTypeOK
  <2>2. \A d \in accepted : pubs'[n] < d => d \in Elems(queue)
    BY <1>0, <1>3 DEF ForwarderInv, OrderInv
  <2> QED  BY <1>0, <2>1, <2>2 DEF ForwarderInv, NewestInv
<1> QED  BY <1>6, <1>7, <1>9, <1>10, <1>11 DEF ForwarderInv

LEMMA ThreadInv == ASSUME ForwarderInv, Thread \/ Stop PROVE ForwarderInv'
<1>0. /\ ForwarderTypeOK /\ MaxFaults \in Nat
      /\ pc \in {"trying", "connecting", "sending", "waiting", "backoff"} => hand # None
      /\ pc = "idle" => hand = None
  BY ForwarderAssumption DEF ForwarderInv, OrderInv
<1>1. Faulty => faults' \in 0 .. MaxFaults
  BY <1>0 DEF Faulty, ForwarderTypeOK
<1>2. CASE Take
  BY <1>2, TakeInv
<1>3. CASE Sends
  BY <1>3, SendsInv
<1>4. CASE Try
  BY <1>0, <1>4, QuietInv DEF Try, deviceVars, mqttVars, ForwarderTypeOK
<1>5. CASE Connects
  BY <1>0, <1>5, QuietInv DEF Connects, deviceVars, ForwarderTypeOK
<1>6. CASE Refused
  BY <1>0, <1>1, <1>6, QuietInv DEF Refused, deviceVars, ForwarderTypeOK
<1>7. CASE Published
  <2>1. hand \in seen
    BY <1>7 DEF Published, ForwarderInv, SentInv
  <2> QED  BY <1>0, <1>7, <2>1, QuietInv DEF Published, deviceVars, mqttVars, ForwarderTypeOK
<1>8. CASE GivesUp
  <2>1. faults' \in 0 .. MaxFaults
    BY <1>0, <1>1, <1>8 DEF GivesUp, Unanswered, ForwarderTypeOK
  <2> QED  BY <1>0, <1>8, <2>1, QuietInv DEF GivesUp, Unanswered, deviceVars, ForwarderTypeOK
<1>9. CASE Retry
  BY <1>0, <1>9, QuietInv DEF Retry, deviceVars, mqttVars, ForwarderTypeOK
<1>10. CASE Over
  BY <1>0, <1>10, QuietInv DEF Over, deviceVars, ForwarderTypeOK, Linked
<1>11. CASE Stop
  BY <1>0, <1>11, QuietInv DEF Stop, deviceVars, ForwarderTypeOK, Linked
<1> QED  BY <1>2, <1>3, <1>4, <1>5, <1>6, <1>7, <1>8, <1>9, <1>10, <1>11 DEF Thread

(* The client and its connection. *)

LEMMA GreetedInv == ASSUME ForwarderInv, Greeted PROVE ForwarderInv'
<1> PICK s \in [1 .. Cardinality(Missing) -> Missing] : InOrder(s) /\ wire' = wire \o s
  BY DEF Greeted
<1>0. /\ ForwarderTypeOK /\ link = "greeting" /\ link' = "up"
      /\ UNCHANGED <<recorded, log, queue, accepted, pc, hand, stopping, connected, trailing,
                     pubs, unacked, acks, seen, last, faults>>
  BY DEF ForwarderInv, Greeted, deviceVars, threadVars
<1>1. Missing = unacked \ Elems(wire) /\ Missing \subseteq DOMAIN pubs /\ DOMAIN pubs = 1 .. Len(pubs) /\ Len(pubs) \in Nat
  BY <1>0, Numbered DEF Missing, Elems, ForwarderTypeOK
<1>2. Cardinality(Missing) \in Nat
  <2>1. IsFiniteSet(1 .. Len(pubs))
    BY <1>1, FS_Interval
  <2>2. IsFiniteSet(Missing)
    BY <1>1, <2>1, FS_Subset
  <2> QED  BY <2>2, FS_CardinalityType
<1> PICK m \in Nat : m = Cardinality(Missing)
  BY <1>2
<1>3. s \in Seq(DOMAIN pubs) /\ DOMAIN s = 1 .. m /\ Elems(s) \subseteq Missing
  <2>1. s \in [1 .. m -> DOMAIN pubs] /\ DOMAIN s = 1 .. m
    BY <1>1
  <2>2. s \in Seq(DOMAIN pubs)
    BY <2>1, SeqDef
  <2>3. Elems(s) \subseteq Missing
    BY <2>1 DEF Elems
  <2> QED  BY <2>1, <2>2, <2>3
<1>4. Distinct(s)
  <2> SUFFICES ASSUME NEW i \in DOMAIN s, NEW j \in DOMAIN s, s[i] = s[j] PROVE i = j
    BY DEF Distinct
  <2>1. ~(i < j) /\ ~(j < i)
    <3>1. s[i] \in DOMAIN pubs
      BY <1>1, <1>3 DEF Elems
    <3>2. \A x \in DOMAIN pubs : x \in Nat /\ ~(x < x)
      BY <1>1
    <3>3. ~(s[i] < s[j]) /\ ~(s[j] < s[i])
      BY <3>1, <3>2
    <3> QED  BY <3>3, <1>3 DEF InOrder
  <2> QED  BY <1>3, <2>1
<1>5. wire' \in Seq(DOMAIN pubs) /\ Elems(wire') \subseteq Elems(wire) \cup Elems(s) /\ Distinct(wire')
  <2>1. Distinct(wire) /\ Elems(wire) \cap Elems(s) = {}
    BY <1>1, <1>3 DEF ForwarderInv, WireInv
  <2> QED  BY <1>0, <1>3, <1>4, <2>1, ConcatElems DEF ForwarderTypeOK
<1>6. acks = <<>> /\ Elems(acks) = {}
  BY <1>0, EmptyElems DEF ForwarderInv, WireInv
<1>7. ForwarderTypeOK'
  <2>1. LogTypeOK'
    BY <1>0 DEF ForwarderTypeOK, LogTypeOK
  <2> QED  BY <1>0, <1>5, <2>1 DEF ForwarderTypeOK
<1>8. WireInv'
  BY <1>0, <1>1, <1>3, <1>5, <1>6 DEF ForwarderInv, WireInv
<1> QED  BY <1>0, <1>7, <1>8 DEF ForwarderInv, OrderInv, SentInv, NewestInv

LEMMA ReceiveInv == ASSUME ForwarderInv, Receive PROVE ForwarderInv'
<1> PICK w : w = Head(wire)
  OBVIOUS
<1>0. /\ ForwarderTypeOK /\ link \in {"up", "closing"} /\ wire # <<>>
      /\ wire' = Tail(wire) /\ acks' = Append(acks, w)
      /\ seen' = seen \cup {pubs[w]} /\ last' = pubs[w]
      /\ UNCHANGED <<recorded, log, queue, accepted, pc, hand, stopping, connected, trailing, link, pubs, unacked, faults>>
  BY DEF ForwarderInv, Receive, deviceVars, threadVars
<1>1. /\ w \in DOMAIN pubs /\ wire' \in Seq(DOMAIN pubs) /\ Elems(wire) = Elems(wire') \cup {w}
      /\ Distinct(wire') /\ w \notin Elems(wire')
  BY <1>0, TailElems, TailDistinct DEF ForwarderTypeOK, ForwarderInv, WireInv
<1>2. acks' \in Seq(DOMAIN pubs) /\ Elems(acks') = Elems(acks) \cup {w}
  BY <1>0, <1>1, AppendElems DEF ForwarderTypeOK
<1>3. /\ pubs[w] \in accepted /\ pubs[w] \in Events /\ w \in unacked
      /\ pubs[w] \in Nat /\ pubs[w] # None /\ \A q \in Elems(queue) : pubs[w] < q
  BY <1>0, <1>1, Numbered DEF ForwarderInv, SentInv, WireInv
<1>4. ForwarderTypeOK'
  <2>1. LogTypeOK' /\ seen' \subseteq Events /\ last' \in Events \cup {None}
    BY <1>0, <1>3 DEF ForwarderTypeOK, LogTypeOK
  <2> QED  BY <1>0, <1>1, <1>2, <2>1 DEF ForwarderTypeOK
<1>5. OrderInv'
  BY <1>0, <1>3 DEF ForwarderInv, OrderInv
<1>6. SentInv'
  <2>1. \A i \in Elems(acks') : pubs[i] \in seen'
    BY <1>0, <1>2 DEF ForwarderInv, SentInv
  <2> QED  BY <1>0, <2>1 DEF ForwarderInv, SentInv
<1>7. WireInv'
  BY <1>0, <1>1, <1>2 DEF ForwarderInv, WireInv
<1>8. NewestInv'
  <2> SUFFICES ASSUME ~trailing PROVE /\ \A i \in unacked, d \in accepted : pubs[i] < d => d \in Elems(queue)
                                      /\ \A d \in seen' : last' # None /\ d <= last'
    BY <1>0 DEF NewestInv
  <2>1. \A i \in unacked, d \in accepted : pubs[i] < d => d \in Elems(queue)
    BY DEF ForwarderInv, NewestInv
  <2>2. ASSUME NEW d \in seen PROVE d <= pubs[w]
    <3>1. d \in accepted /\ d \in Nat
      BY <1>0, Numbered DEF ForwarderInv, OrderInv, ForwarderTypeOK
    <3>2. \A q \in Elems(queue) : d < q
      BY DEF ForwarderInv, OrderInv
    <3>3. d \notin Elems(queue)
      BY <3>1, <3>2
    <3>4. ~(pubs[w] < d)
      BY <1>3, <2>1, <3>1, <3>3
    <3> QED  BY <1>3, <3>1, <3>4
  <2> QED  BY <1>0, <1>3, <2>1, <2>2
<1> QED  BY <1>4, <1>5, <1>6, <1>7, <1>8 DEF ForwarderInv

LEMMA AckedInv == ASSUME ForwarderInv, Acked PROVE ForwarderInv'
<1> PICK a : a = Head(acks)
  OBVIOUS
<1>0. /\ ForwarderTypeOK /\ link \in {"up", "closing"} /\ acks # <<>>
      /\ acks' = Tail(acks) /\ unacked' = unacked \ {a}
      /\ UNCHANGED <<recorded, log, queue, accepted, pc, hand, stopping, connected, trailing, link, pubs, wire, seen, last, faults>>
  BY DEF ForwarderInv, Acked, deviceVars, threadVars
<1>1. acks' \in Seq(DOMAIN pubs) /\ Elems(acks) = Elems(acks') \cup {a}
  BY <1>0, TailElems DEF ForwarderTypeOK
<1>2. pubs[a] \in seen /\ a \notin Elems(wire)
  BY <1>1 DEF ForwarderInv, SentInv, WireInv
<1>3. ForwarderTypeOK'
  <2>1. LogTypeOK' /\ unacked' \subseteq DOMAIN pubs
    BY <1>0 DEF ForwarderTypeOK, LogTypeOK
  <2> QED  BY <1>0, <1>1, <2>1 DEF ForwarderTypeOK
<1>4. SentInv'
  BY <1>0, <1>1, <1>2 DEF ForwarderInv, SentInv
<1>5. WireInv'
  BY <1>0, <1>1, <1>2 DEF ForwarderInv, WireInv
<1>6. NewestInv'
  BY <1>0 DEF ForwarderInv, NewestInv
<1> QED  BY <1>0, <1>3, <1>4, <1>5, <1>6 DEF ForwarderInv, OrderInv

LEMMA LinkInv == ASSUME ForwarderInv, Disconnect \/ Reconnect PROVE ForwarderInv'
<1>0. /\ ForwarderTypeOK /\ MaxFaults \in Nat
      /\ pc \in {"trying", "connecting", "sending", "waiting", "backoff"} => hand # None
      /\ pc = "idle" => hand = None
  BY ForwarderAssumption DEF ForwarderInv, OrderInv
<1>1. CASE Disconnect
  <2>1. faults' \in 0 .. MaxFaults
    BY <1>0, <1>1 DEF Disconnect, Faulty, ForwarderTypeOK
  <2> QED  BY <1>0, <1>1, <2>1, QuietInv DEF Disconnect, deviceVars, ForwarderTypeOK
<1>2. CASE Reconnect
  BY <1>0, <1>2, QuietInv DEF Reconnect, deviceVars, threadVars, ForwarderTypeOK
<1> QED  BY <1>1, <1>2

LEMMA ForwarderNextInv == ForwarderInv /\ [ForwarderNext]_forwarderVars => ForwarderInv'
<1> SUFFICES ASSUME ForwarderInv, [ForwarderNext]_forwarderVars PROVE ForwarderInv'
  OBVIOUS
<1>1. CASE ForwarderNext
  BY <1>1, RecordedInv, ThreadInv, GreetedInv, AckedInv, LinkInv, ReceiveInv DEF ForwarderNext, Network
<1>2. CASE UNCHANGED forwarderVars
  <2>1. UNCHANGED <<recorded, log, queue, accepted, pc, hand, stopping, connected, trailing,
                    link, pubs, unacked, wire, acks, seen, last, faults>>
    BY <1>2 DEF forwarderVars, deviceVars, threadVars, mqttVars
  <2>2. ForwarderTypeOK'
    BY <2>1 DEF ForwarderInv, ForwarderTypeOK, LogTypeOK
  <2> QED  BY <2>1, <2>2 DEF ForwarderInv, OrderInv, SentInv, WireInv, NewestInv
<1> QED  BY <1>1, <1>2

(* The invariant of the forwarder, its client and the connection. *)
THEOREM ForwarderInvariant == ForwarderSpec => []ForwarderInv
BY ForwarderInitInv, ForwarderNextInv, PTL DEF ForwarderSpec

(* Every variable of the log store, the forwarder and its client keeps its type, *)
(* and the queue its limit.                                                  *)
THEOREM ForwarderTypeCorrect == ForwarderSpec => []ForwarderTypeOK
<1>1. ForwarderInv => ForwarderTypeOK
  BY DEF ForwarderInv
<1> QED  BY <1>1, ForwarderInvariant, PTL

(* Once nothing is under way, the broker's last message is the newest accepted    *)
(* event, unless one was taken while a copy of an older was unacknowledged.    *)
THEOREM LastWordAlways == ForwarderSpec => []LastWord
<1>1. ForwarderInv => LastWord
  <2> SUFFICES ASSUME ForwarderInv, NothingUnderWay, accepted # {}, ~trailing
      PROVE  last # None /\ \A d \in accepted : last >= d
    BY DEF LastWord
  <2>1. Elems(queue) = {} /\ hand = None
    BY EmptyElems DEF NothingUnderWay
  <2>2. \A d \in accepted : d \in seen /\ d \in Nat
    BY <2>1, Numbered DEF ForwarderInv, OrderInv, ForwarderTypeOK
  <2>3. last # None /\ \A d \in accepted : d <= last
    BY <2>2 DEF ForwarderInv, NewestInv
  <2>4. last \in Nat
    BY <2>3, Numbered DEF ForwarderInv, ForwarderTypeOK
  <2> QED  BY <2>2, <2>3, <2>4
<1> QED  BY <1>1, ForwarderInvariant, PTL

(* The forwarder is an EventChannel: every step of its thread, its client and     *)
(* the network is one of the channel, or none.                               *)
THEOREM ForwarderIsChannel == ForwarderSpec => IsChannel
<1>1. ForwarderInit => ChannelInit
  BY DEF ForwarderInit, ChannelInit
<1>2. ASSUME ForwarderInv, [ForwarderNext]_forwarderVars PROVE [ChannelNext]_channelVars
  <2>1. CASE Recorded
    <3>1. Report \/ SupervisorStop
      BY <2>1 DEF Recorded
    <3>2. accepted' \in {accepted, accepted \cup {Len(recorded) + 1}} /\ seen' = seen
      BY <2>1 DEF Recorded, Enqueue, mqttVars
    <3> QED  BY <3>1, <3>2 DEF ChannelNext, Offer
  <2>2. CASE Receive
    <3> PICK w \in DOMAIN pubs : w = Head(wire)
      BY <1>2, <2>2, TailElems DEF Receive, ForwarderInv, ForwarderTypeOK
    <3>1. pubs[w] \in Events /\ pubs[w] \in accepted /\ \A d \in accepted : d < pubs[w] => d \in seen
      BY <1>2, Numbered DEF ForwarderInv, SentInv
    <3>2. seen' = seen \cup {pubs[w]} /\ UNCHANGED <<recorded, log, accepted>>
      BY <2>2 DEF Receive, deviceVars
    <3>3. Deliver(pubs[w])
      BY <3>1, <3>2 DEF Deliver
    <3> QED  BY <3>1, <3>3 DEF ChannelNext
  <2>3. CASE Thread \/ Stop \/ Network \/ UNCHANGED forwarderVars
    <3>1. UNCHANGED <<recorded, log, accepted, seen>>
      BY <2>3 DEF Thread, Take, Try, Connects, Refused, Sends, Published, GivesUp, Unanswered, Retry, Over, Stop,
           Network, Greeted, Acked, Disconnect, Reconnect, forwarderVars, deviceVars, mqttVars
    <3> QED  BY <3>1 DEF channelVars
  <2> QED  BY <1>2, <2>1, <2>2, <2>3 DEF ForwarderNext
<1> QED  BY <1>1, <1>2, ForwarderInvariant, PTL DEF ForwarderSpec, IsChannel, ChannelSpec

-----------------------------------------------------------------------------
(* The pipeline: what the device records and the channel lets through. *)

(* The log's status is the last that was told, of whichever run.              *)
LogTells ==
    \/ \A e \in DOMAIN recorded : StatusOf(recorded[e].type) = None
    \/ \E e \in DOMAIN recorded :
          /\ StatusOf(recorded[e].type) # None /\ log.status = StatusOf(recorded[e].type)
          /\ \A d \in DOMAIN recorded : StatusOf(recorded[d].type) # None => d <= e

ChannelInv ==
    /\ ChannelTypeOK
    /\ accepted \subseteq DOMAIN recorded
    /\ \A d \in seen, e \in accepted : e < d => e \in seen
    /\ LogTells

(* What both sides of the pipeline call the numbers, runs and states. *)
LEMMA Names ==
    /\ None \notin Nat /\ None \notin Statuses /\ MaxRecorded \in Nat /\ IsFiniteSet(Runs)
    /\ Events \subseteq Nat /\ Times \subseteq Int /\ None \notin Runs /\ None \notin Events
    /\ \A t : StatusOf(t) \in Statuses \cup {None} /\ StatusOf(t) # "unknown" /\ RunState(t) = StatusOf(t)
<1>1. /\ None \notin Nat /\ None \notin Statuses /\ MaxRecorded \in Nat /\ IsFiniteSet(Runs)
      /\ Times \subseteq Int /\ None \notin Runs
  BY LogAssumption
<1>2. Events \subseteq Nat /\ None \notin Events
  BY <1>1 DEF Events
<1>3. \A t : StatusOf(t) \in Statuses \cup {None} /\ RunState(t) = StatusOf(t)
  BY DEF StatusOf, RunState, Statuses
<1>4. \A t : StatusOf(t) # "unknown"
  BY <1>1 DEF StatusOf, Statuses
<1> QED  BY <1>1, <1>2, <1>3, <1>4

LEMMA ChannelTypes ==
    ASSUME ChannelInv
    PROVE  /\ Len(recorded) \in Nat /\ DOMAIN recorded = 1 .. Len(recorded)
           /\ \A e \in DOMAIN recorded : /\ recorded[e].run \in RunOrNone /\ recorded[e].type \in Types
                                      /\ recorded[e].time \in Times
           /\ log.run \in RunOrNone
           /\ \A e \in seen : e \in Events /\ e \in accepted /\ e \in DOMAIN recorded
<1> DEFINE E == [run : RunOrNone, type : Types, time : Times]
<1>1. recorded \in Seq(E) /\ log.run \in RunOrNone /\ accepted \subseteq Events /\ seen \subseteq accepted
  BY DEF ChannelInv, ChannelTypeOK, LogTypeOK
<1>2. Len(recorded) \in Nat /\ DOMAIN recorded = 1 .. Len(recorded) /\ \A e \in DOMAIN recorded : recorded[e] \in E
  <2> HIDE DEF E
  <2> QED  BY <1>1, LenProperties, ElementOfSeq
<1> QED  BY <1>1, <1>2 DEF ChannelInv

(* What an offer records. *)
LEMMA Offered ==
    ASSUME ChannelInv, Offer
    PROVE  \E r \in RunOrNone, t \in Types :
              /\ Len(recorded') = Len(recorded) + 1 /\ DOMAIN recorded' = 1 .. (Len(recorded) + 1)
              /\ recorded'[Len(recorded) + 1].run = r /\ recorded'[Len(recorded) + 1].type = t
              /\ \A e \in DOMAIN recorded : recorded'[e] = recorded[e]
              /\ log'.run = (IF r # None /\ r # log.run THEN r ELSE log.run)
              /\ log'.status = (IF StatusOf(t) # None THEN StatusOf(t) ELSE log.status)
              /\ Len(recorded) + 1 \in Events /\ LogTypeOK'
<1>1. PICK r \in RunOrNone, t \in Types, at \in Times : Record(r, t, at)
  <2>1. CASE Report
    BY <2>1 DEF Report
  <2>2. CASE SupervisorStop
    BY <2>2 DEF SupervisorStop, RunOrNone
  <2> QED  BY <2>1, <2>2 DEF Offer
<1> DEFINE x == [run |-> r, type |-> t, time |-> at]
           E == [run : RunOrNone, type : Types, time : Times]
<1>2. x \in E /\ x.run = r /\ x.type = t /\ recorded \in Seq(E) /\ recorded' = Append(recorded, x)
      /\ Len(recorded) \in Nat /\ DOMAIN recorded = 1 .. Len(recorded)
  BY <1>1, ChannelTypes DEF Record, ChannelInv, ChannelTypeOK, LogTypeOK
<1>3. /\ log'.run = (IF r # None /\ r # log.run THEN r ELSE log.run)
      /\ log'.status = (IF StatusOf(t) # None THEN StatusOf(t) ELSE log.status)
  BY <1>1 DEF Record, Logged, Fresh
<1>4. LogTypeOK' /\ Len(recorded) + 1 \in Events
  BY <1>1, RecordLog DEF ChannelInv, ChannelTypeOK
<1> HIDE DEF x, E
<1>5. /\ Len(recorded') = Len(recorded) + 1 /\ recorded' \in Seq(E)
      /\ recorded'[Len(recorded) + 1] = x /\ \A e \in 1 .. Len(recorded) : recorded'[e] = recorded[e]
  BY <1>2, AppendProperties
<1>6. DOMAIN recorded' = 1 .. (Len(recorded) + 1)
  BY <1>5, LenProperties
<1> QED  BY <1>1, <1>2, <1>3, <1>4, <1>5, <1>6

LEMMA OfferChannel == ASSUME ChannelInv, Offer PROVE ChannelInv'
<1> DEFINE n == Len(recorded)
<1> PICK r \in RunOrNone, t \in Types :
              /\ Len(recorded') = n + 1 /\ DOMAIN recorded' = 1 .. (n + 1)
              /\ recorded'[n + 1].run = r /\ recorded'[n + 1].type = t
              /\ \A e \in DOMAIN recorded : recorded'[e] = recorded[e]
              /\ log'.run = (IF r # None /\ r # log.run THEN r ELSE log.run)
              /\ log'.status = (IF StatusOf(t) # None THEN StatusOf(t) ELSE log.status)
              /\ n + 1 \in Events /\ LogTypeOK'
  BY Offered
<1>1. n \in Nat /\ DOMAIN recorded = 1 .. n /\ log.run \in RunOrNone /\ RunOrNone = Runs \cup {None}
      /\ \A e \in DOMAIN recorded : recorded[e].run \in RunOrNone
  BY ChannelTypes DEF RunOrNone
<1>2. accepted' \in {accepted, accepted \cup {n + 1}} /\ seen' = seen
  BY DEF Offer
<1> HIDE DEF n
<1>3. ChannelTypeOK'
  BY <1>2 DEF ChannelInv, ChannelTypeOK
<1>4. accepted' \subseteq DOMAIN recorded' /\ (\A d \in seen, e \in accepted : e < d => e \in seen)'
  <2>1. \A d \in seen : d \in 1 .. n
    BY <1>1 DEF ChannelInv, ChannelTypeOK
  <2> QED  BY <1>1, <1>2, <2>1 DEF ChannelInv
<1>5. LogTells'
  <2>1. CASE StatusOf(t) # None
    <3>1. n + 1 \in 1 .. (n + 1) /\ \A d \in 1 .. (n + 1) : d <= n + 1
      BY <1>1
    <3> QED  BY <2>1, <3>1 DEF LogTells
  <2>2. CASE StatusOf(t) = None
    <3>1. log'.status = log.status /\ \A e \in 1 .. n : e \in 1 .. (n + 1) /\ recorded'[e] = recorded[e]
      BY <1>1, <2>2
    <3>2. \A d \in 1 .. (n + 1) : StatusOf(recorded'[d].type) # None => d \in 1 .. n
      BY <1>1, <2>2
    <3> QED  BY <1>1, <3>1, <3>2 DEF ChannelInv, LogTells
  <2> QED  BY <2>1, <2>2
<1> QED  BY <1>3, <1>4, <1>5 DEF ChannelInv

LEMMA DeliverChannel ==
    ASSUME ChannelInv, NEW e \in Events, Deliver(e)
    PROVE  ChannelInv' /\ (e \notin seen => \A d \in seen : d < e)
<1>1. e \in accepted /\ (\A d \in accepted : d < e => d \in seen) /\ seen' = seen \cup {e}
      /\ recorded' = recorded /\ log' = log /\ accepted' = accepted
  BY DEF Deliver
<1>2. \A d \in seen : d \in Nat
  BY ChannelTypes, Names
<1>3. e \notin seen => \A d \in seen : d < e
  BY <1>1, <1>2, Names DEF ChannelInv
<1> QED  BY <1>1, <1>2, <1>3 DEF ChannelInv, ChannelTypeOK, LogTypeOK, LogTells

-----------------------------------------------------------------------------
(* The pipeline: what a step of the consumer or the store does. *)

Serving(i, r) == task[i] # None /\ task[i].msg.run = r

LEMMA Typed ==
    ASSUME HistoryTypeOK
    PROVE  /\ feed \in Seq(Messages) /\ Len(feed) \in Nat /\ DOMAIN feed = 1 .. Len(feed)
           /\ \A j \in DOMAIN feed : feed[j].ev \in Events /\ feed[j].run \in RunOrNone /\ feed[j].type \in Types /\ feed[j].time \in Times
           /\ task \in [Ingests -> Ingest \cup {None}]
           /\ \A i \in Ingests : task[i] # None =>
                 /\ task[i] \in Ingest /\ task[i].msg \in Messages /\ task[i].at \in {"select", "insert", "update", "event"}
                 /\ task[i].msg.ev \in Events /\ task[i].msg.run \in RunOrNone /\ task[i].msg.type \in Types
           /\ runs \in [Runs -> Seq(Row)] /\ stored \in [Runs -> Seq(Events)]
           /\ \A r \in Runs : Len(runs[r]) \in Nat /\ DOMAIN runs[r] = 1 .. Len(runs[r])
           /\ \A r \in Runs : \A j \in DOMAIN runs[r] : runs[r][j].started \in Times
           /\ lost \subseteq Runs /\ crossed \subseteq Runs
<1>1. /\ feed \in Seq(Messages) /\ task \in [Ingests -> Ingest \cup {None}]
      /\ runs \in [Runs -> Seq(Row)] /\ stored \in [Runs -> Seq(Events)]
      /\ lost \subseteq Runs /\ crossed \subseteq Runs
  BY DEF HistoryTypeOK
<1>2. \A m \in Messages : m.ev \in Events /\ m.run \in RunOrNone /\ m.type \in Types /\ m.time \in Times
  BY DEF Messages, RunOrNone
<1>3. Len(feed) \in Nat /\ DOMAIN feed = 1 .. Len(feed) /\ \A j \in DOMAIN feed : feed[j] \in Messages
  BY <1>1, LenProperties, ElementOfSeq
<1>4. \A i \in Ingests : task[i] # None =>
         task[i] \in Ingest /\ task[i].msg \in Messages /\ task[i].at \in {"select", "insert", "update", "event"}
  BY <1>1 DEF Ingest
<1>5. \A r \in Runs : Len(runs[r]) \in Nat /\ DOMAIN runs[r] = 1 .. Len(runs[r]) /\ \A j \in DOMAIN runs[r] : runs[r][j] \in Row
  BY <1>1, LenProperties, ElementOfSeq
<1>6. \A x \in Row : x.started \in Times
  BY DEF Row
<1> QED  BY <1>1, <1>2, <1>3, <1>4, <1>5, <1>6

(* The first message of the feed is taken off. *)
LEMMA FeedMoves ==
    ASSUME HistoryTypeOK, feed # <<>>, feed' = Tail(feed)
    PROVE  /\ feed' \in Seq(Messages) /\ Len(feed) \in Nat /\ Len(feed) > 0 /\ DOMAIN feed = 1 .. Len(feed)
           /\ Head(feed) = feed[1] /\ 1 \in DOMAIN feed
           /\ Len(feed') = Len(feed) - 1 /\ DOMAIN feed' = 1 .. (Len(feed) - 1)
           /\ \A j \in DOMAIN feed' : j + 1 \in DOMAIN feed /\ feed'[j] = feed[j + 1]
           /\ \A j \in DOMAIN feed : j # 1 => j - 1 \in DOMAIN feed' /\ feed'[j - 1] = feed[j]
<1>1. feed \in Seq(Messages) /\ Len(feed) \in Nat \ {0} /\ DOMAIN feed = 1 .. Len(feed) /\ Head(feed) = feed[1]
  BY Typed, EmptySeq
<1>2. feed' \in Seq(Messages) /\ Len(feed') = Len(feed) - 1 /\ \A j \in 1 .. Len(feed') : feed'[j] = feed[j + 1]
  BY <1>1, HeadTailProperties
<1>3. DOMAIN feed' = 1 .. (Len(feed) - 1)
  BY <1>2, LenProperties
<1>4. \A j \in 1 .. (Len(feed) - 1) : j + 1 \in 1 .. Len(feed)
  BY <1>1
<1>5. \A j \in 1 .. Len(feed) : j # 1 => j - 1 \in 1 .. (Len(feed) - 1) /\ (j - 1) + 1 = j
  BY <1>1
<1>6. 1 \in 1 .. Len(feed) /\ Len(feed) > 0
  BY <1>1
<1> QED  BY <1>1, <1>2, <1>3, <1>4, <1>5, <1>6

(* A message becomes the ingest of coroutine i. *)
LEMMA Begun ==
    ASSUME HistoryTypeOK, NEW i \in Ingests, NEW m \in Messages,
           task' = [task EXCEPT ![i] = [msg |-> m, at |-> "select"]]
    PROVE  /\ task' \in [Ingests -> Ingest \cup {None}]
           /\ task'[i] # None /\ task'[i].msg = m /\ task'[i].at = "select"
           /\ \A k \in Ingests : k # i => task'[k] = task[k]
<1> DEFINE x == [msg |-> m, at |-> "select"]
<1>1. x \in Ingest /\ x.msg = m /\ x.at = "select"
  <2> HIDE DEF Messages
  <2> QED  BY DEF Ingest
<1> HIDE DEF x
<1>2. task' = [task EXCEPT ![i] = x]
  BY DEF x
<1> QED  BY <1>1, <1>2, Typed, IngestAssumption

(* Coroutine i goes on to its next statement. *)
LEMMA GoesTo ==
    ASSUME HistoryTypeOK, NEW i \in Ingests, task[i] # None, NEW a \in {"select", "insert", "update", "event"},
           task' = [task EXCEPT ![i].at = a]
    PROVE  /\ task' \in [Ingests -> Ingest \cup {None}]
           /\ task'[i] # None /\ task'[i].msg = task[i].msg /\ task'[i].at = a
           /\ \A k \in Ingests : k # i => task'[k] = task[k]
<1> DEFINE x == [task[i] EXCEPT !.at = a]
<1>1. x \in Ingest /\ x.msg = task[i].msg /\ x.at = a
  <2>1. task[i] \in Ingest
    BY Typed
  <2> HIDE DEF Messages
  <2> QED  BY <2>1 DEF Ingest
<1>2. task' = [task EXCEPT ![i] = x]
  OBVIOUS
<1> HIDE DEF x
<1> QED  BY <1>1, <1>2, Typed, IngestAssumption

(* Coroutine i is over. *)
LEMMA Ended ==
    ASSUME HistoryTypeOK, NEW i \in Ingests, task' = [task EXCEPT ![i] = None]
    PROVE  /\ task' \in [Ingests -> Ingest \cup {None}]
           /\ task'[i] = None /\ \A k \in Ingests : k # i => task'[k] = task[k]
BY Typed

(* The row an event makes, and what an event makes of the rows there are. *)
LEMMA RowMade ==
    ASSUME NEW m \in Messages
    PROVE  /\ NewRow(m) \in Row /\ NewRow(m).started = m.time
           /\ NewRow(m).status = IF StatusOf(m.type) = None THEN "unknown" ELSE StatusOf(m.type)
<1>1. m.time \in Times
  BY DEF Messages
<1>2. RunState(m.type) = StatusOf(m.type) /\ (RunState(m.type) = None \/ RunState(m.type) \in RunStates)
  BY Names DEF Statuses, RunStates
<1> HIDE DEF Messages
<1> QED  BY <1>1, <1>2 DEF NewRow, Row, RunStates

LEMMA RowsRestated ==
    ASSUME NEW rows \in Seq(Row), NEW m \in Messages
    PROVE  /\ Restated(rows, m) \in Seq(Row) /\ Len(Restated(rows, m)) = Len(rows)
           /\ DOMAIN Restated(rows, m) = DOMAIN rows
           /\ \A j \in DOMAIN rows :
                 /\ Restated(rows, m)[j].started = rows[j].started
                 /\ Restated(rows, m)[j].status = IF StatusOf(m.type) = None THEN rows[j].status ELSE StatusOf(m.type)
<1>1. RunState(m.type) = StatusOf(m.type) /\ (RunState(m.type) = None \/ RunState(m.type) \in RunStates)
  BY Names DEF Statuses, RunStates
<1>2. Len(rows) \in Nat /\ DOMAIN rows = 1 .. Len(rows) /\ \A j \in DOMAIN rows : rows[j] \in Row
  BY LenProperties, ElementOfSeq
<1>3. CASE RunState(m.type) = None
  BY <1>1, <1>3 DEF Restated
<1>4. CASE RunState(m.type) # None
  <2> DEFINE s == RunState(m.type)
             new == [j \in 1 .. Len(rows) |-> [rows[j] EXCEPT !.status = s]]
  <2>1. s \in RunStates
    BY <1>1, <1>4
  <2>2. Restated(rows, m) = new
    BY <1>2, <1>4 DEF Restated
  <2> HIDE DEF s
  <2>3. \A j \in 1 .. Len(rows) : new[j] \in Row /\ new[j].started = rows[j].started /\ new[j].status = s
    <3> SUFFICES ASSUME NEW j \in 1 .. Len(rows) PROVE new[j] \in Row /\ new[j].started = rows[j].started /\ new[j].status = s
      OBVIOUS
    <3>1. rows[j] \in Row
      BY <1>2
    <3> QED  BY <2>1, <3>1 DEF Row
  <2>4. new \in [1 .. Len(rows) -> Row] /\ DOMAIN new = 1 .. Len(rows)
    BY <2>3
  <2>5. new \in Seq(Row)
    <3> HIDE DEF new
    <3> QED  BY <1>2, <2>4, SeqDef
  <2> HIDE DEF new
  <2>6. Len(new) = Len(rows)
    <3> DEFINE l == Len(new)
               n == Len(rows)
    <3>1. l \in Nat /\ n \in Nat /\ 1 .. l = 1 .. n
      BY <1>2, <2>4, <2>5, LenProperties
    <3> HIDE DEF l, n
    <3>2. l = n
      BY <3>1
    <3> QED  BY <3>2 DEF l, n
  <2> QED  BY <1>1, <1>2, <1>4, <2>2, <2>3, <2>4, <2>5, <2>6 DEF s
<1> QED  BY <1>3, <1>4

LEMMA NewestEvents ==
    ASSUME NEW s \in Seq(Events)
    PROVE  KeepNewest(s, EventsKept) \in Seq(Events)
<1>1. EventsKept \in Nat /\ Len(s) \in Nat
  BY PipelineAssumption, LenProperties
<1>2. CASE Len(s) > EventsKept
  <2> DEFINE m == Len(s) - EventsKept + 1
  <2>1. m \in Int /\ m >= 1
    BY <1>1, <1>2
  <2>2. \A j \in m .. Len(s) : s[j] \in Events
    <3>1. \A j \in m .. Len(s) : j \in 1 .. Len(s)
      BY <1>1, <2>1
    <3> QED  BY <3>1, ElementOfSeq
  <2>3. SubSeq(s, m, Len(s)) \in Seq(Events)
    <3> HIDE DEF m
    <3> QED  BY <1>1, <2>1, <2>2, SubSeqProperties
  <2> QED  BY <1>2, <2>3 DEF KeepNewest
<1>3. CASE ~(Len(s) > EventsKept)
  BY <1>3 DEF KeepNewest
<1> QED  BY <1>2, <1>3

(* Runs are pushed out one at a time, the one that started first. *)
LEMMA FirstOut ==
    ASSUME NEW table \in [Runs -> Seq(Row)]
    PROVE  /\ IsFiniteSet(Held(table)) /\ Cardinality(Held(table)) \in Nat
           /\ Cardinality(Held(table)) <= RunsKept => PushedOut(table) = {{}}
           /\ Cardinality(Held(table)) > RunsKept => \A out \in PushedOut(table) : \E p \in Held(table) :
                 out = {p} /\ \A q \in Held(table) : table[p][1].started <= table[q][1].started
<1>1. IsFiniteSet(Held(table)) /\ Cardinality(Held(table)) \in Nat
  BY Names, FS_Subset, FS_CardinalityType DEF Held
<1>2. RunsKept \in Nat
  BY PipelineAssumption
<1> QED  BY <1>1, <1>2 DEF PushedOut

(* What remembering a message does. *)
LEMMA Remembered ==
    ASSUME HistoryTypeOK, NEW i \in Ingests, task[i] # None, task[i].msg.run \in Runs, Remember(i)
    PROVE  LET m == task[i].msg
               new == IF runs[m.run] # <<>> THEN Restated(runs[m.run], m) ELSE <<NewRow(m)>>
               table == [runs EXCEPT ![m.run] = new]
           IN  \E out \in SUBSET Runs :
                  /\ table \in [Runs -> Seq(Row)] /\ new \in Seq(Row) /\ new # <<>>
                  /\ out \in IF runs[m.run] # <<>> THEN {{}} ELSE PushedOut(table)
                  /\ \A r \in Runs : runs'[r] = IF r \in out THEN <<>> ELSE IF r = m.run THEN new ELSE runs[r]
                  /\ runs' \in [Runs -> Seq(Row)] /\ stored' \in [Runs -> Seq(Events)]
                  /\ lost' = lost \cup out
<1> DEFINE m == task[i].msg
           new == IF runs[m.run] # <<>> THEN Restated(runs[m.run], m) ELSE <<NewRow(m)>>
           table == [runs EXCEPT ![m.run] = new]
           kept == KeepNewest(Append(stored[m.run], m.ev), EventsKept)
<1>1. m \in Messages /\ m.ev \in Events /\ m.run \in Runs /\ runs \in [Runs -> Seq(Row)] /\ stored \in [Runs -> Seq(Events)]
  BY Typed
<1>2. new \in Seq(Row) /\ new # <<>>
  <2>1. CASE runs[m.run] # <<>>
    <3> DEFINE rows == runs[m.run]
    <3>1. rows \in Seq(Row) /\ Restated(rows, m) \in Seq(Row) /\ Len(Restated(rows, m)) = Len(rows)
      BY <1>1, RowsRestated
    <3>2. Len(rows) # 0 /\ Len(<<>>) = 0
      BY <1>1, <2>1, EmptySeq
    <3>3. Restated(rows, m) # <<>>
      BY <3>1, <3>2
    <3> QED  BY <2>1, <3>1, <3>3
  <2>2. CASE runs[m.run] = <<>>
    <3> DEFINE x == NewRow(m)
    <3>1. x \in Row
      BY <1>1, RowMade
    <3> HIDE DEF x
    <3>2. <<x>> \in Seq(Row) /\ <<x>> # <<>>
      BY <3>1
    <3> QED  BY <2>2, <3>2 DEF x
  <2> QED  BY <2>1, <2>2
<1>3. PICK out \in (IF runs[m.run] # <<>> THEN {{}} ELSE PushedOut(table)) :
         /\ runs' = [r \in Runs |-> IF r \in out THEN <<>> ELSE table[r]]
         /\ stored' = [r \in Runs |-> IF r \in out THEN <<>> ELSE IF r = m.run THEN kept ELSE stored[r]]
         /\ lost' = lost \cup out
  <2>1. \E out \in (IF runs[m.run] # <<>> THEN {{}} ELSE PushedOut(table)) :
           /\ runs' = [r \in Runs |-> IF r \in out THEN <<>> ELSE table[r]]
           /\ stored' = [r \in Runs |->
                  IF r \in out THEN <<>>
                  ELSE IF r = m.run THEN KeepNewest(Append(stored[r], m.ev), EventsKept) ELSE stored[r]]
           /\ lost' = lost \cup out
    BY DEF Remember
  <2> QED  BY <2>1
<1> HIDE DEF new
<1>4. table \in [Runs -> Seq(Row)] /\ \A r \in Runs : table[r] = IF r = m.run THEN new ELSE runs[r]
  BY <1>1, <1>2
<1>5. out \in SUBSET Runs
  <2> HIDE DEF table
  <2>1. Cardinality(Held(table)) <= RunsKept \/ Cardinality(Held(table)) > RunsKept
    BY <1>4, FirstOut, PipelineAssumption
  <2>2. Held(table) \subseteq Runs
    BY DEF Held
  <2>3. \A x \in PushedOut(table) : x \in SUBSET Runs
    <3>1. CASE Cardinality(Held(table)) <= RunsKept
      <4>1. PushedOut(table) = {{}}
        BY <1>4, <3>1, FirstOut
      <4> QED  BY <4>1
    <3>2. CASE Cardinality(Held(table)) > RunsKept
      <4>1. \A x \in PushedOut(table) : \E p \in Held(table) : x = {p}
        BY <1>4, <3>2, FirstOut
      <4> HIDE DEF new
      <4> QED  BY <2>2, <4>1
    <3> QED  BY <2>1, <3>1, <3>2
  <2>4. out = {} \/ out \in PushedOut(table)
    BY <1>3
  <2> QED  BY <2>3, <2>4
<1>6. kept \in Seq(Events)
  <2>1. Append(stored[m.run], m.ev) \in Seq(Events)
    BY <1>1, AppendProperties
  <2> QED  BY <2>1, NewestEvents
<1> HIDE DEF kept, table
<1>7. \A r \in Runs : runs'[r] = IF r \in out THEN <<>> ELSE IF r = m.run THEN new ELSE runs[r]
  BY <1>3, <1>4
<1>8. runs' \in [Runs -> Seq(Row)] /\ stored' \in [Runs -> Seq(Events)]
  <2>1. <<>> \in Seq(Row) /\ <<>> \in Seq(Events)
    BY EmptySeq
  <2> QED  BY <1>1, <1>3, <1>4, <1>6, <2>1
<1> QED  BY <1>2, <1>3, <1>4, <1>5, <1>7, <1>8 DEF new, table

-----------------------------------------------------------------------------
(* The pipeline: messages, ingests and rows say what was recorded. *)

Genuine(m) ==
    /\ m.ev \in seen /\ m.run = recorded[m.ev].run
    /\ m.type = recorded[m.ev].type /\ m.time = recorded[m.ev].time

(* The events of a run that the broker has received. *)
Got(r) == {e \in seen : recorded[e].run = r}

RowOf(x, r) ==
    /\ \E e \in Got(r) : x.started = recorded[e].time
    /\ x.status # "unknown" => \E e \in Got(r) : StatusOf(recorded[e].type) # None

MessageInv ==
    /\ HistoryTypeOK
    /\ copied \in Seq(seen)
    /\ \A j \in DOMAIN feed : Genuine(feed[j])
    /\ \A i \in Ingests : task[i] # None =>
          /\ Genuine(task[i].msg) /\ task[i].msg.run \in Runs
          /\ backend = "memory" => task[i].at = "select"
    /\ backend = "sql" => \A r \in Runs : stored[r] \in Seq(Got(r))
    /\ \A r \in Runs : \A j \in DOMAIN runs[r] : RowOf(runs[r][j], r)

LEMMA InitMessages == Init => ChannelInv /\ MessageInv
<1> SUFFICES ASSUME Init PROVE ChannelInv /\ MessageInv
  OBVIOUS
<1>1. /\ \A S : <<>> \in Seq(S)
      /\ Len(<<>>) = 0 /\ DOMAIN <<>> = {}
  BY EmptyElems
<1>2. LogSize \in Nat /\ MaxRecorded \in Nat /\ MaxUpsets \in Nat
  BY LogAssumption, PipelineAssumption
<1>3. LogTypeOK
  BY <1>1, <1>2 DEF Init, ChannelInit, LogInit, LogTypeOK, RunOrNone, Statuses
<1>4. ChannelInv
  BY <1>1, <1>3 DEF Init, ChannelInit, LogInit, ChannelInv, ChannelTypeOK, LogTells
<1>5. HistoryTypeOK
  <2>1. feed \in Seq(Messages) /\ runs \in [Runs -> Seq(Row)] /\ stored \in [Runs -> Seq(Events)]
    BY <1>1 DEF Init, HistoryInit
  <2> QED  BY <1>2, <2>1 DEF Init, HistoryInit, HistoryTypeOK
<1>6. MessageInv
  BY <1>1, <1>5 DEF Init, HistoryInit, MessageInv
<1> QED  BY <1>4, <1>6

(* An offer changes nothing of what has been received. *)
LEMMA OfferMessages ==
    ASSUME ChannelInv, MessageInv, Offer, UNCHANGED <<centralVars, copied>>
    PROVE  /\ MessageInv' /\ seen' = seen /\ UNCHANGED <<centralVars, copied>>
           /\ \A e \in seen : recorded'[e] = recorded[e]
           /\ \A r \in Runs : Got(r)' = Got(r)
<1>1. seen' = seen /\ \A e \in seen : recorded'[e] = recorded[e]
  <2>1. \A e \in DOMAIN recorded : recorded'[e] = recorded[e]
    BY Offered
  <2> QED  BY <2>1, ChannelTypes DEF Offer
<1>2. \A r \in Runs : Got(r)' = Got(r)
  BY <1>1 DEF Got
<1>3. \A m : Genuine(m) => Genuine(m)'
  BY <1>1 DEF Genuine
<1>4. HistoryTypeOK'
  BY DEF MessageInv, HistoryTypeOK, centralVars
<1>5. \A r \in Runs : \A j \in DOMAIN runs[r] : RowOf(runs[r][j], r) => RowOf(runs[r][j], r)'
  <2> SUFFICES ASSUME NEW r \in Runs, NEW j \in DOMAIN runs[r], RowOf(runs[r][j], r) PROVE RowOf(runs[r][j], r)'
    OBVIOUS
  <2>1. runs' = runs
    BY DEF centralVars
  <2> QED  BY <1>1, <1>2, <2>1 DEF RowOf, Got
<1> QED  BY <1>1, <1>2, <1>3, <1>4, <1>5 DEF MessageInv, centralVars

(* The broker receives an event, for the first time or again. *)
LEMMA BrokerDoes ==
    ASSUME ChannelInv, MessageInv, Broker
    PROVE  \E e \in accepted :
              /\ ChannelInv' /\ UNCHANGED <<recorded, log, accepted, backend, consumer, task, runs, stored, crossed, upsets>>
              /\ seen' = seen \cup {e} /\ e \in DOMAIN recorded /\ e \in Events
              /\ (e \notin seen => \A d \in seen : d < e)
              /\ copied \in Seq(seen) /\ copied' = IF e \in seen THEN Append(copied, e) ELSE copied
              /\ Content(e) \in Messages
              /\ Content(e).ev = e /\ Content(e).run = recorded[e].run /\ Content(e).type = recorded[e].type
              /\ Content(e).time = recorded[e].time
              /\ consumer = "online" => feed' = Append(feed, Content(e)) /\ lost' = lost
              /\ consumer # "online" => feed' = feed /\ lost' = lost \cup ({recorded[e].run} \ {None})
<1> PICK e \in Events : /\ Deliver(e) /\ copied' = IF e \in seen THEN Append(copied, e) ELSE copied
                        /\ Arrives(Content(e))
  BY DEF Broker
<1>1. ChannelInv' /\ (e \notin seen => \A d \in seen : d < e)
  BY DeliverChannel
<1>2. e \in accepted /\ seen' = seen \cup {e} /\ UNCHANGED <<recorded, log, accepted>>
  BY DEF Deliver
<1>3. /\ e \in DOMAIN recorded /\ recorded[e].run \in RunOrNone
      /\ recorded[e].type \in Types /\ recorded[e].time \in Times
  BY <1>2, ChannelTypes DEF ChannelInv
<1>4. /\ Content(e) \in Messages
      /\ Content(e).ev = e /\ Content(e).run = recorded[e].run /\ Content(e).type = recorded[e].type
      /\ Content(e).time = recorded[e].time
  BY <1>3 DEF Content, Messages, RunOrNone
<1>5. /\ UNCHANGED <<backend, consumer, task, runs, stored, crossed, upsets>>
      /\ consumer = "online" => feed' = Append(feed, Content(e)) /\ lost' = lost
      /\ consumer # "online" => feed' = feed /\ lost' = lost \cup ({recorded[e].run} \ {None})
  BY <1>4 DEF Arrives
<1> QED  BY <1>1, <1>2, <1>3, <1>4, <1>5 DEF MessageInv

LEMMA FeedGrows ==
    ASSUME HistoryTypeOK, NEW m \in Messages, feed' = Append(feed, m)
    PROVE  /\ feed' \in Seq(Messages) /\ Len(feed) \in Nat /\ DOMAIN feed = 1 .. Len(feed)
           /\ Len(feed') = Len(feed) + 1 /\ DOMAIN feed' = 1 .. (Len(feed) + 1)
           /\ feed'[Len(feed) + 1] = m /\ \A j \in DOMAIN feed : feed'[j] = feed[j]
<1> HIDE DEF Messages
<1>1. feed \in Seq(Messages) /\ Len(feed) \in Nat /\ DOMAIN feed = 1 .. Len(feed)
  BY Typed
<1>2. /\ feed' \in Seq(Messages) /\ Len(feed') = Len(feed) + 1
      /\ feed'[Len(feed) + 1] = m /\ \A j \in 1 .. Len(feed) : feed'[j] = feed[j]
  BY <1>1, AppendProperties
<1>3. DOMAIN feed' = 1 .. (Len(feed) + 1)
  BY <1>2, LenProperties
<1> QED  BY <1>1, <1>2, <1>3

LEMMA BrokerMessages ==
    ASSUME ChannelInv, MessageInv, Broker
    PROVE  MessageInv'
<1> PICK e \in accepted :
              /\ UNCHANGED <<recorded, log, accepted, backend, consumer, task, runs, stored, crossed, upsets>>
              /\ seen' = seen \cup {e} /\ e \in DOMAIN recorded /\ e \in Events
              /\ copied \in Seq(seen) /\ copied' = IF e \in seen THEN Append(copied, e) ELSE copied
              /\ Content(e) \in Messages
              /\ Content(e).ev = e /\ Content(e).run = recorded[e].run /\ Content(e).type = recorded[e].type
              /\ Content(e).time = recorded[e].time
              /\ consumer = "online" => feed' = Append(feed, Content(e)) /\ lost' = lost
              /\ consumer # "online" => feed' = feed /\ lost' = lost \cup ({recorded[e].run} \ {None})
  BY BrokerDoes
<1>1. HistoryTypeOK
  BY DEF MessageInv
<1>2. HistoryTypeOK'
  <2>1. feed' \in Seq(Messages)
    BY <1>1, FeedGrows, Typed
  <2>2. lost' \subseteq Runs
    <3>1. recorded[e].run \in Runs \cup {None} /\ lost \subseteq Runs
      BY <1>1, ChannelTypes, Typed DEF RunOrNone
    <3> QED  BY <3>1
  <2> QED  BY <1>1, <2>1, <2>2 DEF HistoryTypeOK
<1>3. copied' \in Seq(seen')
  <2>1. seen \subseteq seen'
    OBVIOUS
  <2>2. copied \in Seq(seen')
    BY <2>1, SeqMonotonic
  <2>3. e \in seen' /\ Append(copied, e) \in Seq(seen')
    BY <2>2, AppendProperties
  <2> QED  BY <2>2, <2>3
<1>4. \A m : Genuine(m) => Genuine(m)'
  BY DEF Genuine
<1>5. \A j \in DOMAIN feed' : Genuine(feed[j])'
  <2>1. CASE consumer # "online"
    BY <1>4, <2>1 DEF MessageInv
  <2>2. CASE consumer = "online"
    <3> DEFINE n == Len(feed)
    <3>1. /\ n \in Nat /\ DOMAIN feed = 1 .. n /\ DOMAIN feed' = 1 .. (n + 1)
          /\ feed'[n + 1] = Content(e) /\ \A j \in DOMAIN feed : feed'[j] = feed[j]
      BY <1>1, <2>2, FeedGrows
    <3> HIDE DEF n
    <3> SUFFICES ASSUME NEW j \in 1 .. (n + 1) PROVE Genuine(feed[j])'
      BY <3>1
    <3>2. CASE j = n + 1
      BY <3>1, <3>2 DEF Genuine
    <3>3. CASE j \in 1 .. n
      <4>1. Genuine(feed[j]) /\ feed'[j] = feed[j]
        BY <3>1, <3>3 DEF MessageInv
      <4> QED  BY <4>1 DEF Genuine
    <3> QED  BY <3>1, <3>2, <3>3
  <2> QED  BY <2>1, <2>2
<1>6. \A r \in Runs : Got(r) \subseteq Got(r)'
  BY DEF Got
<1>7. backend = "sql" => \A r \in Runs : stored[r] \in Seq(Got(r)')
  BY <1>6, SeqMonotonic DEF MessageInv
<1>8. \A r \in Runs : \A j \in DOMAIN runs[r] : RowOf(runs[r][j], r)'
  <2> SUFFICES ASSUME NEW r \in Runs, NEW j \in DOMAIN runs[r] PROVE RowOf(runs[r][j], r)'
    OBVIOUS
  <2>1. RowOf(runs[r][j], r) /\ Got(r) \subseteq Got(r)'
    BY <1>6 DEF MessageInv
  <2> QED  BY <2>1 DEF RowOf
<1> QED  BY <1>1, <1>2, <1>3, <1>4, <1>5, <1>7, <1>8 DEF MessageInv

(* The coroutine of a message goes on, or ends. *)
LEMMA KeepsMessages ==
    ASSUME ChannelInv, MessageInv, HistoryTypeOK', UNCHANGED <<channelVars, copied, backend>>,
           \A j \in DOMAIN feed' : Genuine(feed'[j]),
           \A i \in Ingests : task'[i] # None =>
              /\ Genuine(task'[i].msg) /\ task'[i].msg.run \in Runs
              /\ backend = "memory" => task'[i].at = "select",
           backend = "sql" => \A r \in Runs : stored'[r] \in Seq(Got(r)),
           \A r \in Runs : \A j \in DOMAIN runs'[r] : RowOf(runs'[r][j], r)
    PROVE  MessageInv'
<1>1. UNCHANGED <<recorded, seen>>
  BY DEF channelVars
<1>2. \A m : Genuine(m)' = Genuine(m)
  BY <1>1 DEF Genuine
<1>3. \A r : Got(r)' = Got(r)
  BY <1>1 DEF Got
<1>4. \A r \in Runs : \A j \in DOMAIN runs'[r] : RowOf(runs[r][j], r)'
  BY <1>1, <1>3 DEF RowOf
<1>5. \A j \in DOMAIN feed' : Genuine(feed[j])'
  BY <1>1 DEF Genuine
<1>6. \A i \in Ingests : task'[i] # None =>
          /\ Genuine(task[i].msg)' /\ task'[i].msg.run \in Runs
          /\ backend = "memory" => task'[i].at = "select"
  BY <1>1 DEF Genuine
<1> QED  BY <1>1, <1>3, <1>4, <1>5, <1>6 DEF MessageInv

(* What is left alone by the steps that end or lose a message. *)
LEMMA TakesOne ==
    ASSUME ChannelInv, MessageInv, NEW i \in Ingests, Accepts(i), UNCHANGED <<channelVars, copied>>
    PROVE  /\ MessageInv' /\ UNCHANGED <<channelVars, copied, backend, consumer, runs, stored, lost, upsets>>
           /\ task[i] = None /\ task'[i] # None /\ task'[i].msg = feed[1] /\ task'[i].at = "select"
           /\ \A k \in Ingests : k # i => task'[k] = task[k]
           /\ feed # <<>> /\ feed' = Tail(feed) /\ feed[1].run \in Runs
           /\ crossed' = IF UnderWay(feed[1].run) THEN crossed \cup {feed[1].run} ELSE crossed
<1>1. /\ UNCHANGED <<channelVars, copied, backend, consumer, runs, stored, lost, upsets>>
      /\ HistoryTypeOK /\ task[i] = None /\ feed # <<>> /\ feed' = Tail(feed) /\ Head(feed).run # None
      /\ task' = [task EXCEPT ![i] = [msg |-> Head(feed), at |-> "select"]]
      /\ crossed' = IF UnderWay(Head(feed).run) THEN crossed \cup {Head(feed).run} ELSE crossed
  BY DEF Accepts, MessageInv
<1>2. Head(feed) = feed[1] /\ 1 \in DOMAIN feed /\ feed' \in Seq(Messages)
      /\ \A j \in DOMAIN feed' : j + 1 \in DOMAIN feed /\ feed'[j] = feed[j + 1]
  BY <1>1, FeedMoves
<1>3. feed[1] \in Messages /\ feed[1].run \in Runs
  <2>1. feed[1] \in Messages
    BY <1>1, <1>2, Typed, ElementOfSeq
  <2> QED  BY <1>1, <1>2, <2>1, Typed DEF RunOrNone
<1>4. /\ task' \in [Ingests -> Ingest \cup {None}]
      /\ task'[i] # None /\ task'[i].msg = feed[1] /\ task'[i].at = "select"
      /\ \A k \in Ingests : k # i => task'[k] = task[k]
  <2> DEFINE m == Head(feed)
  <2>1. m \in Messages /\ m = feed[1]
    BY <1>2, <1>3
  <2>2. task' = [task EXCEPT ![i] = [msg |-> m, at |-> "select"]]
    BY <1>1
  <2> HIDE DEF m
  <2> QED  BY <1>1, <2>1, <2>2, Begun
<1>5. HistoryTypeOK'
  <2>1. crossed' \subseteq Runs
    BY <1>1, <1>2, <1>3 DEF HistoryTypeOK
  <2> QED  BY <1>1, <1>2, <1>4, <2>1 DEF HistoryTypeOK
<1>6. MessageInv'
  <2>1. \A j \in DOMAIN feed' : Genuine(feed'[j])
    BY <1>2 DEF MessageInv
  <2>2. \A k \in Ingests : task'[k] # None =>
              /\ Genuine(task'[k].msg) /\ task'[k].msg.run \in Runs
              /\ backend = "memory" => task'[k].at = "select"
    BY <1>2, <1>3, <1>4 DEF MessageInv
  <2>3. /\ backend = "sql" => \A r \in Runs : stored'[r] \in Seq(Got(r))
        /\ \A r \in Runs : \A j \in DOMAIN runs'[r] : RowOf(runs'[r][j], r)
    BY <1>1 DEF MessageInv
  <2> QED  BY <1>1, <1>5, <2>1, <2>2, <2>3, KeepsMessages
<1> QED  BY <1>1, <1>2, <1>3, <1>4, <1>6

LEMMA Statement ==
    ASSUME ChannelInv, MessageInv, NEW i \in Ingests, Select(i) \/ Insert(i) \/ Update(i), UNCHANGED <<channelVars, copied>>
    PROVE  LET m == task[i].msg IN
           /\ MessageInv' /\ UNCHANGED <<channelVars, copied, backend, consumer, feed, stored, lost, crossed, upsets>>
           /\ backend = "sql" /\ task[i] # None /\ m.run \in Runs /\ m \in Messages
           /\ task'[i] # None /\ task'[i].msg = m /\ \A k \in Ingests : k # i => task'[k] = task[k]
           /\ \/ /\ task[i].at = "select" /\ task'[i].at = (IF runs[m.run] = <<>> THEN "insert" ELSE "update")
                 /\ runs' = runs
              \/ /\ task[i].at = "insert" /\ task'[i].at = "event"
                 /\ runs' = [runs EXCEPT ![m.run] = Append(runs[m.run], NewRow(m))]
              \/ /\ task[i].at = "update" /\ task'[i].at = "event"
                 /\ runs' = [runs EXCEPT ![m.run] = Restated(runs[m.run], m)]
<1> DEFINE m == task[i].msg
           r == m.run
<1>1. /\ UNCHANGED <<channelVars, copied, backend, consumer, feed, stored, lost, crossed, upsets>>
      /\ HistoryTypeOK /\ backend = "sql" /\ task[i] # None
  BY DEF Select, Insert, Update, At, MessageInv
<1>2. m \in Messages /\ r \in Runs /\ Genuine(m) /\ m.ev \in Got(r)
  BY <1>1, Typed DEF MessageInv, Genuine, Got
<1>3. \E a \in {"select", "insert", "update", "event"} :
         /\ task' = [task EXCEPT ![i].at = a]
         /\ \/ /\ task[i].at = "select" /\ a = (IF runs[r] = <<>> THEN "insert" ELSE "update")
               /\ runs' = runs
            \/ /\ task[i].at = "insert" /\ a = "event"
               /\ runs' = [runs EXCEPT ![r] = Append(runs[r], NewRow(m))]
            \/ /\ task[i].at = "update" /\ a = "event"
               /\ runs' = [runs EXCEPT ![r] = Restated(runs[r], m)]
  BY DEF Select, Insert, Update, At
<1> PICK a \in {"select", "insert", "update", "event"} :
         /\ task' = [task EXCEPT ![i].at = a]
         /\ \/ /\ task[i].at = "select" /\ a = (IF runs[r] = <<>> THEN "insert" ELSE "update")
               /\ runs' = runs
            \/ /\ task[i].at = "insert" /\ a = "event"
               /\ runs' = [runs EXCEPT ![r] = Append(runs[r], NewRow(m))]
            \/ /\ task[i].at = "update" /\ a = "event"
               /\ runs' = [runs EXCEPT ![r] = Restated(runs[r], m)]
  BY <1>3
<1>4. /\ task' \in [Ingests -> Ingest \cup {None}]
      /\ task'[i] # None /\ task'[i].msg = m /\ task'[i].at = a
      /\ \A k \in Ingests : k # i => task'[k] = task[k]
  BY <1>1, GoesTo
<1>5. \A s \in Seq(Row) : (\A j \in DOMAIN s : RowOf(s[j], r)) /\ runs' = [runs EXCEPT ![r] = s] =>
         runs' \in [Runs -> Seq(Row)] /\ \A q \in Runs : \A j \in DOMAIN runs'[q] : RowOf(runs'[q][j], q)
  BY <1>1, <1>2, Typed DEF MessageInv
<1>6. /\ runs' \in [Runs -> Seq(Row)]
      /\ \A q \in Runs : \A j \in DOMAIN runs'[q] : RowOf(runs'[q][j], q)
  <2> DEFINE rows == runs[r]
  <2>1. rows \in Seq(Row) /\ \A j \in DOMAIN rows : RowOf(rows[j], r)
    BY <1>1, <1>2, Typed DEF MessageInv
  <2>2. CASE runs' = runs
    BY <1>1, <2>2, Typed DEF MessageInv
  <2>3. CASE runs' = [runs EXCEPT ![r] = Append(rows, NewRow(m))]
    <3> DEFINE x == NewRow(m)
               s == Append(rows, x)
    <3>1. x \in Row /\ RowOf(x, r)
      <4>1. x \in Row /\ x.started = m.time /\ x.status = IF StatusOf(m.type) = None THEN "unknown" ELSE StatusOf(m.type)
        BY <1>2, RowMade
      <4> HIDE DEF x, r
      <4>2. x.status # "unknown" => StatusOf(recorded[m.ev].type) # None
        BY <1>2, <4>1 DEF Genuine
      <4> QED  BY <1>2, <4>1, <4>2 DEF RowOf, Genuine
    <3> HIDE DEF x
    <3>2. Len(rows) \in Nat /\ DOMAIN rows = 1 .. Len(rows)
      BY <2>1, LenProperties
    <3>3. s \in Seq(Row) /\ DOMAIN s = 1 .. (Len(rows) + 1) /\ s[Len(rows) + 1] = x /\ \A j \in DOMAIN rows : s[j] = rows[j]
      <4> HIDE DEF rows
      <4>1. /\ s \in Seq(Row) /\ Len(s) = Len(rows) + 1
            /\ s[Len(rows) + 1] = x /\ \A j \in 1 .. Len(rows) : s[j] = rows[j]
        BY <2>1, <3>1, AppendProperties
      <4>2. DOMAIN s = 1 .. (Len(rows) + 1)
        BY <4>1, LenProperties
      <4> QED  BY <3>2, <4>1, <4>2
    <3>4. \A j \in DOMAIN s : RowOf(s[j], r)
      <4> SUFFICES ASSUME NEW j \in 1 .. (Len(rows) + 1) PROVE RowOf(s[j], r)
        BY <3>3
      <4>1. CASE j = Len(rows) + 1
        BY <3>1, <3>3, <4>1
      <4>2. CASE j \in 1 .. Len(rows)
        BY <2>1, <3>2, <3>3, <4>2
      <4> HIDE DEF rows, s
      <4> QED  BY <3>2, <4>1, <4>2
    <3>5. runs' = [runs EXCEPT ![r] = s]
      BY <2>3 DEF x
    <3> HIDE DEF s
    <3> QED  BY <1>5, <3>3, <3>4, <3>5
  <2>4. CASE runs' = [runs EXCEPT ![r] = Restated(rows, m)]
    <3> DEFINE s == Restated(rows, m)
    <3>1. s \in Seq(Row) /\ DOMAIN s = DOMAIN rows
          /\ \A j \in DOMAIN rows : s[j].started = rows[j].started
                /\ s[j].status = IF StatusOf(m.type) = None THEN rows[j].status ELSE StatusOf(m.type)
      BY <1>2, <2>1, RowsRestated
    <3>2. runs' = [runs EXCEPT ![r] = s]
      BY <2>4
    <3> HIDE DEF s
    <3>3. \A j \in DOMAIN s : RowOf(s[j], r)
      <4> SUFFICES ASSUME NEW j \in DOMAIN rows PROVE RowOf(s[j], r)
        BY <3>1
      <4>1. RowOf(rows[j], r)
        BY <2>1
      <4> HIDE DEF rows, r
      <4> QED  BY <1>2, <3>1, <4>1 DEF RowOf, Genuine
    <3> QED  BY <1>5, <3>1, <3>2, <3>3
  <2> QED  BY <2>2, <2>3, <2>4
<1>7. HistoryTypeOK'
  BY <1>1, <1>4, <1>6 DEF HistoryTypeOK
<1>8. MessageInv'
  <2>1. \A j \in DOMAIN feed' : Genuine(feed'[j])
    BY <1>1 DEF MessageInv
  <2>2. \A k \in Ingests : task'[k] # None =>
              /\ Genuine(task'[k].msg) /\ task'[k].msg.run \in Runs
              /\ backend = "memory" => task'[k].at = "select"
    BY <1>1, <1>2, <1>4 DEF MessageInv
  <2>3. backend = "sql" => \A q \in Runs : stored'[q] \in Seq(Got(q))
    BY <1>1 DEF MessageInv
  <2> QED  BY <1>1, <1>6, <1>7, <2>1, <2>2, <2>3, KeepsMessages
<1> QED  BY <1>1, <1>2, <1>4, <1>8

LEMMA Stores ==
    ASSUME ChannelInv, MessageInv, NEW i \in Ingests, StoreEvent(i), UNCHANGED <<channelVars, copied>>
    PROVE  LET m == task[i].msg IN
           /\ MessageInv' /\ UNCHANGED <<channelVars, copied, backend, consumer, feed, runs, lost, crossed, upsets>>
           /\ backend = "sql" /\ task[i] # None /\ task[i].at = "event" /\ m.run \in Runs /\ m.ev \in Got(m.run)
           /\ task'[i] = None /\ \A k \in Ingests : k # i => task'[k] = task[k]
           /\ stored' = [stored EXCEPT ![m.run] = Append(stored[m.run], m.ev)]
<1> DEFINE m == task[i].msg
           r == m.run
           s == Append(stored[r], m.ev)
<1>1. /\ UNCHANGED <<channelVars, copied, backend, consumer, feed, runs, lost, crossed, upsets>>
      /\ HistoryTypeOK /\ backend = "sql" /\ task[i] # None /\ task[i].at = "event"
      /\ task' = [task EXCEPT ![i] = None] /\ stored' = [stored EXCEPT ![r] = s]
  BY DEF StoreEvent, At, MessageInv
<1>2. m \in Messages /\ r \in Runs /\ m.ev \in Got(r) /\ m.ev \in Events
  BY <1>1, Typed DEF MessageInv, Genuine, Got
<1>3. /\ task' \in [Ingests -> Ingest \cup {None}]
      /\ task'[i] = None /\ \A k \in Ingests : k # i => task'[k] = task[k]
  BY <1>1, Ended
<1>4. s \in Seq(Events) /\ s \in Seq(Got(r))
  BY <1>1, <1>2, Typed, AppendProperties DEF MessageInv
<1> HIDE DEF s, r
<1>5. stored' \in [Runs -> Seq(Events)] /\ \A q \in Runs : stored'[q] \in Seq(Got(q))
  BY <1>1, <1>2, <1>4, Typed DEF MessageInv
<1>6. HistoryTypeOK'
  BY <1>1, <1>3, <1>5 DEF HistoryTypeOK
<1>7. MessageInv'
  <2>1. \A j \in DOMAIN feed' : Genuine(feed'[j])
    BY <1>1 DEF MessageInv
  <2>2. \A k \in Ingests : task'[k] # None =>
              /\ Genuine(task'[k].msg) /\ task'[k].msg.run \in Runs
              /\ backend = "memory" => task'[k].at = "select"
    BY <1>3 DEF MessageInv
  <2>3. \A q \in Runs : \A j \in DOMAIN runs'[q] : RowOf(runs'[q][j], q)
    BY <1>1 DEF MessageInv
  <2> QED  BY <1>1, <1>5, <1>6, <2>1, <2>2, <2>3, KeepsMessages
<1> QED  BY <1>1, <1>2, <1>3, <1>7 DEF s, r

LEMMA Fails ==
    ASSUME ChannelInv, MessageInv, NEW i \in Ingests, StatementFails(i), UNCHANGED <<channelVars, copied>>
    PROVE  /\ MessageInv' /\ UNCHANGED <<channelVars, copied, backend, consumer, feed, runs, stored, crossed>>
           /\ backend = "sql" /\ task[i] # None /\ task[i].msg.run \in Runs
           /\ task'[i] = None /\ \A k \in Ingests : k # i => task'[k] = task[k]
           /\ lost' = lost \cup {task[i].msg.run}
<1>1. /\ UNCHANGED <<channelVars, copied, backend, consumer, feed, runs, stored, crossed>>
      /\ HistoryTypeOK /\ backend = "sql" /\ task[i] # None /\ task[i].msg.run \in Runs
      /\ task' = [task EXCEPT ![i] = None] /\ lost' = lost \cup {task[i].msg.run}
      /\ upsets < MaxUpsets /\ upsets' = upsets + 1
  BY DEF StatementFails, Upset, MessageInv
<1>2. /\ task' \in [Ingests -> Ingest \cup {None}]
      /\ task'[i] = None /\ \A k \in Ingests : k # i => task'[k] = task[k]
  BY <1>1, Ended
<1>3. HistoryTypeOK'
  <2>1. upsets' \in 0 .. MaxUpsets
    BY <1>1, PipelineAssumption DEF HistoryTypeOK
  <2> QED  BY <1>1, <1>2, <2>1 DEF HistoryTypeOK
<1>4. \A k \in Ingests : task'[k] # None =>
              /\ Genuine(task'[k].msg) /\ task'[k].msg.run \in Runs
              /\ backend = "memory" => task'[k].at = "select"
  BY <1>2 DEF MessageInv
<1>5. MessageInv'
  <2>1. /\ \A j \in DOMAIN feed' : Genuine(feed'[j])
        /\ backend = "sql" => \A q \in Runs : stored'[q] \in Seq(Got(q))
        /\ \A q \in Runs : \A j \in DOMAIN runs'[q] : RowOf(runs'[q][j], q)
    BY <1>1 DEF MessageInv
  <2> QED  BY <1>1, <1>3, <1>4, <2>1, KeepsMessages
<1> QED  BY <1>1, <1>2, <1>5

LEMMA Remembers ==
    ASSUME ChannelInv, MessageInv, NEW i \in Ingests, Remember(i), UNCHANGED <<channelVars, copied>>
    PROVE  LET m == task[i].msg
               new == IF runs[m.run] # <<>> THEN Restated(runs[m.run], m) ELSE <<NewRow(m)>>
               table == [runs EXCEPT ![m.run] = new]
           IN  /\ MessageInv' /\ UNCHANGED <<channelVars, copied, backend, consumer, feed, crossed, upsets>>
               /\ backend = "memory" /\ task[i] # None /\ m \in Messages /\ m.run \in Runs
               /\ task'[i] = None /\ \A k \in Ingests : k # i => task'[k] = task[k]
               /\ \E out \in SUBSET Runs :
                  /\ table \in [Runs -> Seq(Row)] /\ new \in Seq(Row) /\ new # <<>>
                  /\ out \in IF runs[m.run] # <<>> THEN {{}} ELSE PushedOut(table)
                  /\ \A r \in Runs : runs'[r] = IF r \in out THEN <<>> ELSE IF r = m.run THEN new ELSE runs[r]
                  /\ lost' = lost \cup out
<1> DEFINE m == task[i].msg
           rows == runs[m.run]
           new == IF rows # <<>> THEN Restated(rows, m) ELSE <<NewRow(m)>>
           table == [runs EXCEPT ![m.run] = new]
<1>1. /\ UNCHANGED <<channelVars, copied, backend, consumer, feed, crossed, upsets>>
      /\ HistoryTypeOK /\ backend = "memory" /\ task[i] # None /\ m.run \in Runs
      /\ task' = [task EXCEPT ![i] = None]
  BY DEF Remember, MessageInv
<1>2. m \in Messages /\ Genuine(m) /\ m.ev \in Got(m.run) /\ rows \in Seq(Row) /\ \A j \in DOMAIN rows : RowOf(rows[j], m.run)
  BY <1>1, Typed DEF MessageInv, Genuine, Got
<1>3. PICK out \in SUBSET Runs :
                  /\ table \in [Runs -> Seq(Row)] /\ new \in Seq(Row) /\ new # <<>>
                  /\ out \in IF runs[m.run] # <<>> THEN {{}} ELSE PushedOut(table)
                  /\ \A r \in Runs : runs'[r] = IF r \in out THEN <<>> ELSE IF r = m.run THEN new ELSE runs[r]
                  /\ runs' \in [Runs -> Seq(Row)] /\ stored' \in [Runs -> Seq(Events)]
                  /\ lost' = lost \cup out
  BY <1>1, Remembered
<1>4. \A j \in DOMAIN new : RowOf(new[j], m.run)
  <2>1. CASE rows # <<>>
    <3> DEFINE s == Restated(rows, m)
    <3>1. s \in Seq(Row) /\ DOMAIN s = DOMAIN rows
          /\ \A j \in DOMAIN rows : s[j].started = rows[j].started
                /\ s[j].status = IF StatusOf(m.type) = None THEN rows[j].status ELSE StatusOf(m.type)
      BY <1>2, RowsRestated
    <3>2. new = s
      BY <2>1
    <3> HIDE DEF s, new
    <3> SUFFICES ASSUME NEW j \in DOMAIN rows PROVE RowOf(s[j], m.run)
      BY <3>1, <3>2
    <3>3. RowOf(rows[j], m.run)
      BY <1>2
    <3> HIDE DEF rows
    <3> QED  BY <1>2, <3>1, <3>3 DEF RowOf, Genuine
  <2>2. CASE rows = <<>>
    <3> DEFINE x == NewRow(m)
    <3>1. x \in Row /\ x.started = m.time /\ x.status = IF StatusOf(m.type) = None THEN "unknown" ELSE StatusOf(m.type)
      BY <1>2, RowMade
    <3>2. new = <<x>>
      BY <2>2
    <3> HIDE DEF x, new
    <3>3. DOMAIN <<x>> = {1} /\ <<x>>[1] = x
      OBVIOUS
    <3>4. x.status # "unknown" => StatusOf(recorded[m.ev].type) # None
      BY <1>2, <3>1 DEF Genuine
    <3>5. RowOf(x, m.run)
      BY <1>2, <3>1, <3>4 DEF RowOf, Genuine
    <3> QED  BY <3>2, <3>3, <3>5
  <2> QED  BY <2>1, <2>2
<1>5. /\ task' \in [Ingests -> Ingest \cup {None}]
      /\ task'[i] = None /\ \A k \in Ingests : k # i => task'[k] = task[k]
  BY <1>1, Ended
<1>6. HistoryTypeOK'
  BY <1>1, <1>3, <1>5 DEF HistoryTypeOK
<1>7. MessageInv'
  <2> HIDE DEF new, table
  <2>1. \A r \in Runs : \A j \in DOMAIN runs'[r] : RowOf(runs'[r][j], r)
    <3> SUFFICES ASSUME NEW r \in Runs, NEW j \in DOMAIN runs'[r] PROVE RowOf(runs'[r][j], r)
      OBVIOUS
    <3>1. DOMAIN <<>> = {}
      OBVIOUS
    <3>2. \A k \in DOMAIN runs[r] : RowOf(runs[r][k], r)
      BY DEF MessageInv
    <3> QED  BY <1>3, <1>4, <3>1, <3>2
  <2>2. \A k \in Ingests : task'[k] # None =>
              /\ Genuine(task'[k].msg) /\ task'[k].msg.run \in Runs
              /\ backend = "memory" => task'[k].at = "select"
    BY <1>5 DEF MessageInv
  <2>3. /\ \A j \in DOMAIN feed' : Genuine(feed'[j])
        /\ backend = "sql" => \A q \in Runs : stored'[q] \in Seq(Got(q))
    BY <1>1 DEF MessageInv
  <2> QED  BY <1>1, <1>6, <2>1, <2>2, <2>3, KeepsMessages
<1> QED  BY <1>1, <1>2, <1>3, <1>5, <1>7

(* Messages refused, or lost with the connection; the connection comes back. *)
LEMMA FeedOnly ==
    ASSUME ChannelInv, MessageInv, Refuses \/ GoesOffline \/ Subscribes \/ StopConsumer, UNCHANGED <<channelVars, copied>>
    PROVE  /\ MessageInv' /\ UNCHANGED <<channelVars, copied, backend, task, runs, stored, crossed>>
           /\ \/ /\ feed # <<>> /\ feed' = Tail(feed) /\ feed[1].run = None
                 /\ UNCHANGED <<consumer, lost, upsets>>
              \/ /\ feed' = <<>> /\ lost' = lost \cup RunsIn(feed)
                 /\ consumer' # "online"
              \/ /\ UNCHANGED <<feed, lost, upsets>>
                 /\ consumer = "offline" /\ consumer' = "online"
           /\ upsets' = upsets \/ (upsets' = upsets + 1 /\ consumer' = "offline")
<1>1. UNCHANGED <<channelVars, copied, backend, task, runs, stored, crossed>> /\ HistoryTypeOK
  BY DEF Refuses, GoesOffline, Subscribes, StopConsumer, MessageInv
<1>2. \/ /\ feed # <<>> /\ feed' = Tail(feed) /\ feed[1].run = None
         /\ UNCHANGED <<consumer, lost, upsets>>
      \/ /\ feed' = <<>> /\ lost' = lost \cup RunsIn(feed)
         /\ consumer' # "online"
      \/ /\ UNCHANGED <<feed, lost, upsets>>
         /\ consumer = "offline" /\ consumer' = "online"
  <2>1. feed # <<>> /\ feed' = Tail(feed) => Head(feed) = feed[1]
    BY <1>1, FeedMoves
  <2> QED  BY <2>1 DEF Refuses, GoesOffline, Subscribes, StopConsumer
<1>3. upsets' = upsets \/ (upsets' = upsets + 1 /\ consumer' = "offline" /\ upsets < MaxUpsets)
  BY DEF Refuses, GoesOffline, Subscribes, StopConsumer, Upset
<1>4. feed' \in Seq(Messages) /\ \A j \in DOMAIN feed' : Genuine(feed'[j])
  <2>1. CASE feed # <<>> /\ feed' = Tail(feed)
    BY <1>1, <2>1, FeedMoves DEF MessageInv
  <2>2. CASE feed' = <<>>
    BY <2>2, EmptyElems
  <2>3. CASE feed' = feed
    BY <1>1, <2>3, Typed DEF MessageInv
  <2> QED  BY <1>2, <2>1, <2>2, <2>3
<1>5. lost' \subseteq Runs
  <2>1. RunsIn(feed) \subseteq Runs
    BY <1>1, Typed DEF RunsIn, RunOrNone
  <2> QED  BY <1>1, <1>2, <2>1, Typed
<1>6. HistoryTypeOK'
  <2>1. upsets' \in 0 .. MaxUpsets
    BY <1>1, <1>3, PipelineAssumption DEF HistoryTypeOK
  <2>2. consumer' \in {"online", "offline", "stopped"}
    BY <1>1 DEF HistoryTypeOK, Refuses, GoesOffline, Subscribes, StopConsumer
  <2> QED  BY <1>1, <1>4, <1>5, <2>1, <2>2 DEF HistoryTypeOK
<1>7. MessageInv'
  <2>1. /\ \A i \in Ingests : task'[i] # None =>
              /\ Genuine(task'[i].msg) /\ task'[i].msg.run \in Runs
              /\ backend = "memory" => task'[i].at = "select"
        /\ backend = "sql" => \A q \in Runs : stored'[q] \in Seq(Got(q))
        /\ \A q \in Runs : \A j \in DOMAIN runs'[q] : RowOf(runs'[q][j], q)
    BY <1>1 DEF MessageInv
  <2> QED  BY <1>1, <1>4, <1>6, <2>1, KeepsMessages
<1> QED  BY <1>1, <1>2, <1>3, <1>7

(* A step of the pipeline. *)
LEMMA StepIs ==
    ASSUME [Next]_vars
    PROVE  \/ Offer /\ UNCHANGED <<centralVars, copied>>
           \/ Broker
           \/ /\ UNCHANGED <<channelVars, copied>>
              /\ \/ \E i \in Ingests : Accepts(i)
                 \/ \E i \in Ingests : Select(i) \/ Insert(i) \/ Update(i)
                 \/ \E i \in Ingests : StoreEvent(i)
                 \/ \E i \in Ingests : StatementFails(i)
                 \/ \E i \in Ingests : Remember(i)
                 \/ Refuses \/ GoesOffline \/ Subscribes \/ StopConsumer
           \/ UNCHANGED vars
BY DEF Next, CentralNext, Ingesting

LEMMA StutterMessages == ASSUME ChannelInv, MessageInv, UNCHANGED vars PROVE ChannelInv' /\ MessageInv'
<1>1. UNCHANGED <<recorded, log, accepted, seen, backend, consumer, feed, task, runs, stored, lost, crossed, upsets, copied>>
  BY DEF vars, channelVars, centralVars
<1>2. ChannelInv'
  BY <1>1 DEF ChannelInv, ChannelTypeOK, LogTypeOK, LogTells
<1>3. HistoryTypeOK'
  BY <1>1 DEF MessageInv, HistoryTypeOK
<1>4. MessageInv'
  BY <1>1, <1>3 DEF MessageInv, Genuine, Got, RowOf
<1> QED  BY <1>2, <1>4

LEMMA MessageStep == ASSUME ChannelInv, MessageInv, [Next]_vars PROVE ChannelInv' /\ MessageInv'
<1>1. CASE Offer /\ UNCHANGED <<centralVars, copied>>
  BY <1>1, OfferChannel, OfferMessages
<1>2. CASE Broker
  BY <1>2, BrokerDoes, BrokerMessages
<1>3. ASSUME UNCHANGED <<channelVars, copied>>,
             \/ \E i \in Ingests : \/ Accepts(i) \/ Select(i) \/ Insert(i) \/ Update(i)
                                   \/ StoreEvent(i) \/ StatementFails(i) \/ Remember(i)
             \/ Refuses \/ GoesOffline \/ Subscribes \/ StopConsumer
      PROVE  ChannelInv' /\ MessageInv'
  <2>1. ChannelInv'
    BY <1>3 DEF ChannelInv, ChannelTypeOK, LogTypeOK, LogTells, channelVars
  <2> QED  BY <1>3, <2>1, TakesOne, Statement, Stores, Fails, Remembers, FeedOnly
<1>4. CASE UNCHANGED vars
  BY <1>4, StutterMessages
<1> QED  BY <1>1, <1>2, <1>3, <1>4, StepIs

-----------------------------------------------------------------------------
(* The pipeline: one row a run. *)

(* The ingests of a run that were never two at once: one at a time, and one  *)
(* that is about to insert the run's row finds none.                         *)
RowInv ==
    /\ \A r \in Runs \ crossed :
          /\ Len(runs[r]) <= 1
          /\ \A i, j \in Ingests : Serving(i, r) /\ Serving(j, r) => i = j
          /\ \A i \in Ingests : Serving(i, r) /\ task[i].at = "insert" => runs[r] = <<>>
    /\ backend = "memory" => \A r \in Runs : Len(runs[r]) <= 1

LEMMA RowStep == ASSUME ChannelInv, MessageInv, RowInv, [Next]_vars PROVE RowInv'
<1>1. ASSUME UNCHANGED <<backend, task, runs, crossed>> PROVE RowInv'
  BY <1>1 DEF RowInv, Serving
<1>2. CASE Offer /\ UNCHANGED <<centralVars, copied>>
  BY <1>1, <1>2 DEF centralVars
<1>3. CASE Broker
  BY <1>1, <1>3, BrokerDoes
<1>4. CASE UNCHANGED vars
  BY <1>1, <1>4 DEF vars, centralVars
<1>5. CASE UNCHANGED <<channelVars, copied>> /\ (Refuses \/ GoesOffline \/ Subscribes \/ StopConsumer)
  BY <1>1, <1>5, FeedOnly
<1>6. ASSUME NEW i \in Ingests, Accepts(i), UNCHANGED <<channelVars, copied>> PROVE RowInv'
  <2>1. /\ UNCHANGED <<backend, runs>>
        /\ task[i] = None /\ task'[i] # None /\ task'[i].msg = feed[1] /\ task'[i].at = "select"
        /\ \A k \in Ingests : k # i => task'[k] = task[k]
        /\ crossed' = IF UnderWay(feed[1].run) THEN crossed \cup {feed[1].run} ELSE crossed
    BY <1>6, TakesOne
  <2> QED  BY <2>1 DEF RowInv, Serving, UnderWay
<1>7. ASSUME NEW i \in Ingests, StoreEvent(i) \/ StatementFails(i), UNCHANGED <<channelVars, copied>> PROVE RowInv'
  <2>1. UNCHANGED <<backend, runs, crossed>> /\ task'[i] = None /\ \A k \in Ingests : k # i => task'[k] = task[k]
    BY <1>7, Stores, Fails
  <2> QED  BY <2>1 DEF RowInv, Serving
<1>8. ASSUME NEW i \in Ingests, Select(i) \/ Insert(i) \/ Update(i), UNCHANGED <<channelVars, copied>> PROVE RowInv'
  <2> DEFINE m == task[i].msg
             rows == runs[m.run]
  <2>1. /\ UNCHANGED crossed /\ backend' = "sql" /\ task[i] # None /\ m.run \in Runs /\ m \in Messages
        /\ task'[i] # None /\ task'[i].msg = m /\ \A k \in Ingests : k # i => task'[k] = task[k]
        /\ \/ /\ task[i].at = "select" /\ task'[i].at = (IF rows = <<>> THEN "insert" ELSE "update")
              /\ runs' = runs
           \/ /\ task[i].at = "insert" /\ task'[i].at = "event"
              /\ runs' = [runs EXCEPT ![m.run] = Append(rows, NewRow(m))]
           \/ /\ task[i].at = "update" /\ task'[i].at = "event"
              /\ runs' = [runs EXCEPT ![m.run] = Restated(rows, m)]
    BY <1>8, Statement
  <2>2. /\ runs \in [Runs -> Seq(Row)] /\ rows \in Seq(Row)
        /\ Len(Restated(rows, m)) = Len(rows) /\ Len(Append(rows, NewRow(m))) = Len(rows) + 1 /\ Len(rows) \in Nat
        /\ rows = <<>> => Len(rows) = 0
    <3>1. runs \in [Runs -> Seq(Row)] /\ rows \in Seq(Row)
      BY <2>1, Typed DEF MessageInv
    <3> DEFINE x == NewRow(m)
    <3>2. Len(Restated(rows, m)) = Len(rows) /\ x \in Row
      BY <2>1, <3>1, RowsRestated, RowMade
    <3> HIDE DEF x, rows
    <3>3. Len(Append(rows, x)) = Len(rows) + 1 /\ Len(rows) \in Nat
      BY <3>1, <3>2, AppendProperties, LenProperties
    <3>4. rows = <<>> => Len(rows) = 0
      BY EmptyElems
    <3> QED  BY <3>1, <3>2, <3>3, <3>4 DEF x
  <2>3. \A r, j : Serving(j, r)' /\ j \in Ingests => Serving(j, r)
    BY <2>1 DEF Serving
  <2> HIDE DEF m
  <2>4. ASSUME NEW r \in Runs \ crossed
        PROVE  /\ Len(runs'[r]) <= 1
               /\ \A k \in Ingests : Serving(k, r)' /\ task'[k].at = "insert" => runs'[r] = <<>>
    <3>1. CASE r # m.run
      <4>1. runs'[r] = runs[r]
        BY <2>1, <2>2, <3>1
      <4>2. \A k \in Ingests : Serving(k, r)' => task'[k] = task[k] /\ Serving(k, r)
        BY <2>1, <2>3, <3>1 DEF Serving
      <4> QED  BY <4>1, <4>2 DEF RowInv
    <3>2. CASE r = m.run
      <4>1. Serving(i, r) /\ \A k \in Ingests : Serving(k, r)' => k = i
        BY <2>1, <2>3, <3>2 DEF RowInv, Serving, m
      <4>2. Len(rows) <= 1 /\ (task[i].at = "insert" => rows = <<>>)
        BY <3>2, <4>1 DEF RowInv
      <4>3. CASE runs' = runs
        BY <2>1, <2>2, <3>2, <4>1, <4>2, <4>3
      <4>4. CASE task[i].at = "insert" /\ task'[i].at = "event" /\ runs' = [runs EXCEPT ![m.run] = Append(rows, NewRow(m))]
        BY <2>1, <2>2, <3>2, <4>1, <4>2, <4>4
      <4>5. CASE task'[i].at = "event" /\ runs' = [runs EXCEPT ![m.run] = Restated(rows, m)]
        BY <2>1, <2>2, <3>2, <4>1, <4>2, <4>5
      <4> QED  BY <2>1, <4>3, <4>4, <4>5
    <3> QED  BY <3>1, <3>2
  <2>5. \A r \in Runs \ crossed : \A k, j \in Ingests : Serving(k, r)' /\ Serving(j, r)' => k = j
    BY <2>3 DEF RowInv
  <2> QED  BY <2>1, <2>4, <2>5 DEF RowInv
<1>9. ASSUME NEW i \in Ingests, Remember(i), UNCHANGED <<channelVars, copied>> PROVE RowInv'
  <2> DEFINE m == task[i].msg
             rows == runs[m.run]
             new == IF rows # <<>> THEN Restated(rows, m) ELSE <<NewRow(m)>>
             table == [runs EXCEPT ![m.run] = new]
  <2>1. /\ UNCHANGED crossed /\ backend = "memory" /\ backend' = "memory" /\ task[i] # None /\ m \in Messages /\ m.run \in Runs
        /\ task'[i] = None /\ \A k \in Ingests : k # i => task'[k] = task[k]
        /\ \E out \in SUBSET Runs :
              \A r \in Runs : runs'[r] = IF r \in out THEN <<>> ELSE IF r = m.run THEN new ELSE runs[r]
    BY <1>9, Remembers
  <2>2. Len(new) <= 1
    <3>1. rows \in Seq(Row) /\ Len(rows) <= 1
      BY <2>1, Typed DEF MessageInv, RowInv
    <3>2. Len(Restated(rows, m)) = Len(rows)
      BY <2>1, <3>1, RowsRestated
    <3>3. \A x : Len(<<x>>) = 1
      OBVIOUS
    <3> QED  BY <3>1, <3>2, <3>3
  <2> HIDE DEF new, m
  <2>3. \A r \in Runs : Len(runs'[r]) <= 1
    BY <2>1, <2>2, EmptyElems DEF RowInv
  <2>4. \A k \in Ingests : task'[k] # None => k # i /\ task'[k] = task[k] /\ task'[k].at = "select"
    BY <2>1 DEF MessageInv
  <2> QED  BY <2>1, <2>3, <2>4 DEF RowInv, Serving
<1> QED  BY <1>2, <1>3, <1>4, <1>5, <1>6, <1>7, <1>8, <1>9, StepIs

-----------------------------------------------------------------------------
(* The pipeline: no run is missed. *)

(* A run whose events were stored whole has its row before one of them       *)
(* restates it or is stored.                                                 *)
HeldInv ==
    \A r \in Runs \ lost, i \in Ingests :
        Serving(i, r) /\ task[i].at \in {"update", "event"} => runs[r] # <<>>

LEMMA GotGrows ==
    ASSUME NEW e, seen' = seen \cup {e}, recorded' = recorded
    PROVE  \A r : Got(r)' = IF r = recorded[e].run THEN Got(r) \cup {e} ELSE Got(r)
BY DEF Got

LEMMA HeldStep == ASSUME ChannelInv, MessageInv, HeldInv, [Next]_vars PROVE HeldInv'
<1>1. HistoryTypeOK
  BY DEF MessageInv
<1>2. ASSUME UNCHANGED <<task, runs>>, lost \subseteq lost' PROVE HeldInv'
  BY <1>2 DEF HeldInv, Serving
<1>3. CASE Offer /\ UNCHANGED <<centralVars, copied>>
  BY <1>2, <1>3 DEF centralVars
<1>4. CASE Broker
  <2>1. UNCHANGED <<task, runs>> /\ lost \subseteq lost'
    BY <1>4, BrokerDoes
  <2> QED  BY <1>2, <2>1
<1>5. CASE UNCHANGED vars
  BY <1>2, <1>5 DEF vars, centralVars
<1>6. CASE UNCHANGED <<channelVars, copied>> /\ (Refuses \/ GoesOffline \/ Subscribes \/ StopConsumer)
  <2>1. UNCHANGED <<task, runs>> /\ lost \subseteq lost'
    BY <1>6, FeedOnly
  <2> QED  BY <1>2, <2>1
<1>7. ASSUME NEW i \in Ingests, Accepts(i) \/ StoreEvent(i) \/ StatementFails(i), UNCHANGED <<channelVars, copied>>
      PROVE  HeldInv'
  <2>1. /\ runs' = runs /\ (task'[i] = None \/ task'[i].at = "select") /\ \A k \in Ingests : k # i => task'[k] = task[k]
        /\ lost \subseteq lost'
    BY <1>7, TakesOne, Stores, Fails
  <2>2. \A r, k : Serving(k, r)' /\ k \in Ingests /\ task'[k].at \in {"update", "event"} => Serving(k, r) /\ task'[k] = task[k]
    BY <2>1 DEF Serving
  <2> QED  BY <2>1, <2>2 DEF HeldInv
<1>8. ASSUME NEW i \in Ingests, Select(i) \/ Insert(i) \/ Update(i), UNCHANGED <<channelVars, copied>> PROVE HeldInv'
  <2> DEFINE m == task[i].msg
             rows == runs[m.run]
  <2>1. /\ UNCHANGED <<feed, lost>> /\ task[i] # None /\ m.run \in Runs /\ m \in Messages
        /\ task'[i] # None /\ task'[i].msg = m /\ \A k \in Ingests : k # i => task'[k] = task[k]
        /\ \/ /\ task[i].at = "select" /\ task'[i].at = (IF rows = <<>> THEN "insert" ELSE "update")
              /\ runs' = runs
           \/ /\ task[i].at = "insert" /\ task'[i].at = "event"
              /\ runs' = [runs EXCEPT ![m.run] = Append(rows, NewRow(m))]
           \/ /\ task[i].at = "update" /\ task'[i].at = "event"
              /\ runs' = [runs EXCEPT ![m.run] = Restated(rows, m)]
    BY <1>8, Statement
  <2>2. runs \in [Runs -> Seq(Row)] /\ rows \in Seq(Row) /\ Append(rows, NewRow(m)) # <<>>
    <3>1. NewRow(m) \in Row /\ runs \in [Runs -> Seq(Row)] /\ rows \in Seq(Row)
      BY <1>1, <2>1, Typed, RowMade
    <3> QED  BY <3>1, AppendProperties
  <2>3. rows # <<>> => Restated(rows, m) # <<>>
    <3>1. Len(Restated(rows, m)) = Len(rows) /\ Restated(rows, m) \in Seq(Row)
      BY <2>1, <2>2, RowsRestated
    <3>2. rows # <<>> => Len(rows) # 0
      BY <2>2, EmptySeq
    <3> QED  BY <3>1, <3>2, EmptyElems
  <2>4. \A r \in Runs : runs[r] # <<>> => runs'[r] # <<>>
    BY <2>1, <2>2, <2>3
  <2>5. ASSUME NEW r \in Runs \ lost, NEW k \in Ingests, Serving(k, r)', task'[k].at \in {"update", "event"}
        PROVE  runs'[r] # <<>>
    <3>1. CASE k # i
      <4>1. Serving(k, r) /\ task[k].at \in {"update", "event"}
        BY <2>1, <2>5, <3>1 DEF Serving
      <4> QED  BY <2>4, <2>5, <4>1 DEF HeldInv
    <3>2. CASE k = i
      <4>1. r = m.run /\ Serving(i, r)
        BY <2>1, <2>5, <3>2 DEF Serving
      <4>2. task[i].at = "update" => rows # <<>>
        BY <2>5, <4>1 DEF HeldInv
      <4>3. runs'[m.run] # <<>>
        BY <2>1, <2>2, <2>3, <2>5, <3>2, <4>1, <4>2
      <4> QED  BY <4>1, <4>3
    <3> QED  BY <3>1, <3>2
  <2> QED  BY <2>1, <2>5 DEF HeldInv
<1>9. ASSUME NEW i \in Ingests, Remember(i), UNCHANGED <<channelVars, copied>> PROVE HeldInv'
  <2>1. /\ UNCHANGED feed /\ backend = "memory" /\ task[i] # None
        /\ task'[i] = None /\ \A k \in Ingests : k # i => task'[k] = task[k]
    BY <1>9, Remembers
  <2>2. \A k \in Ingests : task'[k] # None => task'[k].at = "select"
    BY <2>1 DEF MessageInv
  <2> QED  BY <2>2 DEF HeldInv, Serving
<1> QED  BY <1>3, <1>4, <1>5, <1>6, <1>7, <1>8, <1>9, StepIs

(* An event is due until its run's row has taken it in. *)
Due(e) ==
    \/ \E j \in DOMAIN feed : feed[j].ev = e
    \/ \E i \in Ingests : task[i] # None /\ task[i].at # "event" /\ task[i].msg.ev = e

(* A run stored whole and ingest by ingest, without a copy. *)
Plain(r) == r \notin lost \cup crossed /\ \A j \in DOMAIN copied : recorded[copied[j]].run # r

(* A step that leaves the row of a run alone, and makes none of its events    *)
(* done; only a copy makes one due again.                                    *)
Rests(r) ==
    /\ runs'[r] = runs[r]
    /\ \A e \in seen : recorded'[e] = recorded[e]
    /\ \A e \in Got(r)' : ~Due(e)' => e \in Got(r) /\ ~Due(e)
    /\ Plain(r)' => \A e \in Got(r) : ~Due(e) => e \in Got(r)' /\ ~Due(e)'

(* A step that puts the event of ingest i in the row of its run. *)
Applies(i, r) ==
    /\ Serving(i, r) /\ task[i].at # "event" /\ task[i].msg \in Messages /\ Genuine(task[i].msg)
    /\ UNCHANGED <<recorded, seen, feed, crossed>>
    /\ task'[i] # None => task'[i].at = "event" /\ task'[i].msg = task[i].msg
    /\ \A k \in Ingests : k # i => task'[k] = task[k]
    /\ runs'[r] # <<>>
    /\ r \notin crossed => \/ runs[r] = <<>> /\ runs'[r] = <<NewRow(task[i].msg)>>
                           \/ runs[r] # <<>> /\ runs'[r] = Restated(runs[r], task[i].msg)

LEMMA DueApplied ==
    ASSUME NEW r, NEW i \in Ingests, Applies(i, r)
    PROVE  \A e : (Due(e)' => Due(e)) /\ (Due(e) => Due(e)' \/ e = task[i].msg.ev)
BY DEF Applies, Due, Serving

(* Messages that move along the feed, or off it. *)
LEMMA DueTail ==
    ASSUME HistoryTypeOK, feed # <<>>, feed' = Tail(feed)
    PROVE  \A e : (\E j \in DOMAIN feed : feed[j].ev = e) <=> e = feed[1].ev \/ \E j \in DOMAIN feed' : feed'[j].ev = e
<1>1. /\ \A j \in DOMAIN feed' : j + 1 \in DOMAIN feed /\ feed'[j] = feed[j + 1]
      /\ \A j \in DOMAIN feed : j # 1 => j - 1 \in DOMAIN feed' /\ feed'[j - 1] = feed[j]
      /\ 1 \in DOMAIN feed
  BY FeedMoves
<1> SUFFICES ASSUME NEW e
             PROVE  (\E j \in DOMAIN feed : feed[j].ev = e) <=> e = feed[1].ev \/ \E j \in DOMAIN feed' : feed'[j].ev = e
  OBVIOUS
<1>2. ASSUME NEW j \in DOMAIN feed, feed[j].ev = e PROVE e = feed[1].ev \/ \E k \in DOMAIN feed' : feed'[k].ev = e
  <2>1. CASE j = 1
    BY <1>2, <2>1
  <2>2. CASE j # 1
    <3>1. j - 1 \in DOMAIN feed' /\ feed'[j - 1].ev = e
      BY <1>1, <1>2, <2>2
    <3> QED  BY <3>1
  <2> QED  BY <2>1, <2>2
<1>3. ASSUME NEW j \in DOMAIN feed', feed'[j].ev = e PROVE \E k \in DOMAIN feed : feed[k].ev = e
  BY <1>1, <1>3
<1> QED  BY <1>1, <1>2, <1>3

LEMMA BrokerRests ==
    ASSUME ChannelInv, MessageInv, Broker, NEW r \in Runs \ lost'
    PROVE  Rests(r)
<1> PICK e \in accepted :
              /\ UNCHANGED <<recorded, task, runs>> /\ seen' = seen \cup {e}
              /\ copied \in Seq(seen) /\ copied' = IF e \in seen THEN Append(copied, e) ELSE copied
              /\ Content(e) \in Messages /\ Content(e).ev = e /\ Content(e).run = recorded[e].run
              /\ consumer = "online" => feed' = Append(feed, Content(e)) /\ lost' = lost
              /\ consumer # "online" => feed' = feed /\ lost' = lost \cup ({recorded[e].run} \ {None})
  BY BrokerDoes
<1>1. \A q : Got(q)' = IF q = recorded[e].run THEN Got(q) \cup {e} ELSE Got(q)
  BY GotGrows
<1>2. CASE consumer # "online"
  <2>1. r # recorded[e].run
    BY <1>2, Names
  <2>2. \A d : Due(d)' <=> Due(d)
    BY <1>2 DEF Due
  <2> QED  BY <1>1, <2>1, <2>2 DEF Rests
<1>3. CASE consumer = "online"
  <2> DEFINE n == Len(feed)
  <2>1. /\ n \in Nat /\ DOMAIN feed = 1 .. n /\ DOMAIN feed' = 1 .. (n + 1)
        /\ feed'[n + 1] = Content(e) /\ \A j \in DOMAIN feed : feed'[j] = feed[j]
    BY <1>3, FeedGrows DEF MessageInv
  <2> HIDE DEF n
  <2>2. n + 1 \in 1 .. (n + 1) /\ \A j \in 1 .. (n + 1) : j \in 1 .. n \/ j = n + 1
    BY <2>1
  <2>3. 1 .. n \subseteq 1 .. (n + 1)
    BY <2>1
  <2>4. \A d : Due(d)' <=> Due(d) \/ d = e
    BY <2>1, <2>2, <2>3 DEF Due
  <2>5. e \in seen => ~(Plain(r)' /\ e \in Got(r))
    <3> SUFFICES ASSUME e \in seen, e \in Got(r) PROVE ~Plain(r)'
      OBVIOUS
    <3>1. copied'[Len(copied) + 1] = e /\ Len(copied) + 1 \in DOMAIN copied'
      BY AppendProperties, LenProperties
    <3> QED  BY <3>1 DEF Plain, Got
  <2>6. \A d \in Got(r)' : d # e => d \in Got(r)
    BY <1>1
  <2>7. \A d \in Got(r) : d \in Got(r)' /\ (d = e => e \in seen)
    BY <1>1 DEF Got
  <2> QED  BY <2>4, <2>5, <2>6, <2>7 DEF Rests
<1> QED  BY <1>2, <1>3

LEMMA CentralMoves ==
    ASSUME ChannelInv, MessageInv, RowInv, HeldInv, NEW r \in Runs \ lost', UNCHANGED <<channelVars, copied>>,
           \/ \E i \in Ingests : \/ Accepts(i) \/ Select(i) \/ Insert(i) \/ Update(i)
                                 \/ StoreEvent(i) \/ StatementFails(i) \/ Remember(i)
           \/ Refuses \/ GoesOffline \/ Subscribes \/ StopConsumer
    PROVE  Rests(r) \/ \E i \in Ingests : Applies(i, r)
<1>1. HistoryTypeOK /\ UNCHANGED <<recorded, seen>>
  BY DEF MessageInv, channelVars
<1>2. Got(r)' = Got(r)
  BY <1>1 DEF Got
<1>3. ASSUME runs'[r] = runs[r], \A e \in Got(r) : Due(e)' <=> Due(e) PROVE Rests(r)
  BY <1>1, <1>2, <1>3 DEF Rests
<1>4. ASSUME NEW i \in Ingests, Accepts(i) PROVE Rests(r)
  <2>1. /\ runs' = runs
        /\ task[i] = None /\ task'[i] # None /\ task'[i].msg = feed[1] /\ task'[i].at = "select"
        /\ \A k \in Ingests : k # i => task'[k] = task[k]
        /\ feed # <<>> /\ feed' = Tail(feed)
    BY <1>4, TakesOne
  <2>2. \A e : (\E j \in DOMAIN feed : feed[j].ev = e) <=> e = feed[1].ev \/ \E j \in DOMAIN feed' : feed'[j].ev = e
    BY <1>1, <2>1, DueTail
  <2>3. \A e : Due(e)' => Due(e)
    <3> SUFFICES ASSUME NEW e, NEW k \in Ingests, task'[k] # None, task'[k].at # "event", task'[k].msg.ev = e PROVE Due(e)
      BY <2>2 DEF Due
    <3>1. CASE k = i
      <4>1. \E j \in DOMAIN feed : feed[j].ev = e
        BY <2>1, <2>2, <3>1
      <4> QED  BY <4>1 DEF Due
    <3>2. CASE k # i
      <4>1. task'[k] = task[k]
        BY <2>1, <3>2
      <4> QED  BY <4>1 DEF Due
    <3> QED  BY <3>1, <3>2
  <2>4. \A e : Due(e) => Due(e)'
    <3>1. \A e : e = feed[1].ev => Due(e)'
      BY <2>1 DEF Due
    <3>2. ASSUME NEW k \in Ingests, task[k] # None PROVE task'[k] = task[k]
      BY <2>1, <3>2
    <3> SUFFICES ASSUME NEW e, Due(e), e # feed[1].ev PROVE Due(e)'
      BY <3>1
    <3>3. CASE \E j \in DOMAIN feed : feed[j].ev = e
      BY <2>2, <3>3 DEF Due
    <3>4. CASE \E k \in Ingests : task[k] # None /\ task[k].at # "event" /\ task[k].msg.ev = e
      BY <3>2, <3>4 DEF Due
    <3> QED  BY <3>3, <3>4 DEF Due
  <2> QED  BY <1>3, <2>1, <2>3, <2>4
<1>5. ASSUME NEW i \in Ingests, StoreEvent(i) \/ StatementFails(i) PROVE Rests(r)
  <2>1. /\ UNCHANGED <<feed, runs>> /\ task'[i] = None /\ \A k \in Ingests : k # i => task'[k] = task[k]
        /\ task[i] # None /\ (task[i].at = "event" \/ lost' = lost \cup {task[i].msg.run})
        /\ Genuine(task[i].msg)
    BY <1>5, Stores, Fails DEF MessageInv
  <2>2. \A e \in Got(r) : Due(e)' <=> Due(e)
    <3>1. \A e \in Got(r) : task[i].at = "event" \/ task[i].msg.ev # e
      BY <2>1 DEF Got, Genuine
    <3> QED  BY <2>1, <3>1 DEF Due
  <2> QED  BY <1>3, <2>1, <2>2
<1>6. ASSUME NEW i \in Ingests, Select(i) \/ Insert(i) \/ Update(i) PROVE Rests(r) \/ Applies(i, r)
  <2> DEFINE m == task[i].msg
             rows == runs[m.run]
  <2>1. /\ UNCHANGED <<feed, lost, crossed>> /\ task[i] # None /\ m.run \in Runs /\ m \in Messages
        /\ task'[i] # None /\ task'[i].msg = m /\ \A k \in Ingests : k # i => task'[k] = task[k]
        /\ \/ /\ task[i].at = "select" /\ task'[i].at = (IF rows = <<>> THEN "insert" ELSE "update")
              /\ runs' = runs
           \/ /\ task[i].at = "insert" /\ task'[i].at = "event"
              /\ runs' = [runs EXCEPT ![m.run] = Append(rows, NewRow(m))]
           \/ /\ task[i].at = "update" /\ task'[i].at = "event"
              /\ runs' = [runs EXCEPT ![m.run] = Restated(rows, m)]
    BY <1>6, Statement
  <2>2. Genuine(m) /\ runs \in [Runs -> Seq(Row)] /\ runs' \in [Runs -> Seq(Row)]
    <3>1. MessageInv'
      BY <1>6, Statement
    <3> QED  BY <1>1, <2>1, <3>1, Typed DEF MessageInv, HistoryTypeOK
  <2>3. CASE task[i].at = "select" /\ task'[i].at # "event" /\ runs' = runs
    <3>1. \A e : Due(e)' <=> Due(e)
      BY <2>1, <2>3 DEF Due
    <3> QED  BY <1>3, <2>3, <3>1
  <2>4. CASE task[i].at # "event" /\ task'[i].at = "event" /\ r # m.run
    <3>1. runs'[r] = runs[r]
      BY <2>1, <2>2, <2>4
    <3>2. \A e \in Got(r) : e # m.ev
      BY <2>2, <2>4 DEF Got, Genuine
    <3>3. \A e \in Got(r) : Due(e)' <=> Due(e)
      BY <2>1, <3>2 DEF Due
    <3> QED  BY <1>3, <3>1, <3>3
  <2>5. CASE task[i].at # "event" /\ task'[i].at = "event" /\ r = m.run
    <3>1. Serving(i, r) /\ Serving(i, r)'
      BY <2>1, <2>5 DEF Serving
    <3>2. runs'[r] # <<>>
      <4>1. HeldInv'
        BY <1>6, HeldStep, StepIs DEF Next, CentralNext, Ingesting
      <4> QED  BY <2>5, <3>1, <4>1 DEF HeldInv
    <3>3. r \notin crossed => \/ runs[r] = <<>> /\ runs'[r] = <<NewRow(m)>>
                              \/ runs[r] # <<>> /\ runs'[r] = Restated(runs[r], m)
      <4>1. CASE task[i].at = "insert" /\ runs' = [runs EXCEPT ![m.run] = Append(rows, NewRow(m))]
        <5>1. r \notin crossed => rows = <<>>
          BY <2>5, <3>1, <4>1 DEF RowInv
        <5> DEFINE x == NewRow(m)
        <5>2. runs'[r] = Append(rows, x)
          BY <2>2, <2>5, <4>1
        <5>3. Append(<<>>, x) = <<x>>
          <6> HIDE DEF x
          <6> QED  OBVIOUS
        <5> HIDE DEF x
        <5> QED  BY <2>5, <5>1, <5>2, <5>3 DEF x
      <4>2. CASE task[i].at = "update" /\ runs' = [runs EXCEPT ![m.run] = Restated(rows, m)]
        <5>1. rows # <<>>
          BY <2>1, <2>5, <3>1, <4>2 DEF HeldInv
        <5>2. runs'[r] = Restated(rows, m)
          BY <2>2, <2>5, <4>2
        <5> QED  BY <2>5, <5>1, <5>2
      <4> QED  BY <2>1, <2>5, <4>1, <4>2
    <3> QED  BY <1>1, <2>1, <2>2, <2>5, <3>1, <3>2, <3>3 DEF Applies
  <2> QED  BY <2>1, <2>3, <2>4, <2>5
<1>7. ASSUME NEW i \in Ingests, Remember(i) PROVE Rests(r) \/ Applies(i, r)
  <2> DEFINE m == task[i].msg
             new == IF runs[m.run] # <<>> THEN Restated(runs[m.run], m) ELSE <<NewRow(m)>>
  <2>1. /\ UNCHANGED <<feed, crossed>> /\ backend = "memory" /\ task[i] # None /\ m \in Messages /\ m.run \in Runs
        /\ task'[i] = None /\ \A k \in Ingests : k # i => task'[k] = task[k]
        /\ \E out \in SUBSET Runs :
              /\ new # <<>> /\ lost' = lost \cup out
              /\ \A q \in Runs : runs'[q] = IF q \in out THEN <<>> ELSE IF q = m.run THEN new ELSE runs[q]
    BY <1>7, Remembers
  <2>2. runs'[r] = IF r = m.run THEN new ELSE runs[r]
    BY <2>1
  <2>3. Genuine(m) /\ task[i].at = "select"
    BY <2>1 DEF MessageInv
  <2>4. CASE r # m.run
    <3>1. \A e \in Got(r) : e # m.ev
      BY <2>3, <2>4 DEF Got, Genuine
    <3>2. \A e \in Got(r) : Due(e)' <=> Due(e)
      BY <2>1, <3>1 DEF Due
    <3> QED  BY <1>3, <2>2, <2>4, <3>2
  <2>5. CASE r = m.run
    <3>1. new # <<>>
      BY <2>1
    <3>2. \/ runs[r] = <<>> /\ runs'[r] = <<NewRow(m)>>
          \/ runs[r] # <<>> /\ runs'[r] = Restated(runs[r], m)
      BY <2>2, <2>5
    <3> HIDE DEF new
    <3> QED  BY <1>1, <2>1, <2>2, <2>3, <2>5, <3>1, <3>2 DEF Applies, Serving
  <2> QED  BY <2>4, <2>5
<1>8. CASE Refuses \/ GoesOffline \/ Subscribes \/ StopConsumer
  <2>1. UNCHANGED <<task, runs>>
    BY <1>8, FeedOnly
  <2>2. CASE feed # <<>> /\ feed' = Tail(feed) /\ feed[1].run = None
    <3>1. \A e : (\E j \in DOMAIN feed : feed[j].ev = e) <=> e = feed[1].ev \/ \E j \in DOMAIN feed' : feed'[j].ev = e
      BY <1>1, <2>2, DueTail
    <3>2. Genuine(feed[1])
      BY <1>1, <2>2, FeedMoves DEF MessageInv
    <3>3. \A e \in Got(r) : e # feed[1].ev
      BY <2>2, <3>2, Names DEF Got, Genuine
    <3>4. \A e \in Got(r) : Due(e)' <=> Due(e)
      BY <2>1, <3>1, <3>3 DEF Due
    <3> QED  BY <1>3, <2>1, <3>4
  <2>3. CASE feed' = <<>> /\ lost' = lost \cup RunsIn(feed)
    <3>1. \A j \in DOMAIN feed : feed[j].run # r
      BY <2>3, Names DEF RunsIn
    <3>2. \A e \in Got(r) : \A j \in DOMAIN feed : feed[j].ev # e
      BY <3>1 DEF MessageInv, Got, Genuine
    <3>3. DOMAIN feed' = {}
      BY <2>3
    <3>4. \A e \in Got(r) : Due(e)' <=> Due(e)
      BY <2>1, <3>2, <3>3 DEF Due
    <3> QED  BY <1>3, <2>1, <3>4
  <2>4. CASE UNCHANGED feed
    <3>1. \A e \in Got(r) : Due(e)' <=> Due(e)
      BY <2>1, <2>4 DEF Due
    <3> QED  BY <1>3, <2>1, <3>1
  <2> QED  BY <1>8, <2>2, <2>3, <2>4, FeedOnly
<1> QED  BY <1>4, <1>5, <1>6, <1>7, <1>8

LEMMA Moves ==
    ASSUME ChannelInv, MessageInv, RowInv, HeldInv, [Next]_vars, NEW r \in Runs \ lost'
    PROVE  Rests(r) \/ \E i \in Ingests : Applies(i, r)
<1>1. CASE Offer /\ UNCHANGED <<centralVars, copied>>
  <2>1. /\ seen' = seen /\ UNCHANGED <<centralVars, copied>>
        /\ \A e \in seen : recorded'[e] = recorded[e]
        /\ Got(r)' = Got(r)
    BY <1>1, OfferMessages
  <2>2. \A e : Due(e)' <=> Due(e)
    BY <2>1 DEF Due, centralVars
  <2> QED  BY <2>1, <2>2 DEF Rests, centralVars
<1>2. CASE UNCHANGED vars
  <2>1. UNCHANGED <<recorded, seen, feed, task, runs>>
    BY <1>2 DEF vars, channelVars, centralVars
  <2> QED  BY <2>1 DEF Rests, Due, Got
<1> QED  BY <1>1, <1>2, BrokerRests, CentralMoves, StepIs

LEMMA PlainBefore ==
    ASSUME ChannelInv, MessageInv, [Next]_vars
    PROVE  lost \subseteq lost' /\ crossed \subseteq crossed' /\ \A r \in Runs : Plain(r)' => Plain(r)
<1>1. ASSUME UNCHANGED <<recorded, copied>>, lost \subseteq lost', crossed \subseteq crossed'
      PROVE  \A r \in Runs : Plain(r)' => Plain(r)
  BY <1>1 DEF Plain
<1>2. CASE Offer /\ UNCHANGED <<centralVars, copied>>
  <2>1. UNCHANGED <<lost, crossed, copied>> /\ \A e \in seen : recorded'[e] = recorded[e]
    BY <1>2, OfferMessages DEF centralVars
  <2>2. \A j \in DOMAIN copied : copied[j] \in seen
    BY LenProperties, ElementOfSeq DEF MessageInv
  <2> QED  BY <2>1, <2>2 DEF Plain
<1>3. CASE Broker
  <2> PICK e \in accepted :
        /\ UNCHANGED <<recorded, crossed>> /\ lost \subseteq lost'
        /\ copied \in Seq(seen) /\ copied' = IF e \in seen THEN Append(copied, e) ELSE copied
    <3>1. \A a, b : a \subseteq a \cup b
      OBVIOUS
    <3> QED  BY <1>3, <3>1, BrokerDoes
  <2>1. \A j \in DOMAIN copied : j \in DOMAIN copied' /\ copied'[j] = copied[j]
    <3>1. CASE e \in seen
      <4>1. Len(copied) \in Nat /\ DOMAIN copied = 1 .. Len(copied) /\ copied' \in Seq(seen)
            /\ Len(copied') = Len(copied) + 1 /\ \A j \in 1 .. Len(copied) : copied'[j] = copied[j]
        BY <3>1, AppendProperties, LenProperties
      <4>2. DOMAIN copied' = 1 .. (Len(copied) + 1)
        BY <4>1, LenProperties
      <4> QED  BY <4>1, <4>2
    <3> QED  BY <3>1
  <2> QED  BY <2>1 DEF Plain
<1>4. ASSUME UNCHANGED <<channelVars, copied>>,
             \/ \E i \in Ingests : \/ Accepts(i) \/ Select(i) \/ Insert(i) \/ Update(i)
                                   \/ StoreEvent(i) \/ StatementFails(i) \/ Remember(i)
             \/ Refuses \/ GoesOffline \/ Subscribes \/ StopConsumer
      PROVE  lost \subseteq lost' /\ crossed \subseteq crossed'
  <2>1. CASE Refuses \/ GoesOffline \/ Subscribes \/ StopConsumer
    BY <2>1 DEF Refuses, GoesOffline, Subscribes, StopConsumer
  <2>2. ASSUME NEW i \in Ingests, Accepts(i) \/ Select(i) \/ Insert(i) \/ Update(i) \/ StoreEvent(i) \/ StatementFails(i)
        PROVE  lost \subseteq lost' /\ crossed \subseteq crossed'
    BY <2>2 DEF Accepts, Select, Insert, Update, StoreEvent, StatementFails
  <2>3. ASSUME NEW i \in Ingests, Remember(i) PROVE lost \subseteq lost' /\ crossed \subseteq crossed'
    BY <1>4, <2>3, Remembers
  <2> QED  BY <1>4, <2>1, <2>2, <2>3
<1>5. CASE UNCHANGED vars
  BY <1>1, <1>5 DEF vars, channelVars, centralVars
<1>6. UNCHANGED channelVars => recorded' = recorded
  BY DEF channelVars
<1> QED  BY <1>1, <1>2, <1>3, <1>4, <1>5, <1>6, StepIs

(* Once an event of a run is done, the run has its row. *)
DoneInv == \A r \in Runs \ lost : \A e \in Got(r) : ~Due(e) => runs[r] # <<>>

LEMMA DoneStep ==
    ASSUME ChannelInv, MessageInv, RowInv, HeldInv, DoneInv, [Next]_vars
    PROVE  DoneInv'
<1> SUFFICES ASSUME NEW r \in Runs \ lost', NEW e \in Got(r)', ~Due(e)' PROVE runs'[r] # <<>>
  BY DEF DoneInv
<1>1. r \in Runs \ lost
  BY PlainBefore
<1>2. CASE Rests(r)
  BY <1>1, <1>2 DEF Rests, DoneInv
<1>3. CASE \E i \in Ingests : Applies(i, r)
  BY <1>3 DEF Applies
<1> QED  BY <1>2, <1>3, Moves

-----------------------------------------------------------------------------
(* The pipeline: the events of a plain run come in the order of recording. *)

Arrival(r) ==
    /\ \A j, k \in DOMAIN feed : feed[j].run = r /\ feed[k].run = r /\ j < k => feed[j].ev < feed[k].ev
    /\ \A i \in Ingests, k \in DOMAIN feed : Serving(i, r) /\ feed[k].run = r => task[i].msg.ev < feed[k].ev
    /\ \A e \in Got(r) : ~Due(e) =>
          /\ \A k \in DOMAIN feed : feed[k].run = r => e < feed[k].ev
          /\ \A i \in Ingests : Serving(i, r) /\ task[i].at # "event" => e < task[i].msg.ev

ArrivalInv == \A r \in Runs : Plain(r) => Arrival(r)

(* How messages move: some go, one comes in, or one becomes an ingest. *)
Goes ==
    /\ feed' = feed \/ feed' = <<>> \/ (feed # <<>> /\ feed' = Tail(feed))
    /\ \A k \in Ingests : task'[k] # None =>
          task[k] # None /\ task'[k].msg = task[k].msg /\ (task'[k].at # "event" => task[k].at # "event")

LEMMA Traffic ==
    ASSUME ChannelInv, MessageInv, [Next]_vars
    PROVE  \/ Goes \/ Broker
           \/ \E i \in Ingests : Accepts(i) /\ UNCHANGED <<channelVars, copied>>
<1>1. CASE Offer /\ UNCHANGED <<centralVars, copied>>
  BY <1>1 DEF Goes, centralVars
<1>2. CASE UNCHANGED vars
  BY <1>2 DEF Goes, vars, centralVars
<1>3. ASSUME NEW i \in Ingests, UNCHANGED <<channelVars, copied>>,
             Select(i) \/ Insert(i) \/ Update(i)
      PROVE  Goes
  <2>1. /\ feed' = feed /\ task[i] # None
        /\ task'[i] # None /\ task'[i].msg = task[i].msg /\ \A k \in Ingests : k # i => task'[k] = task[k]
        /\ task'[i].at # "event" => task[i].at # "event"
    BY <1>3, Statement
  <2> QED  BY <2>1 DEF Goes
<1>4. ASSUME NEW i \in Ingests, UNCHANGED <<channelVars, copied>>,
             StoreEvent(i) \/ StatementFails(i) \/ Remember(i)
      PROVE  Goes
  <2>1. /\ feed' = feed /\ task'[i] = None /\ \A k \in Ingests : k # i => task'[k] = task[k]
    BY <1>4, Stores, Fails, Remembers
  <2> QED  BY <2>1 DEF Goes
<1>5. CASE UNCHANGED <<channelVars, copied>> /\ (Refuses \/ GoesOffline \/ Subscribes \/ StopConsumer)
  <2>1. task' = task /\ (feed' = feed \/ feed' = <<>> \/ (feed # <<>> /\ feed' = Tail(feed)))
    BY <1>5, FeedOnly
  <2> QED  BY <2>1 DEF Goes
<1> QED  BY <1>1, <1>2, <1>3, <1>4, <1>5, StepIs

LEMMA FeedShifts ==
    ASSUME HistoryTypeOK, feed' = feed \/ feed' = <<>> \/ (feed # <<>> /\ feed' = Tail(feed))
    PROVE  /\ DOMAIN feed' \subseteq Nat
           /\ \E s \in {0, 1} : \A j \in DOMAIN feed' : j + s \in DOMAIN feed /\ feed'[j] = feed[j + s]
<1>1. CASE feed' = feed
  <2>1. DOMAIN feed \subseteq Nat
    BY Typed
  <2>2. \A j \in DOMAIN feed' : j + 0 \in DOMAIN feed /\ feed'[j] = feed[j + 0]
    BY <1>1, <2>1
  <2> QED  BY <1>1, <2>1, <2>2
<1>2. CASE feed' = <<>>
  BY <1>2
<1>3. CASE feed # <<>> /\ feed' = Tail(feed)
  <2>1. DOMAIN feed' = 1 .. (Len(feed) - 1) /\ Len(feed) \in Nat
        /\ \A j \in DOMAIN feed' : j + 1 \in DOMAIN feed /\ feed'[j] = feed[j + 1]
    BY <1>3, FeedMoves
  <2> QED  BY <2>1
<1> QED  BY <1>1, <1>2, <1>3

LEMMA ArrivalStep ==
    ASSUME ChannelInv, MessageInv, RowInv, HeldInv, ArrivalInv, [Next]_vars
    PROVE  ArrivalInv'
<1> SUFFICES ASSUME NEW r \in Runs, Plain(r)' PROVE Arrival(r)'
  BY DEF ArrivalInv
<1>1. HistoryTypeOK /\ Plain(r) /\ Arrival(r) /\ r \in Runs \ lost' /\ r \notin crossed /\ r \notin crossed'
  BY PlainBefore DEF MessageInv, ArrivalInv, Plain
<1>2. \A e \in Got(r) : e \in Nat
  BY ChannelTypes, Names DEF Got
<1>3. \A k \in Ingests : Serving(k, r) => task[k].msg.ev \in Got(r) /\ task[k].msg.ev \in Nat
  <2>1. \A k \in Ingests : Serving(k, r) => Genuine(task[k].msg)
    BY DEF MessageInv, Serving
  <2> QED  BY <1>2, <2>1 DEF Got, Genuine, Serving
<1>4. \A j \in DOMAIN feed : feed[j].run = r => feed[j].ev \in Got(r) /\ feed[j].ev \in Nat
  <2>1. \A j \in DOMAIN feed : Genuine(feed[j])
    BY DEF MessageInv
  <2> QED  BY <1>2, <2>1 DEF Got, Genuine
<1>5. CASE Goes
  <2>1. DOMAIN feed' \subseteq Nat
    BY <1>1, <1>5, FeedShifts DEF Goes
  <2> PICK s \in {0, 1} : \A j \in DOMAIN feed' : j + s \in DOMAIN feed /\ feed'[j] = feed[j + s]
    BY <1>1, <1>5, FeedShifts DEF Goes
  <2>2. \A k \in Ingests : Serving(k, r)' =>
           Serving(k, r) /\ task'[k].msg = task[k].msg /\ (task'[k].at # "event" => task[k].at # "event")
    BY <1>5 DEF Goes, Serving
  <2>3. \A j, k \in DOMAIN feed' : feed'[j].run = r /\ feed'[k].run = r /\ j < k => feed'[j].ev < feed'[k].ev
    <3> SUFFICES ASSUME NEW j \in DOMAIN feed', NEW k \in DOMAIN feed', feed'[j].run = r, feed'[k].run = r, j < k
                 PROVE  feed'[j].ev < feed'[k].ev
      OBVIOUS
    <3>1. j + s < k + s
      BY <2>1
    <3> QED  BY <1>1, <3>1 DEF Arrival
  <2>4. \A i \in Ingests, k \in DOMAIN feed' : Serving(i, r)' /\ feed'[k].run = r => task'[i].msg.ev < feed'[k].ev
    BY <1>1, <2>2 DEF Arrival
  <2>5. ASSUME NEW e \in Got(r)', ~Due(e)'
        PROVE  /\ \A k \in DOMAIN feed' : feed'[k].run = r => e < feed'[k].ev
               /\ \A i \in Ingests : Serving(i, r)' /\ task'[i].at # "event" => e < task'[i].msg.ev
    <3>1. CASE e \in Got(r) /\ ~Due(e)
      BY <1>1, <2>2, <3>1 DEF Arrival
    <3>2. ASSUME NEW i \in Ingests, Applies(i, r), Due(e)
          PROVE  /\ \A k \in DOMAIN feed' : feed'[k].run = r => e < feed'[k].ev
                 /\ \A k \in Ingests : Serving(k, r)' /\ task'[k].at # "event" => e < task'[k].msg.ev
      <4>1. e = task[i].msg.ev
        BY <2>5, <3>2, DueApplied
      <4>2. feed' = feed /\ Serving(i, r) /\ \A k \in Ingests : Serving(k, r) => k = i
        BY <1>1, <3>2 DEF Applies, RowInv
      <4>3. \A k \in Ingests : ~(Serving(k, r)' /\ task'[k].at # "event")
        BY <2>2, <3>2, <4>2 DEF Applies, Serving
      <4> QED  BY <1>1, <4>1, <4>2, <4>3 DEF Arrival
    <3>3. Rests(r) => e \in Got(r) /\ ~Due(e)
      BY <2>5 DEF Rests
    <3>4. \A i \in Ingests : Applies(i, r) => e \in Got(r)
      BY <2>5 DEF Applies, Got
    <3> QED  BY <1>1, <3>1, <3>2, <3>3, <3>4, Moves
  <2> QED  BY <2>3, <2>4, <2>5 DEF Arrival
<1>6. CASE Broker
  <2> PICK e \in accepted :
              /\ UNCHANGED <<recorded, task>> /\ seen' = seen \cup {e} /\ e \in Events
              /\ (e \notin seen => \A d \in seen : d < e)
              /\ copied \in Seq(seen) /\ copied' = IF e \in seen THEN Append(copied, e) ELSE copied
              /\ Content(e) \in Messages /\ Content(e).ev = e /\ Content(e).run = recorded[e].run
              /\ consumer = "online" => feed' = Append(feed, Content(e))
              /\ consumer # "online" => feed' = feed
    BY <1>6, BrokerDoes
  <2>1. Rests(r)
    BY <1>1, <1>6, BrokerRests
  <2>2. CASE consumer # "online"
    BY <1>1, <2>1, <2>2 DEF Arrival, Rests, Serving
  <2>3. CASE consumer = "online"
    <3> DEFINE n == Len(feed)
    <3>1. /\ n \in Nat /\ DOMAIN feed = 1 .. n /\ DOMAIN feed' = 1 .. (n + 1)
          /\ feed'[n + 1] = Content(e) /\ \A j \in DOMAIN feed : feed'[j] = feed[j]
      BY <1>1, <2>3, FeedGrows
    <3> HIDE DEF n
    <3>2. feed'[n + 1].run = r => e \notin seen
      <4>1. e \in seen => recorded[e].run # r
        <5> SUFFICES ASSUME e \in seen PROVE recorded[e].run # r
          OBVIOUS
        <5>1. copied \in Seq(seen) /\ copied' = Append(copied, e)
          OBVIOUS
        <5>2. copied'[Len(copied) + 1] = e /\ Len(copied) + 1 \in DOMAIN copied'
          BY <5>1, AppendProperties, LenProperties
        <5> QED  BY <5>2 DEF Plain
      <4> QED  BY <3>1, <4>1
    <3>3. \A j \in DOMAIN feed' : j \in DOMAIN feed \/ j = n + 1
      BY <3>1
    <3>4. \A j \in DOMAIN feed : j < n + 1 /\ ~(n + 1 < j)
      BY <3>1
    <3>5. feed'[n + 1].run = r => \A d \in Got(r) : d < feed'[n + 1].ev
      BY <3>1, <3>2 DEF Got
    <3>6. \A j, k \in DOMAIN feed' : feed'[j].run = r /\ feed'[k].run = r /\ j < k => feed'[j].ev < feed'[k].ev
      <4> SUFFICES ASSUME NEW j \in DOMAIN feed', NEW k \in DOMAIN feed', feed'[j].run = r, feed'[k].run = r, j < k
                   PROVE  feed'[j].ev < feed'[k].ev
        OBVIOUS
      <4>1. j \in DOMAIN feed
        BY <3>1, <3>3, <3>4
      <4>2. CASE k \in DOMAIN feed
        BY <1>1, <3>1, <4>1, <4>2 DEF Arrival
      <4>3. CASE k = n + 1
        BY <1>4, <3>1, <3>5, <4>1, <4>3
      <4> QED  BY <3>3, <4>2, <4>3
    <3>7. \A i \in Ingests, k \in DOMAIN feed' : Serving(i, r)' /\ feed'[k].run = r => task'[i].msg.ev < feed'[k].ev
      <4> SUFFICES ASSUME NEW i \in Ingests, NEW k \in DOMAIN feed', Serving(i, r), feed'[k].run = r
                   PROVE  task[i].msg.ev < feed'[k].ev
        BY DEF Serving
      <4> QED  BY <1>1, <1>3, <3>1, <3>3, <3>5 DEF Arrival
    <3>8. ASSUME NEW d \in Got(r)', ~Due(d)'
          PROVE  /\ \A k \in DOMAIN feed' : feed'[k].run = r => d < feed'[k].ev
                 /\ \A i \in Ingests : Serving(i, r)' /\ task'[i].at # "event" => d < task'[i].msg.ev
      <4>1. d \in Got(r) /\ ~Due(d)
        BY <2>1, <3>8 DEF Rests
      <4> QED  BY <1>1, <3>1, <3>3, <3>5, <4>1 DEF Arrival, Serving
    <3> QED  BY <3>6, <3>7, <3>8 DEF Arrival
  <2> QED  BY <2>2, <2>3
<1>7. ASSUME NEW i \in Ingests, Accepts(i), UNCHANGED <<channelVars, copied>> PROVE Arrival(r)'
  <2>1. /\ task[i] = None /\ task'[i] # None /\ task'[i].msg = feed[1] /\ task'[i].at = "select"
        /\ \A k \in Ingests : k # i => task'[k] = task[k]
        /\ feed # <<>> /\ feed' = Tail(feed)
    BY <1>7, TakesOne
  <2>2. /\ DOMAIN feed' = 1 .. (Len(feed) - 1) /\ Len(feed) \in Nat /\ 1 \in DOMAIN feed
        /\ \A j \in DOMAIN feed' : j + 1 \in DOMAIN feed /\ feed'[j] = feed[j + 1]
    BY <1>1, <2>1, FeedMoves
  <2>3. \A j \in DOMAIN feed' : 1 < j + 1 /\ \A k \in DOMAIN feed' : j < k => j + 1 < k + 1
    BY <2>2
  <2>4. \A e \in Got(r)' : ~Due(e)' => e \in Got(r) /\ ~Due(e)
    <3>1. Rests(r) \/ \E k \in Ingests : Applies(k, r)
      BY <1>1, Moves
    <3>2. \A k \in Ingests : ~Applies(k, r)
      <4> SUFFICES ASSUME NEW k \in Ingests, Applies(k, r) PROVE FALSE
        OBVIOUS
      <4>1. feed' = feed
        BY DEF Applies
      <4>2. Len(feed') = Len(feed) - 1
        BY <1>1, <2>1, FeedMoves
      <4> QED  BY <2>2, <4>1, <4>2
    <3> QED  BY <3>1, <3>2 DEF Rests
  <2>5. \A k \in Ingests : Serving(k, r)' => \/ k = i /\ feed[1].run = r /\ task'[k].msg = feed[1]
                                             \/ Serving(k, r) /\ task'[k] = task[k]
    BY <2>1 DEF Serving
  <2>6. \A j, k \in DOMAIN feed' : feed'[j].run = r /\ feed'[k].run = r /\ j < k => feed'[j].ev < feed'[k].ev
    BY <1>1, <2>2, <2>3 DEF Arrival
  <2>7. \A k \in Ingests, j \in DOMAIN feed' : Serving(k, r)' /\ feed'[j].run = r => task'[k].msg.ev < feed'[j].ev
    BY <1>1, <2>2, <2>3, <2>5 DEF Arrival
  <2>8. ASSUME NEW e \in Got(r)', ~Due(e)'
        PROVE  /\ \A k \in DOMAIN feed' : feed'[k].run = r => e < feed'[k].ev
               /\ \A k \in Ingests : Serving(k, r)' /\ task'[k].at # "event" => e < task'[k].msg.ev
    BY <1>1, <2>2, <2>4, <2>5, <2>8 DEF Arrival
  <2> QED  BY <2>6, <2>7, <2>8 DEF Arrival
<1> QED  BY <1>5, <1>6, <1>7, Traffic

-----------------------------------------------------------------------------
(* The pipeline: the row of a plain run states what was told last of what is *)
(* done.                                                                     *)

Told(r) == {e \in Got(r) : ~Due(e) /\ StatusOf(recorded[e].type) # None}

States(x, r) ==
    \/ x.status = "unknown" /\ Told(r) = {}
    \/ \E e \in Told(r) : x.status = StatusOf(recorded[e].type) /\ \A d \in Told(r) : d <= e

StatusInv == \A r \in Runs : Plain(r) => \A j \in DOMAIN runs[r] : States(runs[r][j], r)

(* The event an ingest applies is done from then on, and the last so far.    *)
LEMMA AppliesLast ==
    ASSUME ChannelInv, MessageInv, RowInv, NEW r \in Runs, r \notin crossed, Arrival(r),
           NEW i \in Ingests, Applies(i, r)
    PROVE  LET m == task[i].msg IN
           /\ m.ev \in Nat /\ \A e \in Told(r) : e \in Nat /\ e < m.ev
           /\ recorded' = recorded /\ m.type = recorded[m.ev].type
           /\ Told(r)' = IF StatusOf(m.type) = None THEN Told(r) ELSE Told(r) \cup {m.ev}
<1> DEFINE m == task[i].msg
<1>1. /\ UNCHANGED <<recorded, seen, feed>> /\ Got(r)' = Got(r) /\ m.ev \in Got(r) /\ m.type = recorded[m.ev].type
      /\ Serving(i, r) /\ task[i].at # "event" /\ Due(m.ev)
      /\ task'[i] # None => task'[i].at = "event"
      /\ \A k \in Ingests : k # i => task'[k] = task[k]
  BY DEF Applies, Genuine, Got, Serving, Due
<1>2. \A e \in Got(r) : e \in Nat
  BY ChannelTypes, Names DEF Got
<1>3. \A e \in Got(r) : ~Due(e) => e < m.ev
  BY <1>1 DEF Arrival
<1>4. \A e : e = m.ev => ~Due(e)'
  <2>1. \A k \in DOMAIN feed : feed[k].ev = m.ev => FALSE
    <3> SUFFICES ASSUME NEW k \in DOMAIN feed, feed[k].ev = m.ev PROVE FALSE
      OBVIOUS
    <3>1. feed[k].run = r
      BY <1>1 DEF MessageInv, Genuine, Got
    <3>2. m.ev < feed[k].ev /\ m.ev \in Nat
      BY <1>1, <1>2, <3>1 DEF Arrival
    <3> QED  BY <3>2
  <2>2. \A k \in Ingests : k # i => task[k] = None \/ task[k].msg.ev # m.ev
    <3> SUFFICES ASSUME NEW k \in Ingests, k # i, task[k] # None, task[k].msg.ev = m.ev PROVE FALSE
      OBVIOUS
    <3>1. Serving(k, r)
      BY <1>1 DEF MessageInv, Genuine, Got, Serving
    <3> QED  BY <1>1, <3>1 DEF RowInv
  <2> QED  BY <1>1, <2>1, <2>2 DEF Due
<1>5. \A e : e # m.ev => (Due(e)' <=> Due(e))
  BY DueApplied
<1>6. \A e : e \in Told(r)' <=> e \in Got(r) /\ ~Due(e)' /\ StatusOf(recorded[e].type) # None
  BY <1>1 DEF Told
<1>7. \A e \in Told(r) : e \in Got(r) /\ ~Due(e)
  BY DEF Told
<1>8. Told(r)' = IF StatusOf(m.type) = None THEN Told(r) ELSE Told(r) \cup {m.ev}
  <2> SUFFICES ASSUME NEW e
               PROVE  e \in Told(r)' <=> e \in Told(r) \/ (StatusOf(m.type) # None /\ e = m.ev)
    OBVIOUS
  <2>1. CASE e = m.ev
    BY <1>1, <1>4, <1>6, <1>7, <2>1
  <2>2. CASE e # m.ev
    BY <1>5, <1>6, <2>2 DEF Told
  <2> QED  BY <2>1, <2>2
<1> QED  BY <1>1, <1>2, <1>3, <1>7, <1>8

LEMMA StatusStep ==
    ASSUME ChannelInv, MessageInv, RowInv, HeldInv, ArrivalInv, DoneInv, StatusInv, [Next]_vars
    PROVE  StatusInv'
<1> SUFFICES ASSUME NEW r \in Runs, Plain(r)', NEW j \in DOMAIN runs'[r]
             PROVE  \/ runs'[r][j].status = "unknown" /\ Told(r)' = {}
                    \/ \E e \in Told(r)' : /\ runs'[r][j].status = StatusOf(recorded'[e].type)
                                          /\ \A d \in Told(r)' : d <= e
  BY DEF StatusInv, States
<1>1. Plain(r) /\ Arrival(r) /\ r \in Runs \ lost' /\ r \notin lost /\ r \notin crossed /\ r \notin crossed'
  BY PlainBefore DEF ArrivalInv, Plain
<1>2. HistoryTypeOK /\ runs \in [Runs -> Seq(Row)]
  BY Typed DEF MessageInv
<1>3. CASE Rests(r)
  <2>1. runs'[r] = runs[r] /\ \A e \in Told(r) : recorded'[e] = recorded[e]
    BY <1>3 DEF Rests, Told, Got
  <2>2. Told(r)' = Told(r)
    <3> SUFFICES ASSUME NEW e PROVE e \in Told(r)' <=> e \in Told(r)
      OBVIOUS
    <3>1. e \in Got(r)' /\ ~Due(e)' <=> e \in Got(r) /\ ~Due(e)
      BY <1>3 DEF Rests
    <3>2. e \in Got(r) => recorded'[e] = recorded[e]
      BY <1>3 DEF Rests, Got
    <3> QED  BY <3>1, <3>2 DEF Told
  <2>3. States(runs[r][j], r)
    BY <1>1, <2>1 DEF StatusInv
  <2> HIDE DEF Told
  <2> QED  BY <2>1, <2>2, <2>3 DEF States
<1>4. ASSUME NEW i \in Ingests, Applies(i, r)
      PROVE  \/ runs'[r][j].status = "unknown" /\ Told(r)' = {}
             \/ \E e \in Told(r)' : /\ runs'[r][j].status = StatusOf(recorded'[e].type)
                                   /\ \A d \in Told(r)' : d <= e
  <2> DEFINE m == task[i].msg
             x == runs'[r][j]
  <2>1. /\ m.ev \in Nat /\ \A e \in Told(r) : e \in Nat /\ e < m.ev
        /\ recorded' = recorded /\ m.type = recorded[m.ev].type
        /\ Told(r)' = IF StatusOf(m.type) = None THEN Told(r) ELSE Told(r) \cup {m.ev}
    BY <1>1, <1>4, AppliesLast
  <2>2. m \in Messages
    BY <1>4 DEF Applies
  <2>3. \/ x.status = (IF StatusOf(m.type) = None THEN "unknown" ELSE StatusOf(m.type)) /\ Told(r) = {}
        \/ \E k \in DOMAIN runs[r] :
              x.status = IF StatusOf(m.type) = None THEN runs[r][k].status ELSE StatusOf(m.type)
    <3>1. CASE runs[r] = <<>> /\ runs'[r] = <<NewRow(m)>>
      <4>1. Told(r) = {}
        BY <1>1, <3>1 DEF Told, DoneInv
      <4> DEFINE y == NewRow(m)
      <4>2. y.status = IF StatusOf(m.type) = None THEN "unknown" ELSE StatusOf(m.type)
        BY <2>2, RowMade
      <4>3. runs'[r] = <<y>>
        BY <3>1
      <4> HIDE DEF y
      <4>4. x = y
        BY <4>3
      <4> QED  BY <4>1, <4>2, <4>4
    <3>2. CASE runs[r] # <<>> /\ runs'[r] = Restated(runs[r], m)
      <4> DEFINE rows == runs[r]
      <4>1. rows \in Seq(Row)
        BY <1>2
      <4> HIDE DEF rows
      <4>2. DOMAIN Restated(rows, m) = DOMAIN rows /\ \A k \in DOMAIN rows :
               Restated(rows, m)[k].status = IF StatusOf(m.type) = None THEN rows[k].status ELSE StatusOf(m.type)
        BY <2>2, <4>1, RowsRestated
      <4> QED  BY <3>2, <4>2 DEF rows
    <3> QED  BY <1>1, <1>4, <3>1, <3>2 DEF Applies
  <2> HIDE DEF m
  <2>4. CASE StatusOf(m.type) = None
    <3>1. Told(r)' = Told(r)
      BY <2>1, <2>4
    <3>2. (x.status = "unknown" /\ Told(r) = {}) \/ \E k \in DOMAIN runs[r] : x.status = runs[r][k].status
      BY <2>3, <2>4
    <3>3. \A k \in DOMAIN runs[r] : States(runs[r][k], r)
      BY <1>1 DEF StatusInv
    <3> HIDE DEF Told
    <3> QED  BY <2>1, <3>1, <3>2, <3>3 DEF States
  <2>5. CASE StatusOf(m.type) # None
    <3>1. x.status = StatusOf(recorded'[m.ev].type) /\ Told(r)' = Told(r) \cup {m.ev}
      BY <2>1, <2>3, <2>5
    <3>2. \A d \in Told(r)' : d <= m.ev
      BY <2>1, <3>1
    <3>3. m.ev \in Told(r)'
      BY <3>1
    <3> QED  BY <3>1, <3>2, <3>3
  <2> QED  BY <2>4, <2>5
<1> QED  BY <1>1, <1>3, <1>4, Moves

-----------------------------------------------------------------------------
(* The pipeline: every event received is on its way or stored, once for every *)
(* time it was received.                                                     *)

InFeed(e) == {j \in DOMAIN feed : feed[j].ev = e}
InHand(e) == {i \in Ingests : task[i] # None /\ task[i].msg.ev = e}

CountInv ==
    backend = "sql" => \A r \in Runs \ lost : \A e \in Got(r) :
        Copies(e, stored[r]) + Cardinality(InFeed(e)) + Cardinality(InHand(e)) = 1 + Copies(e, copied)

LEMMA CopiesAppend ==
    ASSUME NEW S, NEW s \in Seq(S), NEW x \in S, NEW e
    PROVE  /\ Copies(e, s) \in Nat /\ (e \notin S => Copies(e, s) = 0)
           /\ Copies(e, Append(s, x)) = Copies(e, s) + (IF x = e THEN 1 ELSE 0)
<1> DEFINE n == Len(s)
           A == {j \in DOMAIN s : s[j] = e}
           B == {j \in DOMAIN Append(s, x) : Append(s, x)[j] = e}
<1>1. /\ n \in Nat /\ DOMAIN s = 1 .. n /\ DOMAIN Append(s, x) = 1 .. (n + 1)
      /\ Append(s, x)[n + 1] = x /\ \A j \in 1 .. n : s[j] \in S /\ Append(s, x)[j] = s[j]
  BY AppendProperties, LenProperties, ElementOfSeq
<1> HIDE DEF n
<1>2. IsFiniteSet(A) /\ Cardinality(A) \in Nat
  <2>1. IsFiniteSet(1 .. n)
    BY <1>1, FS_Interval
  <2>2. A \subseteq 1 .. n
    BY <1>1
  <2> HIDE DEF A
  <2> QED  BY <2>1, <2>2, FS_Subset, FS_CardinalityType
<1>3. B = (IF x = e THEN A \cup {n + 1} ELSE A) /\ n + 1 \notin A
  BY <1>1
<1>4. e \notin S => A = {}
  BY <1>1
<1> HIDE DEF A, B
<1>5. Cardinality(A \cup {n + 1}) = Cardinality(A) + 1
  BY <1>2, <1>3, FS_AddElement
<1>6. Cardinality(B) = Cardinality(A) + (IF x = e THEN 1 ELSE 0)
  BY <1>2, <1>3, <1>5
<1> QED  BY <1>2, <1>4, <1>6, FS_EmptySet DEF A, B, Copies

LEMMA CopiesOf ==
    ASSUME NEW S, NEW s \in Seq(S), NEW e
    PROVE  /\ Copies(e, s) \in Nat /\ (e \notin S => Copies(e, s) = 0)
<1>1. \A j \in DOMAIN s : s[j] \in S
  BY LenProperties, ElementOfSeq
<1>2. IsFiniteSet({j \in DOMAIN s : s[j] = e})
  <2> DEFINE n == Len(s)
  <2>1. n \in Nat /\ DOMAIN s = 1 .. n
    BY LenProperties
  <2> HIDE DEF n
  <2>2. IsFiniteSet(1 .. n)
    BY <2>1, FS_Interval
  <2> QED  BY <2>1, <2>2, FS_Subset
<1>3. e \notin S => {j \in DOMAIN s : s[j] = e} = {}
  BY <1>1
<1> QED  BY <1>2, <1>3, FS_EmptySet, FS_CardinalityType DEF Copies

LEMMA FeedCounted ==
    ASSUME HistoryTypeOK, NEW e
    PROVE  IsFiniteSet(InFeed(e)) /\ Cardinality(InFeed(e)) \in Nat
<1> DEFINE n == Len(feed)
<1>1. n \in Nat /\ DOMAIN feed = 1 .. n
  BY Typed
<1> HIDE DEF n
<1>2. IsFiniteSet(1 .. n) /\ InFeed(e) \subseteq 1 .. n
  BY <1>1, FS_Interval DEF InFeed
<1> QED  BY <1>2, FS_Subset, FS_CardinalityType

LEMMA FeedCountGrows ==
    ASSUME HistoryTypeOK, NEW m \in Messages, feed' = Append(feed, m), NEW e
    PROVE  Cardinality(InFeed(e)') = Cardinality(InFeed(e)) + (IF m.ev = e THEN 1 ELSE 0)
<1> DEFINE n == Len(feed)
           A == InFeed(e)
           B == InFeed(e)'
<1>1. /\ n \in Nat /\ DOMAIN feed = 1 .. n /\ DOMAIN feed' = 1 .. (n + 1)
      /\ feed'[n + 1] = m /\ \A j \in DOMAIN feed : feed'[j] = feed[j]
  BY FeedGrows
<1> HIDE DEF n
<1>2. IsFiniteSet(A) /\ Cardinality(A) \in Nat
  BY FeedCounted
<1>3. B = (IF m.ev = e THEN A \cup {n + 1} ELSE A) /\ n + 1 \notin A
  <2>1. \A j : j \in 1 .. (n + 1) <=> j \in 1 .. n \/ j = n + 1
    BY <1>1
  <2>2. n + 1 \notin 1 .. n
    BY <1>1
  <2> QED  BY <1>1, <2>1, <2>2 DEF InFeed
<1> HIDE DEF A, B
<1>4. Cardinality(A \cup {n + 1}) = Cardinality(A) + 1
  BY <1>2, <1>3, FS_AddElement
<1>5. Cardinality(B) = Cardinality(A) + (IF m.ev = e THEN 1 ELSE 0)
  BY <1>2, <1>3, <1>4
<1> QED  BY <1>5 DEF A, B

LEMMA FeedCountMoves ==
    ASSUME HistoryTypeOK, HistoryTypeOK', feed # <<>>, feed' = Tail(feed), NEW e
    PROVE  /\ Cardinality(InFeed(e)') \in Nat
           /\ Cardinality(InFeed(e)) = Cardinality(InFeed(e)') + (IF feed[1].ev = e THEN 1 ELSE 0)
<1> DEFINE n == Len(feed)
           A == InFeed(e)
           B == InFeed(e)'
           f == [j \in B |-> j + 1]
<1>1. /\ n \in Nat /\ n > 0 /\ DOMAIN feed = 1 .. n /\ DOMAIN feed' = 1 .. (n - 1)
      /\ \A j \in DOMAIN feed' : j + 1 \in DOMAIN feed /\ feed'[j] = feed[j + 1]
      /\ \A j \in DOMAIN feed : j # 1 => j - 1 \in DOMAIN feed' /\ feed'[j - 1] = feed[j]
  BY FeedMoves
<1> HIDE DEF n
<1>2. IsFiniteSet(A) /\ Cardinality(A) \in Nat /\ IsFiniteSet(B) /\ Cardinality(B) \in Nat
  <2>1. IsFiniteSet(A) /\ Cardinality(A) \in Nat
    BY FeedCounted
  <2>2. IsFiniteSet(1 .. (n - 1)) /\ B \subseteq 1 .. (n - 1)
    <3>1. 1 \in Int /\ n - 1 \in Int
      BY <1>1
    <3>2. IsFiniteSet(1 .. (n - 1))
      BY <3>1, FS_Interval
    <3> QED  BY <1>1, <3>2 DEF InFeed
  <2> QED  BY <2>1, <2>2, FS_Subset, FS_CardinalityType
<1>3. ExistsBijection(B, A \ {1})
  <2>1. B \subseteq 1 .. (n - 1) /\ A \subseteq 1 .. n
    BY <1>1 DEF InFeed
  <2>2. \A j \in B : j + 1 \in A \ {1}
    <3>1. \A j \in B : j \in 1 .. (n - 1) /\ feed'[j].ev = e
      BY <1>1 DEF InFeed
    <3>2. \A j \in 1 .. (n - 1) : j + 1 # 1
      BY <1>1
    <3> QED  BY <1>1, <3>1, <3>2 DEF InFeed
  <2>3. \A k \in A \ {1} : k - 1 \in B
    BY <1>1 DEF InFeed
  <2> HIDE DEF A, B
  <2>4. f \in Injection(B, A \ {1})
    <3>1. f \in [B -> A \ {1}]
      BY <2>2
    <3>2. \A j, k \in B : f[j] = f[k] => j = k
      BY <1>1, <2>1
    <3> QED  BY <3>1, <3>2 DEF Injection, IsInjective
  <2>5. f \in Surjection(B, A \ {1})
    <3>1. \A k \in A \ {1} : \E j \in B : f[j] = k
      <4> SUFFICES ASSUME NEW k \in A \ {1} PROVE \E j \in B : f[j] = k
        OBVIOUS
      <4>1. k - 1 \in B /\ f[k - 1] = (k - 1) + 1 /\ (k - 1) + 1 = k
        BY <1>1, <2>1, <2>3
      <4> QED  BY <4>1
    <3>2. f \in [B -> A \ {1}]
      BY <2>2
    <3> QED  BY <3>1, <3>2 DEF Surjection
  <2> QED  BY <2>4, <2>5 DEF ExistsBijection, Bijection
<1>4. 1 \in A <=> feed[1].ev = e
  BY <1>1 DEF InFeed
<1> HIDE DEF A, B
<1>5. Cardinality(A \ {1}) = Cardinality(B)
  BY <1>2, <1>3, FS_Bijection
<1>6. Cardinality(A \ {1}) = IF 1 \in A THEN Cardinality(A) - 1 ELSE Cardinality(A)
  BY <1>2, FS_RemoveElement
<1>7. Cardinality(A) = Cardinality(B) + (IF feed[1].ev = e THEN 1 ELSE 0)
  BY <1>2, <1>4, <1>5, <1>6
<1> QED  BY <1>2, <1>7 DEF A, B

LEMMA HandCounted ==
    ASSUME NEW e
    PROVE  IsFiniteSet(InHand(e)) /\ Cardinality(InHand(e)) \in Nat
BY IngestAssumption, FS_Subset, FS_CardinalityType DEF InHand

(* One coroutine takes up the event, or lets go of it. *)
LEMMA HandChanges ==
    ASSUME NEW i \in Ingests, \A k \in Ingests : k # i => task'[k] = task[k], NEW e
    PROVE  LET had == task[i] # None /\ task[i].msg.ev = e
               has == task'[i] # None /\ task'[i].msg.ev = e
           IN  Cardinality(InHand(e)') + (IF had THEN 1 ELSE 0) = Cardinality(InHand(e)) + (IF has THEN 1 ELSE 0)
<1> DEFINE had == task[i] # None /\ task[i].msg.ev = e
           has == task'[i] # None /\ task'[i].msg.ev = e
           A == InHand(e)
           B == InHand(e)'
           C == A \ {i}
<1>1. A = (IF had THEN C \cup {i} ELSE C) /\ B = (IF has THEN C \cup {i} ELSE C)
  BY DEF InHand
<1>2. IsFiniteSet(C) /\ i \notin C /\ Cardinality(C) \in Nat
  BY HandCounted, FS_RemoveElement, FS_CardinalityType
<1> HIDE DEF had, has, A, B, C
<1>3. Cardinality(C \cup {i}) = Cardinality(C) + 1
  BY <1>2, FS_AddElement
<1>4. Cardinality(B) + (IF had THEN 1 ELSE 0) = Cardinality(A) + (IF has THEN 1 ELSE 0)
  BY <1>1, <1>2, <1>3
<1> QED  BY <1>4 DEF had, has, A, B

LEMMA BackendStays == [Next]_vars => backend' = backend
BY DEF Next, vars, centralVars, Broker, Arrives, CentralNext, Ingesting, Accepts, Select, Insert, Update,
       StoreEvent, StatementFails, Remember, Refuses, GoesOffline, Subscribes, StopConsumer

LEMMA CountStep ==
    ASSUME ChannelInv, MessageInv, CountInv, [Next]_vars
    PROVE  CountInv'
<1>1. HistoryTypeOK /\ MessageInv' /\ HistoryTypeOK' /\ backend' = backend
  <2>1. MessageInv'
    BY MessageStep
  <2> QED  BY <2>1, BackendStays DEF MessageInv
<1> SUFFICES ASSUME backend = "sql", NEW r \in Runs \ lost', NEW e \in Got(r)'
             PROVE  Copies(e, stored'[r]) + Cardinality(InFeed(e)') + Cardinality(InHand(e)') = 1 + Copies(e, copied')
  BY <1>1 DEF CountInv
<1>2. r \in Runs \ lost
  BY PlainBefore
<1>3. /\ Copies(e, stored[r]) \in Nat /\ Copies(e, copied) \in Nat
      /\ Cardinality(InFeed(e)) \in Nat /\ Cardinality(InHand(e)) \in Nat
      /\ Cardinality(InHand(e)') \in Nat
  <2>1. stored[r] \in Seq(Got(r)) /\ copied \in Seq(seen)
    BY <1>2 DEF MessageInv
  <2>2. Cardinality(InHand(e)') \in Nat
    BY IngestAssumption, FS_Subset, FS_CardinalityType DEF InHand
  <2> QED  BY <1>1, <2>1, <2>2, CopiesOf, FeedCounted, HandCounted
<1>4. e \in Got(r) => Copies(e, stored[r]) + Cardinality(InFeed(e)) + Cardinality(InHand(e)) = 1 + Copies(e, copied)
  BY <1>2 DEF CountInv
<1>5. ASSUME e \in Got(r), UNCHANGED <<stored, feed, task, copied>>
      PROVE  Copies(e, stored'[r]) + Cardinality(InFeed(e)') + Cardinality(InHand(e)') = 1 + Copies(e, copied')
  <2>1. InFeed(e)' = InFeed(e) /\ InHand(e)' = InHand(e)
    BY <1>5 DEF InFeed, InHand
  <2> QED  BY <1>4, <1>5, <2>1
<1>6. UNCHANGED channelVars => e \in Got(r)
  BY DEF Got, channelVars
<1>7. CASE Offer /\ UNCHANGED <<centralVars, copied>>
  BY <1>2, <1>5, <1>7, OfferMessages DEF centralVars
<1>8. CASE UNCHANGED vars
  BY <1>5, <1>6, <1>8 DEF vars, centralVars
<1>9. CASE Broker
  <2> PICK d \in accepted :
              /\ UNCHANGED <<recorded, task, stored>> /\ seen' = seen \cup {d}
              /\ copied \in Seq(seen) /\ copied' = IF d \in seen THEN Append(copied, d) ELSE copied
              /\ Content(d) \in Messages /\ Content(d).ev = d /\ Content(d).run = recorded[d].run
              /\ consumer = "online" => feed' = Append(feed, Content(d))
              /\ consumer # "online" => feed' = feed /\ lost' = lost \cup ({recorded[d].run} \ {None})
    BY <1>9, BrokerDoes
  <2>1. Got(r)' = IF r = recorded[d].run THEN Got(r) \cup {d} ELSE Got(r)
    BY GotGrows
  <2>2. InHand(e)' = InHand(e)
    BY DEF InHand
  <2>3. Copies(e, copied') = Copies(e, copied) + (IF d = e /\ d \in seen THEN 1 ELSE 0)
    BY <1>3, CopiesAppend
  <2>4. CASE consumer # "online"
    <3>1. r # recorded[d].run /\ recorded[e].run = r
      BY <2>4, Names DEF Got
    <3>2. e # d /\ e \in Got(r) /\ feed' = feed
      BY <2>1, <2>4, <3>1
    <3>3. InFeed(e)' = InFeed(e)
      BY <3>2 DEF InFeed
    <3> QED  BY <1>3, <1>4, <2>2, <2>3, <3>2, <3>3
  <2>5. CASE consumer = "online"
    <3>1. Cardinality(InFeed(e)') = Cardinality(InFeed(e)) + (IF d = e THEN 1 ELSE 0)
      BY <1>1, <2>5, FeedCountGrows
    <3>2. CASE e \in Got(r)
      <4>1. e \in seen
        BY <3>2 DEF Got
      <4> QED  BY <1>3, <1>4, <2>2, <2>3, <3>1, <3>2, <4>1
    <3>3. CASE e \notin Got(r)
      <4>1. d = e /\ e \notin seen
        BY <2>1, <3>3 DEF Got
      <4>2. Copies(e, stored[r]) = 0 /\ Copies(e, copied) = 0
        BY <1>2, <3>3, <4>1, CopiesOf DEF MessageInv
      <4>3. InFeed(e) = {} /\ InHand(e) = {}
        BY <4>1 DEF MessageInv, Genuine, InFeed, InHand
      <4> QED  BY <1>3, <2>2, <2>3, <3>1, <4>1, <4>2, <4>3, FS_EmptySet
    <3> QED  BY <3>2, <3>3
  <2> QED  BY <2>4, <2>5
<1>10. ASSUME NEW i \in Ingests, Accepts(i), UNCHANGED <<channelVars, copied>>
       PROVE  Copies(e, stored'[r]) + Cardinality(InFeed(e)') + Cardinality(InHand(e)') = 1 + Copies(e, copied')
  <2>1. /\ task[i] = None /\ task'[i] # None /\ task'[i].msg = feed[1] /\ stored' = stored
        /\ \A k \in Ingests : k # i => task'[k] = task[k]
        /\ feed # <<>> /\ feed' = Tail(feed)
    BY <1>10, TakesOne
  <2>2. /\ Cardinality(InFeed(e)') \in Nat
        /\ Cardinality(InFeed(e)) = Cardinality(InFeed(e)') + (IF feed[1].ev = e THEN 1 ELSE 0)
    BY <1>1, <2>1, FeedCountMoves
  <2>3. Cardinality(InHand(e)') = Cardinality(InHand(e)) + (IF feed[1].ev = e THEN 1 ELSE 0)
    BY <1>3, <2>1, HandChanges
  <2> QED  BY <1>3, <1>4, <1>6, <1>10, <2>1, <2>2, <2>3
<1>11. ASSUME NEW i \in Ingests, Select(i) \/ Insert(i) \/ Update(i), UNCHANGED <<channelVars, copied>>
       PROVE  Copies(e, stored'[r]) + Cardinality(InFeed(e)') + Cardinality(InHand(e)') = 1 + Copies(e, copied')
  <2>1. /\ UNCHANGED <<feed, stored>> /\ task[i] # None
        /\ task'[i] # None /\ task'[i].msg = task[i].msg /\ \A k \in Ingests : k # i => task'[k] = task[k]
    BY <1>11, Statement
  <2>2. InFeed(e)' = InFeed(e) /\ InHand(e)' = InHand(e)
    BY <2>1 DEF InFeed, InHand
  <2> QED  BY <1>4, <1>6, <1>11, <2>1, <2>2
<1>12. ASSUME NEW i \in Ingests, StoreEvent(i), UNCHANGED <<channelVars, copied>>
       PROVE  Copies(e, stored'[r]) + Cardinality(InFeed(e)') + Cardinality(InHand(e)') = 1 + Copies(e, copied')
  <2> DEFINE m == task[i].msg
  <2>1. /\ feed' = feed /\ task[i] # None /\ m.run \in Runs /\ m.ev \in Got(m.run)
        /\ task'[i] = None /\ \A k \in Ingests : k # i => task'[k] = task[k]
        /\ stored' = [stored EXCEPT ![m.run] = Append(stored[m.run], m.ev)]
        /\ stored \in [Runs -> Seq(Events)] /\ stored[m.run] \in Seq(Got(m.run))
    BY <1>1, <1>12, Stores, Typed DEF MessageInv
  <2>2. Cardinality(InHand(e)') + (IF m.ev = e THEN 1 ELSE 0) = Cardinality(InHand(e))
    BY <1>3, <2>1, HandChanges
  <2>3. e \in Got(r) /\ InFeed(e)' = InFeed(e)
    BY <1>6, <1>12, <2>1 DEF InFeed
  <2>4. m.ev = e => m.run = r
    BY <2>1, <2>3 DEF Got
  <2> HIDE DEF m
  <2>5. Copies(e, stored'[r]) = Copies(e, stored[r]) + (IF m.ev = e THEN 1 ELSE 0)
    <3>1. CASE m.run = r
      <4>1. stored'[r] = Append(stored[r], m.ev)
        BY <2>1, <3>1
      <4> QED  BY <2>1, <3>1, <4>1, CopiesAppend
    <3>2. CASE m.run # r
      <4>1. stored'[r] = stored[r] /\ m.ev # e
        BY <1>2, <2>1, <2>4, <3>2
      <4> QED  BY <1>3, <4>1
    <3> QED  BY <3>1, <3>2
  <2> QED  BY <1>3, <1>4, <1>12, <2>2, <2>3, <2>5
<1>13. ASSUME NEW i \in Ingests, StatementFails(i), UNCHANGED <<channelVars, copied>>
       PROVE  Copies(e, stored'[r]) + Cardinality(InFeed(e)') + Cardinality(InHand(e)') = 1 + Copies(e, copied')
  <2>1. /\ UNCHANGED <<feed, stored>> /\ task[i] # None
        /\ task'[i] = None /\ \A k \in Ingests : k # i => task'[k] = task[k]
        /\ lost' = lost \cup {task[i].msg.run}
    BY <1>13, Fails
  <2>2. e \in Got(r)
    BY <1>6, <1>13
  <2>3. task[i].msg.ev # e
    BY <2>1, <2>2 DEF MessageInv, Genuine, Got
  <2>4. InFeed(e)' = InFeed(e) /\ InHand(e)' = InHand(e)
    BY <2>1, <2>3 DEF InFeed, InHand
  <2> QED  BY <1>4, <1>13, <2>1, <2>2, <2>4
<1>14. ASSUME NEW i \in Ingests, Remember(i) PROVE FALSE
  BY <1>14 DEF Remember
<1>15. CASE UNCHANGED <<channelVars, copied>> /\ (Refuses \/ GoesOffline \/ Subscribes \/ StopConsumer)
  <2>1. e \in Got(r) /\ UNCHANGED <<task, stored, copied>>
    BY <1>6, <1>15, FeedOnly
  <2>2. CASE feed # <<>> /\ feed' = Tail(feed) /\ feed[1].run = None
    <3>1. feed[1].ev # e
      <4>1. Genuine(feed[1])
        BY <1>1, <2>2, FeedMoves DEF MessageInv
      <4> QED  BY <2>1, <2>2, <4>1, Names DEF Got, Genuine
    <3>2. Cardinality(InFeed(e)) = Cardinality(InFeed(e)') /\ Cardinality(InFeed(e)') \in Nat
      BY <1>1, <1>3, <2>2, <3>1, FeedCountMoves
    <3>3. InHand(e)' = InHand(e)
      BY <2>1 DEF InHand
    <3> QED  BY <1>4, <2>1, <3>2, <3>3
  <2>3. CASE feed' = <<>> /\ lost' = lost \cup RunsIn(feed)
    <3>1. \A j \in DOMAIN feed : feed[j].run # r
      BY <2>3, Names DEF RunsIn
    <3>2. InFeed(e) = {} /\ InFeed(e)' = {}
      BY <2>1, <2>3, <3>1 DEF MessageInv, Got, Genuine, InFeed
    <3>3. InHand(e)' = InHand(e)
      BY <2>1 DEF InHand
    <3> QED  BY <1>4, <2>1, <3>2, <3>3
  <2>4. CASE UNCHANGED feed
    BY <1>5, <2>1, <2>4
  <2> QED  BY <1>15, <2>2, <2>3, <2>4, FeedOnly
<1> QED  BY <1>7, <1>8, <1>9, <1>10, <1>11, <1>12, <1>13, <1>14, <1>15, StepIs

-----------------------------------------------------------------------------
(* The pipeline: the store in memory keeps the runs that started last.        *)

Settled(r) ==
    /\ \A j \in DOMAIN feed : feed[j].run # r
    /\ \A i \in Ingests : ~Serving(i, r)

(* A run it was told of is missing only while the store is full of runs that *)
(* started no earlier than one of its events.                                *)
MemoryInv ==
    /\ consumer = "offline" => upsets > 0
    /\ backend = "memory" => Cardinality(Held(runs)) <= RunsKept
    /\ backend = "memory" /\ consumer = "online" /\ upsets = 0 =>
          \A r \in Runs : Got(r) # {} /\ Settled(r) /\ runs[r] = <<>> =>
              /\ Cardinality(Held(runs)) = RunsKept
              /\ \E e \in Got(r) : \A q \in Held(runs) : recorded[e].time <= runs[q][1].started

LEMMA FirstRow ==
    ASSUME MessageInv, NEW q \in Held(runs)
    PROVE  /\ 1 \in DOMAIN runs[q] /\ runs[q][1].started \in Int
           /\ \E e \in Got(q) : runs[q][1].started = recorded[e].time
<1> DEFINE rows == runs[q]
<1>1. q \in Runs /\ rows \in Seq(Row) /\ rows # <<>> /\ \A j \in DOMAIN rows : rows[j].started \in Times
  BY Typed DEF Held, MessageInv
<1>2. 1 \in DOMAIN rows
  <2> HIDE DEF rows
  <2>1. Len(rows) \in Nat \ {0} /\ DOMAIN rows = 1 .. Len(rows)
    BY <1>1, EmptySeq, LenProperties
  <2> QED  BY <2>1
<1>3. RowOf(rows[1], q)
  BY <1>1, <1>2 DEF MessageInv
<1> QED  BY <1>1, <1>2, <1>3, Names DEF RowOf

(* What remembering a message does to the runs held. *)
LEMMA HeldAfter ==
    ASSUME ChannelInv, MessageInv, Cardinality(Held(runs)) <= RunsKept,
           NEW i \in Ingests, Remember(i), UNCHANGED <<channelVars, copied>>
    PROVE  LET s == task[i].msg.run IN
           /\ \A q \in Held(runs)' : q # s => runs'[q] = runs[q]
           /\ \/ /\ s \in Held(runs) /\ Held(runs)' = Held(runs)
                 /\ runs'[s][1].started = runs[s][1].started
              \/ /\ Held(runs)' = Held(runs) \cup {s} /\ Cardinality(Held(runs)') <= RunsKept
                 /\ Cardinality(Held(runs)) < RunsKept
              \/ \E p \in Held(runs) \cup {s} : \E e \in Got(p) :
                    /\ Held(runs)' = (Held(runs) \cup {s}) \ {p}
                    /\ Cardinality(Held(runs)') = RunsKept
                    /\ \A q \in Held(runs)' : recorded[e].time <= runs'[q][1].started
                    /\ p # s => recorded[e].time = runs[p][1].started
<1> DEFINE m == task[i].msg
           s == m.run
           new == IF runs[s] # <<>> THEN Restated(runs[s], m) ELSE <<NewRow(m)>>
           table == [runs EXCEPT ![s] = new]
           held == Held(runs)
<1> PICK out \in SUBSET Runs :
           /\ table \in [Runs -> Seq(Row)] /\ new \in Seq(Row) /\ new # <<>>
           /\ out \in (IF runs[s] # <<>> THEN {{}} ELSE PushedOut(table))
           /\ \A r \in Runs : runs'[r] = IF r \in out THEN <<>> ELSE IF r = s THEN new ELSE runs[r]
  BY Remembers
<1>1. /\ task[i] # None /\ m \in Messages /\ s \in Runs /\ m.ev \in Got(s) /\ m.time = recorded[m.ev].time
      /\ runs \in [Runs -> Seq(Row)] /\ UNCHANGED <<channelVars>>
  <2>1. task[i] # None /\ m \in Messages /\ s \in Runs /\ HistoryTypeOK /\ Genuine(m)
    BY Remembers DEF MessageInv
  <2> QED  BY <2>1, Typed DEF Genuine, Got
<1>3. \A q \in Runs : table[q] = IF q = s THEN new ELSE runs[q]
  BY <1>1
<1>2. /\ Held(runs)' = Held(table) \ out /\ Held(table) = held \cup {s}
      /\ \A q \in Held(runs)' : q \in Runs /\ runs'[q] = table[q]
  <2> HIDE DEF table, new, s
  <2>1. \A r \in Runs : runs'[r] = IF r \in out THEN <<>> ELSE table[r]
    BY <1>3
  <2> QED  BY <1>1, <1>3, <2>1 DEF Held
<1>8. \A q \in Runs : (q \in held) <=> (runs[q] # <<>>)
  BY DEF Held
<1>4. /\ IsFiniteSet(held) /\ Cardinality(held) \in Nat /\ RunsKept \in Nat /\ held \subseteq Runs
      /\ Cardinality(held) <= RunsKept
  BY <1>1, FirstOut, PipelineAssumption DEF Held
<1>5. /\ runs[s] # <<>> => out = {} /\ new = Restated(runs[s], m)
      /\ runs[s] = <<>> => new = <<NewRow(m)>> /\ out \in PushedOut(table)
  OBVIOUS
<1>9. \A q \in Held(runs)' : q # s => runs'[q] = runs[q]
  BY <1>2, <1>3
<1> HIDE DEF table, new, held, s, m
<1>6. CASE runs[s] # <<>>
  <2>1. Held(runs)' = held /\ s \in held
    BY <1>1, <1>2, <1>5, <1>6, <1>8
  <2>2. runs'[s] = Restated(runs[s], m)
    BY <1>1, <1>2, <1>3, <1>5, <1>6, <2>1
  <2>3. runs'[s][1].started = runs[s][1].started
    <3>1. 1 \in DOMAIN runs[s] /\ runs[s] \in Seq(Row)
      BY <1>1, <2>1, FirstRow DEF held
    <3> QED  BY <1>1, <2>2, <3>1, RowsRestated
  <2> QED  BY <1>9, <2>1, <2>3 DEF held, s, m
<1>7. CASE runs[s] = <<>>
  <2>1. s \notin held
    BY <1>1, <1>7, <1>8
  <2>2. IsFiniteSet(held \cup {s}) /\ Cardinality(held \cup {s}) = Cardinality(held) + 1
    BY <1>4, <2>1, FS_AddElement
  <2>3. CASE Cardinality(held) < RunsKept
    <3>1. Cardinality(Held(table)) <= RunsKept
      BY <1>2, <1>4, <2>2, <2>3
    <3>2. out = {}
      BY <1>5, <1>7, <3>1, FirstOut
    <3>3. Held(runs)' = held \cup {s}
      BY <1>2, <3>2
    <3>4. Cardinality(Held(runs)') <= RunsKept
      BY <1>2, <3>1, <3>3
    <3> QED  BY <1>9, <2>3, <3>3, <3>4 DEF held, s, m
  <2>4. CASE Cardinality(held) = RunsKept
    <3>1. Cardinality(Held(table)) > RunsKept
      BY <1>2, <1>4, <2>2, <2>4
    <3>2. PICK p \in Held(table) :
             out = {p} /\ \A q \in Held(table) : table[p][1].started <= table[q][1].started
      BY <1>5, <1>7, <3>1, FirstOut
    <3>3. p \in held \cup {s} /\ Held(runs)' = (held \cup {s}) \ {p}
      BY <1>2, <3>2
    <3>4. PICK e \in Got(p) : table[p][1].started = recorded[e].time /\ (p # s => recorded[e].time = runs[p][1].started)
      <4>1. CASE p = s
        <5> DEFINE x == NewRow(m)
        <5>1. x.started = m.time
          BY <1>1, RowMade
        <5>2. table[p] = <<x>>
          BY <1>1, <1>3, <1>5, <1>7, <4>1
        <5> HIDE DEF x
        <5>3. table[p][1] = x
          BY <5>2
        <5> QED  BY <1>1, <4>1, <5>1, <5>3
      <4>2. CASE p # s
        <5>1. p \in held /\ table[p] = runs[p]
          BY <1>3, <1>4, <3>3, <4>2
        <5>2. \E e \in Got(p) : runs[p][1].started = recorded[e].time
          BY <5>1, FirstRow DEF held
        <5> QED  BY <5>1, <5>2
      <4> QED  BY <4>1, <4>2
    <3>5. \A q \in Held(runs)' : recorded[e].time <= runs'[q][1].started
      BY <1>2, <3>2, <3>4
    <3>7. Cardinality(Held(runs)') = RunsKept
      <4> DEFINE H == held \cup {s}
      <4>1. IsFiniteSet(H) /\ p \in H /\ Cardinality(H) = RunsKept + 1
        BY <2>2, <2>4, <3>3
      <4> HIDE DEF H
      <4>2. Cardinality(H \ {p}) = Cardinality(H) - 1
        BY <4>1, FS_RemoveElement
      <4>3. Cardinality(H \ {p}) = RunsKept
        BY <1>4, <4>1, <4>2
      <4> QED  BY <3>3, <4>3 DEF H
    <3> QED  BY <1>9, <3>3, <3>4, <3>5, <3>7 DEF held, s, m
  <2>5. Cardinality(held) < RunsKept \/ Cardinality(held) = RunsKept
    BY <1>4
  <2> QED  BY <2>3, <2>4, <2>5
<1> QED  BY <1>6, <1>7

LEMMA MemoryStep ==
    ASSUME ChannelInv, MessageInv, MemoryInv, [Next]_vars
    PROVE  MemoryInv'
<1>1. backend' = backend /\ HistoryTypeOK /\ upsets \in Nat
  BY BackendStays, PipelineAssumption DEF MessageInv, HistoryTypeOK
<1>2. Held(runs)' = Held(runs')
  OBVIOUS
(* A step that leaves the runs alone keeps it, if what is settled after it    *)
(* was so before.                                                            *)
<1>3. ASSUME runs' = runs, consumer' = "offline" => upsets' > 0,
             backend = "memory" /\ consumer' = "online" /\ upsets' = 0 =>
                /\ consumer = "online" /\ upsets = 0
                /\ \A r \in Runs : Got(r)' # {} /\ Settled(r)' =>
                      /\ Got(r) # {} /\ Settled(r)
                      /\ \A e \in Got(r) : e \in Got(r)' /\ recorded'[e] = recorded[e]
      PROVE  MemoryInv'
  <2>1. Held(runs)' = Held(runs)
    BY <1>3 DEF Held
  <2>2. ASSUME backend = "memory", consumer' = "online", upsets' = 0, NEW r \in Runs,
               Got(r)' # {}, Settled(r)', runs[r] = <<>>
        PROVE  /\ Cardinality(Held(runs)) = RunsKept
               /\ \E e \in Got(r)' : \A q \in Held(runs) : recorded'[e].time <= runs[q][1].started
    <3>1. /\ Cardinality(Held(runs)) = RunsKept
          /\ \E e \in Got(r) : \A q \in Held(runs) : recorded[e].time <= runs[q][1].started
      BY <1>3, <2>2 DEF MemoryInv
    <3> QED  BY <1>3, <2>2, <3>1
  <2> QED  BY <1>1, <1>3, <2>1, <2>2 DEF MemoryInv
<1>4. CASE UNCHANGED <<seen, recorded, consumer, upsets, feed, task, runs>>
  <2>1. \A r : Got(r)' = Got(r) /\ Settled(r)' = Settled(r)
    BY <1>4 DEF Got, Settled, Serving
  <2> QED  BY <1>3, <1>4, <2>1 DEF MemoryInv
<1>5. CASE UNCHANGED vars
  BY <1>4, <1>5 DEF vars, channelVars, centralVars
<1>6. CASE Offer /\ UNCHANGED <<centralVars, copied>>
  <2>1. /\ UNCHANGED <<consumer, upsets, feed, task, runs>> /\ \A r \in Runs : Got(r)' = Got(r)
        /\ \A r : \A e \in Got(r) : recorded'[e] = recorded[e]
    BY <1>6, OfferMessages DEF centralVars, Got
  <2>2. \A r : Settled(r)' = Settled(r)
    BY <2>1 DEF Settled, Serving
  <2> QED  BY <1>3, <2>1, <2>2 DEF MemoryInv
<1>7. CASE Broker
  <2> PICK d \in accepted :
              /\ UNCHANGED <<recorded, consumer, task, runs, upsets>> /\ seen' = seen \cup {d}
              /\ Content(d) \in Messages /\ Content(d).run = recorded[d].run
              /\ consumer = "online" => feed' = Append(feed, Content(d))
    BY <1>7, BrokerDoes
  <2>1. \A r : Got(r)' = IF r = recorded[d].run THEN Got(r) \cup {d} ELSE Got(r)
    BY GotGrows
  <2>2. CASE consumer = "online"
    <3> DEFINE n == Len(feed)
    <3>1. /\ n \in Nat /\ DOMAIN feed = 1 .. n /\ DOMAIN feed' = 1 .. (n + 1)
          /\ feed'[n + 1] = Content(d) /\ \A j \in DOMAIN feed : feed'[j] = feed[j]
      BY <1>1, <2>2, FeedGrows
    <3> HIDE DEF n
    <3>2. n + 1 \in DOMAIN feed' /\ DOMAIN feed \subseteq DOMAIN feed'
      BY <3>1
    <3>3. \A r \in Runs : Settled(r)' => r # recorded[d].run /\ Settled(r)
      <4> SUFFICES ASSUME NEW r \in Runs, Settled(r)' PROVE r # recorded[d].run /\ Settled(r)
        OBVIOUS
      <4>1. \A j \in DOMAIN feed' : feed'[j].run # r
        BY DEF Settled
      <4>2. \A i \in Ingests : ~Serving(i, r)
        BY DEF Settled, Serving
      <4> QED  BY <3>1, <3>2, <4>1, <4>2 DEF Settled
    <3> QED  BY <1>3, <2>1, <2>2, <3>3 DEF MemoryInv
  <2>3. CASE consumer # "online"
    BY <1>3, <2>3 DEF MemoryInv
  <2> QED  BY <2>2, <2>3
<1>8. ASSUME UNCHANGED channelVars PROVE recorded' = recorded /\ \A r : Got(r)' = Got(r)
  BY <1>8 DEF Got, channelVars
<1>9. ASSUME NEW i \in Ingests, Accepts(i), UNCHANGED <<channelVars, copied>> PROVE MemoryInv'
  <2>1. /\ UNCHANGED <<consumer, runs, upsets>>
        /\ task[i] = None /\ task'[i] # None /\ task'[i].msg = feed[1]
        /\ \A k \in Ingests : k # i => task'[k] = task[k]
        /\ feed # <<>> /\ feed' = Tail(feed)
    BY <1>9, TakesOne
  <2>2. \A j \in DOMAIN feed : j # 1 => j - 1 \in DOMAIN feed' /\ feed'[j - 1] = feed[j]
    BY <1>1, <2>1, FeedMoves
  <2>3. ASSUME NEW r \in Runs, Settled(r)' PROVE Settled(r)
    <3>1. \A j \in DOMAIN feed' : feed'[j].run # r
      BY <2>3 DEF Settled
    <3>2. \A k \in Ingests : ~(task'[k] # None /\ task'[k].msg.run = r)
      BY <2>3 DEF Settled, Serving
    <3>3. feed[1].run # r /\ \A k \in Ingests : ~Serving(k, r)
      BY <2>1, <3>2 DEF Serving
    <3>4. \A j \in DOMAIN feed : feed[j].run # r
      BY <2>2, <3>1, <3>3
    <3> QED  BY <3>3, <3>4 DEF Settled
  <2> QED  BY <1>3, <1>8, <1>9, <2>1, <2>3 DEF MemoryInv
<1>10. ASSUME NEW i \in Ingests, Select(i) \/ Insert(i) \/ Update(i) \/ StoreEvent(i) \/ StatementFails(i),
              UNCHANGED <<channelVars, copied>>
       PROVE  MemoryInv'
  <2>1. backend = "sql" /\ (consumer' = consumer) /\ (upsets' = upsets \/ upsets' = upsets + 1)
    BY <1>10 DEF Select, Insert, Update, StoreEvent, StatementFails, At, Upset
  <2> QED  BY <1>1, <2>1 DEF MemoryInv
<1>11. CASE UNCHANGED <<channelVars, copied>> /\ (Refuses \/ GoesOffline \/ Subscribes \/ StopConsumer)
  <2>1. UNCHANGED <<task, runs>> /\ (consumer' = "offline" => upsets' > 0)
        /\ (upsets' = upsets \/ upsets' = upsets + 1)
    <3>1. UNCHANGED <<task, runs>>
      BY <1>11, FeedOnly
    <3>2. consumer' = "offline" => upsets' > 0
      BY <1>1, <1>11 DEF MemoryInv, Refuses, GoesOffline, Subscribes, StopConsumer, Upset
    <3>3. upsets' = upsets \/ upsets' = upsets + 1
      BY <1>11, FeedOnly
    <3> QED  BY <3>1, <3>2, <3>3
  <2>2. CASE feed # <<>> /\ feed' = Tail(feed) /\ feed[1].run = None /\ UNCHANGED <<consumer, upsets>>
    <3>1. \A j \in DOMAIN feed : j # 1 => j - 1 \in DOMAIN feed' /\ feed'[j - 1] = feed[j]
      BY <1>1, <2>2, FeedMoves
    <3>2. ASSUME NEW r \in Runs, Settled(r)' PROVE Settled(r)
      <4>1. \A j \in DOMAIN feed' : feed'[j].run # r
        BY <3>2 DEF Settled
      <4>2. \A k \in Ingests : ~Serving(k, r)
        BY <2>1, <3>2 DEF Settled, Serving
      <4>3. feed[1].run # r
        BY <2>2, Names
      <4> QED  BY <3>1, <4>1, <4>2, <4>3 DEF Settled
    <3> QED  BY <1>3, <1>8, <1>11, <2>1, <2>2, <3>2
  <2>3. CASE consumer' # "online"
    BY <1>3, <2>1, <2>3
  <2>4. CASE UNCHANGED upsets /\ consumer = "offline"
    BY <1>1, <1>3, <2>1, <2>4 DEF MemoryInv
  <2> QED  BY <1>11, <2>2, <2>3, <2>4, FeedOnly
<1>12. ASSUME NEW i \in Ingests, Remember(i), UNCHANGED <<channelVars, copied>> PROVE MemoryInv'
  <2> DEFINE s == task[i].msg.run
  <2>1. /\ UNCHANGED <<consumer, feed, upsets>> /\ backend = "memory" /\ task[i] # None /\ s \in Runs
        /\ task'[i] = None /\ \A k \in Ingests : k # i => task'[k] = task[k]
    BY <1>12, Remembers
  <2>2. \A r \in Runs : Settled(r)' => Settled(r) \/ r = s
    BY <2>1 DEF Settled, Serving
  <2>3. /\ \A q \in Held(runs)' : q # s => runs'[q] = runs[q]
        /\ \/ /\ s \in Held(runs) /\ Held(runs)' = Held(runs)
              /\ runs'[s][1].started = runs[s][1].started
           \/ /\ Held(runs)' = Held(runs) \cup {s} /\ Cardinality(Held(runs)') <= RunsKept
              /\ Cardinality(Held(runs)) < RunsKept
           \/ \E p \in Held(runs) \cup {s} : \E e \in Got(p) :
                 /\ Held(runs)' = (Held(runs) \cup {s}) \ {p}
                 /\ Cardinality(Held(runs)') = RunsKept
                 /\ \A q \in Held(runs)' : recorded[e].time <= runs'[q][1].started
                 /\ p # s => recorded[e].time = runs[p][1].started
    BY <1>12, <2>1, HeldAfter DEF MemoryInv
  <2>4. /\ \A q \in Runs : q \in Held(runs)' <=> runs'[q] # <<>>
        /\ \A q \in Held(runs) : runs[q][1].started \in Int
        /\ \A q \in Held(runs)' : runs'[q][1].started \in Int
    <3>1. MessageInv'
      BY <1>12, Remembers
    <3>2. \A q \in Held(runs)' : runs'[q][1].started \in Int
      <4> SUFFICES ASSUME NEW q \in Runs, runs'[q] # <<>> PROVE runs'[q][1].started \in Int
        BY DEF Held
      <4> DEFINE rows == runs'[q]
      <4>1. rows \in Seq(Row) /\ rows # <<>>
        BY <3>1 DEF MessageInv, HistoryTypeOK
      <4>2. rows[1] \in Row
        <5> HIDE DEF rows
        <5> QED  BY <4>1, EmptySeq, LenProperties, ElementOfSeq
      <4> QED  BY <4>2, Names DEF Row
    <3> QED  BY <3>2, FirstRow DEF Held
  <2>5. /\ Cardinality(Held(runs)) <= RunsKept /\ RunsKept \in Nat /\ Cardinality(Held(runs)) \in Nat
        /\ recorded' = recorded /\ \A r : Got(r)' = Got(r)
        /\ \A r : \A e \in Got(r) : recorded[e].time \in Int
    <3>1. \A r : \A e \in Got(r) : recorded[e].time \in Int
      BY ChannelTypes, Names DEF Got
    <3> QED  BY <1>1, <1>8, <1>12, <2>1, <3>1, FirstOut, PipelineAssumption, Typed DEF MemoryInv
  <2>6. Cardinality(Held(runs)') <= RunsKept
    BY <2>3, <2>5
  <2>7. ASSUME consumer = "online", upsets = 0,
               NEW r \in Runs, Got(r) # {}, Settled(r)', r \notin Held(runs)'
        PROVE  /\ Cardinality(Held(runs)') = RunsKept
               /\ \E d \in Got(r) : \A q \in Held(runs)' : recorded[d].time <= runs'[q][1].started
    <3>1. r \notin Held(runs) /\ r # s =>
             /\ Cardinality(Held(runs)) = RunsKept
             /\ \E d \in Got(r) : \A q \in Held(runs) : recorded[d].time <= runs[q][1].started
      BY <2>1, <2>2, <2>7 DEF MemoryInv, Held
    <3> HIDE DEF s
    <3>2. CASE s \in Held(runs) /\ Held(runs)' = Held(runs) /\ runs'[s][1].started = runs[s][1].started
      <4>1. \A q \in Held(runs)' : q \in Held(runs) /\ runs'[q][1].started = runs[q][1].started
        BY <2>3, <3>2
      <4> QED  BY <2>7, <3>1, <3>2, <4>1
    <3>3. CASE Held(runs)' = Held(runs) \cup {s} /\ Cardinality(Held(runs)) < RunsKept
      BY <2>5, <2>7, <3>1, <3>3
    <3>4. ASSUME NEW p \in Held(runs) \cup {s}, NEW e \in Got(p), Held(runs)' = (Held(runs) \cup {s}) \ {p},
                 Cardinality(Held(runs)') = RunsKept,
                 \A q \in Held(runs)' : recorded[e].time <= runs'[q][1].started,
                 p # s => recorded[e].time = runs[p][1].started
          PROVE  \E d \in Got(r) : \A q \in Held(runs)' : recorded[d].time <= runs'[q][1].started
      <4>1. CASE r = p
        BY <3>4, <4>1
      <4>2. CASE r # p
        <5>1. PICK d \in Got(r) : \A q \in Held(runs) : recorded[d].time <= runs[q][1].started
          BY <2>7, <3>1, <3>4, <4>2
        <5>2. CASE p = s
          <6>1. \A q \in Held(runs)' : q \in Held(runs) /\ runs'[q] = runs[q]
            BY <2>3, <3>4, <5>2
          <6> QED  BY <5>1, <6>1
        <5>3. CASE p # s
          <6>1. recorded[d].time <= recorded[e].time /\ recorded[d].time \in Int /\ recorded[e].time \in Int
            BY <2>5, <3>4, <5>1, <5>3
          <6>2. \A q \in Held(runs)' : recorded[d].time <= runs'[q][1].started
            BY <2>4, <3>4, <6>1
          <6> QED  BY <6>2
        <5> QED  BY <5>2, <5>3
      <4> QED  BY <4>1, <4>2
    <3> QED  BY <2>3, <3>2, <3>3, <3>4
  <2>8. ASSUME consumer' = "online", upsets' = 0,
               NEW r \in Runs, Got(r)' # {}, Settled(r)', runs'[r] = <<>>
        PROVE  /\ Cardinality(Held(runs)') = RunsKept
               /\ \E d \in Got(r)' : \A q \in Held(runs)' : recorded'[d].time <= runs'[q][1].started
    BY <2>1, <2>4, <2>5, <2>7, <2>8
  <2> QED  BY <1>1, <2>1, <2>6, <2>8 DEF MemoryInv
<1> QED  BY <1>5, <1>6, <1>7, <1>9, <1>10, <1>11, <1>12, StepIs

-----------------------------------------------------------------------------
(* The pipeline: the invariant, and what it says once everything has settled. *)

PipelineInv ==
    /\ ChannelInv /\ MessageInv /\ RowInv /\ HeldInv /\ DoneInv
    /\ ArrivalInv /\ StatusInv /\ CountInv /\ MemoryInv

LEMMA PipelineInitInv == Init => PipelineInv
<1> SUFFICES ASSUME Init PROVE PipelineInv
  OBVIOUS
<1>1. ChannelInv /\ MessageInv
  BY InitMessages
<1>2. /\ seen = {} /\ feed = <<>> /\ DOMAIN feed = {} /\ consumer = "online"
      /\ \A i \in Ingests : task[i] = None
      /\ \A r \in Runs : runs[r] = <<>> /\ Len(runs[r]) = 0 /\ DOMAIN runs[r] = {}
  BY DEF Init, ChannelInit, HistoryInit
<1>3. \A r : Got(r) = {}
  BY <1>2 DEF Got
<1>4. RowInv /\ HeldInv
  BY <1>2 DEF RowInv, HeldInv, Serving
<1>5. DoneInv /\ ArrivalInv /\ StatusInv /\ CountInv
  BY <1>2, <1>3 DEF DoneInv, ArrivalInv, Arrival, Serving, StatusInv, CountInv
<1>6. MemoryInv
  <2>1. Held(runs) = {} /\ RunsKept \in Nat
    BY <1>2, PipelineAssumption DEF Held
  <2> QED  BY <1>2, <1>3, <2>1, FS_EmptySet DEF MemoryInv
<1> QED  BY <1>1, <1>4, <1>5, <1>6 DEF PipelineInv

(* The invariant of the channel, the consumer and the store. *)
THEOREM PipelineInvariant == Spec => []PipelineInv
<1>1. PipelineInv /\ [Next]_vars => PipelineInv'
  <2> SUFFICES ASSUME PipelineInv, [Next]_vars PROVE PipelineInv'
    OBVIOUS
  <2>1. ChannelInv' /\ MessageInv'
    BY MessageStep DEF PipelineInv
  <2>2. RowInv' /\ HeldInv'
    BY RowStep, HeldStep DEF PipelineInv
  <2>3. DoneInv' /\ ArrivalInv' /\ StatusInv'
    BY DoneStep, ArrivalStep, StatusStep DEF PipelineInv
  <2>4. CountInv' /\ MemoryInv'
    BY CountStep, MemoryStep DEF PipelineInv
  <2> QED  BY <2>1, <2>2, <2>3, <2>4 DEF PipelineInv
<1> QED  BY <1>1, PipelineInitInv, PTL DEF Spec

(* Every variable of the log store, the channel, the consumer and the store   *)
(* keeps its type.                                                           *)
THEOREM PipelineTypeCorrect == Spec => []TypeOK
<1>1. PipelineInv => TypeOK
  <2> SUFFICES ASSUME PipelineInv PROVE TypeOK
    OBVIOUS
  <2>1. ChannelTypeOK /\ HistoryTypeOK /\ copied \in Seq(seen)
    BY DEF PipelineInv, ChannelInv, MessageInv
  <2>2. seen \subseteq Events
    BY <2>1 DEF ChannelTypeOK
  <2> QED  BY <2>1, <2>2, SeqMonotonic DEF TypeOK
<1> QED  BY <1>1, PipelineInvariant, PTL

(* An undisturbed run whose events have all been received is one row. *)
LEMMA AtRest ==
    ASSUME PipelineInv, NEW r \in Runs, Undisturbed(r), EventsOf(r) # {}
    PROVE  /\ r \notin lost /\ r \notin crossed /\ Got(r) = EventsOf(r) /\ Told(r) = Telling(r)
           /\ \A e : InFeed(e) = {} /\ InHand(e) = {}
           /\ Len(runs[r]) = 1 /\ 1 \in DOMAIN runs[r]
<1>1. HistoryTypeOK /\ feed = <<>> /\ (\A i \in Ingests : task[i] = None) /\ r \notin lost /\ r \notin crossed
  BY DEF Undisturbed, Quiet, PipelineInv, MessageInv
<1>2. \A e : ~Due(e) /\ InFeed(e) = {} /\ InHand(e) = {}
  BY <1>1 DEF Due, InFeed, InHand
<1>3. Got(r) = EventsOf(r)
  BY ChannelTypes DEF PipelineInv, Undisturbed, Got, EventsOf
<1>4. Told(r) = Telling(r)
  BY <1>2, <1>3 DEF Told, Telling
<1>5. runs[r] # <<>>
  BY <1>1, <1>2, <1>3 DEF PipelineInv, DoneInv
<1>6. Len(runs[r]) <= 1
  BY <1>1 DEF PipelineInv, RowInv
<1>7. Len(runs[r]) = 1 /\ DOMAIN runs[r] = 1 .. Len(runs[r])
  <2> DEFINE rows == runs[r]
  <2>1. rows \in Seq(Row)
    BY <1>1, Typed
  <2>2. Len(rows) \in Nat \ {0} /\ DOMAIN rows = 1 .. Len(rows)
    BY <1>5, <2>1, EmptySeq, LenProperties
  <2>3. Len(rows) <= 1
    BY <1>6
  <2> HIDE DEF rows
  <2>4. Len(rows) = 1 /\ DOMAIN rows = 1 .. Len(rows)
    BY <2>2, <2>3
  <2> QED  BY <2>4 DEF rows
<1> QED  BY <1>1, <1>2, <1>3, <1>4, <1>7

(* The event that told a run's state last. *)
LEMMA LastIsGreatest ==
    ASSUME NEW S \in SUBSET Int, NEW e \in S, \A d \in S : d <= e
    PROVE  LastOf(S) = e
<1>1. \A x \in S : (\A d \in S : d <= x) => x = e
  BY DEF LastOf
<1> QED  BY <1>1 DEF LastOf

(* Once the pipeline is at rest, the central history of a run that met no     *)
(* fault, overflow or overlap agrees with the device: one row, in the state    *)
(* the device recorded and shows last, and every event stored once for every   *)
(* time it was received.                                                     *)
THEOREM HistoryAgreesAlways == Spec => []HistoryAgrees
<1>1. PipelineInv => HistoryAgrees
  <2> SUFFICES ASSUME PipelineInv PROVE HistoryAgrees
    OBVIOUS
  <2>1. OneRow
    <3> SUFFICES ASSUME NEW r \in Runs, r \notin crossed, Len(runs[r]) > 1 PROVE FALSE
      BY DEF OneRow
    <3>1. Len(runs[r]) <= 1 /\ Len(runs[r]) \in Nat
      BY Typed DEF PipelineInv, MessageInv, RowInv
    <3> QED  BY <3>1
  <2> SUFFICES ASSUME NEW r \in Runs, Undisturbed(r), EventsOf(r) # {}
               PROVE  StateAgrees(r) /\ LogAgrees(r) /\ EventsStored(r)
    BY <2>1 DEF HistoryAgrees
  <2>2. /\ r \notin lost /\ r \notin crossed /\ Got(r) = EventsOf(r) /\ Told(r) = Telling(r)
        /\ \A e : InFeed(e) = {} /\ InHand(e) = {}
        /\ Len(runs[r]) = 1 /\ 1 \in DOMAIN runs[r]
    BY AtRest
  <2>3. Telling(r) = {} => runs[r][1].status = "unknown"
    <3>1. RowOf(runs[r][1], r)
      BY <2>2 DEF PipelineInv, MessageInv
    <3> QED  BY <2>2, <3>1 DEF RowOf, Telling
  <2>4. ASSUME Telling(r) # {}, Range(copied) \cap EventsOf(r) = {}
        PROVE  /\ LastOf(Telling(r)) \in Telling(r) /\ \A d \in Telling(r) : d <= LastOf(Telling(r))
               /\ runs[r][1].status = StatusOf(recorded[LastOf(Telling(r))].type)
    <3>1. Plain(r)
      <4>1. \A j \in DOMAIN copied : copied[j] \in seen /\ copied[j] \in DOMAIN recorded
        BY ChannelTypes, LenProperties, ElementOfSeq DEF PipelineInv, MessageInv
      <4>2. \A j \in DOMAIN copied : copied[j] \notin EventsOf(r)
        BY <2>4 DEF Range
      <4> QED  BY <2>2, <4>1, <4>2 DEF Plain, EventsOf
    <3>2. States(runs[r][1], r)
      BY <2>2, <3>1 DEF PipelineInv, StatusInv
    <3>3. PICK e \in Telling(r) : runs[r][1].status = StatusOf(recorded[e].type) /\ \A d \in Telling(r) : d <= e
      BY <2>2, <2>4, <3>2 DEF States
    <3>4. Telling(r) \in SUBSET Int
      <4>1. \A d \in DOMAIN recorded : d \in Int
        BY ChannelTypes DEF PipelineInv
      <4> QED  BY <4>1 DEF Telling, EventsOf
    <3>5. LastOf(Telling(r)) = e
      <4> HIDE DEF Telling
      <4> QED  BY <3>3, <3>4, LastIsGreatest
    <3> QED  BY <3>3, <3>5
  <2>5. StateAgrees(r)
    BY <2>2, <2>3, <2>4 DEF StateAgrees
  <2>6. LogAgrees(r)
    <3> DEFINE told == {d \in DOMAIN recorded : StatusOf(recorded[d].type) # None}
               e == LastOf(Telling(r))
    <3> SUFFICES ASSUME Telling(r) # {}, LastOf(told) \in Telling(r), Range(copied) \cap EventsOf(r) = {}
                 PROVE  log.status = runs[r][1].status
      BY DEF LogAgrees
    <3>1. e \in Telling(r) /\ (\A d \in Telling(r) : d <= e) /\ runs[r][1].status = StatusOf(recorded[e].type)
      BY <2>4
    <3>2. told \in SUBSET Int /\ Telling(r) \subseteq told
      BY ChannelTypes DEF PipelineInv, Telling, EventsOf
    <3>3. PICK x \in told : log.status = StatusOf(recorded[x].type) /\ \A d \in told : d <= x
      BY <3>1, <3>2 DEF PipelineInv, ChannelInv, LogTells
    <3>6. LastOf(told) \in Telling(r) /\ e \in told
      BY <3>1, <3>2
    <3> HIDE DEF e, told
    <3>4. LastOf(told) = x
      BY <3>2, <3>3, LastIsGreatest
    <3>5. x = e
      <4>1. x \in Int /\ e \in Int /\ x <= e /\ e <= x
        BY <3>1, <3>2, <3>3, <3>4, <3>6
      <4> QED  BY <4>1
    <3> QED  BY <3>1, <3>3, <3>5
  <2>7. EventsStored(r)
    <3> SUFFICES ASSUME backend = "sql", NEW e \in EventsOf(r) PROVE Copies(e, stored[r]) = 1 + Copies(e, copied)
      BY DEF EventsStored
    <3>1. Copies(e, stored[r]) + Cardinality(InFeed(e)) + Cardinality(InHand(e)) = 1 + Copies(e, copied)
      BY <2>2 DEF PipelineInv, CountInv
    <3>2. Copies(e, stored[r]) \in Nat
      BY CopiesOf DEF PipelineInv, MessageInv
    <3>3. Cardinality(InFeed(e)) = 0 /\ Cardinality(InHand(e)) = 0
      BY <2>2, FS_EmptySet
    <3> QED  BY <3>1, <3>2, <3>3
  <2> QED  BY <2>5, <2>6, <2>7
<1> QED  BY <1>1, PipelineInvariant, PTL

(* Once the pipeline is at rest, a run that the store in memory was told of   *)
(* and no longer holds started, by one of its events, no later than each of   *)
(* the runs that fill the store, whatever order the events came in.           *)
THEOREM NewestKeptAlways == Spec => []NewestKept
<1>1. PipelineInv => NewestKept
  <2> SUFFICES ASSUME PipelineInv, backend = "memory", Quiet, consumer = "online", upsets = 0,
                      NEW r \in Runs, runs[r] = <<>>, EventsOf(r) \cap seen # {}
               PROVE  /\ Cardinality(Held(runs)) = RunsKept
                      /\ \E e \in EventsOf(r) \cap seen :
                             \A q \in Held(runs) : recorded[e].time <= runs[q][1].started
    BY DEF NewestKept
  <2>1. Got(r) = EventsOf(r) \cap seen
    BY ChannelTypes DEF PipelineInv, Got, EventsOf
  <2>2. Settled(r)
    BY DEF Quiet, Settled, Serving
  <2> QED  BY <2>1, <2>2 DEF PipelineInv, MemoryInv
<1> QED  BY <1>1, PipelineInvariant, PTL
=============================================================================
