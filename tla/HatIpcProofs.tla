---------------------------- MODULE HatIpcProofs ----------------------------
(***************************************************************************)
(* Proofs about the HAT daemon's client, for any number of callers, lines   *)
(* and connections.                                                         *)
(***************************************************************************)
EXTENDS HatIpc, FiniteSetTheorems, TLAPS

(* What a request remembers, and that the lock holds one of them. *)
CallsKnow ==
    \A c \in Callers :
        /\ call[c].pc # "idle" => call[c].reply = None
        /\ call[c].pc \in {"idle", "waiting"} => call[c].try = 1
        /\ call[c].pc \in {"connect", "send", "sent", "reading"} <=> lock = c
        /\ call[c].pc = "reading" => reader # None
        /\ call[c].try = 2 \/ call[c].pc \in {"sent", "reading"} => call[c].cmd # None

(* Socket and reader are those of one accepted connection; nothing is on a   *)
(* connection not yet accepted, and no line on one that was dropped.         *)
ConnsKnown ==
    /\ sock # None => sock <= opened
    /\ reader # None => reader <= opened
    /\ sock # None /\ reader # None => sock = reader
    /\ \A k \in Conns : k > opened => requests[k] = <<>> /\ answers[k] = <<>>
    /\ \A k \in dropped : requests[k] = <<>>

Empty(k) == requests[k] = <<>> /\ answers[k] = <<>>

(* All that is on connection k is the line of caller c, or its answer. *)
Carries(k, c) ==
    \/ answers[k] = <<>> /\ \E line \in Line : line.id = call[c].id /\ requests[k] = <<line>>
    \/ requests[k] = <<>> /\ answers[k] = <<call[c].id>>

(* A reader that never timed out has nothing to read but the answer to the   *)
(* request that is in hand.                                                  *)
InFlight ==
    reader # None /\ reader \notin timedout =>
        \/ Empty(reader)
        \/ \E c \in Callers : call[c].pc \in {"sent", "reading"} /\ Carries(reader, c)

Inv == TypeOK /\ CallsKnow /\ ConnsKnown /\ InFlight /\ RetryIsFresh /\ AnswerIsOwn

-----------------------------------------------------------------------------
LEMMA InitInv == Init => Inv
<1> SUFFICES ASSUME Init PROVE Inv
  OBVIOUS
<1>1. Idle \in CallType
  BY DEF Idle, CallType
<1>2. TypeOK
  BY <1>1, SendsAssumption DEF Init, TypeOK, Conns, Ids, Line
<1>3. CallsKnow /\ ConnsKnown /\ InFlight /\ RetryIsFresh /\ AnswerIsOwn
  BY SendsAssumption DEF Init, CallsKnow, ConnsKnown, InFlight, RetryIsFresh, AnswerIsOwn, Idle
<1> QED  BY <1>2, <1>3 DEF Inv

(* One element queues. *)
LEMMA Singles ==
    ASSUME NEW S, NEW x \in S
    PROVE  /\ <<x>> \in Seq(S) /\ <<>> \in Seq(S)
           /\ Append(<<>>, x) = <<x>> /\ Head(<<x>>) = x /\ Tail(<<x>>) = <<>>
           /\ <<x>> # <<>>
OBVIOUS

(* Types of a request's record. *)
LEMMA IdleType == Idle \in CallType
BY DEF Idle, CallType

-----------------------------------------------------------------------------
(* Types. *)

LEMMA CallerTypes ==
    ASSUME Inv, NEW c \in Callers, Call(c) \/ Enter(c) \/ Proceeds(c)
    PROVE  TypeOK'
<1> USE DEF Inv, TypeOK
<1>0. call[c] \in CallType /\ Idle \in CallType
  BY IdleType
<1>1. \A a \in Ids \cup {None} :
          [call EXCEPT ![c] = [Idle EXCEPT !.id = call[c].id, !.reply = a]]
             \in [Callers -> CallType]
  BY <1>0 DEF CallType, Idle
<1>2. CASE Call(c) \/ Enter(c)
  <2>1. \A pc \in {"waiting", "connect", "send"} :
            [call[c] EXCEPT !.pc = pc] \in CallType /\ [Idle EXCEPT !.pc = pc] \in CallType
    BY <1>0 DEF CallType
  <2>2. call' \in [Callers -> CallType] /\ lock' \in Callers \cup {None}
    BY <1>2, <2>1 DEF Call, Enter
  <2> QED  BY <1>2, <2>2 DEF Call, Enter, daemonVars
<1>3. CASE Connect(c)
  <2>1. opened' \in 0 .. MaxConns /\ opened < opened' /\ sock' \in Conns /\ reader' \in Conns
    BY <1>3, SendsAssumption DEF Connect, Conns
  <2>2. timedout \subseteq 1 .. opened' /\ dropped \subseteq 1 .. opened'
    BY <2>1
  <2> QED  BY <1>0, <1>3, <2>1, <2>2 DEF Connect, CallType
<1>4. CASE ConnectFails(c) \/ ReadCrashes(c)
  <2>1. call' \in [Callers -> CallType] /\ lock' = None
    <3>1. Return(c, None)
      BY <1>4 DEF ConnectFails, ReadCrashes
    <3> QED  BY <1>1, <3>1 DEF Return
  <2> QED  BY <1>4, <2>1 DEF ConnectFails, ReadCrashes, daemonVars
<1>5. ASSUME Send(c) \/ SendFails(c)
      PROVE  Numbered(c) \in CallType /\ counter' \in 0 .. MaxSends /\ counter + 1 \in Ids
             /\ Numbered(c).cmd \in Ids \cup {None}
  <2>1. counter < MaxSends /\ counter' = counter + 1
    BY <1>5 DEF Send, SendFails
  <2>2. counter + 1 \in Ids /\ counter' \in 0 .. MaxSends
    BY <2>1, SendsAssumption DEF Ids
  <2>3. call[c].cmd \in Ids \cup {None}
    BY <1>0 DEF CallType
  <2> QED  BY <1>0, <2>2, <2>3 DEF Numbered, CallType
<1>6. CASE Send(c)
  <2>0. call[c].try \in {1, 2} /\ (call[c].try = 2 => call[c].cmd \in Ids)
    BY <1>0 DEF CallType, CallsKnow
  <2>1. Numbered(c).cmd \in Ids
    BY <1>0, <1>5, <1>6, <2>0 DEF Numbered, CallType
  <2>4. [id |-> counter + 1, cmd |-> Numbered(c).cmd] \in Line /\ sock \in Conns
    BY <1>5, <1>6, <2>1 DEF Line, Send, Usable
  <2>5. requests[sock] \in Seq(Line)
    BY <2>4
  <2>2. requests' \in [Conns -> Seq(Line)]
    BY <1>6, <2>4, <2>5 DEF Send
  <2>3. call' \in [Callers -> CallType]
    BY <1>5, <1>6 DEF Send, CallType
  <2> QED  BY <1>5, <1>6, <2>2, <2>3 DEF Send
<1>7. ASSUME NEW s \in CallType, Lost(c, s)
      PROVE  call' \in [Callers -> CallType] /\ lock' \in Callers \cup {None}
             /\ sock' \in Conns \cup {None} /\ reader' \in Conns \cup {None}
  <2>1. [s EXCEPT !.pc = "connect", !.try = 2] \in CallType
    BY <1>7 DEF CallType
  <2> QED  BY <1>1, <1>7, <2>1 DEF Lost, Return
<1>8. CASE SendFails(c)
  BY <1>5, <1>7, <1>8 DEF SendFails, daemonVars
<1>9. CASE ReadBegins(c)
  BY <1>0, <1>9 DEF ReadBegins, CallType, daemonVars
<1>10. CASE Reads(c)
  <2>1. reader \in Conns
    BY <1>10 DEF Reads, CallsKnow
  <2>2. answers[reader] \in Seq(Ids) /\ answers[reader] # <<>>
    BY <1>10, <2>1 DEF Reads
  <2>3. Head(answers[reader]) \in Ids /\ Tail(answers[reader]) \in Seq(Ids)
    BY <2>2
  <2>4. call' \in [Callers -> CallType] /\ lock' = None
    BY <1>1, <1>10, <2>3 DEF Reads, Return
  <2>5. answers' \in [Conns -> Seq(Ids)]
    BY <1>10, <2>3 DEF Reads
  <2> QED  BY <1>10, <2>4, <2>5 DEF Reads
<1>11. CASE TimesOut(c)
  <2>1. reader \in Conns /\ reader <= opened
    BY <1>11 DEF TimesOut, CallsKnow, ConnsKnown
  <2>2. timedout' \subseteq 1 .. opened
    BY <1>11, <2>1, SendsAssumption DEF TimesOut, Conns
  <2>3. call' \in [Callers -> CallType] /\ lock' = None
    BY <1>1, <1>11 DEF TimesOut, Return
  <2> QED  BY <1>11, <2>2, <2>3 DEF TimesOut, daemonVars
<1>12. CASE ReadFails(c)
  BY <1>0, <1>7, <1>12 DEF ReadFails, daemonVars
<1> QED
  BY <1>2, <1>3, <1>4, <1>6, <1>8, <1>9, <1>10, <1>11, <1>12 DEF Proceeds

LEMMA DaemonTypes ==
    ASSUME Inv, CloseReader \/ CloseSock \/ (\E k \in Conns : Executes(k) \/ Drops(k))
    PROVE  TypeOK'
<1> USE DEF Inv, TypeOK
<1>1. CASE CloseReader \/ CloseSock
  BY <1>1 DEF CloseReader, CloseSock, daemonVars
<1>2. ASSUME NEW k \in Conns, Executes(k) PROVE TypeOK'
  <2>1. requests[k] \in Seq(Line) /\ requests[k] # <<>>
    BY <1>2 DEF Executes
  <2>2. Head(requests[k]) \in Line /\ Tail(requests[k]) \in Seq(Line)
    BY <2>1
  <2>3. Head(requests[k]).id \in Ids /\ Head(requests[k]).cmd \in Ids
    BY <2>2 DEF Line
  <2>4. executed' \subseteq [cmd : Ids, conn : Conns]
    BY <1>2, <2>3 DEF Executes
  <2>5. answers' \in [Conns -> Seq(Ids)] /\ requests' \in [Conns -> Seq(Line)]
    BY <1>2, <2>2, <2>3 DEF Executes
  <2> QED  BY <1>2, <2>4, <2>5 DEF Executes, clientVars
<1>3. ASSUME NEW k \in Conns, Drops(k) PROVE TypeOK'
  <2>1. k \in 1 .. opened
    <3>1. k # None /\ (k = sock \/ k = reader)
      BY <1>3, SendsAssumption DEF Drops, Conns
    <3>2. k <= opened
      BY <3>1 DEF ConnsKnown
    <3> QED  BY <3>2, SendsAssumption DEF Conns
  <2>2. requests' \in [Conns -> Seq(Line)]
    <3>1. <<>> \in Seq(Line)
      OBVIOUS
    <3> QED  BY <1>3, <3>1 DEF Drops
  <2>3. answers' \in [Conns -> Seq(Ids)]
    <3>1. <<>> \in Seq(Ids)
      OBVIOUS
    <3> QED  BY <1>3, <3>1 DEF Drops
  <2>4. dropped' \subseteq 1 .. opened
    BY <1>3, <2>1 DEF Drops
  <2> QED  BY <1>3, <2>2, <2>3, <2>4 DEF Drops, clientVars
<1> QED  BY <1>1, <1>2, <1>3

-----------------------------------------------------------------------------
(* Requests. *)

InLock == {"connect", "send", "sent", "reading"}

LEMMA Others ==
    ASSUME Inv, NEW c \in Callers, call[c].pc \in InLock
    PROVE  /\ lock = c
           /\ \A d \in Callers \ {c} : call[d].pc \in {"idle", "waiting"}
<1>1. lock = c
  BY DEF Inv, CallsKnow, InLock
<1>2. ASSUME NEW d \in Callers \ {c} PROVE call[d].pc \in {"idle", "waiting"}
  <2>1. call[d].pc \notin {"connect", "send", "sent", "reading"}
    BY <1>1 DEF Inv, CallsKnow
  <2>2. call[d] \in CallType
    BY DEF Inv, TypeOK
  <2> QED  BY <2>1, <2>2 DEF CallType
<1> QED  BY <1>1, <1>2

(* A request that leaves the lock leaves it empty. *)
LEMMA ReturnKnows ==
    ASSUME Inv, NEW c \in Callers, call[c].pc \in InLock, NEW a, Return(c, a),
           a = None \/ a = call[c].id
    PROVE  /\ CallsKnow' /\ RetryIsFresh' /\ AnswerIsOwn'
           /\ \A d \in Callers : call'[d].pc \in {"idle", "waiting"}
<1> DEFINE s == [Idle EXCEPT !.id = call[c].id, !.reply = a]
<1>1. s.pc = "idle" /\ s.try = 1 /\ s.id = call[c].id /\ s.reply = a
  BY DEF Idle
<1>2. lock' = None /\ None \notin Callers
  BY SendsAssumption DEF Return
<1>3. call'[c] = s /\ \A d \in Callers \ {c} : call'[d] = call[d]
  BY DEF Inv, TypeOK, Return
<1>4. \A d \in Callers : call'[d].pc \in {"idle", "waiting"}
  <2>1. call'[c].pc \in {"idle", "waiting"}
    BY <1>1, <1>3
  <2>2. \A d \in Callers \ {c} : call'[d].pc \in {"idle", "waiting"}
    BY <1>3, Others
  <2> QED  BY <2>1, <2>2
<1>5. CallsKnow'
  <2>1. \A d \in Callers : call'[d].pc # "idle" => call'[d].reply = None
    <3>1. \A d \in Callers : call[d].pc # "idle" => call[d].reply = None
      BY DEF Inv, CallsKnow
    <3> QED  BY <1>1, <1>3, <3>1
  <2>2. \A d \in Callers : call'[d].try = 1 /\ lock' # d
    <3>1. \A d \in Callers : call[d].pc \in {"idle", "waiting"} => call[d].try = 1
      BY DEF Inv, CallsKnow
    <3> QED  BY <1>1, <1>2, <1>3, <3>1, Others
  <2> QED  BY <1>4, <2>1, <2>2 DEF CallsKnow
<1>6. RetryIsFresh' /\ AnswerIsOwn'
  <2>1. RetryIsFresh'
    BY <1>4 DEF RetryIsFresh
  <2>2. \A d \in Callers : call[d].reply # None => call[d].reply = call[d].id
    BY DEF Inv, AnswerIsOwn
  <2>3. AnswerIsOwn'
    BY <1>1, <1>3, <2>2 DEF AnswerIsOwn
  <2> QED  BY <2>1, <2>3
<1> QED  BY <1>4, <1>5, <1>6

(* A request that goes on inside the lock. *)
LEMMA GoesOn ==
    ASSUME Inv, NEW c \in Callers, call[c].pc \in InLock, NEW s,
           call' = [call EXCEPT ![c] = s], lock' = lock,
           s.pc \in InLock, s.reply = None, s.pc = "reading" => reader' # None,
           s.try = 2 \/ s.pc \in {"sent", "reading"} => s.cmd # None
    PROVE  /\ CallsKnow' /\ AnswerIsOwn'
           /\ call'[c] = s /\ \A d \in Callers \ {c} : call'[d] = call[d]
           /\ \A d \in Callers \ {c} : call'[d].pc \in {"idle", "waiting"}
<1>1. call'[c] = s /\ \A d \in Callers \ {c} : call'[d] = call[d]
  BY DEF Inv, TypeOK
<1>2. lock' = c /\ \A d \in Callers \ {c} : call'[d].pc \in {"idle", "waiting"}
  BY <1>1, Others
<1>3. CallsKnow'
  BY <1>1, <1>2 DEF Inv, CallsKnow, InLock
<1>4. AnswerIsOwn'
  BY <1>1 DEF Inv, AnswerIsOwn
<1> QED  BY <1>1, <1>2, <1>3, <1>4

(* Outside a round trip the reader's connection is empty. *)
LEMMA Quiescent ==
    ASSUME Inv, \A d \in Callers : call[d].pc \notin {"sent", "reading"},
           reader # None, reader \notin timedout
    PROVE  Empty(reader)
BY DEF Inv, InFlight

(* A lost connection: closed the first time, left the second. *)
LEMMA LostKeeps ==
    ASSUME Inv, NEW c \in Callers, call[c].pc \in InLock, NEW s \in CallType, Lost(c, s),
           s.reply = None, s.cmd # None,
           UNCHANGED <<timedout, daemonVars>>,
           s.try = 2 => call[c].pc = "send" \/ reader \in timedout \/ Empty(reader)
    PROVE  CallsKnow' /\ ConnsKnown' /\ InFlight' /\ RetryIsFresh' /\ AnswerIsOwn'
<1>1. CASE s.try = 1
  <2> DEFINE z == [s EXCEPT !.pc = "connect", !.try = 2]
  <2>1. call' = [call EXCEPT ![c] = z] /\ sock' = None /\ reader' = None /\ lock' = lock
    BY <1>1 DEF Lost
  <2>2. z.pc = "connect" /\ z.reply = None /\ z.cmd # None
    BY DEF CallType
  <2>3. CallsKnow' /\ AnswerIsOwn'
    BY <2>1, <2>2, GoesOn DEF InLock
  <2>4. ConnsKnown' /\ InFlight' /\ RetryIsFresh'
    BY <2>1 DEF Inv, ConnsKnown, InFlight, RetryIsFresh, daemonVars
  <2> QED  BY <2>3, <2>4
<1>2. CASE s.try # 1
  <2>1. Return(c, None) /\ UNCHANGED <<sock, reader>>
    BY <1>2 DEF Lost
  <2>2. s.try = 2
    BY <1>2 DEF CallType
  <2>3. CallsKnow' /\ AnswerIsOwn' /\ RetryIsFresh'
    BY <2>1, ReturnKnows
  <2>4. ConnsKnown'
    BY <2>1 DEF Inv, ConnsKnown, daemonVars
  <2>5. reader # None /\ reader \notin timedout => Empty(reader)
    BY <2>2, Others, Quiescent DEF InLock
  <2>6. InFlight'
    BY <2>1, <2>5 DEF InFlight, Empty, daemonVars
  <2> QED  BY <2>3, <2>4, <2>6
<1> QED  BY <1>1, <1>2

-----------------------------------------------------------------------------
(* The rest of the invariant, one lemma for the steps of a kind. *)

Rest == CallsKnow /\ ConnsKnown /\ InFlight /\ RetryIsFresh /\ AnswerIsOwn

LEMMA EntersRest ==
    ASSUME Inv, NEW c \in Callers, Call(c) \/ Enter(c)
    PROVE  Rest'
<1>1. call[c] \in CallType /\ None \notin Callers /\ \A d \in Callers \ {c} : call'[d] = call[d]
  BY SendsAssumption DEF Inv, TypeOK, Call, Enter
<1>2. ConnsKnown'
  BY DEF Inv, ConnsKnown, Call, Enter, daemonVars
<1>3. CASE Call(c)
  <2>1. call'[c].pc = "waiting" /\ call'[c].try = 1 /\ call'[c].reply = None /\ lock # c
    BY <1>3 DEF Inv, TypeOK, CallsKnow, Call, Idle
  <2>2. CallsKnow'
    BY <1>1, <1>3, <2>1 DEF Inv, CallsKnow, Call
  <2>3. RetryIsFresh' /\ AnswerIsOwn'
    BY <1>1, <1>3, <2>1 DEF Inv, RetryIsFresh, AnswerIsOwn, Call
  <2>4. InFlight'
    BY <1>1, <1>3, <2>1 DEF Inv, InFlight, Empty, Carries, Call, daemonVars
  <2> QED  BY <1>2, <2>2, <2>3, <2>4 DEF Rest
<1>4. CASE Enter(c)
  <2>1. /\ call'[c].pc \in {"connect", "send"} /\ call'[c].try = 1
        /\ call'[c].reply = None /\ lock' = c
    BY <1>1, <1>4 DEF Inv, TypeOK, CallsKnow, Enter, CallType
  <2>2. \A d \in Callers : call[d].pc \notin {"connect", "send", "sent", "reading"}
    BY <1>1, <1>4 DEF Inv, CallsKnow, Enter
  <2>3. CallsKnow'
    BY <1>1, <1>4, <2>1, <2>2 DEF Inv, CallsKnow, Enter
  <2>4. RetryIsFresh' /\ AnswerIsOwn'
    BY <1>1, <1>4, <2>1 DEF Inv, RetryIsFresh, AnswerIsOwn, Enter
  <2>5. InFlight'
    BY <1>4, <2>2, Quiescent DEF InFlight, Empty, Enter, daemonVars
  <2> QED  BY <1>2, <2>3, <2>4, <2>5 DEF Rest
<1> QED  BY <1>3, <1>4

(* A new connection carries nothing and never timed out. *)
LEMMA ConnectRest ==
    ASSUME Inv, NEW c \in Callers, Connect(c)
    PROVE  Rest'
<1> DEFINE k == opened + 1
           s == [call[c] EXCEPT !.pc = "send"]
<1>1. /\ call[c] \in CallType /\ call[c].pc = "connect" /\ k \in Conns /\ lock' = lock
      /\ call' = [call EXCEPT ![c] = s] /\ sock' = k /\ reader' = k /\ opened' = k
      /\ UNCHANGED <<timedout, dropped, requests, answers>>
  BY DEF Inv, TypeOK, Connect
<1>2. opened \in Nat /\ k \notin timedout /\ k \notin dropped /\ Empty(k)
  BY <1>1, SendsAssumption DEF Inv, TypeOK, ConnsKnown, Empty, Conns
<1>3. s.pc = "send" /\ s.reply = None /\ (s.try = 2 => s.cmd # None) /\ s.try = call[c].try
  BY <1>1 DEF Inv, CallsKnow, CallType
<1>4. CallsKnow' /\ AnswerIsOwn'
  BY <1>1, <1>3, GoesOn DEF InLock
<1>5. ConnsKnown'
  <2>1. \A j \in Conns : j > k => j > opened
    BY <1>2 DEF Conns
  <2> QED  BY <1>1, <1>2, <2>1 DEF Inv, ConnsKnown
<1>6. InFlight' /\ RetryIsFresh'
  BY <1>1, <1>2 DEF InFlight, RetryIsFresh, Empty
<1> QED  BY <1>4, <1>5, <1>6 DEF Rest

(* A request that leaves the lock with an exception and the connection as it *)
(* is: with nothing on it, with its reader timed out or gone.                *)
LEMMA RaisesRest ==
    ASSUME Inv, NEW c \in Callers, ConnectFails(c) \/ ReadCrashes(c) \/ TimesOut(c)
    PROVE  Rest'
<1>1. call[c].pc \in InLock /\ Return(c, None)
  BY DEF ConnectFails, ReadCrashes, TimesOut, InLock
<1>2. CallsKnow' /\ RetryIsFresh' /\ AnswerIsOwn'
  BY <1>1, ReturnKnows
<1>3. ConnsKnown'
  BY DEF Inv, ConnsKnown, ConnectFails, ReadCrashes, TimesOut, daemonVars
<1>4. CASE ConnectFails(c)
  <2>1. \A d \in Callers : call[d].pc \notin {"sent", "reading"}
    BY <1>1, <1>4, Others DEF ConnectFails
  <2> QED
    BY <1>2, <1>3, <1>4, <2>1, Quiescent DEF Rest, InFlight, Empty, ConnectFails, daemonVars
<1>5. CASE ReadCrashes(c) \/ TimesOut(c)
  <2>1. InFlight'
    BY <1>5 DEF InFlight, ReadCrashes, TimesOut
  <2> QED  BY <1>2, <1>3, <2>1 DEF Rest
<1> QED  BY <1>4, <1>5

LEMMA NumberedType ==
    ASSUME Inv, NEW c \in Callers, call[c].pc = "send", counter < MaxSends
    PROVE  /\ Numbered(c) \in CallType
           /\ Numbered(c).id = counter + 1 /\ Numbered(c).cmd \in Ids
           /\ Numbered(c).reply = None /\ Numbered(c).try = call[c].try
           /\ counter + 1 \in Ids /\ None \notin Ids
<1>1. counter + 1 \in Ids /\ None \notin Ids
  BY SendsAssumption DEF Inv, TypeOK, Ids
<1>2. call[c] \in CallType /\ call[c].reply = None
      /\ (call[c].try = 2 => call[c].cmd # None)
  BY DEF Inv, TypeOK, CallsKnow
<1> QED  BY <1>1, <1>2 DEF Numbered, CallType

(* A line is sent on a connection with nothing on it, or one whose reader    *)
(* timed out.                                                               *)
LEMMA SendRest ==
    ASSUME Inv, NEW c \in Callers, Send(c)
    PROVE  Rest'
<1> DEFINE s == [Numbered(c) EXCEPT !.pc = "sent"]
           line == [id |-> counter + 1, cmd |-> Numbered(c).cmd]
<1>1. /\ call[c].pc = "send" /\ call[c].pc \in InLock /\ Usable /\ lock' = lock
      /\ call' = [call EXCEPT ![c] = s]
      /\ requests' = [requests EXCEPT ![sock] = Append(@, line)]
      /\ UNCHANGED <<sock, reader, opened, timedout, dropped, answers>>
  BY DEF Send, InLock
<1>2. /\ s.pc = "sent" /\ s.id = counter + 1 /\ s.cmd # None /\ s.reply = None
      /\ s.try = call[c].try /\ line \in Line /\ line.id = s.id
  BY <1>1, NumberedType DEF Send, CallType, Line
<1>3. sock \in Conns /\ reader = sock /\ sock <= opened /\ sock \notin dropped
  BY <1>1 DEF Inv, TypeOK, ConnsKnown, Usable
<1>4. /\ CallsKnow' /\ AnswerIsOwn'
      /\ call'[c] = s /\ \A d \in Callers \ {c} : call'[d].pc \in {"idle", "waiting"}
  BY <1>1, <1>2, GoesOn DEF InLock
<1>5. RetryIsFresh'
  BY <1>1, <1>2, <1>4 DEF Inv, RetryIsFresh
<1>6. requests'[sock] = Append(requests[sock], line)
      /\ \A k \in Conns \ {sock} : requests'[k] = requests[k]
  BY <1>1, <1>3 DEF Inv, TypeOK
<1>7. ConnsKnown'
  <2>1. \A k \in Conns : k > opened => k # sock
    BY <1>3, SendsAssumption DEF Inv, TypeOK, Conns
  <2>2. \A k \in dropped : k \in Conns \ {sock}
    BY <1>3, SendsAssumption DEF Inv, TypeOK, Conns
  <2> QED  BY <1>1, <1>6, <2>1, <2>2 DEF Inv, ConnsKnown
<1>8. ASSUME reader \notin timedout PROVE Carries(reader, c)'
  <2>1. Empty(reader)
    BY <1>1, <1>3, <1>8, Others, Quiescent DEF InLock, Usable
  <2>2. requests'[reader] = <<line>> /\ answers'[reader] = <<>>
    BY <1>1, <1>2, <1>3, <1>6, <2>1, Singles DEF Empty
  <2> QED  BY <1>1, <1>2, <1>4, <2>2 DEF Carries
<1>9. InFlight'
  BY <1>1, <1>2, <1>4, <1>8 DEF InFlight
<1> QED  BY <1>4, <1>5, <1>7, <1>9 DEF Rest

LEMMA LosesRest ==
    ASSUME Inv, NEW c \in Callers, SendFails(c) \/ ReadFails(c)
    PROVE  Rest'
<1>1. CASE SendFails(c)
  <2>1. /\ Numbered(c) \in CallType /\ Numbered(c).reply = None
        /\ Numbered(c).cmd # None
    BY <1>1, NumberedType DEF SendFails
  <2> QED  BY <1>1, <2>1, LostKeeps DEF Rest, SendFails, InLock
<1>2. CASE ReadFails(c)
  <2>1. call[c] \in CallType /\ call[c].reply = None /\ call[c].cmd # None
    BY <1>2 DEF Inv, TypeOK, CallsKnow, ReadFails
  <2>2. reader \in timedout \/ Empty(reader)
    BY <1>2 DEF Inv, ConnsKnown, Empty, ReadFails
  <2> QED  BY <1>2, <2>1, <2>2, LostKeeps DEF Rest, ReadFails, InLock
<1> QED  BY <1>1, <1>2

LEMMA ReadBeginsRest ==
    ASSUME Inv, NEW c \in Callers, ReadBegins(c)
    PROVE  Rest'
<1> DEFINE s == [call[c] EXCEPT !.pc = "reading"]
<1>1. /\ call[c] \in CallType /\ call[c].pc = "sent" /\ call[c].pc \in InLock
      /\ reader # None /\ lock' = lock /\ call' = [call EXCEPT ![c] = s]
      /\ UNCHANGED <<sock, reader, opened, timedout, dropped, requests, answers>>
  BY DEF Inv, TypeOK, ReadBegins, InLock, daemonVars
<1>2. /\ s.pc = "reading" /\ s.id = call[c].id /\ s.cmd # None /\ s.reply = None
      /\ s.try = call[c].try
  BY <1>1 DEF Inv, CallsKnow, CallType
<1>3. /\ CallsKnow' /\ AnswerIsOwn'
      /\ call'[c] = s /\ \A d \in Callers \ {c} : call'[d] = call[d]
  BY <1>1, <1>2, GoesOn DEF InLock
<1>4. RetryIsFresh'
  BY <1>1, <1>2, <1>3 DEF Inv, RetryIsFresh
<1>5. ConnsKnown'
  BY <1>1 DEF Inv, ConnsKnown
<1>6. \A d \in Callers : call'[d].id = call[d].id
          /\ (call[d].pc \in {"sent", "reading"} => call'[d].pc \in {"sent", "reading"})
  BY <1>2, <1>3
<1>7. InFlight'
  BY <1>1, <1>6 DEF Inv, InFlight, Empty, Carries
<1> QED  BY <1>3, <1>4, <1>5, <1>7 DEF Rest

(* What a reader that never timed out finds is the answer to its own line. *)
LEMMA ReadsRest ==
    ASSUME Inv, NEW c \in Callers, Reads(c)
    PROVE  Rest'
<1>1. /\ call[c].pc = "reading" /\ call[c].pc \in InLock /\ reader \in Conns
      /\ reader \notin timedout /\ answers[reader] # <<>>
      /\ Return(c, Head(answers[reader]))
      /\ answers' = [answers EXCEPT ![reader] = Tail(@)]
      /\ UNCHANGED <<sock, reader, opened, timedout, dropped, requests>>
  BY DEF Inv, TypeOK, CallsKnow, Reads, InLock
<1>2. reader # None
  BY <1>1, SendsAssumption DEF Conns
<1>3. requests[reader] = <<>> /\ answers[reader] = <<call[c].id>>
  BY <1>1, <1>2, Others DEF Inv, InFlight, Empty, Carries
<1>4. Head(answers[reader]) = call[c].id /\ Tail(answers[reader]) = <<>>
  BY <1>3, Singles
<1>5. CallsKnow' /\ RetryIsFresh' /\ AnswerIsOwn'
  BY <1>1, <1>4, ReturnKnows
<1>6. answers'[reader] = <<>> /\ \A k \in Conns \ {reader} : answers'[k] = answers[k]
  BY <1>1, <1>4 DEF Inv, TypeOK
<1>7. ConnsKnown' /\ InFlight'
  BY <1>1, <1>3, <1>6 DEF Inv, ConnsKnown, InFlight, Empty
<1> QED  BY <1>5, <1>7 DEF Rest

LEMMA CloseRest ==
    ASSUME Inv, CloseReader \/ CloseSock
    PROVE  Rest'
<1>1. CASE CloseReader
  BY <1>1 DEF Inv, Rest, CallsKnow, ConnsKnown, InFlight, RetryIsFresh, AnswerIsOwn,
              CloseReader, daemonVars
<1>2. CASE CloseSock
  BY <1>2 DEF Inv, Rest, CallsKnow, ConnsKnown, InFlight, RetryIsFresh, AnswerIsOwn,
              Empty, Carries, CloseSock, daemonVars
<1> QED  BY <1>1, <1>2

(* What the daemon does to another connection than the reader's. *)
LEMMA ElsewhereInFlight ==
    ASSUME Inv, NEW k \in Conns, k # reader, UNCHANGED <<call, reader, timedout>>,
           \A j \in Conns \ {k} : requests'[j] = requests[j] /\ answers'[j] = answers[j]
    PROVE  InFlight'
<1> SUFFICES ASSUME reader # None, reader \notin timedout PROVE InFlight'
  BY DEF InFlight
<1>1. requests'[reader] = requests[reader] /\ answers'[reader] = answers[reader]
  BY DEF Inv, TypeOK
<1>2. CASE Empty(reader)
  BY <1>1, <1>2 DEF InFlight, Empty
<1>3. ASSUME NEW c \in Callers, call[c].pc \in {"sent", "reading"}, Carries(reader, c)
      PROVE  InFlight'
  <2>1. Carries(reader, c)'
    BY <1>1, <1>3 DEF Carries
  <2> QED  BY <1>3, <2>1 DEF InFlight
<1> QED  BY <1>2, <1>3 DEF Inv, InFlight

(* The daemon turns the line on a connection into its answer. *)
LEMMA ExecutesRest ==
    ASSUME Inv, NEW k \in Conns, Executes(k)
    PROVE  Rest'
<1>1. /\ requests[k] # <<>> /\ requests' = [requests EXCEPT ![k] = Tail(@)]
      /\ UNCHANGED <<lock, call, sock, reader, opened, timedout, dropped>>
  BY DEF Executes, clientVars
<1>2. k <= opened /\ k \notin dropped
  BY <1>1, SendsAssumption DEF Inv, TypeOK, ConnsKnown, Conns
<1>3. \A j \in Conns \ {k} : requests'[j] = requests[j] /\ answers'[j] = answers[j]
  BY DEF Inv, TypeOK, Executes
<1>4. CallsKnow' /\ RetryIsFresh' /\ AnswerIsOwn'
  BY <1>1 DEF Inv, CallsKnow, RetryIsFresh, AnswerIsOwn
<1>5. ConnsKnown'
  <2>1. \A j \in Conns : j > opened => j # k
    BY <1>2, SendsAssumption DEF Inv, TypeOK, Conns
  <2>2. \A j \in dropped : j \in Conns \ {k}
    BY <1>2, SendsAssumption DEF Inv, TypeOK, Conns
  <2> QED  BY <1>1, <1>3, <2>1, <2>2 DEF Inv, ConnsKnown
<1>6. k # reader => InFlight'
  BY <1>1, <1>3, ElsewhereInFlight
<1>7. ASSUME k = reader, reader \notin timedout PROVE InFlight'
  <2>1. PICK c \in Callers : call[c].pc \in {"sent", "reading"} /\ Carries(k, c)
    BY <1>1, <1>7, SendsAssumption DEF Inv, InFlight, Empty, Conns
  <2>2. PICK line \in Line :
            line.id = call[c].id /\ requests[k] = <<line>> /\ answers[k] = <<>>
    BY <1>1, <2>1 DEF Carries
  <2>3. Head(requests[k]) = line /\ Tail(requests[k]) = <<>>
    BY <2>2, Singles
  <2>4. Append(answers[k], line.id) = <<line.id>>
    BY <2>2, Singles
  <2>5. requests'[k] = <<>> /\ answers'[k] = <<call[c].id>>
    BY <1>1, <1>7, <2>2, <2>3, <2>4 DEF Inv, TypeOK, Executes
  <2>6. Carries(k, c)'
    BY <1>1, <2>5 DEF Carries
  <2> QED  BY <1>1, <1>7, <2>1, <2>6 DEF InFlight
<1>8. reader \in timedout => InFlight'
  <2>1. reader' = reader /\ timedout' = timedout
    BY <1>1
  <2> QED  BY <2>1 DEF InFlight
<1> QED  BY <1>4, <1>5, <1>6, <1>7, <1>8 DEF Rest

LEMMA DropsRest ==
    ASSUME Inv, NEW k \in Conns, Drops(k)
    PROVE  Rest'
<1>1. /\ dropped' = dropped \cup {k}
      /\ requests'[k] = <<>> /\ (answers'[k] = <<>> \/ answers'[k] = answers[k])
      /\ \A j \in Conns \ {k} : requests'[j] = requests[j] /\ answers'[j] = answers[j]
      /\ UNCHANGED <<lock, call, sock, reader, opened, timedout>>
  BY DEF Inv, TypeOK, Drops, clientVars
<1>2. CallsKnow' /\ RetryIsFresh' /\ AnswerIsOwn'
  BY <1>1 DEF Inv, CallsKnow, RetryIsFresh, AnswerIsOwn
<1>3. ConnsKnown'
  <2>1. \A j \in dropped : j \in Conns
    BY SendsAssumption DEF Inv, TypeOK, Conns
  <2> QED  BY <1>1, <2>1 DEF Inv, ConnsKnown
<1>4. k # reader => InFlight'
  BY <1>1, ElsewhereInFlight
<1>5. ASSUME k = reader, reader \notin timedout PROVE InFlight'
  <2>1. CASE Empty(k)
    BY <1>1, <1>5, <2>1 DEF InFlight, Empty
  <2>2. ASSUME NEW c \in Callers, call[c].pc \in {"sent", "reading"}, Carries(k, c)
        PROVE  InFlight'
    <3>1. Empty(k)' \/ Carries(k, c)'
      BY <1>1, <2>2 DEF Empty, Carries
    <3> QED  BY <1>1, <1>5, <2>2, <3>1 DEF InFlight
  <2> QED  BY <1>5, <2>1, <2>2, SendsAssumption DEF Inv, InFlight, Conns
<1>6. reader \in timedout => InFlight'
  <2>1. reader' = reader /\ timedout' = timedout
    BY <1>1
  <2> QED  BY <2>1 DEF InFlight
<1> QED  BY <1>2, <1>3, <1>4, <1>5, <1>6 DEF Rest

LEMMA StutterInv == Inv /\ UNCHANGED vars => Inv'
BY DEF Inv, vars, TypeOK, CallsKnow, ConnsKnown, InFlight, RetryIsFresh, AnswerIsOwn,
       Empty, Carries

LEMMA NextInv == Inv /\ [Next]_vars => Inv'
<1> SUFFICES ASSUME Inv, [Next]_vars PROVE Inv'
  OBVIOUS
<1>1. ASSUME NEW c \in Callers, Call(c) \/ Enter(c) \/ Proceeds(c) PROVE Inv'
  <2>1. Rest'
    BY <1>1, EntersRest, ConnectRest, RaisesRest, SendRest, LosesRest, ReadBeginsRest,
       ReadsRest DEF Proceeds
  <2> QED  BY <1>1, <2>1, CallerTypes DEF Inv, Rest
<1>2. CASE CloseReader \/ CloseSock
  BY <1>2, CloseRest, DaemonTypes DEF Inv, Rest
<1>3. ASSUME NEW k \in Conns, Executes(k) \/ Drops(k) PROVE Inv'
  <2>1. Rest'
    BY <1>3, ExecutesRest, DropsRest
  <2> QED  BY <1>3, <2>1, DaemonTypes DEF Inv, Rest
<1>4. CASE Finished \/ UNCHANGED vars
  BY <1>4, StutterInv DEF Finished
<1> QED  BY <1>1, <1>2, <1>3, <1>4 DEF Next

-----------------------------------------------------------------------------
(* The inductive invariant of the client and its daemon. *)
THEOREM ClientInvariant == Spec => []Inv
BY InitInv, NextInv, PTL DEF Spec

(* Every variable of the client and the daemon keeps its type. *)
THEOREM ClientTypeCorrect == Spec => []TypeOK
<1>1. Inv => TypeOK
  BY DEF Inv
<1> QED  BY <1>1, ClientInvariant, PTL

(* No caller is ever given another request's answer, although _request       *)
(* compares no id: for any number of threads, time limits and dropped        *)
(* connections (hat.py, _request and _send_request).                         *)
THEOREM AnswerIsOwnAlways == Spec => []AnswerIsOwn
<1>1. Inv => AnswerIsOwn
  BY DEF Inv
<1> QED  BY <1>1, ClientInvariant, PTL

(* The second try of a request never meets a reader that timed out: the      *)
(* price of an earlier time limit is one retry (hat.py, _request).           *)
THEOREM RetryIsFreshAlways == Spec => []RetryIsFresh
<1>1. Inv => RetryIsFresh
  BY DEF Inv
<1> QED  BY <1>1, ClientInvariant, PTL
=============================================================================
