------------------------------- MODULE HatIpc -------------------------------
(***************************************************************************)
(* The client of the HAT daemon: nomothetic.hat.HatClient.                  *)
(*                                                                          *)
(* Worker threads share one client and its one connection to the daemon     *)
(* that drives the robot's hardware.  A lock serialises the requests; each  *)
(* is a line sent and a line read back, with a time limit on the reading.   *)
(* A request that loses its connection is sent once more on a new one.      *)
(*                                                                          *)
(* A time limit leaves the connection in place and the daemon's answer on   *)
(* its way.  What keeps that answer from the next request is that a Python   *)
(* reader refuses to read again once it timed out, which the client takes   *)
(* for a lost connection.                                                   *)
(*                                                                          *)
(* The lifespan closes the client without taking the lock.  The daemon is   *)
(* external: a queue of lines per connection, executed in order, each       *)
(* connection on its own.                                                   *)
(***************************************************************************)
EXTENDS Integers, Sequences, FiniteSets

CONSTANTS
    Callers,   \* worker threads that use the client
    None,      \* Python's None
    MaxSends,  \* bound: lines sent in one behaviour
    MaxConns   \* bound: connections the daemon accepts in one behaviour

Conns == 1 .. MaxConns
Ids == 1 .. MaxSends

ASSUME SendsAssumption == MaxSends \in Nat /\ MaxConns \in Nat /\ None \notin Nat \cup Callers

VARIABLES
    lock,      \* the caller inside _lock, or None
    call,      \* [Callers -> the state of a request, or of the last one]
    counter,   \* _req_counter
    sock,      \* the connection of _sock, or None
    reader,    \* the connection of _rfile, or None
    closing,   \* the lifespan's close(): "open", "half", "closed"
    opened,    \* connections 1 .. opened have been accepted
    timedout,  \* connections whose reader timed out
    dropped,   \* connections the daemon dropped
    requests,  \* [Conns -> lines the daemon has not executed]
    answers,   \* [Conns -> the ids of answers the client has not read]
    executed   \* history: which request was executed on which connection

clientVars == <<lock, call, counter, sock, reader, timedout>>
daemonVars == <<opened, dropped, requests, answers, executed>>
vars == <<lock, call, counter, sock, reader, closing, opened, timedout, dropped,
          requests, answers, executed>>

(* `cmd` names a request by the id of its first line, `id` is its last. *)
Idle == [pc |-> "idle", try |-> 1, cmd |-> None, id |-> None, reply |-> None]

CallType ==
    [pc : {"idle", "waiting", "connect", "send", "sent", "reading"}, try : {1, 2},
     cmd : Ids \cup {None}, id : Ids \cup {None}, reply : Ids \cup {None}]
Line == [id : Ids, cmd : Ids]

(* Type correctness of the client's and the daemon's state (hat.py). *)
TypeOK ==
    /\ lock \in Callers \cup {None}
    /\ call \in [Callers -> CallType]
    /\ counter \in 0 .. MaxSends
    /\ sock \in Conns \cup {None}
    /\ reader \in Conns \cup {None}
    /\ closing \in {"open", "half", "closed"}
    /\ opened \in 0 .. MaxConns
    /\ timedout \subseteq 1 .. opened
    /\ dropped \subseteq 1 .. opened
    /\ requests \in [Conns -> Seq(Line)]
    /\ answers \in [Conns -> Seq(Ids)]
    /\ executed \subseteq [cmd : Ids, conn : Conns]

Init ==
    /\ lock = None
    /\ call = [c \in Callers |-> Idle]
    /\ counter = 0
    /\ sock = None /\ reader = None
    /\ closing = "open"
    /\ opened = 0
    /\ timedout = {} /\ dropped = {}
    /\ requests = [k \in Conns |-> <<>>]
    /\ answers = [k \in Conns |-> <<>>]
    /\ executed = {}

-----------------------------------------------------------------------------
(* A request. *)

(* It leaves the lock with an answer, or with an exception. *)
Return(c, answer) ==
    /\ call' = [call EXCEPT ![c] = [Idle EXCEPT !.id = call[c].id, !.reply = answer]]
    /\ lock' = None

(* Slip: a request is tried as often as its connection is lost. *)
LostAgain(c, state) ==
    /\ call' = [call EXCEPT ![c] = [state EXCEPT !.pc = "connect"]]
    /\ sock' = None /\ reader' = None
    /\ UNCHANGED lock

(* HatConnectionError: the first time the connection is closed and a new one *)
(* made; the second time it is raised and the connection left as it is.      *)
Lost(c, state) ==
    IF state.try = 1
    THEN /\ call' = [call EXCEPT ![c] = [state EXCEPT !.pc = "connect", !.try = 2]]
         /\ sock' = None /\ reader' = None
         /\ UNCHANGED lock
    ELSE Return(c, None) /\ UNCHANGED <<sock, reader>>

Busy == {c \in Callers : call[c].pc # "idle"}

(* A command's arguments are valid (else it is refused with nothing sent). *)
Call(c) ==
    /\ call[c].pc = "idle"
    /\ counter + 2 * (Cardinality(Busy) + 1) <= MaxSends
    /\ call' = [call EXCEPT ![c] = [Idle EXCEPT !.pc = "waiting"]]
    /\ UNCHANGED <<lock, counter, sock, reader, closing, timedout, daemonVars>>

Enter(c) ==
    /\ call[c].pc = "waiting"
    /\ lock = None
    /\ lock' = c
    /\ call' = [call EXCEPT ![c].pc = IF sock = None THEN "connect" ELSE "send"]
    /\ UNCHANGED <<counter, sock, reader, closing, timedout, daemonVars>>

Connect(c) ==
    LET k == opened + 1
    IN  /\ call[c].pc = "connect"
        /\ k \in Conns
        /\ opened' = k
        /\ sock' = k /\ reader' = k
        /\ call' = [call EXCEPT ![c].pc = "send"]
        /\ UNCHANGED <<lock, counter, closing, timedout, dropped, requests, answers,
                       executed>>

(* The daemon is not there. *)
ConnectFails(c) ==
    /\ call[c].pc = "connect"
    /\ Return(c, None)
    /\ UNCHANGED <<counter, sock, reader, closing, timedout, daemonVars>>

(* The request as its next line is numbered. *)
Numbered(c) ==
    [call[c] EXCEPT !.id = counter + 1,
                    !.cmd = IF call[c].try = 1 THEN counter + 1 ELSE @]

Usable == sock # None /\ reader # None /\ sock \notin dropped

Send(c) ==
    /\ call[c].pc = "send"
    /\ counter < MaxSends
    /\ Usable
    /\ counter' = counter + 1
    /\ call' = [call EXCEPT ![c] = [Numbered(c) EXCEPT !.pc = "sent"]]
    /\ requests' = [requests EXCEPT ![sock] =
                       Append(@, [id |-> counter + 1, cmd |-> Numbered(c).cmd])]
    /\ UNCHANGED <<lock, sock, reader, closing, opened, timedout, dropped, answers, executed>>

(* The connection is closed, or the daemon has dropped it. *)
SendFails(c) ==
    /\ call[c].pc = "send"
    /\ counter < MaxSends
    /\ ~Usable
    /\ counter' = counter + 1
    /\ Lost(c, Numbered(c))
    /\ UNCHANGED <<closing, timedout, daemonVars>>

(* readline is called: on what the lifespan may have set to None meanwhile. *)
ReadBegins(c) ==
    /\ call[c].pc = "sent"
    /\ reader # None
    /\ call' = [call EXCEPT ![c].pc = "reading"]
    /\ UNCHANGED <<lock, counter, sock, reader, closing, timedout, daemonVars>>

ReadCrashes(c) ==
    /\ call[c].pc = "sent"
    /\ reader = None
    /\ Return(c, None)
    /\ UNCHANGED <<counter, sock, reader, closing, timedout, daemonVars>>

Reads(c) ==
    /\ call[c].pc = "reading"
    /\ reader \notin timedout
    /\ answers[reader] # <<>>
    /\ Return(c, Head(answers[reader]))
    /\ answers' = [answers EXCEPT ![reader] = Tail(@)]
    /\ UNCHANGED <<counter, sock, reader, closing, opened, timedout, dropped, requests,
                   executed>>

(* Slip: a reader that timed out is read from again. *)
TimesOutUnmarked(c) ==
    /\ call[c].pc = "reading"
    /\ reader \notin timedout
    /\ Return(c, None)
    /\ UNCHANGED <<timedout, counter, sock, reader, closing, daemonVars>>

TimesOut(c) ==
    /\ call[c].pc = "reading"
    /\ reader \notin timedout
    /\ timedout' = timedout \cup {reader}
    /\ Return(c, None)
    /\ UNCHANGED <<counter, sock, reader, closing, daemonVars>>

(* The reader timed out under an earlier request, or the daemon dropped the  *)
(* connection before it answered.                                           *)
ReadFails(c) ==
    /\ call[c].pc = "reading"
    /\ reader \in timedout \/ (reader \in dropped /\ answers[reader] = <<>>)
    /\ Lost(c, call[c])
    /\ UNCHANGED <<counter, closing, timedout, daemonVars>>

-----------------------------------------------------------------------------
(* The lifespan's close(): the reader, which a thread that reads holds on to, *)
(* and then the socket.                                                       *)

CloseReader ==
    /\ closing = "open"
    /\ \A c \in Callers : call[c].pc # "reading"
    /\ closing' = "half"
    /\ reader' = None
    /\ UNCHANGED <<lock, call, counter, sock, timedout, daemonVars>>

CloseSock ==
    /\ closing = "half"
    /\ closing' = "closed"
    /\ sock' = None
    /\ UNCHANGED <<lock, call, counter, reader, timedout, daemonVars>>

-----------------------------------------------------------------------------
(* The daemon. *)

(* It executes the next line of a connection, also of one that the client    *)
(* has closed with lines unread; only an open one can be answered.           *)
Executes(k) ==
    /\ requests[k] # <<>>
    /\ executed' = executed \cup {[cmd |-> Head(requests[k]).cmd, conn |-> k]}
    /\ answers' = IF k \in {sock, reader}
                  THEN [answers EXCEPT ![k] = Append(@, Head(requests[k]).id)]
                  ELSE answers
    /\ requests' = [requests EXCEPT ![k] = Tail(@)]
    /\ UNCHANGED <<clientVars, closing, opened, dropped>>

(* It drops a connection or restarts: lines are lost, and maybe answers. *)
Drops(k) ==
    /\ k \in {sock, reader}
    /\ k \notin dropped
    /\ dropped' = dropped \cup {k}
    /\ requests' = [requests EXCEPT ![k] = <<>>]
    /\ \/ answers' = [answers EXCEPT ![k] = <<>>]
       \/ UNCHANGED answers
    /\ UNCHANGED <<clientVars, closing, opened, executed>>

(* The gateway has closed the client and no thread uses it. *)
Finished ==
    /\ closing = "closed"
    /\ Busy = {}
    /\ UNCHANGED vars

(* What a caller inside the lock does next. *)
Proceeds(c) ==
    \/ Connect(c) \/ ConnectFails(c) \/ Send(c) \/ SendFails(c) \/ ReadBegins(c)
    \/ ReadCrashes(c) \/ Reads(c) \/ TimesOut(c) \/ ReadFails(c)

Next ==
    \/ \E c \in Callers : Call(c) \/ Enter(c) \/ Proceeds(c)
    \/ CloseReader \/ CloseSock
    \/ \E k \in Conns : Executes(k) \/ Drops(k)
    \/ Finished

Spec == Init /\ [][Next]_vars

(* A thread inside the lock runs, and connecting and reading have a time     *)
(* limit.  The daemon owes nothing, and a lock of threads is not first come  *)
(* first served, so entering it is not fair.                                 *)
FairSpec == Spec /\ \A c \in Callers : WF_vars(Proceeds(c))

-----------------------------------------------------------------------------
(* Properties *)

(* An answer handed to a caller is the answer to its own request, although   *)
(* no id is compared and answers to timed out requests are still on their    *)
(* way (lines 256-281).                                                      *)
AnswerIsOwn == \A c \in Callers : call[c].reply # None => call[c].reply = call[c].id

(* The second try of a request never runs into an earlier request's time     *)
(* limit: a timed out reader costs one retry, never a failed call            *)
(* (lines 283-295).                                                          *)
RetryIsFresh ==
    \A c \in Callers :
        call[c].pc \in {"send", "sent", "reading"} /\ call[c].try = 2
        => reader = None \/ reader \notin timedout

(* A request always leaves the lock, whatever the daemon does                *)
(* (lines 283-295).                                                          *)
LockReleased == \A c \in Callers : lock = c ~> lock # c

=============================================================================
