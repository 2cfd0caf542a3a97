------------------------------ MODULE AiCommands ------------------------------
(***************************************************************************)
(* Commands to the AI assistant (ai_routes.py, ai_command.py) and the         *)
(* conversations they belong to (ai_conversations.py).                       *)
(*                                                                          *)
(* A command is a coroutine of the event loop: it is admitted, waits for a    *)
(* thread to read the API key, begins in its conversation, and asks the      *)
(* provider and runs the tools asked for until an answer, a failure or the    *)
(* limit.  The conversation store's methods never give way.  What is said     *)
(* and what a tool does is left out: a message is who said it in which        *)
(* command.                                                                  *)
(***************************************************************************)
EXTENDS RateLimiter, PythonNone

CONSTANTS
    Calls,       \* commands under way at once, at most
    MaxHistory,  \* MAX_HISTORY_MESSAGES
    MaxKept,     \* max_conversations
    IdleTtl,     \* idle_ttl_s
    MaxRounds,   \* max_tool_iterations
    MaxCommands, \* bound: commands begun
    MaxBlocks    \* bound: tools in one response of the provider

ASSUME AiAssumption ==
    /\ MaxHistory \in {2 * n : n \in 1 .. 50} /\ MaxKept \in Nat \ {0} /\ IdleTtl \in Nat
    /\ MaxRounds \in Nat \ {0} /\ MaxCommands \in Nat /\ MaxBlocks \in Nat \ {0}
    /\ IsFiniteSet(Calls)

VARIABLES
    key,      \* an API key is stored or in the environment
    convs,    \* [Commands -> the conversation that command began, or None]
    call,     \* [Calls -> the command]
    begun,    \* commands begun
    answered  \* history: [Commands -> the commands answered in the conversation]

aiVars == <<limiterVars, key, convs, call, begun, answered>>

(* A conversation is named after the command that began it. *)
Commands == 1 .. MaxCommands

Message == [who : {"user", "assistant"}, command : Commands]
Conversation == [messages : Seq(Message), used : Nat, busy : BOOLEAN]

Command == [at : {"key", "begin", "ask", "tool", "answer", "fail"}, conv : Commands \cup {None},
            id : Commands \cup {None}, round : 0 .. MaxRounds, tools : 0 .. MaxBlocks,
            sent : Seq(Message)]

ASSUME RecordAssumption == None \notin Conversation /\ None \notin Command

Kept == {v \in Commands : convs[v] # None}

(* Type correctness; no more conversations than the limit are kept, or than   *)
(* commands ran at once.                                                     *)
AiTypeOK ==
    /\ LimiterTypeOK
    /\ key \in BOOLEAN
    /\ \A v \in Commands : convs[v] = None \/ convs[v] \in Conversation
    /\ \A c \in Calls : call[c] = None \/ call[c] \in Command
    /\ begun \in 0 .. MaxCommands
    /\ answered \in [Commands -> Seq(Commands)]
    /\ Cardinality(Kept) <= MaxKept \/ Cardinality(Kept) <= Cardinality(Calls)

AiInit ==
    /\ LimiterInit
    /\ key \in BOOLEAN
    /\ convs = [v \in Commands |-> None]
    /\ call = [c \in Calls |-> None]
    /\ begun = 0
    /\ answered = [v \in Commands |-> <<>>]

At(c, where) == call[c] # None /\ call[c].at = where

-----------------------------------------------------------------------------
(* The conversation store. *)

(* trim_history: whole turns are dropped from the front. *)
Trimmed(m) ==
    LET over == Len(m) - MaxHistory
    IN  IF over <= 0 THEN m ELSE SubSeq(m, 2 * ((over + 1) \div 2) + 1, Len(m))

Idle(s) == {v \in Commands : s[v] # None /\ ~s[v].busy}

(* _expire: idle conversations past their time are forgotten. *)
Unexpired == [v \in Commands |->
    IF v \in Idle(convs) /\ now - convs[v].used > IdleTtl THEN None ELSE convs[v]]

(* Slip: only what has expired makes room. *)
RoomExpired(s) == {s}

(* _make_room: idle conversations are given up, least recently used first,    *)
(* until there is room; when all are busy the limit is passed.  The store     *)
(* can be over its limit by more than one.                                   *)
Room(s) ==
    LET surplus == Cardinality({v \in Commands : s[v] # None}) - MaxKept + 1
        Least(gone) == \A v \in gone, w \in Idle(s) \ gone : s[v].used <= s[w].used
        fewest == IF surplus <= 0 THEN 0
                  ELSE IF surplus <= Cardinality(Idle(s)) THEN surplus ELSE Cardinality(Idle(s))
    IN  {[v \in Commands |-> IF v \in gone THEN None ELSE s[v]] :
            gone \in {g \in SUBSET Idle(s) : Cardinality(g) = fewest /\ Least(g)}}

Said(n) == [who |-> "user", command |-> n]
Turn(n) == <<Said(n), [who |-> "assistant", command |-> n]>>

(* abort: the conversation is as before, or gone if it never had an answer. *)
Aborted(c) ==
    LET v == call[c].conv
    IN  IF convs[v] = None THEN convs
        ELSE IF convs[v].messages = <<>> THEN [convs EXCEPT ![v] = None]
        ELSE [convs EXCEPT ![v].busy = FALSE]

(* commit: the turn is added. *)
Committed(c) ==
    LET v == call[c].conv
    IN  IF convs[v] = None THEN convs
        ELSE [convs EXCEPT ![v] = [messages |-> Trimmed(@.messages \o Turn(call[c].id)),
                                   busy |-> FALSE, used |-> now]]

-----------------------------------------------------------------------------
(* The commands. *)

(* The request is rate limited, and the key looked for in a thread. *)
Request(c) ==
    /\ call[c] = None /\ begun < MaxCommands
    /\ \/ /\ Admit
          /\ call' = [call EXCEPT ![c] = [at |-> "key", conv |-> None, id |-> None, round |-> 0,
                                         tools |-> 0, sent |-> <<>>]]
       \/ TooMany /\ UNCHANGED call
    /\ UNCHANGED <<key, convs, begun, answered>>

(* store.resolve: the key may be set or cleared right after. *)
ResolveKey(c) ==
    /\ At(c, "key")
    /\ IF key THEN call' = [call EXCEPT ![c].at = "begin"] ELSE call' = [call EXCEPT ![c] = None]
    /\ UNCHANGED <<limiterVars, key, convs, begun, answered>>

(* The history that the provider is told ends with the command, and is       *)
(* trimmed as well: a full one loses its first turn.                          *)
Starts(c, v, s, messages) ==
    /\ convs' = [s EXCEPT ![v] = [messages |-> messages, used |-> now, busy |-> TRUE]]
    /\ begun' = begun + 1
    /\ call' = [call EXCEPT ![c] = [@ EXCEPT !.at = "ask", !.conv = v, !.id = begun + 1,
                                             !.sent = Trimmed(Append(messages, Said(begun + 1)))]]

(* begin with no id: a conversation of its own. *)
BeginNew(c) ==
    /\ At(c, "begin") /\ begun < MaxCommands
    /\ \E s \in Room(Unexpired) : Starts(c, begun + 1, s, <<>>)
    /\ UNCHANGED <<limiterVars, key, answered>>

(* Slip: a conversation is continued whether or not it is busy. *)
Open(v) == Unexpired[v] # None

Free(v) == Unexpired[v] # None /\ ~Unexpired[v].busy

(* begin with an id: 404 for a conversation that is gone, 409 for a busy one. *)
BeginIn(c) == \E v \in 1 .. begun :
    /\ At(c, "begin") /\ begun < MaxCommands
    /\ IF Free(v) THEN Starts(c, v, Unexpired, Unexpired[v].messages)
       ELSE /\ convs' = Unexpired /\ call' = [call EXCEPT ![c] = None]
            /\ UNCHANGED begun
    /\ UNCHANGED <<limiterVars, key, answered>>

(* Slip: the rounds of tool calls are not counted. *)
NextRound(c) == call[c].round

RoundAfter(c) == call[c].round + 1

(* The provider answers, asks for tools, or fails; so may its client. *)
ProviderAnswers(c) ==
    /\ At(c, "ask")
    /\ \/ call' = [call EXCEPT ![c].at = "answer"]
       \/ call' = [call EXCEPT ![c].at = "fail"]
       \/ \E n \in 1 .. MaxBlocks : call' = [call EXCEPT ![c].at = "tool", ![c].tools = n]
    /\ UNCHANGED <<limiterVars, key, convs, begun, answered>>

(* One tool runs, well or not: its error is an answer to the provider too.    *)
(* After the last of the round the provider is asked again, up to the limit. *)
ToolRuns(c) ==
    /\ At(c, "tool")
    /\ LET left == call[c].tools - 1 IN
       call' = [call EXCEPT
           ![c].tools = left,
           ![c].round = IF left = 0 THEN RoundAfter(c) ELSE @,
           ![c].at = IF left > 0 THEN "tool" ELSE IF RoundAfter(c) < MaxRounds THEN "ask" ELSE "answer"]
    /\ UNCHANGED <<limiterVars, key, convs, begun, answered>>

(* The request is cancelled while it waits: for the key, for the provider or  *)
(* a tool, or for the provider's client to close.                            *)
RequestCancelled(c) ==
    /\ \/ At(c, "key") /\ call' = [call EXCEPT ![c] = None]
       \/ /\ At(c, "ask") \/ At(c, "tool") \/ At(c, "answer")
          /\ call' = [call EXCEPT ![c].at = "fail"]
    /\ UNCHANGED <<limiterVars, key, convs, begun, answered>>

(* The client is closed and the command committed, or given up. *)
Answer(c) ==
    /\ At(c, "answer")
    /\ convs' = Committed(c)
    /\ answered' = [answered EXCEPT ![call[c].conv] = Append(@, call[c].id)]
    /\ call' = [call EXCEPT ![c] = None]
    /\ UNCHANGED <<limiterVars, key, begun>>

Fail(c) ==
    /\ At(c, "fail")
    /\ convs' = Aborted(c)
    /\ call' = [call EXCEPT ![c] = None]
    /\ UNCHANGED <<limiterVars, key, begun, answered>>

(* AiKeyStore.save and clear; no key is left in the environment after clear. *)
SaveKey == key' = TRUE
ClearKey == key' = FALSE

(* PUT and DELETE /api/ai/key. *)
SetKey ==
    /\ SaveKey \/ ClearKey
    /\ UNCHANGED <<limiterVars, convs, call, begun, answered>>

Time == Tick /\ UNCHANGED <<stamps, admitted, key, convs, call, begun, answered>>

Proceeds(c) ==
    ResolveKey(c) \/ BeginNew(c) \/ BeginIn(c) \/ ProviderAnswers(c) \/ ToolRuns(c) \/ Answer(c) \/ Fail(c)

AiNext == Time \/ SetKey \/ \E c \in Calls : Request(c) \/ RequestCancelled(c) \/ Proceeds(c)

AiSpec == AiInit /\ [][AiNext]_aiVars

(* The event loop goes on, and the provider's client has a time limit. *)
AiFairSpec == AiSpec /\ \A c \in Calls : WF_aiVars(Proceeds(c))

InFlight(v) == {c \in Calls : call[c] # None /\ call[c].conv = v}

(* The latest n of the commands, and their turns. *)
Latest(s, n) == IF Len(s) > n THEN SubSeq(s, Len(s) - n + 1, Len(s)) ELSE s

WholeTurns(s) == [i \in 1 .. 2 * Len(s) |->
    [who |-> IF i % 2 = 1 THEN "user" ELSE "assistant", command |-> s[(i + 1) \div 2]]]

(* Safety: a conversation is the turns of the commands answered last in it,   *)
(* as many as the history holds; it is busy while one command runs in it and  *)
(* no longer, and is not given up meanwhile; what that command told the       *)
(* provider is its own message after the whole turns answered last before it, *)
(* as many as the history holds beside it, so that a full history is told     *)
(* without its first turn (begin, commit and abort).                          *)
TurnsKept ==
    /\ \A v \in Kept :
          /\ convs[v].messages = WholeTurns(Latest(answered[v], MaxHistory \div 2))
          /\ convs[v].busy => Cardinality(InFlight(v)) = 1
          /\ ~convs[v].busy => convs[v].messages # <<>> /\ InFlight(v) = {}
    /\ \A c \in Calls : call[c] # None /\ call[c].conv # None =>
          /\ convs[call[c].conv] # None
          /\ call[c].sent = Append(WholeTurns(Latest(answered[call[c].conv], (MaxHistory - 1) \div 2)),
                                   Said(call[c].id))

(* Liveness: a command ends, whatever tools the provider keeps asking for     *)
(* (run_command's limit); that it leaves its conversation free is TurnsKept's. *)
CommandsEnd == \A c \in Calls : At(c, "ask") ~> call[c] = None
=============================================================================
