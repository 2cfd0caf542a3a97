# nomothetic: specification, model checking and proofs

nomothetic is the gateway process of a small robot: a FastAPI server that supervises
autonomy programs ("routines"), listens for voice commands, drives the hardware through
a local daemon (the HAT daemon) and reports to a central instance of itself.  This directory
holds TLA+ models of its stateful parts, TLC configurations that check them on small
instances, and TLAPS proofs about them for every instance.  Paths below are relative to the
repository; `nomothetic/` stands for `src/nomothetic/`.

    tlc -workers 2 -config routine_slots.cfg MCRoutineManager
    tlapm RoutineManagerProofs.tla

## The system

| component | state it keeps | operations | hard behaviour |
|---|---|---|---|
| routine supervisor (`routine_manager.py`, `routine_control_routes.py`) | table of running routines, one entry, child process and monitor task each; an asyncio lock; a termination lock per entry | start, heartbeat, stop, stop_all, list_running, shutdown; the monitor | coroutines interleave at every await; a lease timer races heartbeats, stops and the child's own exit; children ignore signals; the loop is torn down |
| wake-word listener (`wake.py`, `wake_routes.py`) | listener thread, stop/pause/stream-closed events, microphone stream | start_background, stop, unload_model, pause, resume; the listener loop | threads share events and fields; a join gives up; a device vanishes |
| recording, playback (`audio.py`, routes in `api.py`) | recording and playing flags, a thread each | start, stop, play | check and act outside the lock; share the microphone with the listener |
| speech to text (`stt.py`) | the loaded model, an idle timer and its generation | create_recognizer, transcribe, unload | the timer races the next use; a recognizer outlives its model |
| HAT client (`hat.py`) | a socket, its reader, a request counter, a lock | one request method behind some twenty commands, close | timeouts, reconnection, one retry; unlocked close |
| routine log store (`routine_log_store.py`, `routine_routes.py`) | per routine: current run, status, bounded events | record, get, list | late events of an older run |
| event forwarder (`autonomy_forwarder.py`) | bounded queue, thread, broker connection | enqueue, publish loop, stop | overflow, retry after an unseen acknowledgement, copies on reconnection, stop with events queued |
| central consumer and run store (`telemetry_consumer.py`, `autonomy_store.py`) | runs and their events | ingest of a message | duplicated and reordered events, check then insert, a statement that fails after another |
| accounts and tokens (`auth.py`, `auth_routes.py`, `token_store.py`, `user_store.py`) | users, refresh tokens | register, login, refresh, logout, change password | read, delete and create across awaits |
| fleet registry (`fleet_routes.py`, `fleet_store.py`) | vehicles, pinned device keys, owners | register with a proof, remove | check then insert, a statement that fails after another |
| pairing and device authentication (`pairing.py`, `device_jwt.py`, `device_auth_routes.py`) | signing secret and pairing code, in memory and in files | start, pair, refresh, reset | restarts, files that cannot be written or read |
| plugin authentication (`plugin_auth.py`, `plugin_auth_routes.py`) | a key file per plugin, outstanding nonces | register, challenge, token | single use under repetition and expiry; reads and checks in worker threads |
| AI commands (`ai_command.py`, `ai_routes.py`, `ai_conversations.py`) and rate limiter (`rate_limit.py`) | conversations, busy marks, a window of requests | begin, commit, abort; rounds of tool calls | a slow provider between begin and commit; expiry, eviction |
| camera and streaming (`camera.py`, `streaming.py`, routes in `api.py`) | recording flag, the camera, the stream server | photo, frame, viewer, record, stop; start and stop of the stream | nothing locks the camera; a server is stopped before it has bound its port |
| the rest | telemetry, speech synthesis, catalogue, database client, run mode | | not modelled, see below |

How they interact.  Routes call the supervisor from the event loop; a voice command is an
AI command that the listener thread submits to that loop, and it may call start, stop and
stop_all of the supervisor and is cancelled when the listener's time limit passes.  The
supervisor and the routines write to the log store, whose events the forwarder sends over MQTT to
the central consumer, which files them in the run store.  Pairing and plugin authentication sign
with one secret.  Recording routes park the listener; photos, frames, viewers and recordings share
the one camera.  The listener and the transcription route share the STT
model.  The lifespan in `api.py` starts them and, once every request has been answered, stops
the consumer, the forwarder, the listener, audio, the stream server, the camera, the HAT client
and, last, the supervisor.

What makes each correct: a routine never has two processes and none survives the gateway; a
lease ends a run when and only when it lapsed; every call is answered.  One listener holds one
capture stream, never while the robot speaks or records, and it ends when told to.  An answer
of the HAT daemon goes to the request it belongs to.  A model in use is not freed and an idle
one is.  An accepted event reaches the broker, in order, and the central history of a run says
what the device saw.  A used, ended or revoked token is worth nothing; a nonce is good once; a
pinned or registered key stands.  A conversation is whole turns.  A device runs one thread and is
left off when nobody uses it.

## Modules

* `RoutineSlots` - what the supervisor promises, in a page: a routine is a slot with at most
  one live run; a run begins only in an empty slot, and never twice.
* `RoutineManager` - the supervisor in detail; `MCRoutineManager` gives it small instances;
  `RoutineManagerProofs` proves it correct and that it implements `RoutineSlots`.
* `WakeListener` - the listener thread, the configuration route and the recording routes;
  `MCWakeListener` and `WakeListenerProofs` likewise.
* `HatIpc` - the HAT daemon's client and a daemon it may lose; its configurations instantiate it
  directly.  `HatIpcProofs` proves it correct.
* `SttEngine` - the speech-to-text engine's one model, its users and its idle timer; instantiated
  directly.
* `PythonNone` - the one value `None`, shared by the modules that are proved about together.

* `RoutineLog` - the log store; `EventChannel` - what the forwarder promises, in a page, over the log
  store; `EventForwarder` extends it with the forwarder's thread, its MQTT client and the connection,
  and its property `IsChannel` says that it keeps the promise.
* `RunHistory` - the central consumer and both run stores; `EventPipeline` composes it with
  `EventChannel`, which stands for the forwarder, so that the composed instance stays small.
* `EventProofs` proves the forwarder and the pipeline behind it: since the forwarder's behaviours are the
  channel's, what is proved of the pipeline does not depend on how an event gets through.
* `Accounts` and `FleetRegistry` - the central server's two sets of requests; `CentralRequests`
  composes them (one event loop, one bound on requests) and `CentralRequestsProofs` proves both.
* `DevicePairing` and `PluginAuth` - the robot's two ways in; `DeviceAuth` composes them (one signing
  secret, one process that restarts) and `DeviceAuthProofs` proves both.
* `RateLimiter` - the sliding window; `AiCommands` - commands, conversations and tool rounds behind it.
  `CommandProofs` proves both, and the speech engine.
* `AudioDevices` (recorder and player) and `Camera` (camera and stream server), over
  `MediaRequests`, which only declares what they share; `MediaDevices` composes them and
  `MediaDevicesProofs` proves them.

Operators whose comment begins with "Slip:" are plausible mistakes, used nowhere in the models.
`PROJECT.json` pairs each with the property that catches it: putting the slip in the place of the
operator it is a version of makes TLC find that property violated.

### RoutineManager and its code

An action is the code between two suspension points of the event loop, so `start` is four actions:
the request queues for the manager's lock (`StartCall`), is refused or awaits the launcher with the
lock held (`StartConflict`, `StartLaunch`), and registers the entry with its monitor task or fails
(`LaunchDone`, `LaunchFails`).  `call[c]` is the coroutine a caller runs (which operation, at which
await, for which run); `running` and `entry` are `_running` and the `_RoutineProcess` records;
`mon[r]` is the control point of the monitor task of launch `r`; `term[r]` is the holder of the
entry's `term_lock`; `waiters` is the queue of the lock, first come first served as in asyncio,
where a monitor's clean-up queues like everyone else; `recorded` is what the log store was told.
`_terminate` is `Interrupt`, `Kill` and `TerminateReturns`, performed by a caller or by a monitor.

External to the code and nondeterministic: a child exits when it likes (and need not obey SIGINT),
a launch may fail, the clock ticks, the server stops accepting requests (`Drain`) and, when every
request is answered, runs the shutdown; the loop may be torn down before that (`LoopCancelled`).
Cancellation follows asyncio: a monitor that waits or terminates handles it by terminating its
child, one that has not begun or that waits for the lock in its clean-up just ends (`lost`).  A
voice command can be cancelled at any await; cancelled while it awaits a monitor it passes the
cancellation on, because awaiting a task does.

### WakeListener and its code

`pc[t]` walks `_run`: set-up, loop head, parked, opening, listening, and in a conversation turn,
reopening, capture, dispatch and await.  `stop`, `paused` and `closed` are the three events; `held` says
that `_stream` is not None and `mic` counts the streams really open on the device, so a leak can be
seen.  Reading an event and acting on it are two steps.  A configuration request is the sequence of
`update_wake_config`: stop (note, signal, join or give up, forget), unload, start; the gateway's
shutdown only stops.  `StopGivesUp` is enabled when five seconds can really pass: the thread
is loading the model, waiting for an answer or for its speech, or the stop event has been cleared by a start.
`hears` are the threads whose recognizers use the model now loaded.  `abandoned` is a history
variable: the threads a stop gave up on.  A command that is heard is spoken back by a thread of its own, `speech[t]`, while the
AI service works on it; before the next turn `_await_speech` joins that thread (`SpeechJoined`) for the longest utterance and ten seconds
more, and then goes on all the same (`SpeechOutlives`): the speech is marked `outlived` and plays into whatever comes next.

### HatIpc and its code

`call[c]` is `_request` as thread `c` runs it: waiting for the lock, connecting, about to send, sent,
reading; `try` tells the first try from the second; `cmd` names the command by the id of its first
line, so the two tries of one command can be told from two commands.  `sock` and `reader` are `_sock`
and `_rfile`, each the number of a connection.  `timedout` is CPython's mark on a reader whose read
timed out, after which every read of it raises an OSError: `_send_request` takes that for a lost
connection, and it is all that keeps a late answer from the next request, since ids are not compared.
`Lost` is the `except HatConnectionError` of `_request`: close and connect again after the first try,
raise after the second.  The lifespan's `close()` takes no lock; it is `CloseReader` and `CloseSock`.
The reader's own lock makes `close()` wait for a thread that reads.

The daemon is external: per connection a queue of lines, executed in order, and a queue of answers.
It may drop a connection at any moment, with answers unread, and goes on executing what it has read
of a connection the client closed.  Requests of an old connection are therefore not ordered before
those of a new one, and no property says that they are.

### SttEngine and its code

`lock` is held over a whole transcription, which is `Begin` (the lock and the model's loading) and then
`Transcribed` or `DecodeFails`; everything else the engine does under its lock is one action.  `model`
is the number of the loading that made the present model, so a recognizer (`ears`, or `handle` while it
is built outside the lock) that holds a freed model can be told from one that holds its successor.  A timer is
a thread: `armed`, `fired` (waiting for the lock, past cancelling), `over`.  Timers are named by their
generation, the number `_idle_unload` gets as argument.  `spoiled` and `used` are history variables.
`Unload` is called only when the listener has ended: that is the engine's contract, and `WakeListener`
models the caller and where it breaks it.

### RoutineLog, EventForwarder and their code

`log` is the routine's record in the store.  An event comes with any run id or none, and with any time, as the route takes it: so late
events of an earlier run and runs that overlap are among the behaviours.  A run id that is not the record's clears the record's events and not
its status (`Logged`), also when it is an earlier run's, which makes that one the record's again.  An event is queued in the same step of the event loop that records it.  `pc` walks the forwarder's `_run_loop`
and `_publish`: take an event, connect if needed, publish, wait for the acknowledgement, back off and try again.
Every try is a publication (`pubs`) of its own; the MQTT client keeps each until it is acknowledged
(`unacked`) and sends all of them again on a new connection, which is paho's contract for QoS 1 and
external to the code.  `wire` and `acks` are what is under way on the present connection and are lost with it.
`trailing` remembers that an event was taken while a copy of an older one was unacknowledged.  A fault is a
lost connection, a refusal, or an acknowledgement later than the time limit.

### RunHistory, EventPipeline and their code

Each message becomes a coroutine (`task`): with the database, look the run up (`select`), `insert` or
`update` its row, store the `event`, each an await at which others proceed and each of which may fail;
with the store in memory the whole is one step.  `runs[r]` is a sequence of rows because nothing stops two inserts of one
run.  The properties speak of undisturbed runs: no statement failed, no event was dropped (`lost`), no two ingests of
the run were under way at once (`crossed`); what happens otherwise is the database's schema's to forbid.
`EventPipeline` joins the two at the broker: what `EventChannel` lets it see, the consumer is fed, once or with a copy.

What can be claimed end to end is less than one would wish.  The log's status is what was told last, of whichever run, so
`HistoryAgrees` compares it with the row of the run that told it, which need not be the run the record names.  The store in memory
orders runs by the time their first event carried, and a run it pushed out begins anew with a late event, as begun at that event's time: so a
run that started last can be pushed out by an older one.  `NewestKept` says what is left: a run is missing only while the store is
full of runs that started no earlier than one of its events.  Left out: blank run ids, which the route takes (the log keeps one as a
run of its own, the consumer skips its events), ids padded with blanks, which only the consumer strips, and time stamps in
different notations: the store in memory compares them as strings, the model as numbers.

### Accounts, FleetRegistry and their code

One account and one vehicle are enough: requests for different ones touch different rows.  `req[c].at` and
`ask[c].at` name the next database statement of a request whose answer another request can change; every
such statement is a step.  A token is a number; `issued` remembers its session, and the
`epoch` of the password it rests on.  `forked` are the sessions two requests of which deleted one token at once,
`late` marks a token that a request under way during a password change stored: the two races the
code leaves open, and everything else is claimed without exception.  In the fleet, `early` are the owners
whose link found no pinned key (nothing to prove), `contested` says that two registrations found none at once.

### DevicePairing, PluginAuth and their code

`disk` holds the two secret files; a file is good, bad (absent or malformed) or locked (unreadable).  A start loads or
draws and writes them, and a write may fail; pairing forgets the code in memory; a reset draws a new signing secret and writes it.
`Crash` loses memory and keeps the files.  Secrets are numbers, so that a fresh one is told from all before.  `unsaved`
are the secrets that a failed rotation left in the file, `unlocked` that a code file became readable later.
In `PluginAuth` files and signatures are handled in worker threads, so a registration is read, then write, and a
token request is read the key, consume the nonce, verify.  Nonces expire in the order they were issued.  `raced` are the
plugins two of whose registrations overlapped or whose stored key a registration could not read.

### AiCommands, RateLimiter and their code

A command is admitted by the limiter (`stamps` is the client's deque), reads its key in a thread, begins in its
conversation (`begin` refuses a busy or unknown one, expires idle ones and evicts the oldest beyond the limit), and
then alternates the provider and the tools it asks for until an answer (`commit`), a failure or the last round
(`abort`).  A message is who said it in which command, so a lost, repeated or foreign turn shows.  `sent` is what the provider is
told: `begin` trims the history with the new message at its end, so a full one loses its first turn before the provider sees
it, and `TurnsKept` counts that.  A cancelled request gives its conversation up wherever it waits, also while the provider's client closes; one
that waits for the key has none yet.

### AudioDevices, Camera and their code

A request runs in a worker thread.  A start marks its device active under the lock, lets go of it and then makes
the thread (`enter`, `thread`); a stop signals, joins for a while and clears (`signal`, `join`, `leave`).  `loops` are the
threads ever made, `thread` the one the device remembers.  The camera has no lock: `shot[c].at` is the next call a
request makes on it, and `started` and `encoding` are what picamera2, external, is then up to; it refuses to be configured
while it runs.  A stream server is a thread that is `binding`, `serving` or `over`; `binding` fails when another serves the port.
`crossed`, `cut`, `left` and `hurried` remember the overlaps under which the code promises nothing.  `paused` is the listener's pause event.  It has
three writers: a request to record sets it, the end of one clears it, and the listener's own start clears it (`ListenerStarts`), at
any moment.  `resumed` remembers that it was cleared while a request that set it recorded or was about to.

## Runs

| run | instance | checks |
|---|---|---|
| `routine_slots` | 2 routines, 2 launches, 2 HTTP callers, no clock | `OneLiveProcess`, `NoneOrphaned`, `StopReplyIsFinal`, `SlotsSpec` (refinement) |
| `routine_leases` | 1 routine, 1 launch, an HTTP caller and a voice command, a default window of 1 and a requested one of 5 that the ceiling cuts, a cap of 1 or none, clock to 1, fairness | `FirstReasonKept`, `LapseIsJustified`, `CallsReturn`, `LapsedLeaseEnds`, `CancelledRunsEnd` |
| `wake_listener` | 2 configuration requests, 1 recording request at a time, 2 threads, 2 streams | `OneListener`, `NoStreamLeaked`, `HalfDuplex` |
| `wake_liveness` | the same with 1 configuration request, fairness | `PausedMicReleased`, `StopEndsThreads` |
| `hat_ipc` | 2 threads, 4 lines, 3 connections, fairness | `AnswerIsOwn`, `LockReleased` |
| `stt_engine` | 2 uploads at a time, 3 timers, 3 loadings, fairness | `HandlesAreLive`, `TimerFreesIdle`, `IdleModelFreed` |
| `event_forwarder` | 3 events of one type and run (the forwarder looks at neither), a queue of 1, 2 faults, fairness | `LastWord`, `IsChannel` (refinement), `Delivered` |
| `event_pipeline` | 3 events of 2 runs or none, in any order, 3 types and 1 time (database) or 2 types and 2 times (memory), 1 copy, 2 ingests at once, 1 run kept in memory, 1 failure | `TypeOK`, `HistoryAgrees`, `NewestKept` |
| `central_requests` | 2 requests at a time of 4, 2 passwords, 4 tokens, 2 owners, 2 keys | `OneTokenPerSession`, `ChangeEndsSessions`, `OwnersProved` |
| `device_auth` | 5 secrets, 4 requests, 2 at a time, 2 plugins, 2 keys, 2 nonces of which 1 outstanding | `SessionsEnd`, `ShownCodePairs`, `NonceEarnsOne`, `KeyStands` |
| `ai_commands` | 3 commands, 2 at a time, 2 admitted per window of 2, a history of 2 turns, 1 conversation kept, 2 rounds of at most 2 tools, fairness | `AiTypeOK`, `TurnsKept`, `RateHeld`, `CommandsEnd` |
| `media_devices` | 5 requests, 3 at a time, 3 threads, 2 stream servers, the listener started at any moment | `OneThread`, `MicHeld`, `CameraHeld`, `StreamServed` |

All runs pass.  Deadlock is checked except in the last six, where the bounds (events, requests, commands) let the
system come to rest.

Why the bounds are enough to be of use.  Two callers and two launches are what it takes for a start
to replace an entry whose monitor has not cleaned up, for two stops to terminate one child, and for
a stop_all to have a second routine to go on to; callers are slots, so each makes any number
of requests.  One tick covers a window that passes or is renewed before it does, and a cap that is
reached with it.  Two threads are a listener and one that outlived its
join.  Four lines are a command that times out, one that finds its reader unusable and is sent again,
and another; a call is begun only when both its lines are within the bound.  Three timers are one that fired and waits,
one that was armed since and one that is armed after the model was freed and loaded again.  Three events and a queue of one are an
event in hand, one queued and one dropped; two faults are a late answer and the lost connection that sends its copy again.
Three events of two runs are a run, another, and a late event of the first, which in memory brings it back and pushes the other out.  Only the
database looks at no time and only memory drops by it, so `MCEventPipeline` varies the time with the one and the third type with the other, and takes
runs and ingests to be alike (symmetry: no definition names one).  Two requests at once of four in all race for one token
or one unpinned key, after a login that made it and before a use that shows the harm; five secrets are two starts and a reset.
Three commands continue, push out and outlive a conversation, and fill a history of two turns, of which the third command is sent one.  Three media requests at once of five are a stop that overlaps two starts.
Where a bound could hide something most proofs below do not have it: they hold for any number of routines, callers, launches, windows,
caps, requests, threads, streams, lines, connections, timers, loadings, events, faults, ingests, rows, commands, rounds,
turns, tokens, keys, secrets and nonces.

### Fairness

`RoutineManager!FairSpec`: the loop runs every coroutine that can go on (weak fairness per call and
per monitor), timers fire, the launcher returns, and a child that was sent SIGKILL dies.  Taking
`term_lock` is strongly fair, because asyncio's lock is first come first served and the model keeps no
queue for it.  A child need not obey SIGINT, clients need not call, the server need not stop.
`WakeListener!FairSpec`: threads and worker threads are scheduled, opening the device succeeds or
fails, a capture, a dispatched command and the wait for a speech end (all have time limits in the code).  Nobody need speak,
nor fail.  `HatIpc!FairSpec`: a thread inside the lock runs, and connecting and reading end (the socket
has a time limit).  The daemon owes nothing, and entering the lock is not fair, because a
`threading.Lock` is not first come first served.  `SttEngine!FairSpec`: a transcription ends (ffmpeg has a time
limit), a timer fires, and one that fired gets the lock when nobody else takes it.
`EventForwarder!ForwarderFairSpec`: the thread, the client and the broker go on; faults are bounded, so from some moment
the connection holds, which is what `Delivered` needs.  `AiCommands!AiFairSpec`: the event loop goes on and the provider's
client has a time limit.  The other specifications state no fairness and have safety properties only.

## Divergences

Where the code does not do what a reader might expect of it.  The properties are stated so that they hold of the
code as it is; the history variables or the conditions in them name these cases, and each can be seen in the model.

* `heartbeat` (`routine_manager.py:535`) renews an entry as long as its process has no return code, also after the
  monitor has decided that its lease lapsed: the operator is told that the routine runs for another window, and it is stopped
  for a missed heartbeat.
* A start by a voice command that is in flight while `shutdown` takes its snapshot launches a child that nobody ends
  (`routine_manager.py:564`).  `NoneOrphaned` is checked and proved without voice commands.
* The listener tests the pause event, then opens the microphone (`wake.py:869`).  A pause between the two finds the stream closed and
  returns; the recorder and the listener then both have it.
* The pause event is one flag for all.  Three kinds of events resume the listener under a recording: of two requests to record the one that
  is refused (`api.py:2157`); a stop that is answered after the next recording began, or that gave up waiting for the recorder's thread (`api.py:2185`);
  and the listener's own start, so a changed wake phrase (`wake.py:770`).  `MicHeld` names all of them.
* A speech longer than the longest utterance and ten seconds is not waited for (`wake.py:1305`): the listener chimes and opens the
  microphone while the robot still speaks.  `HalfDuplex` holds of every speech that is within the limit.
* An event of an earlier run that arrives late takes the log's record over: its events are cleared, its status is the late event's, and its
  run id is the earlier run's again (`routine_log_store.py:204`).  In the store in memory such an event can bring a run back that was pushed out,
  and push out a newer one (`autonomy_store.py:196`).
* A conversation whose history is full is continued without its first turn (`ai_conversations.py:144`): the message to be answered takes its place.
* `stop` forgets the listener's thread even when the join gave up (`wake.py:785`), so `unload_model`, which asks `is_running`, drops the
  model although the listener is alive.
* After a HAT request timed out, the next one is sent on the old connection, finds that its reader refuses to read, and is sent
  again on a new connection: the daemon executes it twice although no connection was lost.
* An upload that fails to decode leaves the model it loaded in memory: the idle timer is armed only after a transcription that
  succeeds (`stt.py:397`).  `IdleModelFreed` shows that this is the only way a model nobody uses stays.
* The supervisor's own stop events carry no run id, so the central consumer refuses them, although the forwarder's docstring
  (`autonomy_forwarder.py:45-53`) counts them among what it forwards.
* A fleet registration that fails between the edge and the key leaves the vehicle unpinned and its retry refused with 409.
* A plugin key that cannot be read counts as none, so a registration replaces it (`plugin_auth.py:170`).
* A device identity file that holds another kind of key is overwritten, although the log line speaks of a key in memory.
* Nothing locks the camera: a frame's `finally` stops it under a recording that began meanwhile, and a photo that fails leaves it running.
* A stream stopped before its server has bound the port is not stopped (`streaming.py:388`), and the next cannot bind.

## Proofs

The proof modules follow one argument: an inductive invariant `Inv`, `Init => Inv`, and a lemma per
group of actions that a step keeps it, put together by `NextInv`.

`RoutineManagerProofs`.  `OneLiveProcess` alone is not inductive: a launch is safe only because the
launcher is awaited with the lock held and nothing else can start the routine meanwhile.  `Inv` adds that
(`LaunchExclusive`), that runs are numbered in launch order and table entries name runs of
their own routine (`Bookkeeping`, which also says that a monitor in its clean-up has seen its process
exit: so the entry it removes is never that of a live process), and what a request remembers
(`CallsKnow`).  From it follow `TypeCorrect`, `OneLiveProcessAlways` and `ImplementsSlots`: initial states
map to initial states and each step to beginning or ending a slot's run, or to nothing.  `ReasonsKnown` says that whoever
terminates a run, or has it on its list, has given it a reason: `FirstReasonKeptAlways` and `LapseIsJustifiedAlways`.  The
last two need that no voice command is under way (`VoiceCalls = {}`), as the routes guarantee for HTTP requests: then a call is in the
lock's queue once and only while it waits (`QueueKnown`), so the shutdown is the last call there is and what still lives is on its
list (`ShutsDown`): `NoneOrphanedWithoutVoice`; and no monitor is lost and one that is done has cleaned up (`DoneKnown`):
`StopReplyIsFinalWithoutVoice`.

`WakeListenerProofs`.  `Inv` adds to `OneListener` that the listener and the requests know only started
threads and that a request forgets its thread only when it is dead or given up (`ThreadsKnown`), and for
the microphone that no thread in a conversation or about to open holds a stream (`StreamsTold`), which is
what makes `CloseStream` and `OpenStream` keep stream and event in step, and that a speech plays only while its thread waits for the
answer or for the speech, unless it outlived the wait.  From it follow
`ListenerTypeCorrect`, `OneListenerAlways`, `NoStreamLeakedAlways` and `HalfDuplexAlways`.

`HatIpcProofs`.  `AnswerIsOwn` speaks of answers already given; what makes the next one right is
`InFlight`: a reader that never timed out has nothing to read but the answer to the one request in hand.
It needs that the lock holds at most one request (`CallsKnow`) and that socket and reader belong to
one connection, on which a new one finds nothing (`ConnsKnown`).  From it follow `ClientTypeCorrect`,
`AnswerIsOwnAlways` and `RetryIsFreshAlways`.

`CommandProofs`, the speech engine.  `EngineInv` says that a transcription holds the lock and a loaded model (`Locked`), that the model is
shared while the listener has recognizers (`Sharing`), that `_idle_timer` is the timer of the present generation and
alive (`TimerOfTheMoment`), and that a use which arms no timer is one of a shared model (`LaterUses`), which
is why comparing the generation suffices for `TimerFreesIdleAlways`.  The others are `EngineTypeCorrect`,
`HandlesAreLiveAlways` and `IdleIsTimedAlways`.

`CommandProofs`, the rate limiter.  `RateHeld` is about requests long forgotten by the limiter, so `RateInv` relates what it keeps to all
it ever admitted: the times rise, what it keeps are the last of them, those it forgot have left the window, and between a request and
the one `MaxAdmitted` later lies a whole window.  The last is what a new request must keep: if the one `MaxAdmitted` before it is still
among those kept, the limiter refuses, otherwise it has left the window.  Then the requests of any window have numbers less
than `MaxAdmitted` apart: `RateHeldAlways`.  That the forgotten ones are the first ones, which the code's loop relies on, is the lemma
`OldOnesFirst`, by the least index that stays (`LeastOfNaturals`).

`CommandProofs`, AI commands.  `TurnsKept` does not say why a commit adds to the history that the command began with.  `ConvInv` does: a
conversation is busy exactly while one command serves it, that command's history is the last turns answered in it before, as many as fit beside its own message, a
conversation not busy is not empty (`abort` drops one that is), and its messages are the last turns answered in it (`LastTurns`).  Trimming
keeps that because it drops a whole turn when one was added (`TurnAdded`).  `RoomInv` says that the store's limit is passed only by
conversations that are busy, so by no more than the commands that run at once.  From these `AiTypeCorrect` and `TurnsKeptAlways`.

`EventProofs`, the forwarder.  The queue rises, the hand is below it, and all accepted below both has been received (`OrderInv`);
whatever the client holds, everything older has been received (`SentInv`), which is why a copy of an old publication can
not skip an event; what is on the wire is unacknowledged and there once (`WireInv`).  From these `ForwarderIsChannel`, the refinement, and with
`NewestInv` (no older copy is unacknowledged unless `trailing`) `LastWordAlways`.  `ForwarderTypeCorrect` includes the queue's limit.

`EventProofs`, the pipeline.  `HistoryAgrees` speaks of the moment when nothing is under way, so its invariant must say at every other moment
what is still to come.  An event received is *due* until the row of its run has taken it in (`Due`).  `PipelineInv` is:
* `ChannelInv`: the log's status is what was told last, of whichever run (`LogTells`); an accepted event is received before
  every later one that is (the channel's promise, and the only thing used of the forwarder); nothing is said of the order of runs;
* `MessageInv`: every message, ingest, row and stored event is of an event received, with the content that was recorded;
* `RowInv`: a run no two ingests of which overlapped has one row at most, and one about to be inserted has none; `HeldInv`: an ingest past its
  first statement has its row, unless a statement failed; `DoneInv`: so has a run with an event no longer due;
* `ArrivalInv`: of a plain run (no loss, no overlap, no copy) the events still due are newer than all those done, in the order of arrival;
* `StatusInv`: so the row's state is that of the newest event done which tells one;
* `CountInv`: an event is in the store, the feed and the coroutines, together, once for every time it was received;
* `MemoryInv`: in memory, while a run all of whose events have arrived is not held, the store is full of runs that started no earlier than
  one of its events: what pushes one of those out in turn starts later still, or is the run pushed out itself.
A step leaves the row of a run alone (`Rests`), or one ingest applies its event to it (`Applies`); `Moves` is that case split, and `DoneStep`
and `StatusStep` are proved along it.  When nothing is under way nothing is due, and the parts say `OneRow`, `StateAgrees`, `LogAgrees` and
`EventsStored`: `HistoryAgreesAlways`.  `NewestKeptAlways` is `MemoryInv` then, and `PipelineTypeCorrect` the type invariant.

`CentralRequestsProofs`.  A session is held by one token or by the one request that replaces it (`OneClaim`), a token two requests
delete at once is of a forked session (`Unshared`), and what a request may yet store rests on a password not older than the last change
that revoked (`AllSound`).  In the fleet at most one registration may pin, and while there is one nothing is pinned (`Uncontested`).  From these
`OneTokenPerSessionAlways`, `ChangeEndsSessionsAlways` and `OwnersProvedAlways`.

`DeviceAuthProofs`.  No secret in use is newer than the last drawn (`Drawn`), and the one in the file signs for the present session alone, or a
rotation failed (`Ended`): this makes `SessionsEndAlways` survive a restart.  `Shown` says where the displayed code is found.  A nonce
is outstanding, in one request's hand, or spent (`Spent`), and what a request found out it may rely on (`AskSound`): `NonceEarnsOneAlways`.
`Stands` says that a registration that writes has nothing to replace: `KeyStandsAlways`.

`MediaDevicesProofs`.  For a device no stop of which overlapped a start the live thread is the remembered one and while one is made there
is none (`Orderly`); while a request that paused the listener has yet to record, or a recording runs, the listener is paused or was resumed by one of
the events `MicHeld` names (`Muted`, which needs that the recorder's thread a request has waited for is dead when it leaves, unless a stop gave up); the requests that use the camera at once want the same of
it (`OneKind`, `Apart`), so camera and encoder run exactly for whom they should (`Steady`); there is one stream server, reported or being closed
(`Single`).  From these `OneThreadAlways`, `MicHeldAlways`, `CameraHeldAlways` and `StreamServedAlways`.

Assumptions: the named ASSUMEs of the modules (bounds are natural numbers, configured durations are
positive, `None` is none of the other values (`NoneAssumption`, and `RecordAssumption` and `IngestAssumption` for the records that
may stand in its place), callers and launches are told apart, and no more than finitely many commands or ingests are under way at once,
for which counting them needs it), and the two that need `VoiceCalls = {}`.

Proved but in no run, because what the runs check is more telling: `TypeOK` of the supervisor, listener, HAT client, speech engine, forwarder,
central requests, device authentication and media devices, `RetryIsFresh` and `IdleIsTimed`.

Only model-checked: everything under fairness, because liveness and ENABLED are outside the prover's reach (`CallsReturn`,
`LapsedLeaseEnds`, `CancelledRunsEnd`, `PausedMicReleased`, `StopEndsThreads`, `LockReleased`, `IdleModelFreed`, `Delivered`, `CommandsEnd`).  Every
other property of a run is stated by a theorem; `NoneOrphaned` and `StopReplyIsFinal` under the condition that there is no voice command, which
`routine_slots` has too.

Nothing here needed induction over data.  Where a least element is wanted (the first time that stays in the window) the library's theorem that a nonempty set of naturals has a least element serves instead of an
induction over a sequence, and the lengths of sequences are counted as finite sets.

## Not modelled

Audio data, pictures, phrase matching and what is said; names, parameters, credentials and the environment of
a child, which are accepted or refused before any state changes; what the HTTP replies look like.  The telemetry publisher and store: a
periodic publication and an append-only table.  Speech synthesis: a subprocess per phrase.  The routine catalogue is read at each use.
The database client: the stores' models take its statements as atomic.  Package constants and the run mode.  The HAT routes are thin
wrappers of the client's commands.  `get_frame_generator` of the camera and `reset` and `verify_and_consume` of the pairing state have no caller.

## Plan

1. `StopReplyIsFinal` and `NoneOrphaned` with voice commands: state the condition under which they hold of a run (no voice command
   terminates or starts that very run) in place of `VoiceCalls = {}`, check it and prove it.
2. The forwarder in the place of the channel: the pipeline over `EventForwarder` itself, as a corollary of `ForwarderIsChannel`.
3. The telemetry publisher: its connection handling follows the forwarder's and could join `EventPipeline`.
4. The voice command as `AiCommands` runs it, in place of `RoutineManager`'s voice caller.
5. The order of the lifespan's shutdown across the listener, the media devices, the HAT client and the supervisor.
