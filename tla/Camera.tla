------------------------------- MODULE Camera -------------------------------
(***************************************************************************)
(* The camera of the gateway (camera.py) under the requests that use it, and  *)
(* the stream server (streaming.py) that is started and stopped beside it.    *)
(* Nothing locks the camera: a photo is taken on the event loop, a frame, a   *)
(* viewer of the stream and the two ends of a recording in threads.  picamera2 *)
(* itself is external: it refuses to be configured while it runs.             *)
(***************************************************************************)
EXTENDS MediaRequests

CONSTANT MaxServers \* bound: stream servers

VARIABLES
    recording, \* _is_recording
    started,   \* external: picamera2 runs
    encoding,  \* external: it has an encoder
    shot,      \* [Calls -> the request that uses the camera]
    stream,    \* api._stream_server
    servers,   \* the stream servers: what the thread of each is at
    closing,   \* [Calls -> the server a request to stop the stream closes]
    left,      \* history: a call that failed left the camera running
    cut,   \* history: something used the camera across a recording
    hurried    \* history: a stop of the stream overlapped a start

cameraVars == <<recording, started, encoding, shot, stream, servers, closing,
                left, cut, hurried>>
camera == <<recording, started, encoding, shot, left, cut>>
streaming == <<stream, servers, closing, hurried>>

Servers == 1 .. MaxServers
Ops == {"photo", "frame", "view", "record", "halt"}
Shot == [op : Ops, at : {"configure", "start", "capture", "encode", "flag", "halt", "stop", "clear"}]

ASSUME CameraAssumption == MaxServers \in Nat /\ None \notin Shot

(* Type correctness of the camera and the stream server. *)
CameraTypeOK ==
    /\ recording \in BOOLEAN /\ started \in BOOLEAN /\ encoding \in BOOLEAN
    /\ shot \in [Calls -> Shot \cup {None}]
    /\ stream \in Servers \cup {None}
    /\ DOMAIN servers \in {1 .. n : n \in 0 .. MaxServers}
    /\ \A n \in DOMAIN servers : servers[n] \in {"binding", "serving", "over"}
    /\ closing \in [Calls -> Servers \cup {None}]
    /\ left \in BOOLEAN /\ cut \in BOOLEAN /\ hurried \in BOOLEAN

CameraInit ==
    /\ recording = FALSE /\ started = FALSE /\ encoding = FALSE
    /\ shot = [c \in Calls |-> None]
    /\ stream = None /\ servers = [n \in {} |-> None]
    /\ closing = [c \in Calls |-> None]
    /\ left = FALSE /\ cut = FALSE /\ hurried = FALSE

Does(c, where) == shot[c] # None /\ shot[c].at = where
Turns(c, where) == shot' = [shot EXCEPT ![c].at = where]
Done(c) == shot' = [shot EXCEPT ![c] = None]
Using(ops) == \E c \in Calls : shot[c] # None /\ shot[c].op \in ops

(* The event loop is free: no photo is being taken on it. *)
LoopFree == ~Using({"photo"})

Crosses(op) ==
    CASE op = "record" -> Using(Ops \ {"record"})
      [] op = "halt"   -> Using(Ops \ {"halt"})
      [] OTHER         -> recording \/ Using({"record", "halt"})

Uses(c, op) ==
    /\ shot' = [shot EXCEPT ![c] = [op |-> op, at |-> IF op = "halt" THEN "halt" ELSE "configure"]]
    /\ cut' = (cut \/ Crosses(op))
    /\ UNCHANGED <<recording, started, encoding, left, streaming>>

(* A request for a photo, a frame or a recording, or for its end, passes its   *)
(* first look at the camera.                                                 *)
Wants(c) == \E op \in Ops \ {"view"} :
    /\ LoopFree
    /\ op = "record" => ~recording
    /\ op = "halt" => recording
    /\ Uses(c, op)

(* A viewer connects to a stream server that serves, and gets frames until it  *)
(* leaves, the server stops, or the camera raises.                           *)
Views(c) ==
    /\ \E n \in DOMAIN servers : servers[n] = "serving"
    /\ Uses(c, "view")

(* A call of the camera raises.  The generator of frames stops the camera in   *)
(* its finally; a photo and a recording leave it as it is.                    *)
Raises(c) ==
    /\ IF shot[c].op \in {"frame", "view"} THEN Turns(c, "stop") /\ UNCHANGED left
       ELSE /\ Done(c)
            /\ left' = (left \/ (started /\ shot[c].at \in {"capture", "encode"}))
    /\ UNCHANGED <<recording, started, encoding, cut, streaming>>

Fails(c) ==
    /\ \E where \in {"configure", "start", "capture", "encode", "halt"} : Does(c, where)
    /\ Raises(c)

(* start_recording looks at the flag again in its thread; configure refuses a   *)
(* camera that runs.                                                         *)
Configure(c) ==
    /\ Does(c, "configure")
    /\ ~started /\ (shot[c].op = "record" => ~recording)
    /\ Turns(c, "start")
    /\ UNCHANGED <<recording, started, encoding, left, cut, streaming>>

StartCamera(c) ==
    /\ Does(c, "start")
    /\ started' = TRUE
    /\ Turns(c, IF shot[c].op = "record" THEN "encode" ELSE "capture")
    /\ UNCHANGED <<recording, encoding, left, cut, streaming>>

(* A frame is written; the viewer's last one is. *)
Capture(c) ==
    /\ Does(c, "capture") /\ started
    /\ Turns(c, "stop")
    /\ UNCHANGED <<recording, started, encoding, left, cut, streaming>>

(* external: start_recording starts the camera with an encoder. *)
Encode(c) ==
    /\ Does(c, "encode")
    /\ started' = TRUE /\ encoding' = TRUE
    /\ Turns(c, "flag")
    /\ UNCHANGED <<recording, left, cut, streaming>>

MarkRecording(c) ==
    /\ Does(c, "flag")
    /\ recording' = TRUE
    /\ Done(c)
    /\ UNCHANGED <<started, encoding, left, cut, streaming>>

(* stop_recording looks at the flag again; external: the encoder is stopped. *)
Halt(c) ==
    /\ Does(c, "halt") /\ recording
    /\ started' = FALSE /\ encoding' = FALSE /\ left' = FALSE
    /\ Turns(c, "stop")
    /\ UNCHANGED <<recording, cut, streaming>>

(* Slip: a photo does not stop the camera. *)
StopLess(c) ==
    /\ Does(c, "stop")
    /\ started' = (started /\ shot[c].op = "photo") /\ left' = FALSE
    /\ IF shot[c].op = "halt" THEN Turns(c, "clear") ELSE Done(c)
    /\ UNCHANGED <<recording, encoding, cut, streaming>>

StopCamera(c) ==
    /\ Does(c, "stop")
    /\ started' = FALSE /\ left' = FALSE
    /\ IF shot[c].op = "halt" THEN Turns(c, "clear") ELSE Done(c)
    /\ UNCHANGED <<recording, encoding, cut, streaming>>

ClearRecording(c) ==
    /\ Does(c, "clear")
    /\ recording' = FALSE
    /\ Done(c)
    /\ UNCHANGED <<started, encoding, left, cut, streaming>>

(* Slip: a stream is started whether or not one is. *)
StartsAnyway(c) ==
    /\ LoopFree /\ Cardinality(DOMAIN servers) < MaxServers
    /\ LET n == Cardinality(DOMAIN servers) + 1 IN
       /\ servers' = [i \in 1 .. n |-> IF i = n THEN "binding" ELSE servers[i]]
       /\ stream' = n
    /\ hurried' = (hurried \/ \E e \in Calls : closing[e] # None)
    /\ UNCHANGED <<closing, camera>>

(* A request starts the stream server in a thread, and reports it as running. *)
StartStream(c) ==
    /\ LoopFree /\ stream = None /\ Cardinality(DOMAIN servers) < MaxServers
    /\ LET n == Cardinality(DOMAIN servers) + 1 IN
       /\ servers' = [i \in 1 .. n |-> IF i = n THEN "binding" ELSE servers[i]]
       /\ stream' = n
    /\ hurried' = (hurried \/ \E e \in Calls : closing[e] # None)
    /\ UNCHANGED <<closing, camera>>

(* The server's thread binds its port, or fails if another server has it. *)
Bind(n) ==
    /\ servers[n] = "binding"
    /\ servers' = [servers EXCEPT ![n] =
           IF \E i \in DOMAIN servers : servers[i] = "serving" THEN "over" ELSE "serving"]
    /\ UNCHANGED <<stream, closing, hurried, camera>>

(* A request stops the stream: it is no longer reported, and is closed in a    *)
(* thread.                                                                   *)
StopStream(c) ==
    /\ LoopFree /\ stream # None
    /\ closing' = [closing EXCEPT ![c] = stream]
    /\ stream' = None
    /\ UNCHANGED <<servers, hurried, camera>>

(* close: a server that has not bound its port yet is not shut down; the join   *)
(* gives up after five seconds.                                              *)
CloseStream(c) ==
    /\ closing[c] # None
    /\ closing' = [closing EXCEPT ![c] = None]
    /\ LET n == closing[c] IN
       IF servers[n] = "binding" THEN hurried' = TRUE /\ UNCHANGED servers
       ELSE servers' = [servers EXCEPT ![n] = "over"] /\ UNCHANGED hurried
    /\ UNCHANGED <<stream, camera>>

CameraBegin(c) == Wants(c) \/ Views(c) \/ StartStream(c) \/ StopStream(c)

CameraStep(c) ==
    \/ Fails(c) \/ Configure(c) \/ StartCamera(c) \/ Capture(c) \/ Encode(c)
    \/ MarkRecording(c) \/ Halt(c) \/ StopCamera(c) \/ ClearRecording(c) \/ CloseStream(c)

Unused == \A c \in Calls : shot[c] = None

(* Safety: unless something used the camera across a recording, a recording    *)
(* that is not being stopped has the camera running with its encoder, and      *)
(* nobody's camera is stopped unless a call that failed left it running.       *)
CameraHeld == ~cut =>
    /\ recording /\ ~Using({"halt"}) => started /\ encoding
    /\ Unused /\ ~recording => started = left /\ ~encoding

(* Safety: unless a stop overlapped a start, the stream that is reported as    *)
(* running has a server that serves it or is about to, and no other does.      *)
StreamServed == ~hurried =>
    \A n \in DOMAIN servers :
        servers[n] # "over" <=> stream = n \/ \E c \in Calls : closing[c] = n
=============================================================================
