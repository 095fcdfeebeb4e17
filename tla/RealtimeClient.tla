--------------------------- MODULE RealtimeClient ---------------------------
(***************************************************************************)
(* RealtimeClient of frontend/realtime/src/audio/realtimeClient.ts: the    *)
(* microphone, the audio context and the WebSocket of the realtime page.   *)
(*                                                                         *)
(* A start suspends at the microphone's permission, at the loading of its  *)
(* worklet and at the opening of its socket; a stop at the closing of the  *)
(* audio context.  Each of them goes on with the stream, the context and   *)
(* the socket the client holds then, whoever put them there.  The device   *)
(* watch, the close event of a socket, its error and the worklet's error   *)
(* stop what the client holds, and nobody waits for that stop.             *)
(*                                                                         *)
(* A Start is a call of start with the stream, context and socket it makes.*)
(* Stream and context are set and cleared together.  The audio, the nodes  *)
(* and the frames on the socket are abstracted.                            *)
(***************************************************************************)
CONSTANTS
  Start,         \* the calls of start of a visit
  None           \* undefined

Handler == {"user", "switch", "reset", "nobody"}

ASSUME ClientAssumption == None \notin Start \cup Handler /\ Start \cap Handler = {}

VARIABLES
  gate,          \* gate.ready
  watching,      \* unwatch: devicechange is listened to
  startPc,       \* Start -> where the call is
  held,          \* the start whose stream and context the client holds
  sock,          \* the start whose socket the client holds
  socket,        \* Start -> its socket, as its listeners know it
  closing        \* Start -> the stop that waits for its context to close, if any

(* No stop waits.  A stop is by a handler, or by the start that failed.     *)
NoStop == [by |-> None, socket |-> None]

clientVars == <<gate, watching, startPc, held, sock, socket, closing>>
captureVars == <<held, sock, closing>>

ClientInit ==
  /\ gate = FALSE /\ watching = FALSE
  /\ startPc = [c \in Start |-> "unused"]
  /\ held = None /\ sock = None
  /\ socket = [c \in Start |-> "none"]
  /\ closing = [c \in Start |-> NoStop]

(* stop, called by by, up to where it waits for the context to close: at   *)
(* once over when the client holds none.                                   *)
StopBegins(by) ==
  /\ held' = None /\ sock' = None
  /\ closing' = IF held = None THEN closing
                ELSE [closing EXCEPT ![held] = [by |-> by, socket |-> sock]]

(* The context of c is closed and its stop closes the socket it took.      *)
StopClosed(c) ==
  /\ closing[c].by # None
  /\ closing' = [closing EXCEPT ![c] = NoStop]
  /\ LET s == closing[c].socket
     IN socket' = IF s = None THEN socket
                  ELSE [socket EXCEPT ![s] = CASE @ = "connecting" -> "failed"
                                                [] @ = "open" -> "closing"
                                                [] OTHER -> @]
  /\ UNCHANGED <<gate, watching, startPc, held, sock>>

-----------------------------------------------------------------------------
(* checkDevices and the device watch *)

GateChecked(found) ==
  /\ gate' = found /\ watching' = TRUE
  /\ UNCHANGED <<startPc, captureVars, socket>>

GateInvalidated ==
  /\ watching
  /\ gate' = FALSE
  /\ StopBegins("nobody")
  /\ UNCHANGED <<watching, startPc, socket>>

-----------------------------------------------------------------------------
(* start *)

(* start refuses, or asks for the microphone. *)
StartRefused == ~gate \/ held # None \/ sock # None

Begin(c) ==
  /\ startPc[c] = "creating"
  /\ startPc' = [startPc EXCEPT ![c] = IF StartRefused THEN "ended" ELSE "asking"]
  /\ UNCHANGED <<gate, watching, captureVars, socket>>

MicGranted(c) ==
  /\ startPc[c] = "asking"
  /\ startPc' = [startPc EXCEPT ![c] = "loading"]
  /\ held' = c
  /\ UNCHANGED <<gate, watching, sock, closing, socket>>

(* Mutant: the context is not looked at again after the await. *)
ModuleLoadedAnyway(c) ==
  /\ startPc[c] = "loading"
  /\ startPc' = [startPc EXCEPT ![c] = "connecting"]
  /\ sock' = c
  /\ socket' = [socket EXCEPT ![c] = "connecting"]
  /\ UNCHANGED <<gate, watching, held, closing>>

(* Without a context, or with one whose worklet is not loaded, this throws. *)
ModuleLoaded(c) ==
  /\ startPc[c] = "loading"
  /\ held # None
  /\ held = c \/ startPc[held] # "loading"
  /\ startPc' = [startPc EXCEPT ![c] = "connecting"]
  /\ sock' = c
  /\ socket' = [socket EXCEPT ![c] = "connecting"]
  /\ UNCHANGED <<gate, watching, held, closing>>

(* stream.start is sent on the socket the client holds: none, or one that  *)
(* is not open, throws.                                                    *)
CanSend(c) == sock # None /\ (sock = c \/ socket[sock] # "connecting")

(* A socket the client does not hold gets no listeners. *)
Connected(c) ==
  /\ startPc[c] = "connecting"
  /\ socket[c] = "connecting" /\ CanSend(c)
  /\ startPc' = [startPc EXCEPT ![c] = "ended"]
  /\ socket' = [socket EXCEPT ![c] = IF sock = c THEN "open" ELSE "none"]
  /\ UNCHANGED <<gate, watching, captureVars>>

(* The microphone is refused, the worklet or the socket fails, or the      *)
(* client no longer holds what the call goes on with: what is thrown stops *)
(* what it does hold, and the call waits for that.                         *)
StartThrows(c) ==
  /\ startPc[c] \in {"asking", "loading", "connecting"}
  /\ startPc' = [startPc EXCEPT ![c] = IF held = None THEN "ended" ELSE "failing"]
  /\ socket' = [socket EXCEPT ![c] = "none"]
  /\ StopBegins(c)
  /\ UNCHANGED <<gate, watching>>

-----------------------------------------------------------------------------
(* The listeners of a stream *)

(* The socket is closed, by the gateway or at last by an earlier stop. *)
SocketClosed(c) ==
  /\ socket[c] \in {"open", "closing"}
  /\ socket' = [socket EXCEPT ![c] = "none"]
  /\ StopBegins("nobody")
  /\ UNCHANGED <<gate, watching, startPc>>

WorkletFails ==
  /\ sock # None /\ socket[sock] = "open"
  /\ StopBegins("nobody")
  /\ UNCHANGED <<gate, watching, startPc, socket>>
=============================================================================
