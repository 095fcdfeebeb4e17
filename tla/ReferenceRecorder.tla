------------------------- MODULE ReferenceRecorder -------------------------
(***************************************************************************)
(* createReferenceRecorder of frontend/realtime/src/ttsClone/audio.ts: the *)
(* recorder of the clone page.                                             *)
(*                                                                         *)
(* Its start, stop and discard suspend at the microphone's permission, at  *)
(* the loading of its worklet and at the closing of an audio context, and  *)
(* share one set of variables with whatever call comes meanwhile.  A Take  *)
(* is a call of start with its stream, context and timer; a Stop is a call *)
(* of stop by the page, and OwnTimer the recorder's own after 30 seconds.  *)
(* The samples are abstracted: a blob is named after the call that made    *)
(* it.  An await that has nothing to wait for takes no step.               *)
(***************************************************************************)
CONSTANTS
  Take,          \* concurrent calls of start
  Stop,          \* concurrent calls of stop by the page
  OwnTimer,      \* the recorder's 30 second stop
  None           \* undefined

ASSUME RecorderAssumption == OwnTimer \notin Stop /\ None \notin Take \cup Stop \cup {OwnTimer}

Stopper == Stop \cup {OwnTimer}
Discarder == {"devicechange", "reset"}

VARIABLES
  recState,      \* state
  stream,        \* the take whose stream it holds
  context,       \* the take whose audio context it holds
  timer,         \* the take whose timer it holds
  timers,        \* timers that will fire
  lastBlob,      \* the blob of the last stop
  stopping,      \* the stop that is under way
  mic,           \* takes whose microphone is live
  startPc,       \* Take -> where its start is
  closing,       \* stops waiting for their context to close
  waitsFor,      \* Stop -> the stop whose blob it awaits
  discards       \* discards waiting for their context to close

recorderVars == <<recState, stream, context, timer, timers, lastBlob, stopping, mic,
                  startPc, closing, waitsFor, discards>>

RecorderInit ==
  /\ recState = "idle"
  /\ stream = None /\ context = None /\ timer = None /\ timers = {}
  /\ lastBlob = None /\ stopping = None /\ mic = {}
  /\ startPc = [t \in Take |-> "idle"]
  /\ closing = {} /\ waitsFor = [s \in Stop |-> None] /\ discards = {}

(* cleanup, up to where it waits for the context to close, if there is     *)
(* one.  armed are the timers still to fire.                               *)
Cleanup(armed) ==
  /\ timer' = None /\ timers' = armed \ {timer}
  /\ mic' = mic \ {stream}
  /\ stream' = None /\ context' = None

Forget == lastBlob' = None /\ stopping' = None

-----------------------------------------------------------------------------
(* start *)

Start(t) ==
  /\ recState # "recording"
  /\ startPc[t] = "idle" /\ t \notin mic \cup timers \cup {stream, context}
  /\ Cleanup(timers)
  /\ IF context # None
     THEN startPc' = [startPc EXCEPT ![t] = "closing"] /\ UNCHANGED <<lastBlob, stopping>>
     ELSE startPc' = [startPc EXCEPT ![t] = "opening"] /\ Forget
  /\ UNCHANGED <<recState, closing, waitsFor, discards>>

StartClosed(t) ==
  /\ startPc[t] = "closing"
  /\ startPc' = [startPc EXCEPT ![t] = "opening"]
  /\ Forget
  /\ UNCHANGED <<recState, stream, context, timer, timers, mic, closing, waitsFor, discards>>

(* The microphone is granted. *)
Opened(t) ==
  /\ startPc[t] = "opening"
  /\ startPc' = [startPc EXCEPT ![t] = "loading"]
  /\ stream' = t /\ context' = t /\ mic' = mic \cup {t}
  /\ UNCHANGED <<recState, timer, timers, lastBlob, stopping, closing, waitsFor, discards>>

(* The worklet is loaded: whatever stream the recorder holds by now is     *)
(* recorded.                                                               *)
Loaded(t) ==
  /\ startPc[t] = "loading"
  /\ stream # None /\ context # None
  /\ startPc' = [startPc EXCEPT ![t] = "idle"]
  /\ recState' = "recording"
  /\ timer' = t /\ timers' = timers \cup {t}
  /\ UNCHANGED <<stream, context, lastBlob, stopping, mic, closing, waitsFor, discards>>

(* The microphone is refused, the worklet does not load, or the stream or  *)
(* the context is gone: the recorder cleans up whatever it holds.          *)
StartFails(t) ==
  /\ startPc[t] \in {"opening", "loading"}
  /\ Cleanup(timers)
  /\ IF context # None
     THEN startPc' = [startPc EXCEPT ![t] = "failing"] /\ UNCHANGED recState
     ELSE startPc' = [startPc EXCEPT ![t] = "idle"] /\ recState' = "idle"
  /\ UNCHANGED <<lastBlob, stopping, closing, waitsFor, discards>>

StartFailed(t) ==
  /\ startPc[t] = "failing"
  /\ startPc' = [startPc EXCEPT ![t] = "idle"]
  /\ recState' = "idle"
  /\ UNCHANGED <<stream, context, timer, timers, lastBlob, stopping, mic, closing, waitsFor,
                 discards>>

-----------------------------------------------------------------------------
(* stop *)

MakeBlob(o) == lastBlob' = o /\ stopping' = None

(* stop() of a recorder that records, called by o. *)
StopBegins(o, armed) ==
  /\ stopping = None /\ recState = "recording"
  /\ o \notin closing
  /\ recState' = "stopped"
  /\ Cleanup(armed)
  /\ IF context # None
     THEN /\ closing' = closing \cup {o} /\ stopping' = o
          /\ UNCHANGED lastBlob
     ELSE MakeBlob(o) /\ UNCHANGED closing
  /\ UNCHANGED <<startPc, discards>>

(* stop() by the page that has its blob, or its error, at once. *)
StopAtOnce ==
  /\ stopping = None
  /\ recState # "recording"
  /\ UNCHANGED recorderVars

BlobAtOnce == IF recState = "stopped" THEN lastBlob ELSE None

(* stop() while a stop is under way. *)
StopJoins(s) ==
  /\ stopping # None
  /\ waitsFor' = [waitsFor EXCEPT ![s] = stopping]
  /\ UNCHANGED <<recState, stream, context, timer, timers, lastBlob, stopping, mic, startPc,
                 closing, discards>>

(* The timer of take t fires. *)
TimerFires(t) ==
  /\ t \in timers
  /\ IF stopping = None /\ recState = "recording"
     THEN StopBegins(OwnTimer, timers \ {t}) /\ UNCHANGED waitsFor
     ELSE /\ timers' = timers \ {t}
          /\ UNCHANGED <<recState, stream, context, timer, lastBlob, stopping, mic, startPc,
                         closing, waitsFor, discards>>

(* Mutant: the blob is given to the stop that began and to nobody else. *)
StopClosedAlone(o) ==
  /\ o \in closing
  /\ closing' = closing \ {o}
  /\ MakeBlob(o)
  /\ waitsFor' = [s \in Stop |-> IF s = o THEN None ELSE waitsFor[s]]
  /\ UNCHANGED <<recState, stream, context, timer, timers, mic, startPc, discards>>

(* The context of stop o is closed: its blob is made, for everyone who     *)
(* waits for it.                                                           *)
StopClosed(o) ==
  /\ o \in closing
  /\ closing' = closing \ {o}
  /\ MakeBlob(o)
  /\ waitsFor' = [s \in Stop |-> IF waitsFor[s] = o THEN None ELSE waitsFor[s]]
  /\ UNCHANGED <<recState, stream, context, timer, timers, mic, startPc, discards>>

-----------------------------------------------------------------------------
(* discard *)

Discard(d) ==
  /\ Cleanup(timers)
  /\ IF context # None
     THEN /\ discards' = discards \cup {d}
          /\ UNCHANGED <<recState, lastBlob, stopping>>
     ELSE /\ Forget /\ recState' = "idle"
          /\ UNCHANGED discards
  /\ UNCHANGED <<startPc, closing, waitsFor>>

Discarded(d) ==
  /\ d \in discards
  /\ discards' = discards \ {d}
  /\ Forget /\ recState' = "idle"
  /\ UNCHANGED <<stream, context, timer, timers, mic, startPc, closing, waitsFor>>
=============================================================================
