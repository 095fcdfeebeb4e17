--------------------------- MODULE CodexRecorder ---------------------------
(***************************************************************************)
(* The clipboard recorder of the page /codex: web/codex.js with            *)
(* web/codex-recorder-core.js.                                             *)
(*                                                                         *)
(* The page has three buttons (check the devices, start, stop), a          *)
(* devicechange event, a 30 second timer per recording, and three          *)
(* asynchronous functions that suspend at the browser's permission prompt, *)
(* at MediaRecorder's stop event and at two requests to the gateway.  All  *)
(* of them share one mutable object, state.  A call of startRecording and  *)
(* everything that follows from it (its stream, its recorder, its timer,   *)
(* its processing) is one element of Recording; an element is used again   *)
(* when nothing of it is left.                                             *)
(***************************************************************************)
EXTENDS FiniteSets

CONSTANTS
  Check,         \* concurrent calls of checkDevices
  Recording,     \* concurrent recordings
  NoRecording    \* null

ASSUME CodexAssumption ==
  NoRecording \notin Recording

VARIABLES
  phase,         \* state.phase
  devices,       \* state.devices holds an input and an output
  checkPc,       \* Check -> "idle", "asking" (permission) or "listing"
  recPc,         \* Recording -> where its calls are
  stream,        \* state.stream
  recorder,      \* state.recorder
  chunks,        \* state.chunks: the recordings whose data it holds
  discard,       \* state.discardRecording
  timer,         \* state.autoStopTimer
  timers,        \* timers that will fire
  mic            \* recordings whose microphone tracks are live

codexVars == <<phase, devices, checkPc, recPc, stream, recorder, chunks,
               discard, timer, timers, mic>>

Busy == {"checking", "recording", "processing"}

CodexInit ==
  /\ phase = "unchecked" /\ devices = FALSE
  /\ checkPc = [c \in Check |-> "idle"]
  /\ recPc = [r \in Recording |-> "idle"]
  /\ stream = NoRecording /\ recorder = NoRecording
  /\ chunks = {} /\ discard = FALSE
  /\ timer = NoRecording /\ timers = {}
  /\ mic = {}

(* The page is loaded afresh: leaving it released its microphone. *)
CodexBlank ==
  /\ phase' = "unchecked" /\ devices' = FALSE
  /\ checkPc' = [c \in Check |-> "idle"]
  /\ recPc' = [r \in Recording |-> "idle"]
  /\ stream' = NoRecording /\ recorder' = NoRecording
  /\ chunks' = {} /\ discard' = FALSE
  /\ timer' = NoRecording /\ timers' = {}
  /\ mic' = {}

(* controlsForState: which buttons may be pressed. *)
CheckEnabled == phase \notin Busy
StartEnabled == phase = "ready" /\ devices
StopEnabled == phase = "recording"

(* stopTracks(state.stream).  A recorder whose tracks have all ended stops *)
(* by itself.                                                              *)
StopTracks(pc) ==
  /\ mic' = mic \ {stream}
  /\ recPc' = IF stream \in mic /\ pc[stream] = "recording"
              THEN [pc EXCEPT ![stream] = "stopping"] ELSE pc
  /\ stream' = NoRecording

(* recorder.stop(), then its tracks; the stop event comes later.  armed    *)
(* are the timers still to fire.                                           *)
StopRecorder(armed) ==
  /\ timers' = armed \ {timer}
  /\ timer' = NoRecording
  /\ StopTracks([recPc EXCEPT ![recorder] = "stopping"])

RecorderActive == recorder # NoRecording /\ recPc[recorder] = "recording"

-----------------------------------------------------------------------------
(* checkDevices *)

CheckDevices(c) ==
  /\ CheckEnabled
  /\ checkPc[c] = "idle"
  /\ phase' = "checking"
  /\ checkPc' = [checkPc EXCEPT ![c] = "asking"]
  /\ UNCHANGED <<devices, recPc, stream, recorder, chunks, discard, timer, timers, mic>>

Granted(c) ==
  /\ checkPc[c] = "asking"
  /\ checkPc' = [checkPc EXCEPT ![c] = "listing"]
  /\ UNCHANGED <<phase, devices, recPc, stream, recorder, chunks, discard, timer,
                 timers, mic>>

(* Mutant: a failed check leaves the phase alone. *)
CheckedSilently(c, found) ==
  /\ checkPc[c] = "listing" \/ (checkPc[c] = "asking" /\ ~found)
  /\ devices' = found
  /\ phase' = IF found THEN "ready" ELSE phase
  /\ checkPc' = [checkPc EXCEPT ![c] = "idle"]
  /\ UNCHANGED <<recPc, stream, recorder, chunks, discard, timer, timers, mic>>

(* Both devices were found; or permission was refused, a device is missing *)
(* or the browser cannot do it.                                            *)
Checked(c, found) ==
  /\ checkPc[c] = "listing" \/ (checkPc[c] = "asking" /\ ~found)
  /\ devices' = found
  /\ phase' = IF found THEN "ready" ELSE "error"
  /\ checkPc' = [checkPc EXCEPT ![c] = "idle"]
  /\ UNCHANGED <<recPc, stream, recorder, chunks, discard, timer, timers, mic>>

-----------------------------------------------------------------------------
(* startRecording *)

(* The phase does not change while the browser asks for the microphone. *)
StartRecording(r) ==
  /\ StartEnabled
  /\ recPc[r] = "idle" /\ r \notin mic \cup timers \cup {stream, recorder}
  /\ recPc' = [recPc EXCEPT ![r] = "asking"]
  /\ UNCHANGED <<phase, devices, checkPc, stream, recorder, chunks, discard, timer,
                 timers, mic>>

(* Mutant: recording starts without its timer. *)
RecordUntimed(r) ==
  /\ recPc[r] = "asking"
  /\ recPc' = [recPc EXCEPT ![r] = "recording"]
  /\ stream' = r /\ recorder' = r /\ mic' = mic \cup {r}
  /\ chunks' = {} /\ discard' = FALSE
  /\ phase' = "recording"
  /\ timer' = r
  /\ UNCHANGED <<devices, checkPc, timers>>

(* The microphone is granted: the recorder starts, and its timer. *)
Record(r) ==
  /\ recPc[r] = "asking"
  /\ recPc' = [recPc EXCEPT ![r] = "recording"]
  /\ stream' = r /\ recorder' = r /\ mic' = mic \cup {r}
  /\ chunks' = {} /\ discard' = FALSE
  /\ phase' = "recording"
  /\ timer' = r /\ timers' = timers \cup {r}
  /\ UNCHANGED <<devices, checkPc>>

(* The microphone is refused, and the stream of whatever recording is      *)
(* current is stopped; or MediaRecorder refuses the new stream, which is.  *)
StartFails(r, refused) ==
  /\ recPc[r] = "asking"
  /\ IF refused
     THEN StopTracks([recPc EXCEPT ![r] = "idle"])
     ELSE /\ recPc' = [recPc EXCEPT ![r] = "idle"]
          /\ stream' = NoRecording
          /\ UNCHANGED mic
  /\ recorder' = NoRecording
  /\ phase' = "error"
  /\ UNCHANGED <<devices, checkPc, chunks, discard, timer, timers>>

-----------------------------------------------------------------------------
(* stopRecording, by the button and by the timer of a recording *)

StopRecording(armed) ==
  IF RecorderActive
  THEN /\ StopRecorder(armed)
       /\ phase' = "processing"
       /\ UNCHANGED <<devices, checkPc, recorder, chunks, discard>>
  ELSE /\ timers' = armed
       /\ UNCHANGED <<phase, devices, checkPc, recPc, stream, recorder, chunks,
                      discard, timer, mic>>

StopClicked == StopEnabled /\ StopRecording(timers)

AutoStop(r) == r \in timers /\ StopRecording(timers \ {r})

-----------------------------------------------------------------------------
(* processRecording, the handler of MediaRecorder's stop event *)

(* The finally clause. *)
Finish(r) ==
  /\ recPc' = [recPc EXCEPT ![r] = "idle"]
  /\ chunks' = {} /\ recorder' = NoRecording
  /\ phase' = IF devices THEN "ready" ELSE "unchecked"

(* The recorder's data arrives and processing starts, unless the recording *)
(* is to be discarded.                                                     *)
Stopped(r) ==
  /\ recPc[r] = "stopping"
  /\ IF discard
     THEN /\ discard' = FALSE /\ chunks' = {} /\ recorder' = NoRecording
          /\ recPc' = [recPc EXCEPT ![r] = "idle"]
          /\ UNCHANGED phase
     ELSE /\ recPc' = [recPc EXCEPT ![r] = "working"]
          /\ chunks' = chunks \cup {r}
          /\ UNCHANGED <<discard, recorder, phase>>
  /\ UNCHANGED <<devices, checkPc, stream, timer, timers, mic>>

(* Decoding, the two requests and the clipboard succeeded, or one failed. *)
EndWork(r) ==
  /\ recPc[r] = "working"
  /\ Finish(r)
  /\ UNCHANGED <<devices, checkPc, stream, discard, timer, timers, mic>>

-----------------------------------------------------------------------------

(* invalidateDevices, on devicechange. *)
InvalidateDevices ==
  /\ devices' = FALSE
  /\ phase' = "unchecked"
  /\ IF RecorderActive
     THEN discard' = TRUE /\ StopRecorder(timers)
     ELSE UNCHANGED <<discard, timer, timers, recPc, mic, stream>>
  /\ UNCHANGED <<checkPc, recorder, chunks>>

(* The microphone is unplugged: the track ends, and with it the recorder. *)
TrackEnds(r) ==
  /\ r \in mic
  /\ mic' = mic \ {r}
  /\ recPc' = [recPc EXCEPT ![r] = IF @ = "recording" THEN "stopping" ELSE @]
  /\ UNCHANGED <<phase, devices, checkPc, stream, recorder, chunks, discard, timer,
                 timers>>

Process(r) == Stopped(r) \/ EndWork(r)

CodexNext ==
  \/ \E c \in Check : \/ CheckDevices(c) \/ Granted(c)
                      \/ \E found \in BOOLEAN : Checked(c, found)
  \/ \E r \in Recording : \/ StartRecording(r) \/ Record(r)
                          \/ \E refused \in BOOLEAN : StartFails(r, refused)
                          \/ AutoStop(r) \/ Process(r) \/ TrackEnds(r)
  \/ StopClicked
  \/ InvalidateDevices

-----------------------------------------------------------------------------

CodexTypeOK ==
  /\ phase \in {"unchecked", "ready", "error"} \cup Busy
  /\ devices \in BOOLEAN /\ discard \in BOOLEAN
  /\ checkPc \in [Check -> {"idle", "asking", "listing"}]
  /\ recPc \in [Recording -> {"idle", "asking", "recording", "stopping", "working"}]
  /\ {stream, recorder, timer} \subseteq Recording \cup {NoRecording}
  /\ chunks \subseteq Recording /\ timers \subseteq Recording /\ mic \subseteq Recording

(* A phase that disables buttons is one that ends: while the page says     *)
(* checking, a check is under way; while it says recording, its recorder   *)
(* records with its timer armed, or has stopped and its stop event or its  *)
(* processing will set the phase; while it says processing, a recording is *)
(* being processed.  Calls overlap: several checks, recordings whose stop  *)
(* event or answer is late, a second start behind the first's prompt.      *)
BusyHasWork ==
  /\ phase = "checking" => \E c \in Check : checkPc[c] # "idle"
  /\ phase = "recording" =>
       /\ recorder # NoRecording
       /\ \/ recPc[recorder] = "recording" /\ timer = recorder /\ recorder \in timers
          \/ recPc[recorder] \in {"stopping", "working"}
  /\ phase = "processing" =>
       \E r \in Recording : recPc[r] \in {"stopping", "working"}

=============================================================================
