---------------------------- MODULE CloneStudio ----------------------------
(***************************************************************************)
(* The page /tts_clone_test: frontend/realtime/src/ttsClone/App.tsx over   *)
(* its recorder, its audio and the reset of its resource.                  *)
(*                                                                         *)
(* The page's handlers suspend at a permission prompt, at the recorder, at *)
(* the audio element and at requests to the gateway, and write one set of  *)
(* state variables when they go on, whatever the page has become meanwhile:*)
(* the device watch, the status poll every three seconds, the end of the   *)
(* audio and the reset write them too.  A click is guarded by what the     *)
(* page shows.  The text and the style cues are the reader's: a synthesis  *)
(* has some text.  "queued" is left within the click that sets it.         *)
(***************************************************************************)
EXTENDS ClonePlayback, ResourcePoll

CONSTANTS
  Check,         \* concurrent device checks
  Synth,         \* concurrent syntheses
  MaxTries       \* status requests after a reset

ASSUME TriesAssumption == MaxTries \in Nat \ {0}

(* A recording and an audio are different blobs. *)
ASSUME SynthAssumption == None \notin Synth /\ Synth \cap Stopper = {}

VARIABLES
  statusReady,   \* status.ready
  devices,       \* microphone and speaker
  checkPc,       \* Check -> "idle" or "checking"
  studioState,   \* studioState
  hasReference, useClone, hasGenerated, recording, playing,
  validating,    \* Stop -> the blob being validated
  synths,        \* syntheses that are not answered
  token,         \* the synthesis that holds generationToken
  resetPc,       \* "idle", or where the reset is
  resetPlays,    \* playing, as the reset saw it
  tries          \* status requests left

flags == <<hasReference, useClone, hasGenerated, recording, playing>>
resetVars == <<resetPc, resetPlays, tries, pollVars>>
workVars == <<checkPc, validating, synths, token>>
vars == <<recorderVars, playbackVars, statusReady, devices, studioState, flags, workVars,
          resetVars>>

Init ==
  /\ RecorderInit /\ PlaybackInit /\ PollInit
  /\ statusReady = FALSE /\ devices = "unchecked"
  /\ checkPc = [c \in Check |-> "idle"]
  /\ studioState = "unavailable"
  /\ hasReference = FALSE /\ useClone = FALSE /\ hasGenerated = FALSE
  /\ recording = FALSE /\ playing = FALSE
  /\ validating = [s \in Stop |-> None]
  /\ synths = {} /\ token = None
  /\ resetPc = "idle" /\ resetPlays = FALSE /\ tries = 0

ResourceBusy == resetPc # "idle"
ControlsReady == statusReady /\ devices = "ready" /\ ~ResourceBusy
Rest(ready) == IF ready THEN "idle" ELSE "unavailable"

-----------------------------------------------------------------------------
(* Runtime status and devices *)

Occupied == {"recording", "validating", "queued", "generating", "audio-ready", "playing"}

(* What the status request comes to. *)
StatusAnswer == {"ready", "waiting", "failed"}

(* The poll of every three seconds. *)
StatusPolled(a) ==
  /\ statusReady' = (a = "ready")
  /\ studioState' = IF a # "failed" /\ studioState \in Occupied THEN studioState
                    ELSE Rest(a = "ready")
  /\ UNCHANGED <<recorderVars, playbackVars, devices, flags, workVars, resetVars>>

CheckDevices(c) ==
  /\ devices # "checking" /\ ~ResourceBusy
  /\ checkPc[c] = "idle"
  /\ checkPc' = [checkPc EXCEPT ![c] = "checking"]
  /\ devices' = "checking"
  /\ UNCHANGED <<recorderVars, playbackVars, statusReady, studioState, flags, validating,
                 synths, token, resetVars>>

DevicesChecked(c, found) ==
  /\ checkPc[c] = "checking"
  /\ checkPc' = [checkPc EXCEPT ![c] = "idle"]
  /\ devices' = IF found THEN "ready" ELSE "missing"
  /\ UNCHANGED <<recorderVars, playbackVars, statusReady, studioState, flags, validating,
                 synths, token, resetVars>>

DeviceChange ==
  /\ devices' = "unchecked"
  /\ recording' = FALSE
  /\ studioState' = Rest(statusReady)
  /\ Discard("devicechange")
  /\ UNCHANGED <<playbackVars, statusReady, hasReference, useClone, hasGenerated, playing,
                 workVars, resetVars>>

-----------------------------------------------------------------------------
(* Recording a reference *)

pageVars == <<playbackVars, statusReady, devices, studioState, flags, workVars, resetVars>>

StartRecording(t) ==
  /\ ~recording /\ ControlsReady
  /\ Start(t)
  /\ UNCHANGED pageVars

(* The recorder is on its way, or gives up. *)
StartGoesOn(t) ==
  /\ StartClosed(t) \/ Opened(t) \/ StartFails(t) \/ StartFailed(t)
  /\ UNCHANGED pageVars

RecordingStarts(t) ==
  /\ Loaded(t)
  /\ recording' = TRUE /\ studioState' = "recording"
  /\ UNCHANGED <<playbackVars, statusReady, devices, hasReference, useClone, hasGenerated,
                 playing, workVars, resetVars>>

(* The page validates blob b for its stop s, or has no blob. *)
Validate(s, b) ==
  /\ validating' = [validating EXCEPT ![s] = b]
  /\ studioState' = IF b = None THEN "error" ELSE "validating"

(* The stop button, or 30 seconds. *)
StopRecording(s) ==
  /\ recording
  /\ waitsFor[s] = None /\ validating[s] = None
  /\ recording' = FALSE
  /\ \/ StopAtOnce /\ Validate(s, BlobAtOnce)
     \/ StopJoins(s) /\ studioState' = "validating" /\ UNCHANGED validating
     \/ /\ StopBegins(s, timers)
        /\ IF context # None
           THEN /\ waitsFor' = [waitsFor EXCEPT ![s] = s]
                /\ studioState' = "validating" /\ UNCHANGED validating
           ELSE Validate(s, s) /\ UNCHANGED waitsFor
  /\ UNCHANGED <<playbackVars, statusReady, devices, hasReference, useClone, hasGenerated,
                 playing, checkPc, synths, token, resetVars>>

RecorderTimer(t) == TimerFires(t) /\ UNCHANGED pageVars

StopEnds(o) ==
  /\ StopClosed(o)
  /\ validating' = [s \in Stop |-> IF waitsFor[s] = o THEN o ELSE validating[s]]
  /\ UNCHANGED <<playbackVars, statusReady, devices, studioState, flags, checkPc, synths, token,
                 resetVars>>

(* What the gateway says of a recording: good, too short, too long, too    *)
(* quiet or without voice; or nothing.                                     *)
Verdict == {"good", "poor", "failed"}

Validated(s, verdict) ==
  /\ validating[s] # None
  /\ validating' = [validating EXCEPT ![s] = None]
  /\ IF verdict = "good"
     THEN /\ SetReference(validating[s])
          /\ hasReference' = TRUE /\ studioState' = "idle"
     ELSE /\ studioState' = "error"
          /\ UNCHANGED <<storeVars, hasReference>>
  /\ UNCHANGED <<recorderVars, elementVars, statusReady, devices, useClone, hasGenerated,
                 recording, playing, checkPc, synths, token, resetVars>>

(* Mutant: the voice stays cloned without a reference. *)
DiscardReferenceOnly ==
  /\ hasReference /\ ~recording
  /\ ClearReference
  /\ hasReference' = FALSE
  /\ studioState' = Rest(statusReady)
  /\ UNCHANGED <<recorderVars, elementVars, statusReady, devices, useClone, hasGenerated,
                 recording, playing, workVars, resetVars>>

DiscardReference ==
  /\ hasReference /\ ~recording
  /\ ClearReference
  /\ hasReference' = FALSE /\ useClone' = FALSE
  /\ studioState' = Rest(statusReady)
  /\ UNCHANGED <<recorderVars, elementVars, statusReady, devices, hasGenerated, recording,
                 playing, workVars, resetVars>>

-----------------------------------------------------------------------------
(* Synthesis and playback *)

ToggleClone ==
  /\ hasReference
  /\ useClone' = ~useClone
  /\ UNCHANGED <<recorderVars, playbackVars, statusReady, devices, studioState, hasReference,
                 hasGenerated, recording, playing, workVars, resetVars>>

(* Mutant: Play stays enabled. *)
GenerateKeepsPlay(g) ==
  /\ ControlsReady /\ studioState # "generating"
  /\ g \notin synths
  /\ synths' = synths \cup {g}
  /\ token' = g
  /\ ClearGenerated
  /\ studioState' = "generating"
  /\ UNCHANGED <<recorderVars, elementVars, statusReady, devices, flags, checkPc, validating,
                 resetVars>>

Generate(g) ==
  /\ ControlsReady /\ studioState # "generating"
  /\ g \notin synths
  /\ synths' = synths \cup {g}
  /\ token' = g
  /\ hasGenerated' = FALSE
  /\ ClearGenerated
  /\ studioState' = "generating"
  /\ UNCHANGED <<recorderVars, elementVars, statusReady, devices, hasReference, useClone,
                 recording, playing, checkPc, validating, resetVars>>

Synthesized(g) ==
  /\ g \in synths
  /\ synths' = synths \ {g}
  /\ IF token = g
     THEN /\ SetGenerated(g) /\ SetSource(g)
          /\ hasGenerated' = TRUE /\ studioState' = "audio-ready"
     ELSE UNCHANGED <<playbackVars, hasGenerated, studioState>>
  /\ UNCHANGED <<recorderVars, statusReady, devices, hasReference, useClone, recording, playing,
                 checkPc, validating, token, resetVars>>

(* Mutant: only the message is shown. *)
SynthesisFailsQuietly(g) ==
  /\ g \in synths
  /\ synths' = synths \ {g}
  /\ UNCHANGED <<recorderVars, playbackVars, statusReady, devices, studioState, flags, checkPc,
                 validating, token, resetVars>>

(* A synthesis that fails, or that answers with anything but a WAV, is     *)
(* reported whether it is awaited or not.                                  *)
SynthesisFails(g) ==
  /\ g \in synths
  /\ synths' = synths \ {g}
  /\ studioState' = "error"
  /\ UNCHANGED <<recorderVars, playbackVars, statusReady, devices, flags, checkPc, validating,
                 token, resetVars>>

PlayPressed(p) ==
  /\ hasGenerated /\ ~playing
  /\ Play(p)
  /\ UNCHANGED <<recorderVars, storeVars, statusReady, devices, studioState, flags, workVars,
                 resetVars>>

PlayResumes(p) ==
  /\ ContextResumed(p)
  /\ UNCHANGED <<recorderVars, storeVars, statusReady, devices, studioState, flags, workVars,
                 resetVars>>

(* The play button's call ends. *)
PlayEnds(p, started) ==
  /\ IF started THEN PlayStarted(p) ELSE PlayRejected(p)
  /\ playing' = (playing \/ started)
  /\ studioState' = IF started THEN "playing" ELSE "error"
  /\ UNCHANGED <<recorderVars, storeVars, statusReady, devices, hasReference, useClone,
                 hasGenerated, recording, workVars, resetVars>>

(* The stop button of the player, or the end of the audio. *)
PlaybackStops ==
  /\ (playing /\ StopPlaying) \/ EndReached
  /\ playing' = FALSE /\ studioState' = "complete"
  /\ UNCHANGED <<recorderVars, storeVars, statusReady, devices, hasReference, useClone,
                 hasGenerated, recording, workVars, resetVars>>

-----------------------------------------------------------------------------
(* resetResources *)

(* Playback, as it was at the click, is stopped and the reset posted. *)
PostReset(wasPlaying) ==
  /\ IF wasPlaying
     THEN StopPlaying /\ playing' = FALSE
     ELSE UNCHANGED <<elementVars, playing>>
  /\ studioState' = "unavailable"
  /\ resetPc' = "asking" /\ AskReset
  /\ resetPlays' = FALSE
  /\ UNCHANGED storeVars

Reset ==
  /\ resetPc = "idle"
  /\ token' = None
  /\ IF recording /\ context # None
     THEN /\ Discard("reset")
          /\ resetPc' = "discarding" /\ resetPlays' = playing
          /\ UNCHANGED <<playbackVars, pollVars, studioState, recording, playing>>
     ELSE /\ IF recording THEN Discard("reset") ELSE UNCHANGED recorderVars
          /\ recording' = FALSE
          /\ PostReset(playing)
  /\ UNCHANGED <<statusReady, devices, hasReference, useClone, hasGenerated, checkPc, validating,
                 synths, tries>>

(* The discard of the device watch ends, or that of the reset. *)
DiscardEnds(d) ==
  /\ Discarded(d)
  /\ IF d = "reset"
     THEN recording' = FALSE /\ PostReset(resetPlays)
     ELSE UNCHANGED <<playbackVars, studioState, recording, playing, resetPc, resetPlays,
                      pollVars>>
  /\ UNCHANGED <<statusReady, devices, hasReference, useClone, hasGenerated, workVars, tries>>

ResetAccepted ==
  /\ Accepted
  /\ UNCHANGED <<recorderVars, playbackVars, statusReady, devices, studioState, flags, workVars,
                 resetPc, resetPlays, tries>>

ResetPolled(a) ==
  /\ resetPc = "asking"
  /\ \/ PollAgain(a) /\ UNCHANGED <<studioState, resetPc, tries>>
     \/ PollSucceeds(a) /\ resetPc' = "refreshing" /\ tries' = MaxTries /\ UNCHANGED studioState
     \/ PollFails(a) /\ resetPc' = "idle" /\ studioState' = "error" /\ UNCHANGED tries
  /\ UNCHANGED <<recorderVars, playbackVars, statusReady, devices, flags, workVars, resetPlays>>

(* The status is asked for until it is ready, a bounded number of times. *)
ResetRefreshed(a) ==
  /\ resetPc = "refreshing"
  /\ statusReady' = IF a = "failed" THEN statusReady ELSE a = "ready"
  /\ IF a = "waiting" /\ tries > 1
     THEN tries' = tries - 1 /\ UNCHANGED <<resetPc, studioState>>
     ELSE /\ resetPc' = "idle" /\ tries' = 0
          /\ studioState' = IF a = "ready" THEN "idle" ELSE "error"
  /\ UNCHANGED <<recorderVars, playbackVars, devices, flags, workVars, resetPlays, pollVars>>

ResetStep == \/ ResetAccepted
             \/ \E a \in Answer : ResetPolled(a)
             \/ \E a \in StatusAnswer : ResetRefreshed(a)

-----------------------------------------------------------------------------

Next ==
  \/ DeviceChange \/ DiscardReference \/ ToggleClone \/ PlaybackStops
  \/ Reset \/ ResetStep
  \/ \E a \in StatusAnswer : StatusPolled(a)
  \/ \E c \in Check : CheckDevices(c) \/ \E found \in BOOLEAN : DevicesChecked(c, found)
  \/ \E t \in Take : StartRecording(t) \/ StartGoesOn(t) \/ RecordingStarts(t) \/ RecorderTimer(t)
  \/ \E s \in Stop : StopRecording(s) \/ \E v \in Verdict : Validated(s, v)
  \/ \E o \in Stopper : StopEnds(o)
  \/ \E d \in Discarder : DiscardEnds(d)
  \/ \E g \in Synth : Generate(g) \/ Synthesized(g) \/ SynthesisFails(g)
  \/ \E p \in Player : \/ PlayPressed(p) \/ PlayResumes(p)
                       \/ \E started \in BOOLEAN : PlayEnds(p, started)

Spec == Init /\ [][Next]_vars

(* A context that is closing closes, and requests are answered or fail. *)
FairSpec == Spec /\ WF_vars(ResetStep) /\ WF_vars(DiscardEnds("reset"))

-----------------------------------------------------------------------------

(* "Use current cloned reference" (spec/UI.md) is only ever set while the  *)
(* page holds the reference a synthesis would send with it: the checkbox,  *)
(* the offer of a reference and the store are three variables, written by  *)
(* the validation of a recording, by the reader and by late answers.  No   *)
(* object URL outlives its blob.                                           *)
CloneHasReference ==
  /\ useClone => reference # None
  /\ hasReference = (reference # None)
  /\ live = {reference, generated} \ {None}

(* Play is enabled only with something to play: the audio element was last *)
(* given the URL of the generated audio, and that URL was not revoked,     *)
(* however syntheses, resets and playback overlap.                         *)
PlayHasAudio ==
  hasGenerated => generated # None /\ source = generated /\ generated \in live

(* While the page says generating, which disables Generate, a synthesis    *)
(* that still holds the token is under way, or a reset that is about to    *)
(* say unavailable.                                                        *)
SynthesisHasWork ==
  studioState = "generating" =>
    token \in synths \/ (resetPc = "discarding" /\ "reset" \in discards)

(* While the page says checking, which disables the check, or validating,  *)
(* a check is under way, or a recording on its way to the validation or in *)
(* it: a stop never waits for a recorder that has forgotten it.            *)
CaptureHasWork ==
  /\ devices = "checking" => \E c \in Check : checkPc[c] = "checking"
  /\ \A s \in Stop : waitsFor[s] # None => waitsFor[s] \in closing
  /\ studioState = "validating" => \E s \in Stop : {waitsFor[s], validating[s]} # {None}

(* A reset is always over at last: the operation is followed until its     *)
(* deadline at most, the status asked for a bounded number of times, and   *)
(* the controls come back whatever the gateway answers.                    *)
ResetEnds == (resetPc # "idle") ~> (resetPc = "idle")
=============================================================================
