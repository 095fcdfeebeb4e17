------------------------- MODULE CloneStudioProofs -------------------------
(***************************************************************************)
(* Theorems about CloneStudio, for any number of overlapping starts,       *)
(* stops, checks, syntheses and plays, and any deadline.                   *)
(***************************************************************************)
EXTENDS CloneStudio, TLAPS

BlobOrNone == Stopper \cup {None}

(* Where blobs come from, and that a stop that is joined is still closing. *)
RecorderInv ==
  /\ lastBlob \in BlobOrNone /\ stopping \in BlobOrNone
  /\ closing \subseteq Stopper
  /\ stopping # None => stopping \in closing
  /\ waitsFor \in [Stop -> BlobOrNone]

PageType ==
  /\ checkPc \in [Check -> {"idle", "checking"}]
  /\ validating \in [Stop -> BlobOrNone]
  /\ reference \in BlobOrNone /\ generated \in Synth \cup {None}

StoreInv == CloneHasReference /\ PlayHasAudio

CloneInv == RecorderInv /\ PageType /\ StoreInv /\ SynthesisHasWork /\ CaptureHasWork

LEMMA CloneInit == Init => CloneInv
  BY DEF Init, RecorderInit, PlaybackInit, CloneInv, RecorderInv, PageType, BlobOrNone, StoreInv,
         CloneHasReference, PlayHasAudio, SynthesisHasWork, CaptureHasWork

-----------------------------------------------------------------------------
(* The parts of the invariant depend on few variables. *)

recorderPart == <<lastBlob, stopping, closing, waitsFor>>
typePart == <<checkPc, validating, reference, generated>>
storePart == <<useClone, hasReference, hasGenerated, reference, generated, live, source>>
synthPart == <<studioState, token, synths, resetPc, discards>>
capturePart == <<devices, checkPc, waitsFor, closing, studioState, validating>>

LEMMA PartsKept ==
  /\ RecorderInv /\ UNCHANGED recorderPart => RecorderInv'
  /\ PageType /\ UNCHANGED typePart => PageType'
  /\ StoreInv /\ UNCHANGED storePart => StoreInv'
  /\ SynthesisHasWork /\ UNCHANGED synthPart => SynthesisHasWork'
  /\ CaptureHasWork /\ UNCHANGED capturePart => CaptureHasWork'
  BY DEF recorderPart, typePart, storePart, synthPart, capturePart, RecorderInv, PageType,
         StoreInv, CloneHasReference, PlayHasAudio, SynthesisHasWork, CaptureHasWork

-----------------------------------------------------------------------------
(* The recorder *)

LEMMA RecorderStepKeeps ==
  ASSUME RecorderInv,
         \/ \E t \in Take : \/ Start(t) \/ StartClosed(t) \/ Opened(t) \/ Loaded(t)
                          \/ StartFails(t) \/ StartFailed(t)
         \/ \E d \in Discarder : Discard(d) \/ Discarded(d)
  PROVE  RecorderInv' /\ UNCHANGED <<closing, waitsFor>>
  BY DEF RecorderInv, BlobOrNone, Start, StartClosed, Opened, Loaded, StartFails, StartFailed,
         Discard, Discarded, Cleanup, Forget

LEMMA StopBeginsKeeps ==
  ASSUME RecorderInv, NEW o \in Stopper, NEW armed, StopBegins(o, armed)
  PROVE  /\ lastBlob' \in BlobOrNone /\ stopping' \in BlobOrNone
         /\ closing' \subseteq Stopper /\ closing \subseteq closing'
         /\ stopping' # None => stopping' \in closing'
         /\ context # None => o \in closing'
         /\ UNCHANGED discards
  BY DEF RecorderInv, BlobOrNone, StopBegins, MakeBlob

LEMMA TimerFiresKeeps ==
  ASSUME RecorderInv, CaptureHasWork, NEW t \in Take, RecorderTimer(t)
  PROVE  RecorderInv' /\ CaptureHasWork' /\ UNCHANGED discards
<1>1. UNCHANGED <<devices, checkPc, waitsFor, studioState, validating>>
  BY DEF RecorderTimer, TimerFires, pageVars, workVars
<1>2. CASE stopping = None /\ recState = "recording"
  <2>1. StopBegins(OwnTimer, timers \ {t}) /\ OwnTimer \in Stopper
    BY <1>2 DEF RecorderTimer, TimerFires, Stopper
  <2>. QED
    BY <1>1, <2>1, StopBeginsKeeps DEF RecorderInv, CaptureHasWork
<1>3. CASE ~(stopping = None /\ recState = "recording")
  BY <1>1, <1>3 DEF RecorderTimer, TimerFires, RecorderInv, CaptureHasWork
<1>. QED
  BY <1>2, <1>3

LEMMA StopRecordingKeeps ==
  ASSUME CloneInv, NEW s \in Stop, StopRecording(s)
  PROVE  CloneInv'
<1>. DEFINE Rest0 == <<playbackVars, devices, hasReference, useClone, hasGenerated, checkPc,
                       synths, token, resetPc>>
<1>1. /\ UNCHANGED Rest0
      /\ s \in Stopper /\ s # None
  BY RecorderAssumption DEF StopRecording, resetVars, Stopper
<1>2. /\ RecorderInv' /\ validating' \in [Stop -> BlobOrNone] /\ UNCHANGED discards
      /\ \A q \in Stop : waitsFor'[q] # None => waitsFor'[q] \in closing'
      /\ studioState' = "validating" => \E q \in Stop : {waitsFor'[q], validating'[q]} # {None}
      /\ studioState' \in {"validating", "error"}
  <2>. USE DEF CloneInv, RecorderInv, PageType, BlobOrNone, CaptureHasWork
  <2>1. CASE StopAtOnce /\ Validate(s, BlobAtOnce)
    BY <2>1 DEF StopAtOnce, recorderVars, Validate, BlobAtOnce
  <2>2. CASE StopJoins(s) /\ studioState' = "validating" /\ UNCHANGED validating
    <3>1. waitsFor'[s] # None
      BY <2>2 DEF StopJoins
    <3>. QED
      BY <2>2, <3>1 DEF StopJoins
  <2>3. CASE StopBegins(s, timers) /\ context # None
    <3>1. /\ waitsFor' = [waitsFor EXCEPT ![s] = s]
          /\ studioState' = "validating" /\ UNCHANGED validating
      BY <2>3, RecorderAssumption DEF StopRecording, StopAtOnce, StopJoins, StopBegins
    <3>. QED
      BY <1>1, <2>3, <3>1, StopBeginsKeeps
  <2>4. CASE StopBegins(s, timers) /\ Validate(s, s) /\ UNCHANGED waitsFor
    BY <1>1, <2>4, StopBeginsKeeps DEF Validate
  <2>. QED
    BY <2>1, <2>2, <2>3, <2>4 DEF StopRecording
<1>3. StoreInv'
  BY <1>1, PartsKept DEF CloneInv, storePart, playbackVars, storeVars, elementVars
<1>4. PageType' /\ SynthesisHasWork' /\ CaptureHasWork'
  BY <1>1, <1>2
  DEF CloneInv, PageType, SynthesisHasWork, CaptureHasWork, playbackVars, storeVars
<1>. QED
  BY <1>2, <1>3, <1>4 DEF CloneInv

(* Starting, discarding and the end of a stop. *)
LEMMA CaptureStepKeeps ==
  ASSUME CloneInv,
         \/ \E t \in Take : StartRecording(t) \/ StartGoesOn(t) \/ RecordingStarts(t)
         \/ DeviceChange \/ \E o \in Stopper : StopEnds(o)
  PROVE  CloneInv'
<1>1. CASE \E t \in Take : StartRecording(t) \/ StartGoesOn(t)
  <2>1. UNCHANGED pageVars /\ UNCHANGED discards
    BY <1>1
    DEF StartRecording, StartGoesOn, Start, StartClosed, Opened, StartFails, StartFailed
  <2>2. RecorderInv' /\ UNCHANGED <<closing, waitsFor>>
    BY <1>1, RecorderStepKeeps DEF StartRecording, StartGoesOn, CloneInv
  <2>. QED
    BY <2>1, <2>2, PartsKept
    DEF CloneInv, pageVars, playbackVars, storeVars, elementVars, flags, workVars, resetVars,
        typePart, storePart, synthPart, capturePart
<1>2. CASE \E t \in Take : RecordingStarts(t)
  <2>1. /\ studioState' = "recording"
        /\ UNCHANGED <<playbackVars, devices, hasReference, useClone, hasGenerated, workVars>>
    BY <1>2 DEF RecordingStarts
  <2>2. RecorderInv' /\ UNCHANGED <<closing, waitsFor>>
    BY <1>2, RecorderStepKeeps DEF RecordingStarts, CloneInv
  <2>3. PageType' /\ StoreInv'
    BY <2>1, PartsKept
    DEF CloneInv, playbackVars, storeVars, elementVars, workVars, typePart, storePart
  <2>. QED
    BY <2>1, <2>2, <2>3 DEF CloneInv, SynthesisHasWork, CaptureHasWork, workVars
<1>3. CASE DeviceChange
  <2>1. /\ devices' = "unchecked" /\ studioState' \in {"idle", "unavailable"}
        /\ UNCHANGED <<playbackVars, hasReference, useClone, hasGenerated, workVars>>
    BY <1>3 DEF DeviceChange, Rest
  <2>2. RecorderInv' /\ UNCHANGED <<closing, waitsFor>>
    BY <1>3, RecorderStepKeeps DEF DeviceChange, CloneInv, Discarder
  <2>3. PageType' /\ StoreInv'
    BY <2>1, PartsKept
    DEF CloneInv, playbackVars, storeVars, elementVars, workVars, typePart, storePart
  <2>. QED
    BY <2>1, <2>2, <2>3 DEF CloneInv, SynthesisHasWork, CaptureHasWork, workVars
<1>4. ASSUME NEW o \in Stopper, StopEnds(o) PROVE CloneInv'
  <2>1. /\ UNCHANGED <<playbackVars, devices, studioState, flags, checkPc, synths, token,
                       resetPc, discards>>
        /\ o # None
    BY <1>4, RecorderAssumption DEF StopEnds, StopClosed, resetVars, Stopper
  <2>2. /\ waitsFor' = [s \in Stop |-> IF waitsFor[s] = o THEN None ELSE waitsFor[s]]
        /\ validating' = [s \in Stop |-> IF waitsFor[s] = o THEN o ELSE validating[s]]
        /\ closing' = closing \ {o} /\ lastBlob' = o /\ stopping' = None
    BY <1>4 DEF StopEnds, StopClosed, MakeBlob
  <2>3. RecorderInv' /\ PageType'
    BY <2>1, <2>2
    DEF CloneInv, RecorderInv, PageType, BlobOrNone, playbackVars, storeVars
  <2>4. StoreInv' /\ SynthesisHasWork'
    BY <2>1, PartsKept
    DEF CloneInv, playbackVars, storeVars, elementVars, flags, storePart, synthPart
  <2>5. CaptureHasWork'
    <3>1. \A s \in Stop : waitsFor'[s] # None => waitsFor'[s] \in closing'
      BY <2>2 DEF CloneInv, RecorderInv, CaptureHasWork
    <3>2. ASSUME NEW s \in Stop, {waitsFor[s], validating[s]} # {None}
          PROVE  {waitsFor'[s], validating'[s]} # {None}
      BY <2>1, <2>2, <3>2
    <3>. QED
      BY <2>1, <3>1, <3>2 DEF CloneInv, CaptureHasWork
  <2>. QED
    BY <2>3, <2>4, <2>5 DEF CloneInv
<1>. QED
  BY <1>1, <1>2, <1>3, <1>4

-----------------------------------------------------------------------------
(* The page *)

(* A step that leaves the recorder alone. *)
LEMMA StatusKeeps ==
  ASSUME CloneInv,
         \/ \E a \in StatusAnswer : StatusPolled(a) \/ ResetRefreshed(a)
         \/ \E a \in Answer : ResetPolled(a)
         \/ ResetAccepted
  PROVE  CloneInv'
<1>1. /\ UNCHANGED <<recorderVars, playbackVars, devices, flags, workVars>>
      /\ resetPc = "discarding" => resetPc' = "discarding"
      /\ studioState' = studioState \/ studioState' \in {"idle", "unavailable", "error"}
  BY DEF StatusPolled, ResetRefreshed, ResetPolled, ResetAccepted, resetVars, Rest
<1>2. RecorderInv' /\ PageType' /\ StoreInv'
  BY <1>1, PartsKept
  DEF CloneInv, recorderVars, playbackVars, storeVars, elementVars, flags, workVars,
      recorderPart, typePart, storePart
<1>3. SynthesisHasWork' /\ CaptureHasWork'
  BY <1>1 DEF CloneInv, SynthesisHasWork, CaptureHasWork, recorderVars, workVars
<1>. QED
  BY <1>2, <1>3 DEF CloneInv

LEMMA CheckKeeps ==
  ASSUME CloneInv, NEW c \in Check,
         CheckDevices(c) \/ \E found \in BOOLEAN : DevicesChecked(c, found)
  PROVE  CloneInv'
<1>1. /\ UNCHANGED <<recorderVars, playbackVars, studioState, flags, validating, synths, token,
                     resetVars>>
      /\ checkPc' \in [Check -> {"idle", "checking"}]
      /\ devices' = "checking" => checkPc'[c] = "checking"
  BY DEF CloneInv, PageType, CheckDevices, DevicesChecked
<1>2. RecorderInv' /\ StoreInv' /\ SynthesisHasWork'
  BY <1>1, PartsKept
  DEF CloneInv, recorderVars, playbackVars, storeVars, elementVars, flags, resetVars,
      recorderPart, storePart, synthPart
<1>3. PageType' /\ CaptureHasWork'
  BY <1>1 DEF CloneInv, PageType, CaptureHasWork, recorderVars, playbackVars, storeVars
<1>. QED
  BY <1>2, <1>3 DEF CloneInv

LEMMA ReferenceKeeps ==
  ASSUME CloneInv,
         \/ \E s \in Stop, v \in Verdict : Validated(s, v)
         \/ DiscardReference \/ ToggleClone
  PROVE  CloneInv'
<1>1. /\ UNCHANGED <<recorderVars, elementVars, devices, hasGenerated, checkPc, synths, token,
                     resetVars, generated>>
      /\ \/ studioState' = studioState /\ UNCHANGED validating
         \/ studioState' \in {"idle", "unavailable", "error"}
  BY DEF Validated, SetReference, storeVars, DiscardReference, ClearReference, ToggleClone,
         playbackVars, workVars, Rest
<1>2. validating' \in [Stop -> BlobOrNone] /\ reference' \in BlobOrNone
  BY DEF CloneInv, PageType, BlobOrNone, Validated, SetReference, storeVars, DiscardReference,
         ClearReference, ToggleClone, playbackVars, workVars
<1>3. CloneHasReference'
  <2>. USE SynthAssumption DEF CloneInv, StoreInv, CloneHasReference, PageType, BlobOrNone
  <2>1. ASSUME NEW s \in Stop, NEW v \in Verdict, Validated(s, v) PROVE CloneHasReference'
    BY <2>1 DEF Validated, SetReference, storeVars
  <2>2. CASE DiscardReference
    BY <2>2 DEF DiscardReference, ClearReference
  <2>3. CASE ToggleClone
    BY <2>3 DEF ToggleClone, playbackVars, storeVars
  <2>. QED
    BY <2>1, <2>2, <2>3
<1>4. PlayHasAudio'
  BY <1>1, <1>3 DEF CloneInv, StoreInv, PlayHasAudio, CloneHasReference, elementVars
<1>5. RecorderInv'
  BY <1>1, PartsKept DEF CloneInv, recorderVars, recorderPart
<1>6. PageType' /\ SynthesisHasWork' /\ CaptureHasWork'
  BY <1>1, <1>2
  DEF CloneInv, PageType, SynthesisHasWork, CaptureHasWork, recorderVars, resetVars
<1>. QED
  BY <1>3, <1>4, <1>5, <1>6 DEF CloneInv, StoreInv

LEMMA SynthesisKeeps ==
  ASSUME CloneInv, NEW g \in Synth, Generate(g) \/ Synthesized(g) \/ SynthesisFails(g)
  PROVE  CloneInv'
<1>1. /\ UNCHANGED <<recorderVars, devices, hasReference, useClone, checkPc, validating,
                     resetVars, reference>>
      /\ generated' \in Synth \cup {None}
  BY DEF CloneInv, PageType, Generate, Synthesized, SynthesisFails, ClearGenerated,
         SetGenerated, playbackVars, storeVars, flags
<1>2. StoreInv'
  <2>. USE SynthAssumption
       DEF CloneInv, StoreInv, CloneHasReference, PlayHasAudio, PageType, BlobOrNone
  <2>1. CASE Generate(g)
    BY <2>1 DEF Generate, ClearGenerated
  <2>2. CASE Synthesized(g) /\ token = g
    BY <2>2 DEF Synthesized, SetGenerated, SetSource
  <2>3. CASE (Synthesized(g) /\ token # g) \/ SynthesisFails(g)
    BY <2>3 DEF Synthesized, SynthesisFails, playbackVars, storeVars, elementVars, flags
  <2>. QED
    BY <2>1, <2>2, <2>3
<1>3. RecorderInv' /\ PageType'
  BY <1>1, PartsKept DEF CloneInv, PageType, recorderVars, recorderPart
<1>4. SynthesisHasWork' /\ CaptureHasWork'
  BY <1>1
  DEF CloneInv, SynthesisHasWork, CaptureHasWork, Generate, Synthesized, SynthesisFails,
      recorderVars, resetVars
<1>. QED
  BY <1>2, <1>3, <1>4 DEF CloneInv

LEMMA PlaybackKeeps ==
  ASSUME CloneInv,
         \/ \E p \in Player : \/ PlayPressed(p) \/ PlayResumes(p)
                            \/ \E started \in BOOLEAN : PlayEnds(p, started)
         \/ PlaybackStops
  PROVE  CloneInv'
<1>1. /\ UNCHANGED <<recorderVars, storeVars, source, devices, hasReference, useClone,
                     hasGenerated, workVars, resetVars>>
      /\ studioState' = studioState \/ studioState' \in {"playing", "error", "complete"}
  BY DEF PlayPressed, Play, PlayResumes, ContextResumed, PlayEnds, PlayStarted, PlayRejected,
         PlaybackStops, StopPlaying, EndReached, flags
<1>2. RecorderInv' /\ PageType' /\ StoreInv'
  BY <1>1, PartsKept
  DEF CloneInv, recorderVars, storeVars, workVars, recorderPart, typePart, storePart
<1>3. SynthesisHasWork' /\ CaptureHasWork'
  BY <1>1 DEF CloneInv, SynthesisHasWork, CaptureHasWork, recorderVars, workVars, resetVars
<1>. QED
  BY <1>2, <1>3 DEF CloneInv

(* Playback is stopped and the reset asked for, if there is nothing to     *)
(* discard first, or once it is discarded.                                 *)
LEMMA ResetKeeps ==
  ASSUME CloneInv, Reset \/ \E d \in Discarder : DiscardEnds(d)
  PROVE  CloneInv'
<1>1. UNCHANGED <<storeVars, source, devices, hasReference, useClone, hasGenerated, checkPc,
                  validating>>
  BY DEF Reset, DiscardEnds, PostReset, StopPlaying, playbackVars, elementVars, workVars
<1>2. RecorderInv' /\ UNCHANGED <<closing, waitsFor>>
  <2>1. CASE UNCHANGED recorderVars
    BY <2>1, PartsKept DEF CloneInv, recorderVars, recorderPart
  <2>2. CASE \E d \in Discarder : Discard(d) \/ Discarded(d)
    BY <2>2, RecorderStepKeeps DEF CloneInv
  <2>. QED
    BY <2>1, <2>2 DEF Reset, DiscardEnds, Discarder
<1>3. PageType' /\ StoreInv'
  BY <1>1, PartsKept DEF CloneInv, storeVars, typePart, storePart
<1>4. SynthesisHasWork' /\ (studioState' = studioState \/ studioState' = "unavailable")
  <2>. USE DEF CloneInv, SynthesisHasWork
  <2>1. CASE Reset /\ recording /\ context # None
    BY <2>1 DEF Reset, Discard
  <2>2. CASE Reset /\ ~(recording /\ context # None)
    BY <2>2 DEF Reset, PostReset
  <2>3. ASSUME NEW d \in Discarder, DiscardEnds(d), d = "reset"
        PROVE  SynthesisHasWork' /\ studioState' = "unavailable"
    BY <2>3 DEF DiscardEnds, PostReset
  <2>4. ASSUME NEW d \in Discarder, DiscardEnds(d), d # "reset"
        PROVE  SynthesisHasWork' /\ studioState' = studioState
    BY <2>4 DEF DiscardEnds, Discarded, workVars
  <2>. QED
    BY <2>1, <2>2, <2>3, <2>4
<1>5. CaptureHasWork'
  BY <1>1, <1>2, <1>4 DEF CloneInv, CaptureHasWork
<1>. QED
  BY <1>2, <1>3, <1>4, <1>5 DEF CloneInv

LEMMA CloneNext == CloneInv /\ [Next]_vars => CloneInv'
<1>. SUFFICES ASSUME CloneInv, [Next]_vars PROVE CloneInv'
  OBVIOUS
<1>1. ASSUME NEW t \in Take, RecorderTimer(t) PROVE CloneInv'
  <2>1. RecorderInv' /\ CaptureHasWork' /\ UNCHANGED <<pageVars, discards>>
    BY <1>1, TimerFiresKeeps DEF CloneInv, RecorderTimer
  <2>. QED
    BY <2>1, PartsKept
    DEF CloneInv, pageVars, playbackVars, storeVars, elementVars, flags, workVars, resetVars,
        typePart, storePart, synthPart
<1>2. CASE UNCHANGED vars
  BY <1>2, PartsKept
  DEF CloneInv, vars, recorderVars, playbackVars, storeVars, elementVars, flags, workVars,
      resetVars, recorderPart, typePart, storePart, synthPart, capturePart
<1>. QED
  BY <1>1, <1>2, StopRecordingKeeps, CaptureStepKeeps, StatusKeeps, CheckKeeps, ReferenceKeeps,
     SynthesisKeeps, PlaybackKeeps, ResetKeeps
  DEF Next, ResetStep

LEMMA CloneInvariant == Spec => []CloneInv
  BY CloneInit, CloneNext, PTL DEF Spec

-----------------------------------------------------------------------------

(* The checkbox, the offer of a reference and the store are one, and every *)
(* object URL has its blob, whatever answers arrive late.                  *)
THEOREM ReferenceIsHeld == Spec => []CloneHasReference
<1>1. CloneInv => CloneHasReference
  BY DEF CloneInv, StoreInv
<1>. QED
  BY <1>1, CloneInvariant, PTL

(* Play is offered only while the element has the URL of the generated     *)
(* audio, and that URL is not revoked.  Of a play that awaits its context  *)
(* or its element while the URL is revoked this says nothing.              *)
THEOREM PlayIsHonest == Spec => []PlayHasAudio
<1>1. CloneInv => PlayHasAudio
  BY DEF CloneInv, StoreInv
<1>. QED
  BY <1>1, CloneInvariant, PTL

(* Generate is disabled only while the synthesis that holds the token is   *)
(* under way, or a reset about to end it.                                  *)
THEOREM SynthesisNeverStuck == Spec => []SynthesisHasWork
<1>1. CloneInv => SynthesisHasWork
  BY DEF CloneInv
<1>. QED
  BY <1>1, CloneInvariant, PTL

(* Checking and validating have work: a stop never waits for a blob that   *)
(* nobody makes.                                                           *)
THEOREM CaptureNeverStuck == Spec => []CaptureHasWork
<1>1. CloneInv => CaptureHasWork
  BY DEF CloneInv
<1>. QED
  BY <1>1, CloneInvariant, PTL
=============================================================================
