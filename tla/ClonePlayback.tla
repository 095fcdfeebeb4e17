--------------------------- MODULE ClonePlayback ---------------------------
(***************************************************************************)
(* The audio the clone page holds and plays: createEphemeralAudioStore and *)
(* createPlaybackAnalyser of frontend/realtime/src/ttsClone/audio.ts.      *)
(*                                                                         *)
(* The store holds at most one reference blob and one generated blob, each *)
(* with an object URL it created and has to revoke; a URL has the name of  *)
(* its blob.  The audio element plays the URL it was last given.  play()   *)
(* suspends while the audio context resumes and while the element starts;  *)
(* pausing or reloading the element rejects a start that is pending.       *)
(***************************************************************************)
EXTENDS ReferenceRecorder

CONSTANT
  Player         \* concurrent calls of play()

VARIABLES
  reference,     \* the store's reference
  generated,     \* the store's generated audio
  live,          \* object URLs created and not revoked
  source,        \* audio.src
  sounding,      \* the element is not paused
  playPc         \* Player -> "idle", "resuming", "starting" or "rejected"

storeVars == <<reference, generated, live>>
elementVars == <<source, sounding, playPc>>
playbackVars == <<storeVars, elementVars>>

PlaybackInit ==
  /\ reference = None /\ generated = None /\ live = {}
  /\ source = None /\ sounding = FALSE
  /\ playPc = [p \in Player |-> "idle"]

SetReference(b) ==
  /\ reference' = b
  /\ live' = (live \ {reference}) \cup {b}
  /\ UNCHANGED generated

ClearReference ==
  /\ reference' = None
  /\ live' = live \ {reference}
  /\ UNCHANGED generated

SetGenerated(g) ==
  /\ generated' = g
  /\ live' = (live \ {generated}) \cup {g}
  /\ UNCHANGED reference

ClearGenerated ==
  /\ generated' = None
  /\ live' = live \ {generated}
  /\ UNCHANGED reference

(* stop(): what is pending in the element is rejected, what still waits    *)
(* for the context is not.                                                 *)
Silence ==
  /\ sounding' = FALSE
  /\ playPc' = [p \in Player |-> IF playPc[p] = "starting" THEN "rejected" ELSE playPc[p]]

SetSource(g) == source' = g /\ Silence

StopPlaying == Silence /\ UNCHANGED source

(* play(): without a source it is rejected; Play is offered with one. *)
Play(p) ==
  /\ playPc[p] = "idle" /\ source # None
  /\ playPc' = [playPc EXCEPT ![p] = "resuming"]
  /\ UNCHANGED <<source, sounding>>

ContextResumed(p) ==
  /\ playPc[p] = "resuming"
  /\ playPc' = [playPc EXCEPT ![p] = "starting"]
  /\ sounding' = TRUE
  /\ UNCHANGED <<source>>

PlayStarted(p) ==
  /\ playPc[p] = "starting"
  /\ playPc' = [playPc EXCEPT ![p] = "idle"]
  /\ UNCHANGED <<source, sounding>>

(* The browser refuses to resume or to play, the source does not load, or  *)
(* the start was overtaken.                                                *)
PlayRejected(p) ==
  /\ playPc[p] # "idle"
  /\ playPc' = [playPc EXCEPT ![p] = "idle"]
  /\ sounding' = (sounding /\ playPc[p] # "starting")
  /\ UNCHANGED <<source>>

(* The audio has come to its end. *)
EndReached ==
  /\ sounding /\ \A p \in Player : playPc[p] # "starting"
  /\ StopPlaying
=============================================================================
