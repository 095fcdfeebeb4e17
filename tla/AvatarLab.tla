----------------------------- MODULE AvatarLab -----------------------------
(***************************************************************************)
(* The avatar page: avatarLab/App.tsx with the scheduler, the state        *)
(* machine and the renderer of AI_Avatar/frontend.                         *)
(*                                                                         *)
(* Three objects keep state of their own: the scheduler (which clip plays, *)
(* which is queued, which frame), the renderer (its animation callback,    *)
(* what the canvas shows) and React (the snapshot the panel is rendered    *)
(* from, the error).  The callback of the browser and the clicks of the    *)
(* reader step them in any order.                                          *)
(***************************************************************************)
EXTENDS AvatarManifest

CONSTANTS
  Idle,          \* the initial state
  NoState,       \* null, for a state
  NoFrame,       \* null, for a frame
  Candidate      \* manifests the server may answer with

ASSUME AvatarAssumption ==
  /\ Idle \in AvatarState
  /\ NoState \notin AvatarState
  /\ \A m \in Candidate, s \in AvatarState : Len(m.clips[s].frames) \in Nat

VARIABLES
  assets,        \* "none", "loading", "ready", "failed" or "crashed"
  manifest,      \* the manifest in use
  playing,       \* AvatarStateMachine.playingState
  pending,       \* AvatarStateMachine.pendingState
  frameIndex,    \* ClipScheduler.frameIndex
  paused,        \* ClipScheduler.paused and PngSequenceRenderer.paused
  advanced,      \* ClipScheduler.lastAdvanceAt is not null
  callback,      \* PngSequenceRenderer.animationFrame is not null
  canvas,        \* PngSequenceRenderer.lastDrawnFrame
  broken,        \* the page's error: drawing failed
  snapshot       \* the snapshot the panel shows

avatarVars == <<assets, manifest, playing, pending, frameIndex, paused, advanced,
                callback, canvas, broken, snapshot>>

NoManifest == [version |-> "none"]

Clip(s) == manifest.clips[s].frames
Frame(s, i) == Clip(s)[i + 1]
HasImage(f) == f \in Preloaded(manifest)

NoSnapshot == [playing |-> NoState, pending |-> NoState, index |-> 0, paused |-> FALSE]
Snapshot(s, p, i, b) == [playing |-> s, pending |-> p, index |-> i, paused |-> b]

(* Controls are enabled: ready of App.tsx. *)
LabReady == assets = "ready" /\ snapshot # NoSnapshot /\ ~broken

Blank(a, m) ==
  /\ assets' = a /\ manifest' = m
  /\ playing' = Idle /\ pending' = NoState
  /\ frameIndex' = 0 /\ paused' = FALSE /\ advanced' = FALSE
  /\ callback' = FALSE /\ canvas' = NoFrame
  /\ broken' = FALSE /\ snapshot' = NoSnapshot

AvatarInit ==
  /\ assets = "none" /\ manifest = NoManifest
  /\ playing = Idle /\ pending = NoState
  /\ frameIndex = 0 /\ paused = FALSE /\ advanced = FALSE
  /\ callback = FALSE /\ canvas = NoFrame
  /\ broken = FALSE /\ snapshot = NoSnapshot

(* AvatarStateMachine.select: another state replaces the queued one; the   *)
(* playing state only forgets it.                                          *)
Queue(s) == pending' = IF s = playing THEN NoState ELSE s

(* Mutant: the end of a loop does not take up the queued state. *)
CompleteLoopIgnoring == UNCHANGED <<playing, pending>>

(* AvatarStateMachine.completeLoop. *)
CompleteLoop ==
  /\ playing' = IF pending = NoState THEN playing ELSE pending
  /\ pending' = NoState

-----------------------------------------------------------------------------
(* The page loads and is left. *)

OpenLab == Blank("loading", NoManifest)

CloseLab == Blank("none", NoManifest)

(* The manifest is refused or an image fails to load. *)
LoadFails ==
  /\ assets = "loading"
  /\ assets' = "failed"
  /\ UNCHANGED <<manifest, playing, pending, frameIndex, paused, advanced, callback, canvas,
                 broken, snapshot>>

(* The assets arrive: the effect builds scheduler and renderer, draws the  *)
(* first frame and starts the animation.  An exception in an effect takes  *)
(* the page down.                                                          *)
LoadAssets(m) ==
  /\ assets = "loading"
  /\ Accepted(m)
  /\ LET first == m.clips[Idle].frames[1] IN
     IF first \in Preloaded(m)
     THEN /\ assets' = "ready" /\ manifest' = m
          /\ canvas' = first
          /\ snapshot' = Snapshot(Idle, NoState, 0, FALSE)
          /\ callback' = TRUE
          /\ UNCHANGED <<playing, pending, frameIndex, paused, advanced, broken>>
     ELSE Blank("crashed", NoManifest)

-----------------------------------------------------------------------------
(* The animation callback *)

(* PngSequenceRenderer.draw: a frame without an image throws before the    *)
(* failure event can be emitted; a failing canvas emits it and throws.     *)
(* Either way the callback is not requested again.                         *)
Show(f, works) ==
  IF f = canvas
  THEN callback' = TRUE /\ UNCHANGED <<canvas, broken>>
  ELSE IF HasImage(f) /\ works
       THEN callback' = TRUE /\ canvas' = f /\ UNCHANGED broken
       ELSE /\ callback' = FALSE
            /\ broken' = (broken \/ HasImage(f))
            /\ UNCHANGED canvas

(* ClipScheduler.step: the next frame; at the end of the clip its last     *)
(* frame, and the queued state starts.                                     *)
AtBoundary == frameIndex + 1 >= Len(Clip(playing)) - 1

StepToBoundary(works) ==
  /\ AtBoundary
  /\ CompleteLoop
  /\ frameIndex' = 0
  /\ Show(Clip(playing)[Len(Clip(playing))], works)

StepToNext(works) ==
  /\ ~AtBoundary
  /\ frameIndex' = frameIndex + 1
  /\ Show(Frame(playing, frameIndex + 1), works)
  /\ UNCHANGED <<playing, pending>>

(* ClipScheduler.advance and the provider: the panel is updated before the *)
(* frame is drawn.                                                         *)
Animate(due, works) ==
  /\ callback
  /\ IF advanced /\ due
     THEN StepToBoundary(works) \/ StepToNext(works)
     ELSE /\ Show(Frame(playing, frameIndex), works)
          /\ UNCHANGED <<playing, pending, frameIndex>>
  /\ advanced' = TRUE
  /\ snapshot' = Snapshot(playing', pending', frameIndex', paused)
  /\ UNCHANGED <<assets, manifest, paused>>

-----------------------------------------------------------------------------
(* The controls *)

(* selectState: choosing the playing state does not render the panel.      *)
Select(s) ==
  /\ LabReady
  /\ Queue(s)
  /\ snapshot' = IF s = playing THEN snapshot
                 ELSE Snapshot(playing, s, frameIndex, paused)
  /\ UNCHANGED <<assets, manifest, playing, frameIndex, paused, advanced, callback,
                 canvas, broken>>

Pause ==
  /\ LabReady /\ ~snapshot.paused
  /\ paused' = TRUE /\ callback' = FALSE
  /\ snapshot' = Snapshot(playing, pending, frameIndex, TRUE)
  /\ UNCHANGED <<assets, manifest, playing, pending, frameIndex, advanced, canvas, broken>>

Resume ==
  /\ LabReady /\ snapshot.paused
  /\ paused' = FALSE /\ advanced' = FALSE
  /\ callback' = (paused \/ callback)
  /\ snapshot' = Snapshot(playing, pending, frameIndex, FALSE)
  /\ UNCHANGED <<assets, manifest, playing, pending, frameIndex, canvas, broken>>

(* restart: the panel is updated only if drawing succeeds. *)
RestartClip(works) ==
  /\ LabReady
  /\ frameIndex' = 0 /\ advanced' = FALSE /\ pending' = NoState
  /\ LET f == Frame(playing, 0) IN
     IF HasImage(f) /\ works
     THEN /\ canvas' = f
          /\ snapshot' = Snapshot(playing, NoState, 0, paused)
          /\ UNCHANGED broken
     ELSE /\ broken' = (broken \/ HasImage(f))
          /\ UNCHANGED <<canvas, snapshot>>
  /\ UNCHANGED <<assets, manifest, playing, paused, callback>>

AvatarNext ==
  \/ LoadFails
  \/ \E m \in Candidate : LoadAssets(m)
  \/ \E due, works \in BOOLEAN : Animate(due, works)
  \/ \E s \in AvatarState : Select(s)
  \/ Pause \/ Resume
  \/ \E works \in BOOLEAN : RestartClip(works)

-----------------------------------------------------------------------------

AvatarTypeOK ==
  /\ assets \in {"none", "loading", "ready", "failed", "crashed"}
  /\ manifest \in Candidate \cup {NoManifest}
  /\ playing \in AvatarState /\ pending \in AvatarState \cup {NoState}
  /\ frameIndex \in Nat
  /\ paused \in BOOLEAN /\ advanced \in BOOLEAN
  /\ callback \in BOOLEAN /\ broken \in BOOLEAN

Unfailed == assets = "ready" /\ ~broken /\ OneImagePerFrame(manifest)

(* The canvas, the panel and the scheduler agree after every event, until  *)
(* drawing fails: the canvas shows the current frame of the playing clip,  *)
(* so a queued state takes over on the shared frame S0 and no gesture is   *)
(* cut (spec/UI.md, AI Avatar Motion Lab); the panel names the state that  *)
(* plays; one callback is pending unless it is paused.  It rests on        *)
(* parseClip, on the order of draw, completeLoop and update, and on every  *)
(* control refreshing the snapshot.                                        *)
PictureMatches ==
  Unfailed =>
    /\ frameIndex < Len(Clip(playing)) - 1
    /\ canvas = Frame(playing, frameIndex)
    /\ snapshot.playing = playing /\ snapshot.index = frameIndex
    /\ snapshot.paused = paused
    /\ callback = ~paused

(* A queued state is eventually played, replaced or cancelled, unless the  *)
(* animation stands still: paused, failed, or the page was left.           *)
QueuedPlays ==
  \A s \in AvatarState : pending = s ~> pending # s \/ ~callback
=============================================================================
