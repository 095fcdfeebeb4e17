--------------------------- MODULE AvatarManifest ---------------------------
(***************************************************************************)
(* What the avatar page accepts as a manifest and preloads from it:        *)
(* avatarLab/manifest.ts.  A manifest is a record                          *)
(*   [version, transition, frames, clips]                                  *)
(* whose frames are a sequence of records [id, src, valid] in the order of *)
(* the JSON object, and whose clips map a state to [state, fps, loop,      *)
(* frames].  The parts of the checks that no property tells apart are      *)
(* booleans: valid (the path is relative to the project and the digest has *)
(* the form of one), loop (an approved loop).                              *)
(***************************************************************************)
EXTENDS Naturals, Sequences

CONSTANT AvatarState   \* AVATAR_STATES

FrameIds(m) == {m.frames[i].id : i \in 1..Len(m.frames)}

FramesValid(m) == m.frames # <<>> /\ \A i \in 1..Len(m.frames) : m.frames[i].valid

(* Mutant: the last frame of a clip is not checked. *)
ClipValidOpenEnded(m, s) ==
  LET clip == m.clips[s] IN
  /\ clip.state = s
  /\ clip.fps \in 1..60
  /\ clip.loop
  /\ Len(clip.frames) >= 3
  /\ \A i \in 1..Len(clip.frames) : clip.frames[i] \in FrameIds(m)
  /\ clip.frames[1] = m.transition

(* parseClip: an approved loop of its own state, of at least three known   *)
(* frames, that starts and ends on the shared transition frame.            *)
ClipValid(m, s) ==
  LET clip == m.clips[s] IN
  /\ clip.state = s
  /\ clip.fps \in 1..60
  /\ clip.loop
  /\ Len(clip.frames) >= 3
  /\ \A i \in 1..Len(clip.frames) : clip.frames[i] \in FrameIds(m)
  /\ clip.frames[1] = m.transition
  /\ clip.frames[Len(clip.frames)] = m.transition

(* parseManifest. *)
Accepted(m) ==
  /\ m.version = "4.0"
  /\ FramesValid(m)
  /\ m.transition \in FrameIds(m)
  /\ DOMAIN m.clips = AvatarState
  /\ \A s \in AvatarState : ClipValid(m, s)

(* preloadManifest: an image is kept under the first frame of its source.  *)
Preloaded(m) ==
  {m.frames[i].id : i \in {j \in 1..Len(m.frames) :
     \A k \in 1..j - 1 : m.frames[k].src # m.frames[j].src}}

(* Every frame has an image of its own, as in the manifest of the          *)
(* repository.                                                             *)
OneImagePerFrame(m) == Preloaded(m) = FrameIds(m)
=============================================================================
