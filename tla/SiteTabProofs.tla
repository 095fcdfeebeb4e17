--------------------------- MODULE SiteTabProofs ---------------------------
(***************************************************************************)
(* Theorems about SiteTab, for any languages, callbacks, checks,           *)
(* recordings, avatar states and manifests.                                *)
(***************************************************************************)
EXTENDS SiteTab, TLAPS

-----------------------------------------------------------------------------
(* The language *)

(* The stored choice is the one that is stored, and a page opened without  *)
(* a parameter shows it.                                                   *)
LocaleInv ==
  /\ LocaleTypeOK /\ ChoiceKept
  /\ chosen # NoLocale => storable /\ stored = chosen

LEMMA LocaleInitially == LocaleInit => LocaleInv
  BY LocaleAssumption
  DEF LocaleInit, LocaleInv, LocaleTypeOK, ChoiceKept, Query, NoPage, Page, Localized

LEMMA LoadKeeps ==
  ASSUME LocaleInv, NEW p \in Page, NEW q \in Query, Load(p, q)
  PROVE  LocaleInv'
<1>1. LocaleTypeOK'
  BY LocaleAssumption
  DEF LocaleInv, LocaleTypeOK, Load, Store, Resolve, ResolveLocale, ResolveCloneLocale,
      ResolveDocsLocale, Supported, StoredLocale
<1>2. chosen' # NoLocale =>
        /\ chosen' = chosen /\ chosen \in Locale
        /\ storable' /\ storable /\ stored = chosen /\ stored' = chosen
  BY DEF Load, Store, LocaleInv, LocaleTypeOK
<1>3. ChoiceKept'
  <2>1. SUFFICES ASSUME chosen' # NoLocale, p \in {"portal", "asr", "tts"}, q = NoLocale,
                        locale' # NoLocale
                 PROVE  locale' = chosen'
    BY DEF ChoiceKept, Load
  <2>2. Resolve(p, NoLocale, chosen) = chosen
    BY <1>2, <2>1, LocaleAssumption
    DEF Resolve, ResolveLocale, ResolveCloneLocale, Supported
  <2>. QED
    BY <1>2, <2>1, <2>2 DEF Load, StoredLocale
<1>. QED
  BY <1>1, <1>2, <1>3 DEF LocaleInv

LEMMA LanguageKeeps ==
  ASSUME LocaleInv,
         \/ \E p \in Page, q \in Query : Open(p, q)
         \/ LeavePage
         \/ \E p \in Page : FollowLink(p)
         \/ \E l \in Locale : Choose(l)
         \/ \E answered \in BOOLEAN : LoadSystemStatus(answered)
         \/ UNCHANGED localeVars
  PROVE  LocaleInv'
<1>1. CASE \E p \in Page, q \in Query : Open(p, q)
  BY <1>1, LoadKeeps DEF Open
<1>2. CASE \E p \in Page : FollowLink(p)
  <2>1. PICK p \in Page : FollowLink(p)
    BY <1>2
  <2>2. LinkQuery(page) \in Query
    BY DEF LocaleInv, LocaleTypeOK, LinkQuery, Query
  <2>. QED
    BY <2>1, <2>2, LoadKeeps DEF FollowLink
<1>3. CASE LeavePage
  BY <1>3 DEF LocaleInv, LocaleTypeOK, ChoiceKept, LeavePage, Query
<1>4. ASSUME NEW l \in Locale, Choose(l) PROVE LocaleInv'
  <2>1. LocaleTypeOK'
    BY <1>4 DEF LocaleInv, LocaleTypeOK, Choose, Store, Query
  <2>2. ChoiceKept'
    BY <1>4, LocaleAssumption DEF Choose, ChoiceKept
  <2>3. chosen' # NoLocale => storable' /\ stored' = chosen'
    BY <1>4 DEF Choose, Store, LocaleInv
  <2>. QED
    BY <2>1, <2>2, <2>3 DEF LocaleInv
<1>5. CASE (\E answered \in BOOLEAN : LoadSystemStatus(answered)) \/ UNCHANGED localeVars
  BY <1>5 DEF LocaleInv, LocaleTypeOK, ChoiceKept, LoadSystemStatus, localeVars
<1>. QED
  BY <1>1, <1>2, <1>3, <1>4, <1>5

-----------------------------------------------------------------------------
(* The particle field *)

(* A field that draws nothing keeps no handle, and one that is not mounted *)
(* waits for no resize.                                                    *)
FieldInv ==
  /\ FieldTypeOK /\ OneAnimationLoop
  /\ Mounted /\ (reduced \/ hidden) => frame = NoCallback
  /\ resizing => Mounted

LEMMA FieldBlanked ==
  ASSUME NEW preferences \in SUBSET BOOLEAN, FieldBlank(preferences)
  PROVE  FieldInv'
<1>1. /\ field' = "none" /\ drawing' = {} /\ ~resizing' /\ ~hidden'
      /\ reduced' \in BOOLEAN
  BY DEF FieldBlank
<1>2. energy' \in 0..MaxEnergy
  BY FieldAssumption DEF FieldBlank, Dormant
<1>. QED
  BY <1>1, <1>2 DEF FieldBlank, FieldInv, FieldTypeOK, OneAnimationLoop, Mounted

LEMMA RequestDrawKeeps ==
  ASSUME RequestDraw({}), reduced \in BOOLEAN, hidden \in BOOLEAN
  PROVE  /\ frame' \in Callback \cup {NoCallback} /\ drawing' \subseteq Callback
         /\ IF ~reduced /\ ~hidden THEN frame' # NoCallback /\ drawing' = {frame'}
            ELSE frame' = NoCallback /\ drawing' = {}
  BY FieldAssumption DEF RequestDraw, NewCallback

LEMMA ResizeKeeps ==
  ASSUME FieldInv, Resize, field' = "mounted", UNCHANGED <<reduced, hidden, pointer>>,
         script' \in {"absent", "loading", "loaded"}
  PROVE  FieldInv'
<1>1. drawing \ {frame} = {}
  BY DEF FieldInv, OneAnimationLoop
<1>2. RequestDraw({})
  BY <1>1 DEF Resize
<1>3. /\ frame' \in Callback \cup {NoCallback} /\ drawing' \subseteq Callback
      /\ IF ~reduced' /\ ~hidden' THEN frame' # NoCallback /\ drawing' = {frame'}
         ELSE frame' = NoCallback /\ drawing' = {}
  BY <1>2, RequestDrawKeeps DEF FieldInv, FieldTypeOK
<1>4. energy' \in 0..MaxEnergy /\ resizing' = FALSE
  BY FieldAssumption DEF Resize, Dormant
<1>5. FieldTypeOK'
  BY <1>3, <1>4 DEF FieldInv, FieldTypeOK
<1>. QED
  BY <1>3, <1>4, <1>5 DEF FieldInv, OneAnimationLoop, Mounted

LEMMA FieldKeeps == FieldInv /\ (FieldNext \/ UNCHANGED fieldVars) => FieldInv'
<1>. SUFFICES ASSUME FieldInv, FieldNext \/ UNCHANGED fieldVars PROVE FieldInv'
  OBVIOUS
<1>. USE FieldAssumption DEF FieldInv, FieldTypeOK, OneAnimationLoop, Mounted
<1>1. CASE Mount \/ ResizeFires
  BY <1>1, ResizeKeeps DEF Mount, ResizeFires
<1>2. ASSUME NEW c \in Callback, Draw(c) PROVE FieldInv'
  <2>1. Mounted /\ ~reduced /\ ~hidden /\ drawing \ {c} = {}
    BY <1>2 DEF Draw
  <2>2. RequestDraw({})
    BY <1>2, <2>1 DEF Draw
  <2>3. energy' \in 0..MaxEnergy
    BY <1>2, <2>1 DEF Draw, Fade, Dormant
  <2>4. frame' # NoCallback /\ drawing' = {frame'} /\ frame' \in Callback
    BY <2>1, <2>2, RequestDrawKeeps
  <2>5. UNCHANGED <<field, script, reduced, hidden, resizing, pointer>>
    BY <1>2 DEF Draw
  <2>. QED
    BY <2>1, <2>3, <2>4, <2>5
<1>3. CASE VisibilityChanges
  <2>1. /\ hidden' = ~hidden
        /\ UNCHANGED <<field, script, reduced, resizing, energy, pointer>>
    BY <1>3 DEF VisibilityChanges
  <2>2. CASE ~Mounted \/ reduced
    BY <1>3, <2>1, <2>2 DEF VisibilityChanges
  <2>3. CASE Mounted /\ ~reduced /\ hidden'
    BY <1>3, <2>1, <2>3 DEF VisibilityChanges
  <2>4. CASE Mounted /\ ~reduced /\ ~hidden'
    <3>1. frame = NoCallback /\ drawing = {}
      BY <2>1, <2>4
    <3>2. frame' = NewCallback({}) /\ drawing' = {frame'}
      BY <1>3, <2>4, <3>1 DEF VisibilityChanges
    <3>3. frame' \in Callback /\ frame' # NoCallback
      BY <3>2 DEF NewCallback
    <3>. QED
      BY <2>1, <2>4, <3>2, <3>3
  <2>. QED
    BY <2>2, <2>3, <2>4
<1>4. CASE RequestScript
  BY <1>4 DEF RequestScript
<1>5. CASE RequestResize
  BY <1>5 DEF RequestResize
<1>6. ASSUME NEW far \in BOOLEAN, PointerMoves(far) PROVE FieldInv'
  <2>1. energy' \in 0..MaxEnergy
    BY <1>6 DEF PointerMoves, Brighten
  <2>. QED
    BY <1>6, <2>1 DEF PointerMoves
<1>7. CASE PointerLeaves
  BY <1>7 DEF PointerLeaves
<1>8. CASE Destroy
  <2>1. drawing' = {}
    BY <1>8 DEF Destroy
  <2>. QED
    BY <1>8, <2>1 DEF Destroy
<1>9. CASE MountAgain
  BY <1>9 DEF MountAgain
<1>10. CASE UNCHANGED fieldVars
  BY <1>10 DEF fieldVars
<1>. QED
  BY <1>1, <1>2, <1>3, <1>4, <1>5, <1>6, <1>7, <1>8, <1>9, <1>10 DEF FieldNext

-----------------------------------------------------------------------------
(* The recorder *)

(* A recording is only discarded once its recorder stops, and the page then *)
(* neither records nor processes.                                          *)
DiscardsIdle ==
  discard => phase \notin {"recording", "processing"} /\ ~RecorderActive

CodexInv == CodexTypeOK /\ BusyHasWork /\ DiscardsIdle

LEMMA CodexBlanked == CodexBlank => CodexInv'
  BY CodexAssumption DEF CodexBlank, CodexInv, CodexTypeOK, BusyHasWork, DiscardsIdle, Busy

LEMMA CodexInitially == CodexInit => CodexInv
  BY CodexAssumption DEF CodexInit, CodexInv, CodexTypeOK, BusyHasWork, DiscardsIdle, Busy

LEMMA CheckKeeps ==
  ASSUME CodexInv, NEW c \in Check,
         CheckDevices(c) \/ Granted(c) \/ \E found \in BOOLEAN : Checked(c, found)
  PROVE  CodexInv'
<1>. USE DEF CodexInv, CodexTypeOK, BusyHasWork, DiscardsIdle, Busy, RecorderActive
<1>1. CASE CheckDevices(c)
  BY <1>1 DEF CheckDevices, CheckEnabled
<1>2. CASE Granted(c)
  BY <1>2 DEF Granted
<1>3. CASE \E found \in BOOLEAN : Checked(c, found)
  BY <1>3 DEF Checked
<1>. QED
  BY <1>1, <1>2, <1>3

LEMMA StartKeeps ==
  ASSUME CodexInv, NEW r \in Recording,
         StartRecording(r) \/ Record(r) \/ \E refused \in BOOLEAN : StartFails(r, refused)
  PROVE  CodexInv'
<1>. USE CodexAssumption
     DEF CodexInv, CodexTypeOK, BusyHasWork, DiscardsIdle, Busy, RecorderActive
<1>1. CASE StartRecording(r)
  BY <1>1 DEF StartRecording, StartEnabled
<1>2. CASE Record(r)
  BY <1>2 DEF Record
<1>3. CASE \E refused \in BOOLEAN : StartFails(r, refused)
  BY <1>3 DEF StartFails, StopTracks
<1>. QED
  BY <1>1, <1>2, <1>3

LEMMA StopKeeps ==
  ASSUME CodexInv, NEW armed \in SUBSET timers, StopRecording(armed),
         \/ armed = timers
         \/ \E r \in timers : armed = timers \ {r}
  PROVE  CodexInv'
<1>. USE CodexAssumption
     DEF CodexInv, CodexTypeOK, BusyHasWork, DiscardsIdle, Busy, RecorderActive
<1>1. CASE RecorderActive
  BY <1>1 DEF StopRecording, StopRecorder, StopTracks
<1>2. CASE ~RecorderActive
  BY <1>2 DEF StopRecording
<1>. QED
  BY <1>1, <1>2

LEMMA ProcessKeeps ==
  ASSUME CodexInv, NEW r \in Recording, Process(r)
  PROVE  CodexInv'
<1>. USE CodexAssumption
     DEF CodexInv, CodexTypeOK, BusyHasWork, DiscardsIdle, Busy, RecorderActive
<1>1. CASE Stopped(r)
  BY <1>1 DEF Stopped
<1>2. CASE EndWork(r)
  BY <1>2 DEF EndWork, Finish
<1>. QED
  BY <1>1, <1>2 DEF Process

LEMMA UnplugKeeps ==
  ASSUME CodexInv, InvalidateDevices \/ \E r \in Recording : TrackEnds(r)
  PROVE  CodexInv'
<1>. USE CodexAssumption
     DEF CodexInv, CodexTypeOK, BusyHasWork, DiscardsIdle, Busy, RecorderActive
<1>1. CASE InvalidateDevices
  BY <1>1 DEF InvalidateDevices, StopRecorder, StopTracks
<1>2. ASSUME NEW r \in Recording, TrackEnds(r) PROVE CodexInv'
  BY <1>2 DEF TrackEnds
<1>. QED
  BY <1>1, <1>2

LEMMA CodexKeeps == CodexInv /\ (CodexNext \/ UNCHANGED codexVars) => CodexInv'
<1>. SUFFICES ASSUME CodexInv, CodexNext \/ UNCHANGED codexVars PROVE CodexInv'
  OBVIOUS
<1>1. CASE UNCHANGED codexVars
  BY <1>1 DEF codexVars, CodexInv, CodexTypeOK, BusyHasWork, DiscardsIdle, Busy, RecorderActive
<1>2. CASE StopClicked \/ \E r \in Recording : AutoStop(r)
  BY <1>2, StopKeeps DEF StopClicked, AutoStop
<1>. QED
  BY <1>1, <1>2, CheckKeeps, StartKeeps, ProcessKeeps, UnplugKeeps DEF CodexNext

-----------------------------------------------------------------------------
(* The avatar *)

(* Only an accepted manifest is played, from its start; a page without one *)
(* has no animation and no enabled control.                                *)
AvatarInv ==
  /\ AvatarTypeOK /\ PictureMatches
  /\ assets = "ready" => manifest \in Candidate /\ Accepted(manifest)
  /\ assets # "ready" => ~callback /\ snapshot = NoSnapshot
  /\ assets = "loading" =>
       playing = Idle /\ pending = NoState /\ frameIndex = 0 /\ ~paused /\ ~broken

(* Every clip of an accepted manifest has at least three frames, starts    *)
(* and ends on the same one, and has an image of each.                     *)
LEMMA ClipFacts ==
  ASSUME NEW m \in Candidate, Accepted(m), NEW s \in AvatarState
  PROVE  LET frames == m.clips[s].frames IN
         /\ Len(frames) \in Nat /\ Len(frames) >= 3
         /\ frames[1] = frames[Len(frames)]
         /\ OneImagePerFrame(m) => \A i \in 1..Len(frames) : frames[i] \in Preloaded(m)
<1>. DEFINE frames == m.clips[s].frames
<1>1. Len(frames) \in Nat
  BY AvatarAssumption
<1>2. ClipValid(m, s)
  BY DEF Accepted
<1>3. Len(frames) >= 3 /\ frames[1] = frames[Len(frames)]
  BY <1>2 DEF ClipValid
<1>4. \A i \in 1..Len(frames) : frames[i] \in FrameIds(m)
  BY <1>2 DEF ClipValid
<1>. QED
  BY <1>1, <1>3, <1>4 DEF OneImagePerFrame

LEMMA BlankKeeps ==
  ASSUME NEW a \in {"none", "loading", "crashed"}, Blank(a, NoManifest)
  PROVE  AvatarInv'
  BY AvatarAssumption DEF Blank, AvatarInv, AvatarTypeOK, PictureMatches, Unfailed

LEMMA AvatarInitially == AvatarInit => AvatarInv
<1>. SUFFICES ASSUME AvatarInit PROVE AvatarInv
  OBVIOUS
<1>1. AvatarTypeOK /\ assets = "none" /\ snapshot = NoSnapshot /\ ~callback
  BY AvatarAssumption DEF AvatarInit, AvatarTypeOK
<1>. QED
  BY <1>1 DEF AvatarInv, PictureMatches, Unfailed

LEMMA LoadAssetsKeeps ==
  ASSUME AvatarInv, NEW m \in Candidate, LoadAssets(m)
  PROVE  AvatarInv'
<1>. DEFINE first == m.clips[Idle].frames[1]
<1>1. CASE first \notin Preloaded(m)
  BY <1>1, BlankKeeps DEF LoadAssets
<1>2. CASE first \in Preloaded(m)
  <2>1. /\ assets' = "ready" /\ manifest' = m /\ canvas' = first
        /\ snapshot' = Snapshot(Idle, NoState, 0, FALSE) /\ callback' = TRUE
        /\ playing' = Idle /\ pending' = NoState /\ frameIndex' = 0
        /\ paused' = FALSE /\ broken' = FALSE
        /\ UNCHANGED advanced
    BY <1>2 DEF LoadAssets, AvatarInv, AvatarTypeOK
  <2>2. Accepted(m) /\ AvatarTypeOK'
    BY <2>1, AvatarAssumption DEF LoadAssets, AvatarInv, AvatarTypeOK
  <2>3. PictureMatches'
    <3>1. Len(m.clips[Idle].frames) \in Nat /\ Len(m.clips[Idle].frames) >= 3
      BY <2>2, ClipFacts, AvatarAssumption
    <3>2. Clip(playing)' = m.clips[Idle].frames /\ Frame(playing, frameIndex)' = first
      BY <2>1 DEF Clip, Frame
    <3>3. /\ snapshot'.playing = playing' /\ snapshot'.index = frameIndex'
          /\ snapshot'.paused = paused'
      BY <2>1 DEF Snapshot
    <3>4. frameIndex' < Len(Clip(playing)') - 1 /\ canvas' = Frame(playing, frameIndex)'
      BY <2>1, <3>1, <3>2
    <3>5. callback' = ~paused'
      BY <2>1
    <3>. QED
      BY <3>3, <3>4, <3>5 DEF PictureMatches
  <2>. QED
    BY <2>1, <2>2, <2>3 DEF AvatarInv
<1>. QED
  BY <1>1, <1>2

(* Drawing a frame that has an image shows it, or fails and says so. *)
LEMMA ShowDraws ==
  ASSUME NEW f, NEW works \in BOOLEAN, Show(f, works), broken \in BOOLEAN
  PROVE  /\ callback' \in BOOLEAN /\ broken' \in BOOLEAN
         /\ broken => broken'
         /\ HasImage(f) => broken' \/ (canvas' = f /\ callback' = TRUE)
  BY DEF Show

LEMMA AnimateKeeps ==
  ASSUME AvatarInv, NEW due \in BOOLEAN, NEW works \in BOOLEAN, Animate(due, works)
  PROVE  AvatarInv'
<1>. DEFINE c == Clip(playing)
<1>1. /\ assets = "ready" /\ manifest \in Candidate /\ Accepted(manifest)
      /\ playing \in AvatarState /\ pending \in AvatarState \cup {NoState}
      /\ frameIndex \in Nat /\ broken \in BOOLEAN
      /\ paused \in BOOLEAN
  BY DEF Animate, AvatarInv, AvatarTypeOK
<1>2. /\ UNCHANGED <<assets, manifest, paused>> /\ advanced' = TRUE
      /\ snapshot' = Snapshot(playing', pending', frameIndex', paused)
      /\ callback
  BY DEF Animate
<1>3. \A s \in AvatarState :
        /\ Len(Clip(s)) \in Nat /\ Len(Clip(s)) >= 3
        /\ Clip(s)[1] = Clip(s)[Len(Clip(s))]
        /\ OneImagePerFrame(manifest) => \A i \in 1..Len(Clip(s)) : HasImage(Clip(s)[i])
  BY <1>1, ClipFacts DEF Clip, HasImage
<1>4. Clip(playing) = c /\ \A s : Clip(s)' = Clip(s)
  BY <1>2 DEF Clip
<1>5. PICK f :
        /\ Show(f, works)
        /\ playing' \in AvatarState /\ pending' \in AvatarState \cup {NoState}
        /\ frameIndex' \in Nat
        /\ Unfailed => /\ HasImage(f) /\ f = Clip(playing')[frameIndex' + 1]
                       /\ frameIndex' < Len(Clip(playing')) - 1
  <2>1. CASE StepToBoundary(works)
    <3>1. /\ Show(c[Len(c)], works) /\ frameIndex' = 0
          /\ playing' \in AvatarState /\ pending' = NoState
      BY <1>1, <2>1 DEF StepToBoundary, CompleteLoop
    <3>2. c[Len(c)] = Clip(playing')[1]
      BY <1>1, <1>3, <3>1 DEF Clip, Accepted, ClipValid
    <3>3. Unfailed => HasImage(c[Len(c)])
      BY <1>1, <1>3 DEF Unfailed
    <3>. QED
      BY <1>3, <3>1, <3>2, <3>3
  <2>2. CASE StepToNext(works)
    <3>1. /\ Show(c[frameIndex + 2], works) /\ frameIndex' = frameIndex + 1
          /\ playing' = playing /\ pending' = pending
          /\ ~(frameIndex + 1 >= Len(c) - 1)
      BY <1>1, <2>2 DEF StepToNext, Frame, AtBoundary
    <3>2. frameIndex + 2 \in 1..Len(c) /\ frameIndex' < Len(c) - 1
      BY <1>1, <1>3, <3>1
    <3>. QED
      BY <1>1, <1>3, <3>1, <3>2 DEF Unfailed
  <2>3. CASE /\ Show(Frame(playing, frameIndex), works)
             /\ UNCHANGED <<playing, pending, frameIndex>>
    <3>1. Unfailed => frameIndex < Len(c) - 1
      BY DEF AvatarInv, PictureMatches
    <3>2. Unfailed => HasImage(c[frameIndex + 1])
      BY <1>1, <1>3, <3>1 DEF Unfailed
    <3>. QED
      BY <1>1, <2>3, <3>1, <3>2 DEF Frame
  <2>. QED
    BY <2>1, <2>2, <2>3 DEF Animate
<1>6. /\ callback' \in BOOLEAN /\ broken' \in BOOLEAN
      /\ broken => broken'
      /\ HasImage(f) => broken' \/ (canvas' = f /\ callback' = TRUE)
  BY <1>1, <1>5, ShowDraws
<1>7. AvatarTypeOK'
  BY <1>1, <1>2, <1>5, <1>6 DEF AvatarInv, AvatarTypeOK
<1>8. PictureMatches'
  <2>. SUFFICES ASSUME Unfailed' PROVE PictureMatches'
    BY DEF PictureMatches
  <2>1. Unfailed /\ ~broken'
    BY <1>1, <1>2, <1>6 DEF Unfailed, OneImagePerFrame
  <2>2. paused = FALSE
    BY <1>1, <1>2, <2>1 DEF AvatarInv, PictureMatches
  <2>3. /\ canvas' = Clip(playing')[frameIndex' + 1] /\ callback' = TRUE
        /\ frameIndex' < Len(Clip(playing')) - 1
    BY <1>5, <1>6, <2>1
  <2>4. Clip(playing)' = Clip(playing')
    BY <1>2 DEF Clip
  <2>. QED
    BY <1>2, <2>2, <2>3, <2>4 DEF PictureMatches, Frame, Snapshot
<1>. QED
  BY <1>1, <1>2, <1>7, <1>8 DEF AvatarInv

LEMMA ControlsKeep ==
  ASSUME AvatarInv,
         \/ \E s \in AvatarState : Select(s)
         \/ Pause \/ Resume
         \/ \E works \in BOOLEAN : RestartClip(works)
  PROVE  AvatarInv'
<1>. USE DEF AvatarInv, AvatarTypeOK, LabReady
<1>1. ASSUME NEW s \in AvatarState, Select(s) PROVE AvatarInv'
  BY <1>1 DEF Select, Queue, PictureMatches, Unfailed, Clip, Frame, Snapshot
<1>2. CASE Pause
  BY <1>2 DEF Pause, PictureMatches, Unfailed, Clip, Frame, Snapshot
<1>3. CASE Resume
  BY <1>3 DEF Resume, PictureMatches, Unfailed, Clip, Frame, Snapshot
<1>4. ASSUME NEW works \in BOOLEAN, RestartClip(works) PROVE AvatarInv'
  <2>1. /\ assets = "ready" /\ manifest \in Candidate /\ Accepted(manifest)
        /\ UNCHANGED <<assets, manifest, playing, paused, callback>>
        /\ frameIndex' = 0 /\ advanced' = FALSE /\ pending' = NoState
        /\ playing \in AvatarState
    BY <1>4 DEF RestartClip
  <2>2. /\ Len(Clip(playing)) \in Nat /\ Len(Clip(playing)) >= 3
        /\ OneImagePerFrame(manifest) => HasImage(Frame(playing, 0))
    BY <2>1, ClipFacts DEF Clip, Frame, HasImage
  <2>3. /\ broken' \in BOOLEAN
        /\ broken => broken'
        /\ HasImage(Frame(playing, 0)) =>
             \/ broken'
             \/ canvas' = Frame(playing, 0) /\ snapshot' = Snapshot(playing, NoState, 0, paused)
    BY <1>4 DEF RestartClip
  <2>4. AvatarTypeOK'
    <3>1. paused' \in BOOLEAN /\ callback' \in BOOLEAN /\ broken' \in BOOLEAN
      BY <2>1, <2>3
    <3>. QED
      BY <2>1, <3>1
  <2>5. ASSUME Unfailed' PROVE PictureMatches'
    <3>1. ~broken' /\ ~broken
      BY <2>3, <2>5 DEF Unfailed
    <3>2. assets = "ready" /\ OneImagePerFrame(manifest)
      BY <2>1, <2>5 DEF Unfailed
    <3>3. Unfailed
      BY <3>1, <3>2 DEF Unfailed
    <3>4. callback = ~paused
      BY <3>3 DEF PictureMatches
    <3>5. Clip(playing)' = Clip(playing) /\ Frame(playing, frameIndex)' = Frame(playing, 0)
      BY <2>1 DEF Clip, Frame
    <3>. QED
      BY <2>1, <2>2, <2>3, <3>3, <3>1, <3>4, <3>5 DEF PictureMatches, Snapshot, Unfailed
  <2>6. PictureMatches'
    BY <2>5 DEF PictureMatches
  <2>. QED
    BY <2>1, <2>4, <2>6
<1>. QED
  BY <1>1, <1>2, <1>3, <1>4

LEMMA AvatarKeeps == AvatarInv /\ (AvatarNext \/ UNCHANGED avatarVars) => AvatarInv'
<1>. SUFFICES ASSUME AvatarInv, AvatarNext \/ UNCHANGED avatarVars PROVE AvatarInv'
  OBVIOUS
<1>1. CASE LoadFails
  BY <1>1 DEF LoadFails, AvatarInv, AvatarTypeOK, PictureMatches, Unfailed
<1>2. CASE UNCHANGED avatarVars
  BY <1>2
  DEF avatarVars, AvatarInv, AvatarTypeOK, PictureMatches, Unfailed, Clip, Frame
<1>. QED
  BY <1>1, <1>2, LoadAssetsKeeps, AnimateKeeps, ControlsKeep DEF AvatarNext

-----------------------------------------------------------------------------
(* The tab *)

(* Every part keeps its invariant, and what a page's script holds is gone  *)
(* with the page.                                                          *)
SiteInv == LocaleInv /\ FieldInv /\ CodexInv /\ AvatarInv /\ TypeOK

LEMMA SiteInitially == Init => SiteInv
<1>. SUFFICES ASSUME Init PROVE SiteInv
  OBVIOUS
<1>1. LocaleInv /\ CodexInv /\ AvatarInv
  BY LocaleInitially, CodexInitially, AvatarInitially DEF Init
<1>2. FieldInv
  <2>1. energy \in 0..MaxEnergy
    BY FieldAssumption DEF Init, FieldInit, Dormant
  <2>2. /\ field = "none" /\ script = "absent" /\ drawing = {} /\ frame = NoCallback
        /\ reduced = FALSE /\ hidden = FALSE /\ resizing = FALSE /\ pointer = FALSE
    BY DEF Init, FieldInit
  <2>. QED
    BY <2>1, <2>2 DEF FieldInv, FieldTypeOK, OneAnimationLoop, Mounted
<1>3. TypeOK
  BY <1>1, <1>2
  DEF Init, LocaleInit, FieldInit, CodexInit, AvatarInit, NoPage, TypeOK, LocaleInv,
      FieldInv, CodexInv, AvatarInv
<1>. QED
  BY <1>1, <1>2, <1>3 DEF SiteInv

(* Leaving the document, whatever it was, keeps the invariant. *)
LEMMA UnloadKeeps ==
  ASSUME LocaleInv', Unload
  PROVE  SiteInv'
<1>1. FieldInv'
  BY FieldBlanked DEF Unload
<1>2. CodexInv'
  BY CodexBlanked DEF Unload
<1>3. AvatarInv' /\ ((page' = "avatar") = (assets' # "none"))
  BY BlankKeeps DEF Unload, OpenLab, CloseLab, Blank
<1>4. TypeOK'
  BY <1>1, <1>2, <1>3
  DEF Unload, FieldBlank, CodexBlank, TypeOK, LocaleInv, FieldInv, CodexInv, AvatarInv
<1>. QED
  BY <1>1, <1>2, <1>3, <1>4 DEF SiteInv

(* A step of one page's script leaves the language and the others alone;   *)
(* it asks for assets only on the avatar page.                             *)
LEMMA AvatarStays ==
  ASSUME AvatarInv, AvatarNext, assets # "none"
  PROVE  assets' # "none"
  BY DEF AvatarNext, LoadFails, LoadAssets, Blank, Animate, Select, Pause, Resume, RestartClip

LEMMA SiteKeeps == SiteInv /\ [Next]_vars => SiteInv'
<1>. SUFFICES ASSUME SiteInv, [Next]_vars PROVE SiteInv'
  OBVIOUS
<1>. USE DEF SiteInv
<1>1. CASE OpenPage \/ Leave \/ FollowLinks
  <2>1. LocaleInv' /\ Unload
    BY <1>1, LanguageKeeps DEF OpenPage, Leave, FollowLinks
  <2>. QED
    BY <2>1, UnloadKeeps
<1>2. CASE ChooseLanguage \/ StatusAnswered
  <2>1. LocaleInv' /\ UNCHANGED page
    BY <1>2, LanguageKeeps DEF ChooseLanguage, StatusAnswered, Choose, LoadSystemStatus
  <2>2. CASE Unload
    BY <2>1, <2>2, UnloadKeeps
  <2>3. CASE UNCHANGED <<fieldVars, codexVars, avatarVars>>
    <3>1. FieldInv' /\ CodexInv' /\ AvatarInv'
      BY <2>3, FieldKeeps, CodexKeeps, AvatarKeeps
    <3>. QED
      BY <2>1, <2>3, <3>1
      DEF TypeOK, LocaleInv, FieldInv, CodexInv, AvatarInv, fieldVars, codexVars, avatarVars
  <2>. QED
    BY <1>2, <2>2, <2>3 DEF ChooseLanguage, StatusAnswered
<1>3. CASE FieldStep \/ CodexStep \/ AvatarStep \/ UNCHANGED vars
  <2>1. LocaleInv' /\ UNCHANGED page
    BY <1>3, LanguageKeeps DEF FieldStep, CodexStep, AvatarStep, vars, localeVars
  <2>2. FieldInv' /\ CodexInv' /\ AvatarInv'
    BY <1>3, FieldKeeps, CodexKeeps, AvatarKeeps DEF FieldStep, CodexStep, AvatarStep, vars
  <2>3. page \notin HasField => field' = "none"
    BY <1>3 DEF FieldStep, CodexStep, AvatarStep, vars, fieldVars, TypeOK, HasField
  <2>4. page # "codex" => mic' = {} /\ timers' = {} /\ phase' = "unchecked"
    BY <1>3 DEF FieldStep, CodexStep, AvatarStep, vars, codexVars, TypeOK, HasField
  <2>5. (page = "avatar") = (assets' # "none")
    <3>1. CASE AvatarStep
      BY <3>1, AvatarStays DEF AvatarStep, TypeOK
    <3>2. CASE ~AvatarStep
      BY <1>3, <3>2 DEF FieldStep, CodexStep, vars, avatarVars, TypeOK
    <3>. QED
      BY <3>1, <3>2
  <2>6. TypeOK'
    BY <2>1, <2>2, <2>3, <2>4, <2>5 DEF TypeOK, LocaleInv, FieldInv, CodexInv, AvatarInv
  <2>. QED
    BY <2>1, <2>2, <2>6
<1>. QED
  BY <1>1, <1>2, <1>3 DEF Next

LEMMA SiteAlways == Spec => []SiteInv
  BY SiteInitially, SiteKeeps, PTL DEF Spec

-----------------------------------------------------------------------------

(* Type correctness of the five modules of the tab; and only the page in   *)
(* front has a recorder, an avatar or a particle field.                    *)
THEOREM SiteTyped == Spec => []TypeOK
<1>1. SiteInv => TypeOK
  BY DEF SiteInv
<1>. QED
  BY <1>1, SiteAlways, PTL

(* A stored choice outlives addresses and links in other languages: the    *)
(* resolvers, links and selectors of web/locale.js, i18n.tsx and           *)
(* ttsClone/i18n.tsx agree on it, for any languages.  A visit to /docs in  *)
(* another language is the exception (web/docs-locale.js).                 *)
THEOREM ChoiceIsKept == Spec => []ChoiceKept
<1>1. SiteInv => ChoiceKept
  BY DEF SiteInv, LocaleInv
<1>. QED
  BY <1>1, SiteAlways, PTL

(* web/particle-field.js runs one animation loop, however the events that  *)
(* request or cancel callbacks are ordered.                                *)
THEOREM OneLoop == Spec => []OneAnimationLoop
<1>1. SiteInv => OneAnimationLoop
  BY DEF SiteInv, FieldInv
<1>. QED
  BY <1>1, SiteAlways, PTL

(* web/codex.js never disables its buttons for work that is not under way, *)
(* for any number of overlapping checks and recordings.                    *)
THEOREM RecorderNeverStuck == Spec => []BusyHasWork
<1>1. SiteInv => BusyHasWork
  BY DEF SiteInv, CodexInv
<1>. QED
  BY <1>1, SiteAlways, PTL

(* The avatar's canvas, panel and scheduler agree, for any states, clips   *)
(* and manifests the server may answer with, while drawing works.  Of an   *)
(* accepted manifest with two frames of one src nothing is claimed.        *)
THEOREM PictureIsHonest == Spec => []PictureMatches
<1>1. SiteInv => PictureMatches
  BY DEF SiteInv, AvatarInv
<1>. QED
  BY <1>1, SiteAlways, PTL
=============================================================================
