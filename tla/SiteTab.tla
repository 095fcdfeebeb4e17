------------------------------ MODULE SiteTab ------------------------------
(***************************************************************************)
(* One browser tab on the site.  It shows one page at a time; opening an   *)
(* address or following a link unloads the page with everything its        *)
(* scripts hold (timers, callbacks, microphone), and only the URL, the     *)
(* stored language and the visibility of the tab remain.  The portal, the  *)
(* studio and the avatar page carry a particle field, /codex the recorder, *)
(* /ai_avatar the avatar; what the studio and the clone page do beyond     *)
(* their language is in RealtimeStudio and CloneStudio.                    *)
(***************************************************************************)
EXTENDS SiteLocale, ParticleField, CodexRecorder, AvatarLab

vars == <<localeVars, fieldVars, codexVars, avatarVars>>

HasField == {"portal", "asr", "avatar"}

Init == LocaleInit /\ FieldInit /\ CodexInit /\ AvatarInit

(* The document of the last page is gone, that of the next one is new. *)
Unload ==
  /\ FieldBlank(IF page' \in HasField THEN BOOLEAN ELSE {FALSE})
  /\ CodexBlank
  /\ IF page' = "avatar" THEN OpenLab ELSE CloseLab

OpenPage == \E p \in Page, q \in Query : Open(p, q) /\ Unload

Leave == LeavePage /\ Unload

FollowLinks == \E p \in Page : FollowLink(p) /\ Unload

ChooseLanguage ==
  /\ \E l \in Locale : Choose(l)
  /\ IF page = "docs" THEN Unload ELSE UNCHANGED <<fieldVars, codexVars, avatarVars>>

StatusAnswered ==
  /\ \E answered \in BOOLEAN : LoadSystemStatus(answered)
  /\ UNCHANGED <<fieldVars, codexVars, avatarVars>>

FieldStep ==
  /\ page \in HasField
  /\ FieldNext
  /\ UNCHANGED <<localeVars, codexVars, avatarVars>>

CodexStep ==
  /\ page = "codex"
  /\ CodexNext
  /\ UNCHANGED <<localeVars, fieldVars, avatarVars>>

AvatarStep ==
  /\ page = "avatar"
  /\ AvatarNext
  /\ UNCHANGED <<localeVars, fieldVars, codexVars>>

Next ==
  \/ OpenPage \/ Leave \/ FollowLinks \/ ChooseLanguage
  \/ StatusAnswered \/ FieldStep \/ CodexStep \/ AvatarStep

Spec == Init /\ [][Next]_vars

(* The browser runs timers, the events of a stopped recorder and animation *)
(* callbacks, and lets time pass between the latter; a request of the      *)
(* recorder is answered or fails.  Nothing is promised of the reader, of   *)
(* permission prompts or of devices.                                       *)
RecorderProgress(r) ==
  /\ page = "codex"
  /\ UNCHANGED <<localeVars, fieldVars, avatarVars>>
  /\ AutoStop(r) \/ Process(r)

AnimationProgress ==
  /\ page = "avatar"
  /\ UNCHANGED <<localeVars, fieldVars, codexVars>>
  /\ \E works \in BOOLEAN : Animate(TRUE, works)

FairSpec ==
  /\ Spec
  /\ \A r \in Recording : WF_vars(RecorderProgress(r))
  /\ WF_vars(AnimationProgress)

-----------------------------------------------------------------------------

(* Every variable holds a value of the shape the code gives it; and only   *)
(* the page in front has a recorder, an avatar or a particle field.        *)
TypeOK ==
  /\ LocaleTypeOK /\ FieldTypeOK /\ CodexTypeOK /\ AvatarTypeOK
  /\ page \notin HasField => field = "none"
  /\ page # "codex" => mic = {} /\ timers = {} /\ phase = "unchecked"
  /\ (page = "avatar") = (assets # "none")

(* Recording stops at 30 seconds (spec/UI.md, Codex CLI voice recorder),   *)
(* however the buttons, the prompts, a devicechange, an unplugged          *)
(* microphone and late stop events interleave: the page does not show one  *)
(* for ever, and a recorder it holds does not run for ever.  The second    *)
(* part excuses a recorder that state.recorder no longer names: a second   *)
(* start behind the same prompt replaces it, and the end of an older       *)
(* recording's processing forgets it (codex.js:268, 280, 300).             *)
RecordingEnds ==
  /\ phase = "recording" ~> phase # "recording"
  /\ \A r \in Recording :
       recPc[r] = "recording" ~> recPc[r] # "recording" \/ recorder # r

(* In no run.  Without the excuse, what spec/UI.md:45 says: a recorder     *)
(* that was replaced runs on, with its microphone.                         *)
EveryRecordingEnds ==
  \A r \in Recording : recPc[r] = "recording" ~> recPc[r] # "recording"
=============================================================================
