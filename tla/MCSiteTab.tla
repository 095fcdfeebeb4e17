----------------------------- MODULE MCSiteTab -----------------------------
(* An instance of SiteTab: two languages, two overlapping calls of each    *)
(* kind, three avatar states with short clips, and manifests the server    *)
(* may answer with, of which the page must refuse some.                    *)
EXTENDS SiteTab, TLC

CONSTANTS idle, happy, talking

States == {idle, happy, talking}

F(i, s) == [id |-> i, src |-> s, valid |-> TRUE]
C(s, fs) == [state |-> s, fps |-> 12, loop |-> TRUE, frames |-> fs]

Good ==
  [version |-> "4.0", transition |-> "s0",
   frames |-> <<F("s0", "0"), F("i1", "1"), F("h1", "2"), F("h2", "3"), F("t1", "4")>>,
   clips |-> (idle :> C(idle, <<"s0", "i1", "s0">>))
          @@ (happy :> C(happy, <<"s0", "h1", "h2", "s0">>))
          @@ (talking :> C(talking, <<"s0", "t1", "s0">>))]

(* A clip that does not end on the shared frame; one that starts elsewhere; *)
(* one of an unknown frame; a path outside the project; two frames with one *)
(* image.                                                                   *)
Manifests ==
  {Good,
   [Good EXCEPT !.clips[happy].frames = <<"s0", "h1", "h2">>],
   [Good EXCEPT !.clips[talking].frames = <<"t1", "t1", "s0">>],
   [Good EXCEPT !.clips[idle].frames = <<"s0", "x1", "s0">>],
   [Good EXCEPT !.frames[2].valid = FALSE],
   [Good EXCEPT !.frames[4].src = "2"]}
=============================================================================
