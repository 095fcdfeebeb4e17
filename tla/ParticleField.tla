--------------------------- MODULE ParticleField ---------------------------
(***************************************************************************)
(* The ambient particle canvas of the site: web/particle-field.js and the  *)
(* React component that loads and mounts it (ParticleField.tsx).           *)
(*                                                                         *)
(* A mounted field owns at most one animation callback and one resize      *)
(* callback of the browser.  Several events may ask for a callback: the    *)
(* mount, every drawn frame, a resize, the document becoming visible.      *)
(* Handles are kept apart from the callbacks the browser holds: a handle   *)
(* that is overwritten would leave a second animation loop behind.         *)
(* Positions and colours of the particles are left out; of their energy    *)
(* only how bright the brightest one is remains.                           *)
(***************************************************************************)
EXTENDS Naturals

CONSTANTS
  MaxEnergy,   \* brightness levels of the trail, 0 is dormant
  Callback,    \* handles the browser gives out for animation frames
  NoCallback   \* the handle value 0

ASSUME FieldAssumption ==
  /\ MaxEnergy \in Nat \ {0}
  /\ Callback # {} /\ NoCallback \notin Callback

VARIABLES
  field,      \* "none", "mounted" or "destroyed": the controller of the page
  script,     \* "absent", "loading" or "loaded": particle-field.js
  reduced,    \* prefers-reduced-motion
  hidden,     \* document.visibilityState
  frame,      \* the handle mount keeps of its next draw
  drawing,    \* the draw callbacks the browser holds
  resizing,   \* a resize callback is pending (resizeFrame)
  energy,     \* brightest particle
  pointer     \* previousPointer is set

fieldVars == <<field, script, reduced, hidden, frame, drawing, resizing,
               energy, pointer>>

(* createParticleLayout: every particle of a new layout is dormant. *)
Dormant == 0

(* applyTrailEnergy: the particles near the pointer's path brighten, up to *)
(* a maximum.                                                              *)
Brighten(e) == IF e < MaxEnergy THEN e + 1 ELSE MaxEnergy

(* decayEnergy and advanceParticle: with every drawn frame they fade, and  *)
(* in the end are dormant.                                                 *)
Fade(e) == IF e = Dormant THEN Dormant ELSE e - 1

FieldInit ==
  /\ field = "none" /\ script = "absent"
  /\ reduced = FALSE /\ hidden = FALSE
  /\ frame = NoCallback /\ drawing = {} /\ resizing = FALSE
  /\ energy = Dormant /\ pointer = FALSE

Mounted == field = "mounted"

(* A fresh document in front: the field of the last page went with it. *)
FieldBlank(preferences) ==
  /\ field' = "none" /\ script' = "absent"
  /\ reduced' \in preferences /\ hidden' = FALSE
  /\ frame' = NoCallback /\ drawing' = {} /\ resizing' = FALSE
  /\ energy' = Dormant /\ pointer' = FALSE

(* A handle the browser has not given to a pending callback. *)
NewCallback(held) == CHOOSE c \in Callback : c \notin held

(* The last lines of draw: ask for the next frame, unless motion is        *)
(* reduced or the document hidden.  held are the callbacks still pending.  *)
RequestDraw(held) ==
  IF ~reduced /\ ~hidden /\ Callback \ held # {}
  THEN /\ frame' = NewCallback(held)
       /\ drawing' = held \cup {frame'}
  ELSE frame' = NoCallback /\ drawing' = held

(* Mutant: resize does not cancel the pending draw. *)
ResizeKeepingDraw ==
  /\ RequestDraw(drawing)
  /\ resizing' = FALSE
  /\ energy' = Dormant

(* resize: cancel the pending draw, lay the particles out anew and draw    *)
(* them once, which starts the loop again.                                 *)
Resize ==
  /\ RequestDraw(drawing \ {frame})
  /\ resizing' = FALSE
  /\ energy' = Dormant

-----------------------------------------------------------------------------

(* The component finds no script in the document and adds one. *)
RequestScript ==
  /\ script = "absent"
  /\ script' = "loading"
  /\ UNCHANGED <<field, reduced, hidden, frame, drawing, resizing, energy, pointer>>

(* mount, the call of the portal's script or of the React component: the   *)
(* script's load event, its ready event and the effect itself may all call *)
(* it; the first one wins.                                                 *)
Mount ==
  /\ script # "absent"
  /\ field = "none"
  /\ script' = "loaded"
  /\ field' = "mounted"
  /\ Resize
  /\ UNCHANGED <<reduced, hidden, pointer>>

(* The browser runs a draw callback. *)
Draw(c) ==
  /\ c \in drawing
  /\ IF ~Mounted
     THEN /\ drawing' = drawing \ {c} /\ frame' = NoCallback
          /\ UNCHANGED energy
     ELSE /\ RequestDraw(drawing \ {c})
          /\ energy' = Fade(energy)
  /\ UNCHANGED <<field, script, reduced, hidden, resizing, pointer>>

(* A resize event, and later the callback it asked for. *)
RequestResize ==
  /\ Mounted /\ ~resizing
  /\ resizing' = TRUE
  /\ UNCHANGED <<field, script, reduced, hidden, frame, drawing, energy, pointer>>

ResizeFires ==
  /\ resizing
  /\ Resize
  /\ UNCHANGED <<field, script, reduced, hidden, pointer>>

(* handlePointer: a move brightens the particles along its path; a move of *)
(* less than a pixel after another does nothing.                           *)
PointerMoves(far) ==
  /\ Mounted /\ ~reduced
  /\ far \/ ~pointer
  /\ energy' = Brighten(energy)
  /\ pointer' = TRUE
  /\ UNCHANGED <<field, script, reduced, hidden, frame, drawing, resizing>>

(* clearPointer: the window loses focus or the pointer leaves it. *)
PointerLeaves ==
  /\ Mounted /\ ~reduced /\ pointer
  /\ pointer' = FALSE
  /\ UNCHANGED <<field, script, reduced, hidden, frame, drawing, resizing, energy>>

(* handleVisibility, while the listener is installed. *)
VisibilityChanges ==
  /\ hidden' = ~hidden
  /\ IF ~Mounted \/ reduced
     THEN UNCHANGED <<frame, drawing>>
     ELSE IF hidden'
          THEN frame' = NoCallback /\ drawing' = drawing \ {frame}
          ELSE IF frame = NoCallback /\ Callback \ drawing # {}
               THEN /\ frame' = NewCallback(drawing)
                    /\ drawing' = drawing \cup {frame'}
               ELSE UNCHANGED <<frame, drawing>>
  /\ UNCHANGED <<field, script, reduced, resizing, energy, pointer>>

(* destroy: on pagehide, and in the cleanup of the component's effect. *)
Destroy ==
  /\ Mounted
  /\ field' = "destroyed"
  /\ drawing' = drawing \ {frame}
  /\ resizing' = FALSE
  /\ UNCHANGED <<script, reduced, hidden, frame, energy, pointer>>

(* The effect of the component runs again because the motion preference of *)
(* the page changed: its cleanup destroyed the last field.                 *)
MountAgain ==
  /\ field = "destroyed"
  /\ field' = "none"
  /\ reduced' = ~reduced
  /\ frame' = NoCallback
  /\ pointer' = FALSE
  /\ UNCHANGED <<script, hidden, drawing, resizing, energy>>

FieldNext ==
  \/ RequestScript \/ Mount \/ RequestResize \/ ResizeFires
  \/ \E c \in Callback : Draw(c)
  \/ \E far \in BOOLEAN : PointerMoves(far)
  \/ PointerLeaves \/ VisibilityChanges \/ Destroy \/ MountAgain

-----------------------------------------------------------------------------

FieldTypeOK ==
  /\ field \in {"none", "mounted", "destroyed"}
  /\ script \in {"absent", "loading", "loaded"}
  /\ reduced \in BOOLEAN /\ hidden \in BOOLEAN
  /\ frame \in Callback \cup {NoCallback} /\ drawing \subseteq Callback
  /\ resizing \in BOOLEAN
  /\ energy \in 0..MaxEnergy /\ pointer \in BOOLEAN

(* One animation loop: a mounted field of a visible page that may move has *)
(* exactly one draw pending, the one whose handle it keeps and can cancel; *)
(* any other field has none.  draw, resize, handleVisibility and destroy   *)
(* of web/particle-field.js each request or cancel callbacks, in any order *)
(* the browser delivers the events.                                        *)
OneAnimationLoop ==
  IF Mounted /\ ~reduced /\ ~hidden
  THEN frame # NoCallback /\ drawing = {frame}
  ELSE drawing = {}
=============================================================================
