--------------------------- MODULE RealtimeStudio ---------------------------
(***************************************************************************)
(* The page /asr_realtime: frontend/realtime/src/App.tsx over its client,  *)
(* its transcript (state/reducer.ts) and the reset of its resource.        *)
(*                                                                         *)
(* The check, Start, Stop, a model switch and a reset are handlers that    *)
(* suspend and share the flags the page is drawn from.  Only some of them  *)
(* exclude each other: a switch may be asked for while a start is pending, *)
(* and a reset at any time.  A click is guarded by what the page shows.    *)
(* Which models are chosen, what the catalogue names and the texts are     *)
(* abstracted, and with the sequence numbers whether an event is taken.    *)
(* How a reset is followed until it is ready, failed or given up is        *)
(* ResourcePoll, and one step here.                                        *)
(***************************************************************************)
EXTENDS RealtimeClient, Integers

CONSTANTS
  Check,         \* concurrent device checks
  Utterance,
  MaxAttempts    \* requests for the catalogue in a row

ASSUME StudioAssumption == MaxAttempts \in Nat \ {0}

VARIABLES
  active, busy,
  checking,      \* checks that are not over
  switchPc,      \* "idle", or where changeModels is: switchingModels
  resume,        \* None, or the start by which the switch will resume capture
  attempts,      \* requests left
  resetPc,       \* "idle", or where resetResources is: resourceBusy
  rows,          \* the utterances of state.rows
  completed      \* state.completedUtteranceIds

transcriptVars == <<rows, completed>>
switchVars == <<switchPc, resume, attempts>>
vars == <<clientVars, active, busy, checking, switchVars, resetPc, transcriptVars>>

Switching == switchPc # "idle"
ResourceBusy == resetPc # "idle"

Init ==
  /\ ClientInit
  /\ active = FALSE /\ busy = FALSE /\ checking = {}
  /\ switchPc = "idle" /\ resume = None /\ attempts = 0
  /\ resetPc = "idle"
  /\ rows = {} /\ completed = {}

-----------------------------------------------------------------------------
(* Devices *)

CheckDevices(k) ==
  /\ ~busy /\ ~ResourceBusy /\ ~active
  /\ k \notin checking
  /\ checking' = checking \cup {k} /\ busy' = TRUE
  /\ UNCHANGED <<clientVars, active, switchVars, resetPc, transcriptVars>>

DevicesChecked(k, found) ==
  /\ k \in checking
  /\ checking' = checking \ {k} /\ busy' = FALSE
  /\ GateChecked(found)
  /\ UNCHANGED <<active, switchVars, resetPc, transcriptVars>>

DeviceChange ==
  /\ GateInvalidated
  /\ active' = FALSE
  /\ UNCHANGED <<busy, checking, switchVars, resetPc, transcriptVars>>

-----------------------------------------------------------------------------
(* createAndStart, by the button or by a switch *)

(* The call is over: the button's handler ends, or the switch's. *)
Over(c, ok) ==
  /\ active' = (active \/ ok)
  /\ busy' = FALSE
  /\ IF c = resume THEN switchPc' = "idle" /\ resume' = None
     ELSE UNCHANGED <<switchPc, resume>>
  /\ UNCHANGED attempts

pageVars == <<active, busy, switchVars>>
restVars == <<checking, resetPc, transcriptVars>>

StartPressed(c) ==
  /\ ~active /\ gate /\ ~busy /\ ~ResourceBusy
  /\ startPc[c] = "unused"
  /\ busy' = TRUE
  /\ rows' = {} /\ completed' = {}
  /\ startPc' = [startPc EXCEPT ![c] = "creating"]
  /\ UNCHANGED <<gate, watching, captureVars, socket, active, checking, switchVars, resetPc>>

(* The session is created: the client starts, or refuses to. *)
SessionCreated(c) ==
  /\ Begin(c)
  /\ IF StartRefused THEN Over(c, FALSE) ELSE UNCHANGED pageVars
  /\ UNCHANGED restVars

SessionRefused(c) ==
  /\ startPc[c] = "creating"
  /\ startPc' = [startPc EXCEPT ![c] = "ended"]
  /\ Over(c, FALSE)
  /\ UNCHANGED <<gate, watching, captureVars, socket, restVars>>

StartGoesOn(c) ==
  /\ MicGranted(c) \/ ModuleLoaded(c)
  /\ UNCHANGED <<pageVars, restVars>>

StartFails(c) ==
  /\ StartThrows(c)
  /\ IF held = None THEN Over(c, FALSE) ELSE UNCHANGED pageVars
  /\ UNCHANGED restVars

Started(c) ==
  /\ Connected(c)
  /\ Over(c, TRUE)
  /\ UNCHANGED restVars

-----------------------------------------------------------------------------
(* Stopping *)

StopPressed ==
  /\ active /\ ~busy
  /\ StopBegins("user")
  /\ IF held = None THEN active' = FALSE /\ UNCHANGED busy
     ELSE busy' = TRUE /\ UNCHANGED active
  /\ UNCHANGED <<gate, watching, startPc, socket, switchVars, restVars>>

(* Mutant: client.model_switched is a session_reset for the rows. *)
ModelSwitchedClears == rows' = {} /\ UNCHANGED completed

(* client.model_switched *)
ModelSwitched == rows' = rows \cap completed /\ UNCHANGED completed

(* What a switch, or a reset, does once capture is stopped. *)
SwitchStopped ==
  /\ active' = FALSE /\ ModelSwitched
  /\ switchPc' = "draining" /\ attempts' = MaxAttempts

ResetStopped ==
  /\ active' = FALSE /\ ModelSwitched
  /\ resetPc' = "following"

(* A context is closed, and whoever awaited that stop goes on. *)
ContextClosed(c) ==
  /\ StopClosed(c)
  /\ UNCHANGED checking
  /\ LET by == closing[c].by
     IN CASE by = "user" ->
               /\ active' = FALSE /\ busy' = FALSE
               /\ UNCHANGED <<switchVars, resetPc, transcriptVars>>
          [] by = "switch" ->
               SwitchStopped /\ UNCHANGED <<busy, resume, resetPc>>
          [] by = "reset" ->
               ResetStopped /\ UNCHANGED <<busy, switchVars>>
          [] OTHER ->
               UNCHANGED <<pageVars, resetPc, transcriptVars>>

(* The start that failed is over. *)
FailedStartEnds(c) ==
  /\ startPc[c] = "failing"
  /\ \A d \in Start : closing[d].by # c
  /\ startPc' = [startPc EXCEPT ![c] = "ended"]
  /\ Over(c, FALSE)
  /\ UNCHANGED <<gate, watching, captureVars, socket, restVars>>

(* The stream stops by itself, which the page does not follow. *)
StreamEnds ==
  /\ WorkletFails \/ \E c \in Start : SocketClosed(c)
  /\ UNCHANGED <<pageVars, restVars>>

-----------------------------------------------------------------------------
(* The transcript *)

(* An event of a stream whose socket is open: its row, or its completion.  *)
Heard(c, u) ==
  /\ socket[c] = "open"
  /\ \/ rows' = rows \cup {u} /\ UNCHANGED completed
     \/ completed' = completed \cup {u} /\ UNCHANGED rows
  /\ UNCHANGED <<clientVars, pageVars, checking, resetPc>>

-----------------------------------------------------------------------------
(* changeModels *)

ChangeModels ==
  /\ ~Switching /\ ~ResourceBusy
  /\ IF active /\ gate
     THEN \E c \in Start :
            /\ startPc[c] = "unused"
            /\ startPc' = [startPc EXCEPT ![c] = "reserved"]
            /\ resume' = c
     ELSE resume' = None /\ UNCHANGED startPc
  /\ busy' = TRUE
  /\ IF active THEN StopBegins("switch") ELSE UNCHANGED captureVars
  /\ IF active /\ held # None
     THEN switchPc' = "stopping" /\ UNCHANGED <<active, attempts, transcriptVars>>
     ELSE SwitchStopped
  /\ UNCHANGED <<gate, watching, socket, checking, resetPc>>

(* What a request for the catalogue, or for an activation, comes to: the   *)
(* model leased or on its way, free or ready as asked, failed or another   *)
(* one's, or no answer.                                                    *)
CatalogAnswer == {"pending", "ready", "ended", "lost"}

(* The lease is waited for, and then the models are activated regardless.  *)
Drained(a) ==
  /\ switchPc = "draining"
  /\ CASE a = "lost" -> switchPc' = "confirming" /\ attempts' = 0
       [] a = "pending" /\ attempts > 1 -> attempts' = attempts - 1 /\ UNCHANGED switchPc
       [] OTHER -> switchPc' = "activating" /\ attempts' = 0
  /\ UNCHANGED <<startPc, busy, resume>>

(* The start of a switch that does not resume is still to be made. *)
Released == [c \in Start |-> IF c = resume THEN "unused" ELSE startPc[c]]

(* Mutant: the flag of the other handlers is left set. *)
SwitchEndsBusy ==
  /\ switchPc' = "idle" /\ resume' = None /\ attempts' = 0
  /\ startPc' = Released
  /\ UNCHANGED busy

SwitchEnd ==
  /\ switchPc' = "idle" /\ resume' = None /\ attempts' = 0
  /\ startPc' = Released
  /\ busy' = FALSE

SwitchDone ==
  IF resume # None
  THEN /\ startPc' = [startPc EXCEPT ![resume] = "creating"]
       /\ switchPc' = "resuming" /\ attempts' = 0
       /\ UNCHANGED <<busy, resume>>
  ELSE SwitchEnd

Activated(a) ==
  /\ switchPc = "activating"
  /\ IF a = "ready" THEN SwitchDone
     ELSE /\ IF a = "lost" THEN switchPc' = "confirming" /\ attempts' = 0
             ELSE switchPc' = "polling" /\ attempts' = MaxAttempts
          /\ UNCHANGED <<startPc, busy, resume>>

(* Mutant: the limit of the requests is renewed. *)
PolledForEver(a) ==
  /\ switchPc = "polling"
  /\ IF a = "ready" THEN SwitchDone
     ELSE /\ IF a = "pending"
             THEN attempts' = (IF attempts > 1 THEN attempts - 1 ELSE MaxAttempts)
                  /\ UNCHANGED switchPc
             ELSE switchPc' = "confirming" /\ attempts' = 0
          /\ UNCHANGED <<startPc, busy, resume>>

Polled(a) ==
  /\ switchPc = "polling"
  /\ IF a = "ready" THEN SwitchDone
     ELSE /\ IF a = "pending" /\ attempts > 1
             THEN attempts' = attempts - 1 /\ UNCHANGED switchPc
             ELSE switchPc' = "confirming" /\ attempts' = 0
          /\ UNCHANGED <<startPc, busy, resume>>

(* The catalogue is read for the selection to fall back to, if it can be. *)
Confirmed == switchPc = "confirming" /\ SwitchEnd

SwitchAnswered ==
  /\ Confirmed \/ \E a \in CatalogAnswer : Drained(a) \/ Activated(a) \/ Polled(a)
  /\ UNCHANGED <<gate, watching, captureVars, socket, active, restVars>>

-----------------------------------------------------------------------------
(* resetResources *)

ResetPressed ==
  /\ ~ResourceBusy
  /\ IF active THEN StopBegins("reset") ELSE UNCHANGED captureVars
  /\ IF active /\ held # None
     THEN resetPc' = "stopping" /\ UNCHANGED <<active, transcriptVars>>
     ELSE ResetStopped
  /\ UNCHANGED <<gate, watching, startPc, socket, busy, checking, switchVars>>

(* The reset is not accepted, or followed to an end other than ready; or   *)
(* it is ready, and then the catalogue and the capabilities are read, or   *)
(* one of them fails.                                                      *)
ResetGoesOn ==
  /\ \/ resetPc = "following" /\ resetPc' \in {"refreshing", "idle"}
     \/ resetPc = "refreshing" /\ resetPc' = "idle"
  /\ UNCHANGED <<clientVars, pageVars, checking, transcriptVars>>

-----------------------------------------------------------------------------

CallStep(c) ==
  \/ SessionCreated(c) \/ SessionRefused(c) \/ StartGoesOn(c) \/ StartFails(c) \/ Started(c)
  \/ FailedStartEnds(c)

Next ==
  \/ \E k \in Check : CheckDevices(k) \/ \E found \in BOOLEAN : DevicesChecked(k, found)
  \/ DeviceChange
  \/ \E c \in Start : \/ StartPressed(c) \/ CallStep(c) \/ ContextClosed(c)
                      \/ \E u \in Utterance : Heard(c, u)
  \/ StopPressed \/ StreamEnds
  \/ ChangeModels \/ SwitchAnswered
  \/ ResetPressed \/ ResetGoesOn

Spec == Init /\ [][Next]_vars

(* Requests are answered or fail, a context that is closing closes, and a  *)
(* start gets on once its microphone is granted; whether it is granted is  *)
(* the reader's choice.                                                    *)
FairSpec ==
  /\ Spec
  /\ WF_vars(SwitchAnswered)
  /\ WF_vars(\E c \in Start : ContextClosed(c))
  /\ WF_vars(\E c \in Start : resume = c /\ startPc[c] # "asking" /\ CallStep(c))

-----------------------------------------------------------------------------

(* The socket the client holds always has a stream and a context beside it *)
(* that a stop releases with it: a start that goes on after a stop, or     *)
(* over another start, never leaves a socket alone, which would refuse     *)
(* every later start and hold the session's lease.                         *)
SocketHasCapture == sock # None => held # None

(* While the page is busy, which disables Check, Start and Stop, a handler *)
(* that will end it is under way, although every handler that ends clears  *)
(* the one flag they share.                                                *)
BusyHasWork ==
  busy => \/ checking # {} \/ Switching
          \/ \E c \in Start : startPc[c] \notin {"unused", "ended"}
          \/ \E c \in Start : closing[c].by = "user"

(* An utterance that was completed stays in the transcript and the graph   *)
(* through switches, resets, stops and device changes, whatever their      *)
(* order: only a press of Start clears them (spec/UI.md, Reset ASR         *)
(* resources).                                                             *)
CompletedKept ==
  [][\/ \E c \in Start : startPc[c] = "unused" /\ startPc'[c] = "creating"
     \/ completed \subseteq completed' /\ rows \cap completed \subseteq rows']_vars

(* A model switch is over at last, also the one that resumes capture: only *)
(* the reader's answer about the microphone may keep it.                   *)
SwitchEnds ==
  Switching ~> (~Switching \/ \E c \in Start : resume = c /\ startPc[c] = "asking")

(* "On devicechange, stop any active stream and revoke Ready until         *)
(* rechecked": the page does not capture behind a gate that is not ready.  *)
CaptureIsChecked == active => gate
=============================================================================
