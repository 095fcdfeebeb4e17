------------------------ MODULE RealtimeStudioProofs ------------------------
(***************************************************************************)
(* Theorems about RealtimeStudio, for any number of starts, checks,        *)
(* utterances and attempts.                                                *)
(***************************************************************************)
EXTENDS RealtimeStudio, TLAPS

(* Where a call has not been given a stream yet. *)
Early == {"unused", "reserved", "creating", "asking"}
Late == {"loading", "connecting", "failing", "ended"}

ClientType ==
  /\ startPc \in [Start -> Early \cup Late]
  /\ held \in Start \cup {None} /\ sock \in Start \cup {None}
  /\ resume \in Start \cup {None}
  /\ closing \in [Start -> [by : Start \cup Handler \cup {None}, socket : Start \cup {None}]]

(* A context is handed to one stop only: no stop waits for one that a call *)
(* is still to make, nor for the one the client holds.                     *)
ClosedOnce ==
  /\ \A c \in Start : startPc[c] \in Early => held # c /\ closing[c].by = None
  /\ held # None => closing[held].by = None

(* Until the switch resumes, nobody else takes the start it reserved. *)
ReservedKept == resume # None /\ switchPc # "resuming" => startPc[resume] = "reserved"

(* One stop is the switch's, and the switch waits for it. *)
SwitchStops ==
  /\ \A c \in Start : closing[c].by = "switch" => switchPc = "stopping"
  /\ \A c, d \in Start : closing[c].by = "switch" /\ closing[d].by = "switch" => c = d

StudioInv ==
  ClientType /\ ClosedOnce /\ ReservedKept /\ SwitchStops /\ SocketHasCapture /\ BusyHasWork

LEMMA StudioInit == Init => StudioInv
  BY ClientAssumption
  DEF Init, ClientInit, StudioInv, ClientType, ClosedOnce, ReservedKept, SwitchStops,
      SocketHasCapture, BusyHasWork, NoStop, Handler, Early, Late

(* What the client holds is handed to a stop, and no earlier stop is lost. *)
LEMMA StopKeeps ==
  ASSUME ClientType, ClosedOnce, NEW by \in Start \cup Handler, StopBegins(by)
  PROVE  /\ held' = None /\ sock' = None
         /\ closing' \in [Start -> [by : Start \cup Handler \cup {None},
                                    socket : Start \cup {None}]]
         /\ \A c \in Start : startPc[c] \in Early => closing'[c].by = None
         /\ \A c \in Start : closing[c].by # None => closing'[c] = closing[c]
         /\ held # None => closing'[held].by = by
         /\ by # "switch" /\ SwitchStops /\ UNCHANGED switchPc => SwitchStops'
<1>1. CASE held = None
  BY <1>1 DEF StopBegins, ClientType, ClosedOnce, SwitchStops
<1>2. CASE held # None
  <2>1. held \in Start /\ closing' = [closing EXCEPT ![held] = [by |-> by, socket |-> sock]]
    BY <1>2 DEF StopBegins, ClientType
  <2>. QED
    BY <1>2, <2>1 DEF StopBegins, ClientType, ClosedOnce, SwitchStops
<1>. QED
  BY <1>1, <1>2

(* A call that is over. *)
LEMMA OverKeeps ==
  ASSUME NEW c \in Start, NEW ok \in BOOLEAN, Over(c, ok),
         ClientType, ReservedKept, SwitchStops,
         UNCHANGED closing, startPc[c] # "reserved",
         \A d \in Start : d # c => startPc'[d] = startPc[d]
  PROVE  resume' \in Start \cup {None} /\ ReservedKept' /\ SwitchStops' /\ BusyHasWork'
  BY ClientAssumption DEF Over, ClientType, ReservedKept, SwitchStops, BusyHasWork

(* Nothing the invariant speaks of changes, or only the page's checks. *)
unwatched == <<startPc, held, sock, closing, resume, switchPc, busy, checking>>

LEMMA UnwatchedKeeps == ASSUME StudioInv, UNCHANGED unwatched PROVE StudioInv'
  BY DEF StudioInv, unwatched, ClientType, ClosedOnce, ReservedKept, SwitchStops,
         SocketHasCapture, BusyHasWork, Switching

LEMMA CheckKeeps ==
  ASSUME StudioInv, NEW k \in Check,
         CheckDevices(k) \/ \E found \in BOOLEAN : DevicesChecked(k, found)
  PROVE  StudioInv'
  BY DEF StudioInv, CheckDevices, DevicesChecked, GateChecked, clientVars, captureVars,
         switchVars, ClientType, ClosedOnce, ReservedKept, SwitchStops, SocketHasCapture,
         BusyHasWork, Switching

LEMMA StopTypes ==
  ASSUME StudioInv, NEW by \in Start \cup Handler, StopBegins(by), UNCHANGED <<startPc, resume>>
  PROVE  ClientType' /\ ClosedOnce' /\ SocketHasCapture'
<1>1. ClientType /\ ClosedOnce
  BY DEF StudioInv
<1>2. held' = None /\ sock' = None
  BY DEF StopBegins
<1>3. ClientType'
  BY <1>1, <1>2, StopKeeps DEF ClientType
<1>4. ClosedOnce'
  <2>1. ASSUME NEW c \in Start, startPc[c] \in Early PROVE closing'[c].by = None
    BY <1>1, <2>1, StopKeeps
  <2>2. None \notin Start
    BY ClientAssumption
  <2>. QED
    BY <1>2, <2>1, <2>2 DEF ClosedOnce
<1>. QED
  BY <1>2, <1>3, <1>4 DEF SocketHasCapture

(* A stop that no handler of the page ends for. *)
LEMMA StopOnlyKeeps ==
  ASSUME StudioInv, NEW by \in Start \cup Handler, by # "switch", StopBegins(by),
         UNCHANGED <<startPc, resume, switchPc, busy, checking>>
  PROVE  StudioInv'
<1>1. ClientType' /\ ClosedOnce' /\ SocketHasCapture'
  BY StopTypes
<1>2. BusyHasWork'
  <2>1. \A c \in Start : closing[c].by # None => closing'[c] = closing[c]
    BY StopKeeps DEF StudioInv
  <2>2. "user" # None
    BY ClientAssumption DEF Handler
  <2>. QED
    BY <2>1, <2>2 DEF StudioInv, BusyHasWork, Switching
<1>3. SwitchStops'
  BY StopKeeps DEF StudioInv
<1>. QED
  BY <1>1, <1>2, <1>3 DEF StudioInv, ReservedKept

LEMMA StopsKeep ==
  ASSUME StudioInv, DeviceChange \/ StreamEnds \/ StopPressed \/ ResetPressed
  PROVE  StudioInv'
<1>1. CASE DeviceChange \/ StreamEnds
  BY <1>1, StopOnlyKeeps
  DEF Handler, DeviceChange, GateInvalidated, StreamEnds, WorkletFails, SocketClosed, switchVars,
      pageVars, restVars
<1>2. CASE ResetPressed
  <2>1. UNCHANGED <<startPc, resume, switchPc, busy, checking>>
    BY <1>2 DEF ResetPressed, switchVars
  <2>2. CASE active
    BY <1>2, <2>1, <2>2, StopOnlyKeeps DEF ResetPressed, Handler
  <2>3. CASE ~active
    BY <1>2, <2>1, <2>3, UnwatchedKeeps DEF ResetPressed, captureVars, unwatched
  <2>. QED
    BY <2>2, <2>3
<1>3. CASE StopPressed
  <2>1. /\ StopBegins("user") /\ "user" \in Handler
        /\ UNCHANGED <<startPc, resume, switchPc, checking>>
    BY <1>3 DEF StopPressed, Handler, switchVars, restVars
  <2>2. CASE held = None
    BY <1>3, <2>1, <2>2, StopOnlyKeeps DEF StopPressed
  <2>3. CASE held # None
    <3>1. /\ ClientType' /\ ClosedOnce' /\ SocketHasCapture'
          /\ ReservedKept' /\ SwitchStops'
      BY <2>1, StopTypes, StopKeeps DEF StudioInv, ReservedKept
    <3>2. held \in Start /\ closing'[held].by = "user"
      BY <2>1, <2>3, StopKeeps DEF StudioInv, ClientType
    <3>. QED
      BY <3>1, <3>2 DEF StudioInv, BusyHasWork
  <2>. QED
    BY <2>2, <2>3
<1>. QED
  BY <1>1, <1>2, <1>3

LEMMA StartPressedKeeps ==
  ASSUME StudioInv, NEW c \in Start, StartPressed(c)
  PROVE  StudioInv'
<1>1. /\ startPc' = [startPc EXCEPT ![c] = "creating"] /\ startPc[c] = "unused"
      /\ UNCHANGED <<held, sock, closing, resume, switchPc, checking>>
  BY DEF StartPressed, captureVars, switchVars
<1>2. ClientType' /\ ClosedOnce' /\ SocketHasCapture' /\ ReservedKept' /\ SwitchStops'
  BY <1>1
  DEF StudioInv, ClientType, ClosedOnce, SocketHasCapture, ReservedKept, SwitchStops, Early, Late
<1>3. startPc'[c] = "creating"
  BY <1>1 DEF StudioInv, ClientType
<1>. QED
  BY <1>2, <1>3 DEF StudioInv, BusyHasWork

(* A call that goes on without a stop, or is over. *)
LEMMA CallKeeps ==
  ASSUME StudioInv, NEW c \in Start,
         startPc[c] # "reserved",
         NEW to \in Early \cup Late,
         to \in Early => startPc[c] \in Early,
         to \notin {"unused", "reserved"},
         startPc' = [startPc EXCEPT ![c] = to],
         UNCHANGED <<sock, closing, checking>>,
         held' = held \/ (held' = c /\ startPc[c] \in Early /\ to \in Late),
         \/ \E ok \in BOOLEAN : Over(c, ok)
         \/ to # "ended" /\ UNCHANGED <<resume, switchPc, busy>>
  PROVE  StudioInv'
<1>1. /\ \A d \in Start : d # c => startPc'[d] = startPc[d]
      /\ startPc'[c] = to /\ startPc' \in [Start -> Early \cup Late]
  BY DEF StudioInv, ClientType
<1>2. resume' \in Start \cup {None} /\ ReservedKept' /\ SwitchStops' /\ BusyHasWork'
  <2>1. CASE \E ok \in BOOLEAN : Over(c, ok)
    BY <1>1, <2>1, OverKeeps DEF StudioInv
  <2>2. CASE to # "ended" /\ UNCHANGED <<resume, switchPc, busy>>
    <3>1. resume' \in Start \cup {None} /\ ReservedKept' /\ SwitchStops'
      BY <1>1, <2>2 DEF StudioInv, ClientType, ReservedKept, SwitchStops
    <3>2. BusyHasWork'
      BY <1>1, <2>2 DEF BusyHasWork
    <3>. QED
      BY <3>1, <3>2
  <2>. QED
    BY <2>1, <2>2
<1>3. None \notin Start /\ Early \cap Late = {}
  BY ClientAssumption DEF Early, Late
<1>4. ClientType' /\ SocketHasCapture'
  BY <1>1, <1>2, <1>3 DEF StudioInv, ClientType, SocketHasCapture
<1>5. ClosedOnce'
  BY <1>1, <1>3 DEF StudioInv, ClientType, ClosedOnce
<1>. QED
  BY <1>2, <1>4, <1>5 DEF StudioInv

LEMMA CallStepKeeps ==
  ASSUME StudioInv, NEW c \in Start, CallStep(c)
  PROVE  StudioInv'
<1>1. CASE SessionCreated(c)
  BY <1>1, CallKeeps
  DEF SessionCreated, Begin, captureVars, restVars, pageVars, switchVars, Early, Late
<1>2. CASE SessionRefused(c)
  BY <1>2, CallKeeps DEF SessionRefused, captureVars, restVars, Early, Late
<1>3. CASE StartGoesOn(c)
  <2>1. CASE MicGranted(c)
    BY <1>3, <2>1, CallKeeps
    DEF StartGoesOn, MicGranted, pageVars, restVars, switchVars, Early, Late
  <2>2. CASE ModuleLoaded(c)
    <3>1. ClientType' /\ ClosedOnce' /\ ReservedKept' /\ SwitchStops' /\ SocketHasCapture'
      BY <1>3, <2>2
      DEF StudioInv, StartGoesOn, ModuleLoaded, pageVars, restVars, switchVars, ClientType,
          ClosedOnce, ReservedKept, SwitchStops, SocketHasCapture, Early, Late
    <3>2. startPc'[c] = "connecting"
      BY <2>2 DEF StudioInv, ClientType, ModuleLoaded
    <3>. QED
      BY <3>1, <3>2 DEF StudioInv, BusyHasWork
  <2>. QED
    BY <1>3, <2>1, <2>2 DEF StartGoesOn
<1>4. CASE Started(c)
  BY <1>4, CallKeeps DEF Started, Connected, captureVars, restVars, Early, Late
<1>5. CASE FailedStartEnds(c)
  BY <1>5, CallKeeps DEF FailedStartEnds, captureVars, restVars, Early, Late
<1>6. CASE StartFails(c)
  <2>1. /\ startPc[c] \in {"asking", "loading", "connecting"}
        /\ StopBegins(c) /\ UNCHANGED checking
    BY <1>6 DEF StartFails, StartThrows, restVars
  <2>2. CASE held = None
    <3>1. /\ startPc' = [startPc EXCEPT ![c] = "ended"] /\ Over(c, FALSE)
          /\ UNCHANGED <<held, sock, closing>>
      BY <1>6, <2>2 DEF StartFails, StartThrows, StopBegins, StudioInv, SocketHasCapture
    <3>. QED
      BY <2>1, <3>1, CallKeeps DEF Early, Late
  <2>3. CASE held # None
    <3>1. /\ startPc' = [startPc EXCEPT ![c] = "failing"]
          /\ UNCHANGED <<resume, switchPc, busy>>
      BY <1>6, <2>3 DEF StartFails, StartThrows, pageVars, switchVars
    <3>2. /\ \A d \in Start : d # c => startPc'[d] = startPc[d]
          /\ startPc'[c] = "failing" /\ startPc' \in [Start -> Early \cup Late]
      BY <3>1 DEF StudioInv, ClientType, Late
    <3>3. held' = None /\ sock' = None
      BY <2>1 DEF StopBegins
    <3>4. ClientType'
      BY <2>1, <3>1, <3>2, <3>3, StopKeeps DEF StudioInv, ClientType
    <3>5. ClosedOnce'
      <4>1. ASSUME NEW d \in Start, startPc'[d] \in Early PROVE closing'[d].by = None
        BY <2>1, <3>2, <4>1, StopKeeps DEF StudioInv, Early
      <4>. QED
        BY <3>3, <4>1, ClientAssumption DEF ClosedOnce
    <3>6. ReservedKept' /\ SwitchStops'
      <4>1. c # "switch"
        BY ClientAssumption DEF Handler
      <4>. QED
        BY <2>1, <3>1, <3>2, <4>1, StopKeeps DEF StudioInv, ReservedKept
    <3>7. BusyHasWork' /\ SocketHasCapture'
      BY <3>2, <3>3 DEF BusyHasWork, SocketHasCapture
    <3>. QED
      BY <3>4, <3>5, <3>6, <3>7 DEF StudioInv
  <2>. QED
    BY <2>2, <2>3
<1>. QED
  BY <1>1, <1>2, <1>3, <1>4, <1>5, <1>6 DEF CallStep

LEMMA ContextClosedKeeps ==
  ASSUME StudioInv, NEW c \in Start, ContextClosed(c)
  PROVE  StudioInv'
<1>1. /\ closing' = [closing EXCEPT ![c] = NoStop]
      /\ UNCHANGED <<startPc, held, sock, checking>>
  BY DEF ContextClosed, StopClosed
<1>2. NoStop \in [by : Start \cup Handler \cup {None}, socket : Start \cup {None}]
  BY DEF NoStop
<1>3. NoStop.by = None
  BY DEF NoStop
<1>4. /\ closing' \in [Start -> [by : Start \cup Handler \cup {None},
                                 socket : Start \cup {None}]]
      /\ closing'[c].by = None
      /\ \A d \in Start : d # c => closing'[d] = closing[d]
  BY <1>1, <1>2, <1>3 DEF StudioInv, ClientType
<1>5. UNCHANGED resume /\ (switchPc' = switchPc \/ switchPc' = "draining")
  BY DEF ContextClosed, SwitchStopped, ResetStopped, switchVars, pageVars
<1>6. ClientType' /\ ClosedOnce' /\ SocketHasCapture'
  BY <1>1, <1>4, <1>5 DEF StudioInv, ClientType, ClosedOnce, SocketHasCapture
<1>0. "switch" # None
  BY ClientAssumption DEF Handler
<1>7. CASE closing[c].by = "switch"
  <2>1. switchPc = "stopping" /\ switchPc' = "draining"
    BY <1>7 DEF ContextClosed, SwitchStopped, StudioInv, SwitchStops
  <2>2. BusyHasWork'
    BY <2>1 DEF BusyHasWork, Switching
  <2>3. ReservedKept' /\ SwitchStops'
    BY <1>0, <1>1, <1>4, <1>5, <1>7, <2>1 DEF StudioInv, ReservedKept, SwitchStops
  <2>. QED
    BY <1>6, <2>2, <2>3 DEF StudioInv
<1>8. CASE closing[c].by # "switch"
  <2>1. UNCHANGED switchPc
    BY <1>8 DEF ContextClosed, ResetStopped, switchVars, pageVars
  <2>2. ReservedKept' /\ SwitchStops'
    BY <1>0, <1>1, <1>4, <1>5, <2>1 DEF StudioInv, ReservedKept, SwitchStops
  <2>3. BusyHasWork'
    <3>1. CASE closing[c].by = "user"
      BY <3>1 DEF ContextClosed, BusyHasWork
    <3>2. CASE closing[c].by # "user"
      <4>1. UNCHANGED busy
        BY <1>8, <3>2 DEF ContextClosed, ResetStopped, pageVars
      <4>. QED
        BY <1>1, <1>4, <2>1, <3>2, <4>1 DEF StudioInv, BusyHasWork, Switching
    <3>. QED
      BY <3>1, <3>2
  <2>. QED
    BY <1>6, <2>2, <2>3 DEF StudioInv
<1>. QED
  BY <1>7, <1>8

LEMMA ChangeModelsKeeps ==
  ASSUME StudioInv, ChangeModels
  PROVE  StudioInv'
<1>1. /\ switchPc = "idle" /\ switchPc' \in {"stopping", "draining"}
      /\ UNCHANGED checking
  BY DEF ChangeModels, SwitchStopped, Switching
<1>2. /\ startPc' \in [Start -> Early \cup Late] /\ resume' \in Start \cup {None}
      /\ \A c \in Start : \/ startPc'[c] = startPc[c]
                        \/ (startPc[c] \in Early /\ startPc'[c] \in Early)
      /\ resume' # None => startPc'[resume'] = "reserved"
  <2>1. CASE active /\ gate
    <3>1. \E c \in Start : /\ startPc[c] = "unused"
                           /\ startPc' = [startPc EXCEPT ![c] = "reserved"]
                           /\ resume' = c
      BY <2>1, Zenon DEF ChangeModels
    <3>2. PICK c \in Start : /\ startPc[c] = "unused"
                            /\ startPc' = [startPc EXCEPT ![c] = "reserved"]
                            /\ resume' = c
      BY <3>1
    <3>3. /\ startPc'[c] = "reserved" /\ \A d \in Start : d # c => startPc'[d] = startPc[d]
          /\ startPc' \in [Start -> Early \cup Late]
      BY <3>2 DEF StudioInv, ClientType, Early
    <3>. QED
      BY <3>2, <3>3 DEF Early
  <2>2. CASE ~(active /\ gate)
    BY <2>2 DEF ChangeModels, StudioInv, ClientType
  <2>. QED
    BY <2>1, <2>2
<1>3. Early \cap Late = {} /\ "switch" # None /\ "switch" \in Handler
  BY ClientAssumption DEF Early, Late, Handler
<1>4. \A c \in Start : startPc'[c] \in Early => startPc[c] \in Early
  BY <1>2, <1>3 DEF StudioInv, ClientType
<1>5. \A c \in Start : closing[c].by # "switch"
  BY <1>1 DEF StudioInv, SwitchStops
<1>6. BusyHasWork' /\ ReservedKept'
  BY <1>1, <1>2 DEF BusyHasWork, Switching, ReservedKept
<1>7. CASE active /\ held # None
  <2>1. StopBegins("switch") /\ switchPc' = "stopping"
    BY <1>7 DEF ChangeModels
  <2>2. held' = None /\ sock' = None
    BY <2>1 DEF StopBegins
  <2>3. ClientType' /\ SocketHasCapture'
    BY <1>2, <1>3, <2>1, <2>2, StopKeeps DEF StudioInv, ClientType, SocketHasCapture
  <2>4. ClosedOnce'
    <3>1. ASSUME NEW c \in Start, startPc'[c] \in Early PROVE closing'[c].by = None
      BY <1>3, <1>4, <2>1, <3>1, StopKeeps DEF StudioInv
    <3>. QED
      BY <2>2, <3>1, ClientAssumption DEF ClosedOnce
  <2>5. SwitchStops'
    <3>1. held \in Start /\ closing' = [closing EXCEPT ![held] = [by |-> "switch", socket |-> sock]]
      BY <1>7, <2>1 DEF StopBegins, StudioInv, ClientType
    <3>. QED
      BY <1>5, <2>1, <3>1 DEF StudioInv, ClientType, SwitchStops
  <2>. QED
    BY <1>6, <2>3, <2>4, <2>5 DEF StudioInv
<1>8. CASE ~(active /\ held # None)
  <2>1. UNCHANGED closing /\ held' = held /\ sock' \in {sock, None}
    BY <1>8 DEF ChangeModels, StopBegins, captureVars
  <2>2. ClientType' /\ SocketHasCapture'
    BY <1>2, <2>1 DEF StudioInv, ClientType, SocketHasCapture
  <2>3. ClosedOnce' /\ SwitchStops'
    BY <1>4, <1>5, <2>1 DEF StudioInv, ClosedOnce, SwitchStops
  <2>. QED
    BY <1>6, <2>2, <2>3 DEF StudioInv
<1>. QED
  BY <1>7, <1>8

LEMMA SwitchAnsweredKeeps ==
  ASSUME StudioInv, SwitchAnswered
  PROVE  StudioInv'
<1>1. /\ UNCHANGED <<held, sock, closing, checking>>
      /\ switchPc \in {"draining", "activating", "polling", "confirming"}
  BY DEF SwitchAnswered, captureVars, restVars, Drained, Activated, Polled, Confirmed
<1>2. \A c \in Start : closing[c].by # "switch"
  BY <1>1 DEF StudioInv, SwitchStops
<1>3. SwitchStops'
  BY <1>1, <1>2 DEF SwitchStops
<1>4. resume # None => startPc[resume] = "reserved"
  BY <1>1 DEF StudioInv, ReservedKept
<1>5. CASE UNCHANGED <<startPc, busy, resume>> /\ switchPc' # "idle" /\ switchPc' # "resuming"
  BY <1>1, <1>3, <1>4, <1>5
  DEF StudioInv, ClientType, ClosedOnce, ReservedKept, SocketHasCapture, BusyHasWork, Switching
<1>6. CASE SwitchEnd
  <2>1. resume' = None /\ busy' = FALSE /\ startPc' = Released
    BY <1>6 DEF SwitchEnd
  <2>2. /\ startPc' \in [Start -> Early \cup Late]
        /\ \A c \in Start : startPc'[c] \in Early => startPc[c] \in Early
    BY <1>4, <2>1, ClientAssumption DEF Released, StudioInv, ClientType, Early, Late
  <2>. QED
    BY <1>1, <1>3, <2>1, <2>2
    DEF StudioInv, ClientType, ClosedOnce, ReservedKept, SocketHasCapture, BusyHasWork
<1>7. CASE resume # None /\ SwitchDone
  BY <1>1, <1>3, <1>4, <1>7
  DEF SwitchDone, StudioInv, ClientType, ClosedOnce, ReservedKept, SocketHasCapture,
      BusyHasWork, Switching, Early, Late
<1>. QED
  BY <1>1, <1>5, <1>6, <1>7 DEF SwitchAnswered, Drained, Activated, Polled, Confirmed, SwitchDone

LEMMA StudioNext == StudioInv /\ [Next]_vars => StudioInv'
<1>. SUFFICES ASSUME StudioInv, [Next]_vars PROVE StudioInv'
  OBVIOUS
<1>1. CASE \E k \in Check : CheckDevices(k) \/ \E found \in BOOLEAN : DevicesChecked(k, found)
  BY <1>1, CheckKeeps
<1>2. CASE DeviceChange \/ StopPressed \/ StreamEnds \/ ResetPressed
  BY <1>2, StopsKeep
<1>3. ASSUME NEW c \in Start, StartPressed(c) \/ CallStep(c) \/ ContextClosed(c)
      PROVE  StudioInv'
  BY <1>3, StartPressedKeeps, CallStepKeeps, ContextClosedKeeps
<1>4. CASE ChangeModels \/ SwitchAnswered
  BY <1>4, ChangeModelsKeeps, SwitchAnsweredKeeps
<1>5. CASE ResetGoesOn \/ UNCHANGED vars
  BY <1>5, UnwatchedKeeps
  DEF ResetGoesOn, vars, clientVars, pageVars, switchVars, unwatched
<1>6. ASSUME NEW c \in Start, NEW u \in Utterance, Heard(c, u) PROVE StudioInv'
  BY <1>6, UnwatchedKeeps DEF Heard, clientVars, pageVars, switchVars, unwatched
<1>. QED
  BY <1>1, <1>2, <1>3, <1>4, <1>5, <1>6 DEF Next

LEMMA StudioInvariant == Spec => []StudioInv
  BY StudioInit, StudioNext, PTL DEF Spec

(* The client never holds a socket without the stream and the context that *)
(* a stop releases with it, however starts, stops and switches interleave. *)
THEOREM SocketNeverAlone == Spec => []SocketHasCapture
<1>1. StudioInv => SocketHasCapture
  BY DEF StudioInv
<1>. QED
  BY <1>1, StudioInvariant, PTL

(* The page is never left busy, its buttons disabled, with no handler at   *)
(* work that will clear the flag.                                          *)
THEOREM BusyNeverStuck == Spec => []BusyHasWork
<1>1. StudioInv => BusyHasWork
  BY DEF StudioInv
<1>. QED
  BY <1>1, StudioInvariant, PTL

-----------------------------------------------------------------------------

(* A step that keeps what is completed, or is a press of Start. *)
KeepsCompleted ==
  \/ \E c \in Start : startPc[c] = "unused" /\ startPc'[c] = "creating"
  \/ completed \subseteq completed' /\ rows \cap completed \subseteq rows'

LEMMA StepKeepsCompleted == ClientType /\ [Next]_vars => KeepsCompleted
<1>. SUFFICES ASSUME ClientType, [Next]_vars PROVE KeepsCompleted
  OBVIOUS
<1>1. ASSUME NEW c \in Start, StartPressed(c) PROVE KeepsCompleted
  BY <1>1 DEF StartPressed, ClientType, KeepsCompleted
<1>2. ASSUME NEW c \in Start, CallStep(c) PROVE KeepsCompleted
  BY <1>2
  DEF CallStep, SessionCreated, SessionRefused, StartGoesOn, StartFails, Started,
      FailedStartEnds, restVars, transcriptVars, KeepsCompleted
<1>3. ASSUME NEW c \in Start, ContextClosed(c) PROVE KeepsCompleted
  BY <1>3
  DEF ContextClosed, SwitchStopped, ResetStopped, ModelSwitched, transcriptVars, KeepsCompleted
<1>4. ASSUME NEW c \in Start, NEW u \in Utterance, Heard(c, u) PROVE KeepsCompleted
  BY <1>4 DEF Heard, KeepsCompleted
<1>5. CASE ChangeModels \/ ResetPressed
  BY <1>5
  DEF ChangeModels, ResetPressed, SwitchStopped, ResetStopped, ModelSwitched, transcriptVars,
      KeepsCompleted
<1>6. CASE \/ \E k \in Check : CheckDevices(k) \/ \E found \in BOOLEAN : DevicesChecked(k, found)
           \/ DeviceChange \/ StopPressed \/ StreamEnds \/ SwitchAnswered \/ ResetGoesOn
           \/ UNCHANGED vars
  <2>1. UNCHANGED <<rows, completed>>
    BY <1>6
    DEF CheckDevices, DevicesChecked, DeviceChange, StopPressed, StreamEnds, SwitchAnswered,
        ResetGoesOn, vars, restVars, transcriptVars
  <2>. QED
    BY <2>1 DEF KeepsCompleted
<1>. QED
  BY <1>1, <1>2, <1>3, <1>4, <1>5, <1>6 DEF Next

(* A completed utterance stays in the transcript through every step but a  *)
(* press of Start: switches and resets only drop the provisional rows.     *)
THEOREM TranscriptKept == Spec => CompletedKept
<1>1. StudioInv => ClientType
  BY DEF StudioInv
<1>2. ClientType /\ [Next]_vars => [KeepsCompleted]_vars
  BY StepKeepsCompleted
<1>3. CompletedKept <=> [][KeepsCompleted]_vars
  BY PTL DEF CompletedKept, KeepsCompleted
<1>. QED
  BY <1>1, <1>2, <1>3, StudioInvariant, PTL DEF Spec
=============================================================================
