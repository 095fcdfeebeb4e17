------------------------- MODULE ResourceSupervisor -------------------------
(***************************************************************************)
(* The host-owned resource supervisor (resource_supervisor.py): one        *)
(* operation at a time moves the GPU workers between residency profiles,   *)
(* on a daemon thread of its own, while the single-threaded Unix server    *)
(* keeps answering requests.                                               *)
(*                                                                         *)
(* Every `with self._lock` section is one step and every external command  *)
(* (`docker compose up / stop`, a health probe) is one step, so that       *)
(* requests, containers and the operation thread interleave as they do in  *)
(* the code.  The Agent workload is left out: nothing can request it       *)
(* (agent_ready is never set) and the adapter never starts or stops it.    *)
(***************************************************************************)
EXTENDS Integers, FiniteSets

CONSTANTS
  Policy,       \* the resolved policy the supervisor was started with
  MaxOps,       \* bound: operations created (identifiers 1..MaxOps)
  MaxFaults,    \* bound: restarts of the supervisor process, and healthy
                \* containers that become unhealthy, together
  StoreMayFail  \* TRUE: writing state.json may raise (full disk, I/O error)

ASSUME ConstantsAssumption ==
  /\ Policy \in {"exclusive", "concurrent", "multi_gpu"}
  /\ MaxOps \in Nat /\ MaxFaults \in Nat
  /\ StoreMayFail \in BOOLEAN

Workload == {"asr", "correction", "tts"}
OpId == 1..MaxOps
None == "none"

(* PROFILE_WORKLOADS, without the refused full_pipeline. *)
Plan == [asr_only |-> {"asr", "correction"}, tts_only |-> {"tts"}]
Profile == {"asr_only", "tts_only"}

StartRank == [asr |-> 1, correction |-> 2, tts |-> 3]
StopRank  == [correction |-> 1, asr |-> 2, tts |-> 3]

Terminal == {"ready", "failed", "rolled_back"}
Phase == {"queued", "draining", "releasing", "starting", "warming"} \cup Terminal
Lifecycle == {"stopped", "draining", "starting", "warming", "ready"}

VARIABLES
  \* the published ResourceSnapshot
  profile, desired, lifecycle, operation, lastReady,
  \* one operation thread per identifier: control point, Thread arguments,
  \* the workloads its current loop still has to visit, the ones it collected
  pc, args, todo, mark,
  \* a reset() between its two lock sections, in the server's only thread
  handler,
  \* the Docker containers
  container,
  \* auxiliary: containers booted since the current operation was accepted,
  \* and running ones that it should stop and does not know of
  fresh, overlooked,
  \* bounds
  nextId, restarts, crashes

snapshot == <<profile, desired, lifecycle, operation, lastReady>>
thread   == <<pc, args, todo, mark>>
bounds   == <<nextId, restarts, crashes>>
vars == <<snapshot, thread, handler, container, fresh, overlooked, bounds>>

-----------------------------------------------------------------------------
(* Helpers *)

NoOp == [id |-> 0, action |-> None, target |-> None, phase |-> None]
NoArgs == [want |-> {}, profile |-> None, force |-> {},
           prevDesired |-> {}, prevProfile |-> None, prevReady |-> None]
Free == [target |-> None, want |-> {}, profile |-> None]

Active == operation # NoOp /\ operation.phase \notin Terminal
Live(t) == pc[t] # "off"
Healthy(w) == container[w] = "healthy"
Resident(w) == container[w] # "stopped"
Published(w) == lifecycle[w] = "ready"

IsFirst(rank, S, w) == w \in S /\ \A v \in S : rank[w] <= rank[v]

Undoing == {"undo_probe_stop", "undo_stop", "undo_probe_start", "undo_start",
            "undo_poll", "observe", "give_up"}
Executing == {"probe", "drain", "mark_draining", "stop", "mark_stopped",
              "release", "reprobe", "announce", "mark_starting", "start",
              "warm", "mark_warming", "poll", "mark_ready", "commit", "finish"}

Goto(t, label) == pc' = [pc EXCEPT ![t] = label] /\ UNCHANGED <<args, todo, mark>>

(* Leave one loop and enter another over the workloads of S. *)
Loop(t, label, S) ==
  /\ pc' = [pc EXCEPT ![t] = label]
  /\ todo' = [todo EXCEPT ![t] = S]
  /\ mark' = [mark EXCEPT ![t] = {}]
  /\ UNCHANGED args

(* The loop is done with w: go round again, or on to the next statement. *)
Advance(t, w, again, next) ==
  /\ pc' = [pc EXCEPT ![t] = IF todo[t] = {w} THEN next ELSE again]
  /\ todo' = [todo EXCEPT ![t] = @ \ {w}]
  /\ UNCHANGED <<args, mark>>

Collect(t, w, keep) ==
  /\ todo' = [todo EXCEPT ![t] = @ \ {w}]
  /\ mark' = [mark EXCEPT ![t] = IF keep THEN @ \cup {w} ELSE @]
  /\ UNCHANGED <<pc, args>>

Exit(t) ==
  /\ pc' = [pc EXCEPT ![t] = "off"]
  /\ args' = [args EXCEPT ![t] = NoArgs]
  /\ todo' = [todo EXCEPT ![t] = {}]
  /\ mark' = [mark EXCEPT ![t] = {}]

(* An exception: _execute falls into _rollback, _rollback into FAILED. *)
Raise(t) ==
  IF pc[t] \in Executing
  THEN Loop(t, "undo_probe_stop", Workload \ args[t].prevDesired)
  ELSE Loop(t, "give_up", {})

(* store.write comes after the assignment of _snapshot: when it raises, the *)
(* new snapshot is already published.                                       *)
StoreFails(t) == StoreMayFail /\ Raise(t)

SetPhase(phase) ==
  /\ operation' = [operation EXCEPT !.phase = phase]
  /\ UNCHANGED <<profile, desired, lifecycle, lastReady>>

SetWorkload(w, state) ==
  /\ lifecycle' = [lifecycle EXCEPT ![w] = state]
  /\ UNCHANGED <<profile, desired, operation, lastReady>>

world == <<handler, container, fresh, overlooked, bounds>>

-----------------------------------------------------------------------------
(* Process start: main() publishes what it observes; state.json is not read. *)

Boot(c) ==
  LET p == IF c["tts"] = "healthy" /\ c["asr"] # "healthy"
           THEN "tts_only" ELSE "asr_only"
  IN [profile |-> p, desired |-> Plan[p],
      lifecycle |-> [w \in Workload |->
                       IF c[w] = "healthy" THEN "ready" ELSE "stopped"]]

CoResident(c) ==
  /\ c["tts"] # "stopped"
  /\ c["asr"] # "stopped" \/ c["correction"] # "stopped"

(* Whatever runs outside the workloads it takes for desired. *)
BootOverlooks(c) == {w \in Workload \ Boot(c).desired : c[w] # "stopped"}

Init ==
  /\ container \in [Workload -> {"stopped", "loading", "healthy"}]
  /\ profile = Boot(container).profile
  /\ desired = Boot(container).desired
  /\ lifecycle = Boot(container).lifecycle
  /\ operation = NoOp /\ lastReady = None
  /\ pc = [t \in OpId |-> "off"] /\ args = [t \in OpId |-> NoArgs]
  /\ todo = [t \in OpId |-> {}] /\ mark = [t \in OpId |-> {}]
  /\ handler = Free /\ fresh = {} /\ overlooked = BootOverlooks(container)
  /\ nextId = 1 /\ restarts = 0 /\ crashes = 0

(* The process is stopped and started again: the daemon thread dies where   *)
(* it stands and the operation is forgotten.                                *)
Restart ==
  /\ restarts + crashes < MaxFaults
  /\ restarts' = restarts + 1
  /\ profile' = Boot(container).profile
  /\ desired' = Boot(container).desired
  /\ lifecycle' = Boot(container).lifecycle
  /\ operation' = NoOp /\ lastReady' = None
  /\ pc' = [t \in OpId |-> "off"] /\ args' = [t \in OpId |-> NoArgs]
  /\ todo' = [t \in OpId |-> {}] /\ mark' = [t \in OpId |-> {}]
  /\ handler' = Free /\ fresh' = {} /\ overlooked' = BootOverlooks(container)
  /\ UNCHANGED <<container, nextId, crashes>>

-----------------------------------------------------------------------------
(* Requests, in the Unix server's thread *)

NewOperation(action, target, phase) ==
  /\ nextId <= MaxOps
  /\ operation' = [id |-> nextId, action |-> action, target |-> target,
                   phase |-> phase]
  /\ nextId' = nextId + 1
  /\ fresh' = {}

(* reconcile fast path: the desired set is already published as ready. *)
Satisfied(want) == desired = want /\ \A w \in want : Published(w)

AnswerAlreadyReady(p) ==
  /\ Satisfied(Plan[p])
  /\ ~( /\ operation.action = "reconcile" /\ operation.target = p
        /\ operation.phase = "ready" )
  /\ NewOperation("reconcile", p, "ready")
  /\ profile' = p /\ lastReady' = p
  /\ UNCHANGED <<desired, lifecycle, thread>>

StartOperation(action, target, want, p, force) ==
  /\ NewOperation(action, target, "queued")
  /\ desired' = want /\ profile' = p
  /\ \/ /\ pc' = [pc EXCEPT ![nextId] = "probe"]
        /\ args' = [args EXCEPT ![nextId] =
             [want |-> want, profile |-> p, force |-> force,
              prevDesired |-> desired, prevProfile |-> profile,
              prevReady |-> lastReady]]
        /\ todo' = [todo EXCEPT ![nextId] = Workload]
        /\ UNCHANGED mark
     \/ StoreMayFail /\ UNCHANGED thread
  /\ UNCHANGED <<lifecycle, lastReady>>

(* Mutant: an unfinished operation is replaced instead of returned. *)
ReconcileWhileActive(p) ==
  /\ handler = Free
  /\ \/ AnswerAlreadyReady(p)
     \/ /\ ~Satisfied(Plan[p])
        /\ StartOperation("reconcile", p, Plan[p], p, {})
  /\ UNCHANGED <<handler, container, overlooked, restarts, crashes>>

(* A request that meets an unfinished operation, or repeats a finished one, *)
(* is answered with it and changes nothing.                                 *)
Reconcile(p) ==
  /\ handler = Free /\ ~Active
  /\ \/ AnswerAlreadyReady(p)
     \/ /\ ~Satisfied(Plan[p])
        /\ StartOperation("reconcile", p, Plan[p], p, {})
  /\ UNCHANGED <<handler, container, overlooked, restarts, crashes>>

ProfileFor(want) ==
  IF \E p \in Profile : Plan[p] = want
  THEN CHOOSE p \in Profile : Plan[p] = want ELSE None

ResetWant(w) ==
  IF Policy = "exclusive"
  THEN IF w = "tts" THEN Plan["tts_only"] ELSE Plan["asr_only"]
  ELSE desired \cup {w} \cup (IF w = "asr" THEN {"correction"} ELSE {})

(* reset(): the desired set is computed in a first lock section ... *)
ResetRead(w) ==
  /\ handler = Free /\ nextId <= MaxOps
  /\ handler' = [target |-> w, want |-> ResetWant(w),
                 profile |-> ProfileFor(ResetWant(w))]
  /\ UNCHANGED <<snapshot, thread, container, fresh, overlooked, bounds>>

(* ... and requested in a second one. *)
ResetSubmit ==
  /\ handler # Free
  /\ handler' = Free
  /\ \/ Active /\ UNCHANGED <<snapshot, thread, fresh, nextId>>
     \/ ~Active /\ StartOperation("reset", handler.target, handler.want,
                                  handler.profile, {handler.target})
  /\ UNCHANGED <<container, overlooked, restarts, crashes>>

-----------------------------------------------------------------------------
(* _execute *)

(* A container that is to be stopped and is not healthy yet, or not any     *)
(* more, passes for one that does not run.                                  *)
Overlook(w, unwanted) ==
  overlooked' = IF unwanted /\ container[w] = "loading"
                THEN overlooked \cup {w} ELSE overlooked

(* ready_before: what is healthy when its turn comes. *)
Probe(t) ==
  /\ pc[t] = "probe"
  /\ \E w \in todo[t] :
       /\ IsFirst(StartRank, todo[t], w)
       /\ Collect(t, w, Healthy(w))
       /\ Overlook(w, w \notin args[t].want \/ w \in args[t].force)
  /\ UNCHANGED <<snapshot, handler, container, fresh, bounds>>

(* Mutant: only workloads outside the desired set are stopped. *)
ToStopUnwanted(t) == mark[t] \ args[t].want

(* Mutant: only the workload to restart is stopped. *)
ToStopForced(t) == mark[t] \cap args[t].force

ToStop(t) == (mark[t] \ args[t].want) \cup (mark[t] \cap args[t].force)

PlanStop(t) ==
  /\ pc[t] = "probe" /\ todo[t] = {}
  /\ IF ToStop(t) # {} THEN Loop(t, "drain", ToStop(t))
                       ELSE Loop(t, "reprobe", args[t].want)
  /\ UNCHANGED <<snapshot, world>>

Drain(t) ==
  /\ pc[t] = "drain"
  /\ SetPhase("draining")
  /\ Goto(t, "mark_draining") \/ StoreFails(t)
  /\ UNCHANGED world

MarkDraining(t) ==
  /\ pc[t] = "mark_draining"
  /\ \E w \in todo[t] : IsFirst(StopRank, todo[t], w) /\ SetWorkload(w, "draining")
  /\ Goto(t, "stop") \/ StoreFails(t)
  /\ UNCHANGED world

StopContainer(w) ==
  /\ container' = [container EXCEPT ![w] = "stopped"]
  /\ fresh' = fresh \ {w} /\ overlooked' = overlooked \ {w}

(* `up -d` leaves a running container alone, healthy or not; one that it    *)
(* starts has its models to load.                                           *)
StartContainer(w) ==
  /\ container' = [container EXCEPT ![w] = IF Resident(w) THEN @ ELSE "loading"]
  /\ fresh' = IF Resident(w) THEN fresh ELSE fresh \cup {w}
  /\ UNCHANGED overlooked

Stop(t) ==
  /\ pc[t] = "stop"
  /\ \E w \in todo[t] : IsFirst(StopRank, todo[t], w) /\ StopContainer(w)
  /\ Goto(t, "mark_stopped")
  /\ UNCHANGED <<snapshot, handler, bounds>>

MarkStopped(t) ==
  /\ pc[t] = "mark_stopped"
  /\ \E w \in todo[t] :
       /\ IsFirst(StopRank, todo[t], w)
       /\ SetWorkload(w, "stopped")
       /\ Advance(t, w, "mark_draining", "release") \/ StoreFails(t)
  /\ UNCHANGED world

Release(t) ==
  /\ pc[t] = "release"
  /\ SetPhase("releasing")
  /\ Loop(t, "reprobe", args[t].want) \/ StoreFails(t)
  /\ UNCHANGED world

(* Mutant: what is to be started is what is ready already. *)
ReprobeReady(t) ==
  /\ pc[t] = "reprobe"
  /\ \E w \in todo[t] : /\ IsFirst(StartRank, todo[t], w)
                        /\ Collect(t, w, Healthy(w))
  /\ UNCHANGED <<snapshot, world>>

(* to_start: the desired workloads that are not ready now. *)
Reprobe(t) ==
  /\ pc[t] = "reprobe"
  /\ \E w \in todo[t] : /\ IsFirst(StartRank, todo[t], w)
                        /\ Collect(t, w, ~Healthy(w))
  /\ UNCHANGED <<snapshot, world>>

PlanStart(t) ==
  /\ pc[t] = "reprobe" /\ todo[t] = {}
  /\ IF mark[t] # {} THEN Loop(t, "announce", mark[t]) ELSE Goto(t, "commit")
  /\ UNCHANGED <<snapshot, world>>

Announce(t) ==
  /\ pc[t] = "announce"
  /\ SetPhase("starting")
  /\ Goto(t, "mark_starting") \/ StoreFails(t)
  /\ UNCHANGED world

MarkStarting(t) ==
  /\ pc[t] = "mark_starting"
  /\ \E w \in todo[t] : IsFirst(StartRank, todo[t], w) /\ SetWorkload(w, "starting")
  /\ Goto(t, "start") \/ StoreFails(t)
  /\ UNCHANGED world

Start(t) ==
  /\ pc[t] = "start"
  /\ \E w \in todo[t] : IsFirst(StartRank, todo[t], w) /\ StartContainer(w)
  /\ Goto(t, "warm")
  /\ UNCHANGED <<snapshot, handler, bounds>>

Warm(t) ==
  /\ pc[t] = "warm"
  /\ SetPhase("warming")
  /\ Goto(t, "mark_warming") \/ StoreFails(t)
  /\ UNCHANGED world

MarkWarming(t) ==
  /\ pc[t] = "mark_warming"
  /\ \E w \in todo[t] : IsFirst(StartRank, todo[t], w) /\ SetWorkload(w, "warming")
  /\ Goto(t, "poll") \/ StoreFails(t)
  /\ UNCHANGED world

Poll(t) ==
  /\ pc[t] = "poll"
  /\ \E w \in todo[t] : IsFirst(StartRank, todo[t], w) /\ Healthy(w)
  /\ Goto(t, "mark_ready")
  /\ UNCHANGED <<snapshot, world>>

(* Mutant: STARTING is announced for every workload, not once. *)
MarkReadyAnnounceNext(t) ==
  /\ pc[t] = "mark_ready"
  /\ \E w \in todo[t] :
       /\ IsFirst(StartRank, todo[t], w)
       /\ SetWorkload(w, "ready")
       /\ Advance(t, w, "announce", "commit") \/ StoreFails(t)
  /\ UNCHANGED world

MarkReady(t) ==
  /\ pc[t] = "mark_ready"
  /\ \E w \in todo[t] :
       /\ IsFirst(StartRank, todo[t], w)
       /\ SetWorkload(w, "ready")
       /\ Advance(t, w, "mark_starting", "commit") \/ StoreFails(t)
  /\ UNCHANGED world

Commit(t) ==
  /\ pc[t] = "commit"
  /\ profile' = args[t].profile /\ lastReady' = args[t].profile
  /\ Goto(t, "finish") \/ StoreFails(t)
  /\ UNCHANGED <<desired, lifecycle, operation, world>>

Finish(t) ==
  /\ pc[t] = "finish"
  /\ SetPhase("ready")
  /\ Exit(t) \/ StoreFails(t)
  /\ UNCHANGED world

-----------------------------------------------------------------------------
(* _rollback *)

UndoProbeStop(t) ==
  /\ pc[t] = "undo_probe_stop"
  /\ \E w \in todo[t] :
       /\ IsFirst(StopRank, todo[t], w)
       /\ IF Healthy(w) THEN Goto(t, "undo_stop") ELSE Collect(t, w, FALSE)
       /\ Overlook(w, TRUE)
  /\ UNCHANGED <<snapshot, handler, container, fresh, bounds>>

UndoStop(t) ==
  /\ pc[t] = "undo_stop"
  /\ \E w \in todo[t] :
       /\ IsFirst(StopRank, todo[t], w)
       /\ StopContainer(w)
       /\ Advance(t, w, "undo_probe_stop", "undo_probe_stop")
  /\ UNCHANGED <<snapshot, handler, bounds>>

(* Mutant: the rollback starts the set that was asked for. *)
UndoStopsDoneWanted(t) ==
  /\ pc[t] = "undo_probe_stop" /\ todo[t] = {}
  /\ Loop(t, "undo_probe_start", args[t].want)
  /\ UNCHANGED <<snapshot, world>>

UndoStopsDone(t) ==
  /\ pc[t] = "undo_probe_stop" /\ todo[t] = {}
  /\ Loop(t, "undo_probe_start", args[t].prevDesired)
  /\ UNCHANGED <<snapshot, world>>

UndoProbeStart(t) ==
  /\ pc[t] = "undo_probe_start"
  /\ \E w \in todo[t] :
       /\ IsFirst(StartRank, todo[t], w)
       /\ IF Healthy(w) THEN Collect(t, w, FALSE) ELSE Goto(t, "undo_start")
  /\ UNCHANGED <<snapshot, world>>

UndoStart(t) ==
  /\ pc[t] = "undo_start"
  /\ \E w \in todo[t] : IsFirst(StartRank, todo[t], w) /\ StartContainer(w)
  /\ Goto(t, "undo_poll")
  /\ UNCHANGED <<snapshot, handler, bounds>>

UndoPoll(t) ==
  /\ pc[t] = "undo_poll"
  /\ \E w \in todo[t] :
       /\ IsFirst(StartRank, todo[t], w)
       /\ Healthy(w)
       /\ Advance(t, w, "undo_probe_start", "undo_probe_start")
  /\ UNCHANGED <<snapshot, world>>

UndoStartsDone(t) ==
  /\ pc[t] = "undo_probe_start" /\ todo[t] = {}
  /\ Loop(t, "observe", Workload)
  /\ UNCHANGED <<snapshot, world>>

Observe(t) ==
  /\ pc[t] = "observe"
  /\ \E w \in todo[t] : /\ IsFirst(StartRank, todo[t], w)
                        /\ Collect(t, w, Healthy(w))
  /\ UNCHANGED <<snapshot, world>>

(* Mutant: the rollback leaves the new desired set published. *)
PublishRollbackKeepDesired(t) ==
  /\ pc[t] = "observe" /\ todo[t] = {}
  /\ profile' = args[t].prevProfile
  /\ lastReady' = args[t].prevReady
  /\ lifecycle' = [w \in Workload |-> IF w \in mark[t] THEN "ready" ELSE "stopped"]
  /\ operation' = [operation EXCEPT !.phase = "rolled_back"]
  /\ Exit(t) \/ StoreFails(t)
  /\ UNCHANGED <<desired, world>>

PublishRollback(t) ==
  /\ pc[t] = "observe" /\ todo[t] = {}
  /\ profile' = args[t].prevProfile
  /\ desired' = args[t].prevDesired
  /\ lastReady' = args[t].prevReady
  /\ lifecycle' = [w \in Workload |-> IF w \in mark[t] THEN "ready" ELSE "stopped"]
  /\ operation' = [operation EXCEPT !.phase = "rolled_back"]
  /\ Exit(t) \/ StoreFails(t)
  /\ UNCHANGED world

(* The except clause of _rollback; nothing catches what it raises itself. *)
GiveUp(t) ==
  /\ pc[t] = "give_up"
  /\ SetPhase("failed")
  /\ Exit(t)
  /\ UNCHANGED world

-----------------------------------------------------------------------------
(* Failures of the external commands, anywhere in the thread *)

(* A `docker` command exits non-zero or exceeds command_timeout, before or  *)
(* after it took effect.                                                    *)
CommandFails(t) ==
  /\ \/ /\ pc[t] \in {"probe", "reprobe", "stop", "start", "poll",
                      "undo_probe_stop", "undo_stop", "undo_probe_start",
                      "undo_start", "undo_poll", "observe"}
        /\ todo[t] # {}
        /\ UNCHANGED <<container, fresh, overlooked>>
     \/ /\ pc[t] \in {"stop", "undo_stop"}
        /\ \E w \in todo[t] : IsFirst(StopRank, todo[t], w) /\ StopContainer(w)
     \/ /\ pc[t] \in {"start", "undo_start"}
        /\ \E w \in todo[t] : IsFirst(StartRank, todo[t], w) /\ StartContainer(w)
  /\ Raise(t)
  /\ UNCHANGED <<snapshot, handler, bounds>>

(* Mutant: only _execute bounds its polling, _rollback polls for ever. *)
StartTimeoutExecuteOnly(t) ==
  /\ pc[t] = "poll"
  /\ \E w \in todo[t] : IsFirst(StartRank, todo[t], w) /\ ~Healthy(w)
  /\ Raise(t)
  /\ UNCHANGED <<snapshot, world>>

(* start_timeout expires before the started workload reports healthy. *)
StartTimeout(t) ==
  /\ pc[t] \in {"poll", "undo_poll"}
  /\ \E w \in todo[t] : IsFirst(StartRank, todo[t], w) /\ ~Healthy(w)
  /\ Raise(t)
  /\ UNCHANGED <<snapshot, world>>

Execute(t) ==
  \/ Probe(t) \/ PlanStop(t) \/ Drain(t) \/ MarkDraining(t) \/ Stop(t)
  \/ MarkStopped(t) \/ Release(t) \/ Reprobe(t) \/ PlanStart(t)
  \/ Announce(t) \/ MarkStarting(t) \/ Start(t) \/ Warm(t)
  \/ MarkWarming(t) \/ Poll(t) \/ MarkReady(t) \/ Commit(t) \/ Finish(t)

Rollback(t) ==
  \/ UndoProbeStop(t) \/ UndoStop(t) \/ UndoStopsDone(t)
  \/ UndoProbeStart(t) \/ UndoStart(t) \/ UndoPoll(t) \/ UndoStartsDone(t)
  \/ Observe(t) \/ PublishRollback(t) \/ GiveUp(t)

ThreadStep(t) == Execute(t) \/ Rollback(t) \/ CommandFails(t) \/ StartTimeout(t)

-----------------------------------------------------------------------------
(* The containers on their own: a loading one becomes healthy, a healthy    *)
(* one fails its health check (and is restarted by Docker, so it stays).    *)

BecomeHealthy(w) ==
  /\ container[w] = "loading"
  /\ container' = [container EXCEPT ![w] = "healthy"]
  /\ UNCHANGED <<snapshot, thread, handler, fresh, overlooked, bounds>>

Crash(w) ==
  /\ Healthy(w) /\ restarts + crashes < MaxFaults
  /\ container' = [container EXCEPT ![w] = "loading"]
  /\ crashes' = crashes + 1
  /\ UNCHANGED <<snapshot, thread, handler, fresh, overlooked, nextId, restarts>>

Next ==
  \/ \E p \in Profile : Reconcile(p)
  \/ \E w \in Workload : ResetRead(w) \/ BecomeHealthy(w) \/ Crash(w)
  \/ ResetSubmit
  \/ Restart
  \/ \E t \in OpId : ThreadStep(t)

Spec == Init /\ [][Next]_vars

(* The operating system runs the operation thread, and every command and    *)
(* every poll it makes is bounded by a timeout; the server thread returns   *)
(* from its first lock section to its second.  Nothing else is promised:    *)
(* commands need not fail, and containers need not become healthy.          *)
FairSpec ==
  /\ Spec
  /\ \A t \in OpId : WF_vars(Execute(t) \/ Rollback(t) \/ StartTimeout(t))
  /\ WF_vars(ResetSubmit)

-----------------------------------------------------------------------------
(* Properties *)

(* Every variable holds a value of the shape the code gives it. *)
ArgsType == [want : SUBSET Workload, profile : Profile \cup {None},
             force : SUBSET Workload, prevDesired : SUBSET Workload,
             prevProfile : Profile \cup {None}, prevReady : Profile \cup {None}]

OperationType == [id : OpId \cup {0}, action : {"reconcile", "reset", None},
                  target : Profile \cup Workload \cup {None},
                  phase : Phase \cup {None}]

TypeOK ==
  /\ profile \in Profile \cup {None} /\ desired \in SUBSET Workload
  /\ lifecycle \in [Workload -> Lifecycle]
  /\ operation \in OperationType
  /\ lastReady \in Profile \cup {None}
  /\ pc \in [OpId -> Executing \cup Undoing \cup {"off"}]
  /\ args \in [OpId -> ArgsType]
  /\ todo \in [OpId -> SUBSET Workload] /\ mark \in [OpId -> SUBSET Workload]
  /\ handler \in {Free} \cup [target : Workload, want : SUBSET Workload,
                               profile : Profile \cup {None}]
  /\ container \in [Workload -> {"stopped", "loading", "healthy"}]
  /\ fresh \in SUBSET Workload /\ overlooked \in SUBSET Workload
  /\ nextId \in 1..(MaxOps + 1)
  /\ restarts \in 0..MaxFaults /\ crashes \in 0..MaxFaults

(* Operations are serialized: the threads that still run are the one that   *)
(* works for the published operation, while that is not finished.  So there *)
(* is at most one, and no unfinished operation is left without it, which    *)
(* would be the answer to every later request for ever.                     *)
Serialized == \A t \in OpId : Live(t) <=> operation.id = t /\ Active

(* A running container that the supervisor has not passed over as stopped.  *)
Up(w) == Resident(w) /\ w \notin overlooked

(* A workload the supervisor has seen healthy, and that has not crashed.    *)
Serves(w) == Resident(w) /\ (crashes = 0 => Healthy(w))

(* Under the exclusive policy ASR / correction and TTS containers are never *)
(* resident on the GPU together, failed starts, timeouts, crashes and       *)
(* rollbacks included, but for containers that were still loading when they *)
(* should have been stopped, or were found running at boot.                 *)
ExclusiveResidency ==
  Policy = "exclusive" => ~( /\ Up("tts")
                             /\ Up("asr") \/ Up("correction") )

(* "ASR/correction and TTS are mutually exclusive residency groups": what   *)
(* the exclusive policy promises of the containers as they are.  The code   *)
(* does not stop one that is still loading.                                 *)
GroupsStayApart ==
  [][ Policy = "exclusive" /\ ~CoResident(container)
        => ~CoResident(container') ]_vars

(* A rollback puts back the workloads of the snapshot it started from and   *)
(* stops all others it knows of; what it then publishes as ready runs, and  *)
(* unless a container crashed it publishes all that it put back.            *)
RollbackRestores ==
  operation.phase = "rolled_back" =>
    /\ \A w \in desired : Serves(w) /\ (crashes = 0 => Published(w))
    /\ \A w \in Workload : /\ Up(w) => w \in desired
                           /\ Published(w) => Resident(w)

(* An operation whose thread ends ready leaves the desired workloads        *)
(* running, and of the others at most those that were passed over.          *)
Delivered == \A w \in Workload : /\ w \in desired => Serves(w)
                                 /\ Up(w) => w \in desired

ReadyDelivers ==
  [][ operation.id = operation'.id /\ Active /\ operation'.phase = "ready"
        => Delivered ]_vars

(* "If rollback also fails, the Gateway [...] reports both workloads        *)
(* unavailable": in no run, for _rollback's except clause only sets the    *)
(* phase and the code does not keep it (README, What does not hold).       *)
FailedReportsUnavailable ==
  operation.phase = "failed" => \A w \in Workload : ~Published(w)

(* A reset that ends ready has restarted its target, but for one that was   *)
(* still loading when it should have been stopped.                          *)
ResetRestartsTarget ==
  operation.action = "reset" /\ operation.phase = "ready"
    => operation.target \in fresh \cup overlooked

(* "one rollback to the last known ready profile": in no run, for after a  *)
(* failed operation _rollback goes to what that one wanted and the code    *)
(* does not keep it (README, What does not hold).                          *)
RollbackToLastReady ==
  operation.phase = "rolled_back" /\ lastReady # None
    => desired = Plan[lastReady]

(* An operation only moves forward through its phases and never leaves a    *)
(* terminal one.                                                            *)
PhaseRank == [queued |-> 1, draining |-> 2, releasing |-> 3, starting |-> 4,
              warming |-> 5, ready |-> 6, failed |-> 6, rolled_back |-> 6]

PhaseForward ==
  [][ operation # NoOp /\ operation'.id = operation.id =>
        \/ operation'.phase = operation.phase
        \/ /\ operation.phase \notin Terminal
           /\ PhaseRank[operation.phase] <= PhaseRank[operation'.phase] ]_vars

(* Every operation thread comes to an end, also when the store fails and    *)
(* it no longer works for the published operation.                          *)
ThreadTerminates == \A t \in OpId : Live(t) ~> ~Live(t)

(* The supervisor keeps an operation ledger: the published operation is the *)
(* current entry, the published desired set is the intent, and the running  *)
(* thread holds the set to fall back to.                                    *)
Status == CASE operation = NoOp -> "none"
            [] operation # NoOp /\ operation.phase \in Terminal -> operation.phase
            [] OTHER -> "active"

Ledger == INSTANCE OperationLedger WITH
  Intents <- SUBSET Workload, NoIntent <- None,
  used <- nextId - 1, current <- operation.id, status <- Status,
  intent <- desired,
  fallback <- IF Active THEN args[operation.id].prevDesired ELSE None

LedgerSpec == Ledger!Spec

-----------------------------------------------------------------------------
(* Inductive strengthening, used by ResourceSupervisorProofs. *)

(* The phases an operation can be in while its thread stands at a label. *)
PhaseAt(label, phase) ==
  \/ label \in {"probe", "drain"} /\ phase = "queued"
  \/ label \in {"mark_draining", "stop", "mark_stopped", "release"}
       /\ phase = "draining"
  \/ label \in {"reprobe", "announce"} /\ phase \in {"queued", "releasing"}
  \/ label \in {"mark_starting", "start", "warm"}
       /\ phase \in {"starting", "warming"}
  \/ label \in {"mark_warming", "poll", "mark_ready"} /\ phase = "warming"
  \/ label \in {"commit", "finish"} /\ phase \in {"queued", "releasing", "warming"}
  \/ label \in Undoing /\ phase \in Phase \ Terminal

(* Without store failures the published operation and the live thread are   *)
(* one and the same.                                                        *)
SerialInv ==
  /\ operation.id < nextId
  /\ operation.id = 0 => operation = NoOp
  /\ \A t \in OpId : Live(t) => /\ operation.id = t
                                /\ PhaseAt(pc[t], operation.phase)
  /\ Active => operation.id \in OpId /\ Live(operation.id)

(* What the thread has established about the containers when it stands at a *)
(* label.                                                                   *)
Stopping == {"drain", "mark_draining", "stop", "mark_stopped"}
Starting == {"announce", "mark_starting", "start", "warm", "mark_warming",
             "poll", "mark_ready"}
Restoring == {"undo_probe_start", "undo_start", "undo_poll"}

Progress(t) ==
  LET want == args[t].want
      back == args[t].prevDesired
  IN /\ pc[t] = "probe" =>
          \A w \in Workload \ todo[t] :
            Up(w) /\ (w \notin want \/ w \in args[t].force) => w \in mark[t]
     /\ pc[t] \in Stopping =>
          \A w \in Workload \ want : Up(w) => w \in todo[t]
     /\ pc[t] = "mark_stopped" =>
          \A w \in todo[t] : IsFirst(StopRank, todo[t], w) => ~Resident(w)
     /\ pc[t] \in {"release", "reprobe", "commit", "finish"} \cup Starting =>
          \A w \in Workload \ want : ~Up(w)
     /\ pc[t] = "reprobe" =>
          /\ todo[t] \subseteq want /\ mark[t] \subseteq want
          /\ \A w \in want \ todo[t] : Serves(w) \/ w \in mark[t]
     /\ pc[t] \in Starting =>
          todo[t] \subseteq want /\ \A w \in want \ todo[t] : Serves(w)
     /\ pc[t] = "mark_ready" =>
          \A w \in todo[t] : IsFirst(StartRank, todo[t], w) => Serves(w)
     /\ pc[t] \in {"commit", "finish"} => \A w \in want : Serves(w)
     /\ pc[t] \in {"undo_probe_stop", "undo_stop"} =>
          /\ todo[t] \subseteq Workload \ back
          /\ \A w \in Workload \ back : Up(w) => w \in todo[t]
     /\ pc[t] \in {"observe"} \cup Restoring =>
          \A w \in Workload \ back : ~Up(w)
     /\ pc[t] \in Restoring =>
          todo[t] \subseteq back /\ \A w \in back \ todo[t] : Serves(w)
     /\ pc[t] = "observe" =>
          /\ \A w \in back : Serves(w)
          /\ \A w \in mark[t] : Resident(w)
          /\ crashes = 0 => back \ todo[t] \subseteq mark[t]

Groups == {{"asr", "correction"}, {"tts"}}

ResidencyInv ==
  /\ \A t \in OpId : Live(t) => desired = args[t].want /\ Progress(t)
  /\ RollbackRestores
  /\ ExclusiveResidency
  /\ Policy = "exclusive" =>
       /\ desired \in Groups
       /\ handler # Free => handler.want \in Groups
       /\ \A t \in OpId : Live(t) => args[t].prevDesired \in Groups

(* A thread that resets workload g: while it stops, g is still to be        *)
(* stopped if it is up; after that g runs only if it was started anew or    *)
(* was passed over.                                                         *)
Restarts(t, g) ==
  /\ pc[t] \in Stopping => (Up(g) => g \in todo[t])
  /\ pc[t] \in {"release", "reprobe", "commit", "finish"} \cup Starting
       => (Up(g) => g \in fresh)

ResetInv ==
  /\ handler # Free => handler.target \in handler.want
  /\ ResetRestartsTarget
  /\ \A t \in OpId : Live(t) /\ operation.action = "reset" =>
       /\ operation.target \in args[t].want
       /\ args[t].force = {operation.target}
       /\ Restarts(t, operation.target)
=============================================================================
