--------------------------- MODULE AsrModelManager ---------------------------
(***************************************************************************)
(* The ASR worker (asr_worker.py) and the manager of its single resident   *)
(* model (asr_model_manager.py).                                           *)
(*                                                                         *)
(* One lock guards activation, leases and transcription.  An activation    *)
(* holds it while it unloads, loads, warms up and rolls back, and so does  *)
(* a transcription; each publication of a snapshot is a step, because the  *)
(* worker's routes read the snapshot without the lock.                     *)
(***************************************************************************)
EXTENDS Integers, FiniteSets

CONSTANTS
  Models, Sessions,
  Default,      \* DEFAULT_ASR_MODEL, activated when the worker starts
  MaxRestarts   \* bound: restarts of the worker process

None == "none"

ASSUME ManagerAssumption ==
  /\ Default \in Models /\ None \notin Models \cup Sessions
  /\ MaxRestarts \in Nat

VARIABLES
  \* the published ModelManagerSnapshot
  state, active, requested, leasedBy, error,
  \* _provider (and _active_model, which always changes with it)
  provider,
  \* models whose weights are in memory
  loaded,
  \* the statement that activate() is at, "off" when it is not running;
  \* the model it was called for and the one it found
  pc, goal, previous,
  \* the session and model transcribe() is running for, holding the lock
  using,
  \* the model of the activation task that is not done
  task,
  restarts

snapshot == <<state, active, requested, leasedBy, error>>
activation == <<pc, goal, previous>>
vars == <<snapshot, provider, loaded, activation, using, task, restarts>>

Idle == [session |-> None, model |-> None]
LockFree == pc = "off" /\ using = Idle

(* _publish keeps the lease. *)
Publish(s, a, r, e) ==
  /\ state' = s /\ active' = a /\ requested' = r /\ error' = e
  /\ UNCHANGED leasedBy

Goto(label) == pc' = label /\ UNCHANGED <<goal, previous>>

(* activate() returns or raises: the lock is free and the task is done. *)
Return ==
  /\ pc' = "off" /\ goal' = None /\ previous' = None /\ task' = None

(* The process starts: its lifespan handler activates the default model     *)
(* before any request is served, which a task that is not done stands for.  *)
Init ==
  /\ state = "idle" /\ active = None /\ requested = None
  /\ leasedBy = None /\ error = None
  /\ provider = None /\ loaded = {} /\ using = Idle /\ task = Default
  /\ pc = "off" /\ goal = None /\ previous = None
  /\ restarts = 0

Restart ==
  /\ restarts < MaxRestarts /\ restarts' = restarts + 1
  /\ state' = "idle" /\ active' = None /\ requested' = None
  /\ leasedBy' = None /\ error' = None
  /\ provider' = None /\ loaded' = {} /\ using' = Idle /\ task' = Default
  /\ pc' = "off" /\ goal' = None /\ previous' = None

-----------------------------------------------------------------------------
(* PUT /models/active.  What it answers from the snapshot alone, or while a  *)
(* task is not done, changes nothing.                                        *)
RequestActivation(m) ==
  /\ leasedBy = None \/ m = active
  /\ ~(state = "ready" /\ active = m)
  /\ task = None
  /\ task' = m
  /\ UNCHANGED <<snapshot, provider, loaded, activation, using, restarts>>

(* activate(): the lock is taken and the lease looked at again. *)
Refuse ==
  /\ task # None /\ LockFree
  /\ \/ leasedBy # None /\ task # provider
     \/ provider # None /\ provider = task /\ state = "ready"
  /\ Return
  /\ UNCHANGED <<snapshot, provider, loaded, using, restarts>>

(* Mutant: activate trusts the lease check of the route. *)
BeginUnchecked ==
  /\ task # None /\ LockFree
  /\ ~(provider # None /\ provider = task /\ state = "ready")
  /\ goal' = task /\ previous' = provider
  /\ IF provider # None
     THEN /\ pc' = "unload" /\ Publish("unloading", provider, task, None)
     ELSE /\ pc' = "load" /\ Publish("loading", None, task, None)
  /\ provider' = None
  /\ UNCHANGED <<loaded, using, task, restarts>>

Begin ==
  /\ task # None /\ LockFree
  /\ ~(leasedBy # None /\ task # provider)
  /\ ~(provider # None /\ provider = task /\ state = "ready")
  /\ goal' = task /\ previous' = provider
  /\ IF provider # None
     THEN /\ pc' = "unload" /\ Publish("unloading", provider, task, None)
     ELSE /\ pc' = "load" /\ Publish("loading", None, task, None)
  /\ provider' = None
  /\ UNCHANGED <<loaded, using, task, restarts>>

(* previous_provider.close() and the memory cleanup: neither raises, for a   *)
(* provider only drops its references and the cleanup catches.               *)
Unload ==
  /\ pc = "unload"
  /\ loaded' = loaded \ {previous}
  /\ Publish("loading", None, goal, None)
  /\ Goto("load")
  /\ UNCHANGED <<provider, using, task, restarts>>

(* The factory constructs a provider (its weights come with warm), or fails. *)
Construct ==
  /\ pc = "load"
  /\ \/ Publish("warming", None, goal, None) /\ Goto("warm")
     \/ Goto("recover") /\ UNCHANGED snapshot
  /\ UNCHANGED <<provider, loaded, using, task, restarts>>

LoadWeights ==
  /\ pc = "warm"
  /\ loaded' = loaded \cup {goal}
  /\ Goto("warmed")
  /\ UNCHANGED <<snapshot, provider, using, task, restarts>>

WarmUp ==
  /\ pc \in {"warm", "warmed"}
  /\ \/ /\ pc = "warmed"
        /\ provider' = goal
        /\ Publish("ready", goal, None, None)
        /\ Return
     \/ Goto("recover") /\ UNCHANGED <<snapshot, provider, task>>
  /\ UNCHANGED <<loaded, using, restarts>>

(* Mutant: the failed candidate is left open. *)
RecoverLeak ==
  /\ pc = "recover"
  /\ IF previous = None
     THEN Publish("failed", None, None, "activation_failed") /\ Return
     ELSE /\ Publish("rollback", None, goal, "activation_failed")
          /\ Goto("reload") /\ UNCHANGED task
  /\ UNCHANGED <<provider, loaded, using, restarts>>

(* The failed candidate is closed; with nothing to go back to, that is it. *)
Recover ==
  /\ pc = "recover"
  /\ loaded' = loaded \ {goal}
  /\ IF previous = None
     THEN Publish("failed", None, None, "activation_failed") /\ Return
     ELSE /\ Publish("rollback", None, goal, "activation_failed")
          /\ Goto("reload") /\ UNCHANGED task
  /\ UNCHANGED <<provider, using, restarts>>

Reload ==
  /\ pc = "reload"
  /\ \/ loaded' = loaded \cup {previous} /\ Goto("rewarmed")
     \/ Goto("fail") /\ UNCHANGED loaded
  /\ UNCHANGED <<snapshot, provider, using, task, restarts>>

Rewarm ==
  /\ pc = "rewarmed"
  /\ \/ /\ provider' = previous
        /\ Publish("ready", previous, None, "activation_failed")
        /\ Return
     \/ Goto("fail") /\ UNCHANGED <<snapshot, provider, task>>
  /\ UNCHANGED <<loaded, using, restarts>>

(* Mutant: a failed rollback still names the model it tried to restore. *)
FailClaimingPrevious ==
  /\ pc = "fail"
  /\ loaded' = loaded \ {previous}
  /\ provider' = None
  /\ Publish("ready", previous, None, "rollback_failed")
  /\ Return
  /\ UNCHANGED <<using, restarts>>

(* Mutant: a failed rollback never reports its end. *)
FailSilently ==
  /\ pc = "fail"
  /\ loaded' = loaded \ {previous}
  /\ UNCHANGED <<snapshot, provider, activation, using, task, restarts>>

Fail ==
  /\ pc = "fail"
  /\ loaded' = loaded \ {previous}
  /\ provider' = None
  /\ Publish("failed", None, None, "rollback_failed")
  /\ Return
  /\ UNCHANGED <<using, restarts>>

-----------------------------------------------------------------------------
(* Leases and transcription *)

Acquire(s, m) ==
  /\ LockFree /\ leasedBy \in {None, s}
  /\ provider = m /\ state = "ready"
  /\ leasedBy' = s
  /\ UNCHANGED <<state, active, requested, error, provider, loaded,
                 activation, using, task, restarts>>

(* Mutant: release does not take the lock. *)
ReleaseUnlocked(s) ==
  /\ leasedBy = s
  /\ leasedBy' = None
  /\ UNCHANGED <<state, active, requested, error, provider, loaded,
                 activation, using, task, restarts>>

Release(s) ==
  /\ LockFree /\ leasedBy = s
  /\ leasedBy' = None
  /\ UNCHANGED <<state, active, requested, error, provider, loaded,
                 activation, using, task, restarts>>

(* s is None for the standalone route, which holds no lease. *)
Transcribe(s, m) ==
  /\ LockFree
  /\ leasedBy = s
  /\ provider = m /\ state = "ready"
  /\ using' = [session |-> s, model |-> m]
  /\ UNCHANGED <<snapshot, provider, loaded, activation, task, restarts>>

Transcribed ==
  /\ using # Idle
  /\ using' = Idle
  /\ UNCHANGED <<snapshot, provider, loaded, activation, task, restarts>>

Activate ==
  \/ Refuse \/ Begin \/ Unload \/ Construct \/ LoadWeights \/ WarmUp
  \/ Recover \/ Reload \/ Rewarm \/ Fail

Next ==
  \/ \E m \in Models : RequestActivation(m)
  \/ Activate
  \/ \E s \in Sessions, m \in Models : Acquire(s, m)
  \/ \E s \in Sessions : Release(s)
  \/ \E s \in Sessions \cup {None}, m \in Models : Transcribe(s, m)
  \/ Transcribed
  \/ Restart

Spec == Init /\ [][Next]_vars

(* An activation that has the lock goes on, a transcription ends, and a     *)
(* task that waits for the lock gets it if it is free again and again.      *)
FairSpec == Spec /\ SF_vars(Activate) /\ WF_vars(Transcribed)

-----------------------------------------------------------------------------
(* Properties *)

(* Every variable holds a value of the shape the code gives it. *)
TypeOK ==
  /\ state \in {"idle", "unloading", "loading", "warming", "ready",
                "failed", "rollback"}
  /\ active \in Models \cup {None} /\ requested \in Models \cup {None}
  /\ leasedBy \in Sessions \cup {None}
  /\ error \in {None, "activation_failed", "rollback_failed"}
  /\ provider \in Models \cup {None} /\ loaded \in SUBSET Models
  /\ pc \in {"off", "unload", "load", "warm", "warmed", "recover", "reload",
             "rewarmed", "fail"}
  /\ goal \in Models \cup {None} /\ previous \in Models \cup {None}
  /\ using \in [session : Sessions \cup {None}, model : Models \cup {None}]
  /\ task \in Models \cup {None}
  /\ restarts \in 0..MaxRestarts

(* A lease pins its model: while it is held no activation runs, and the     *)
(* snapshot, the provider and the loaded weights agree on one ready model.  *)
LeasePinsModel ==
  leasedBy # None =>
    /\ pc = "off" /\ state = "ready"
    /\ provider \in Models /\ active = provider /\ loaded = {provider}

(* Exactly one provider's weights are in memory at a time, rollbacks        *)
(* included: two do not fit on the GPU.                                     *)
SingleResident == \A m, n \in loaded : m = n

(* The snapshot that routes read without the lock never claims a model to   *)
(* be ready that is not loaded and served.                                  *)
SnapshotHonest ==
  /\ state = "ready" => /\ active \in loaded /\ provider = active
  /\ state \in {"idle", "loading", "failed"} => active = None /\ loaded = {}

(* An inference runs on the weights of the model that was asked for, and    *)
(* the lease of its session is still held when it ends.                     *)
TranscribesOnItsModel ==
  using # Idle => loaded = {using.model} /\ leasedBy = using.session

(* The manager is a lease on the served model. *)
Lease == INSTANCE ModelLease WITH
  serving <- IF state = "ready" THEN active ELSE None,
  owner <- leasedBy

LeaseSpec == Lease!Spec

(* Every activation that was accepted comes to an end. *)
ActivationEnds == task # None ~> task = None

-----------------------------------------------------------------------------
(* Inductive strengthening, used by AsrModelManagerProofs. *)

(* What is loaded, served and published while activate() is at a label. *)
ActivationInv ==
  /\ pc = "off" =>
       /\ goal = None /\ previous = None
       /\ state \in {"idle", "ready", "failed"}
       /\ IF state = "ready"
          THEN provider \in Models /\ active = provider /\ loaded = {provider}
          ELSE provider = None /\ active = None /\ loaded = {}
  /\ pc # "off" =>
       /\ provider = None /\ leasedBy = None /\ using = Idle
       /\ goal \in Models /\ goal # previous /\ task = goal
       /\ state \notin {"ready", "idle", "failed"}
  /\ pc = "unload" => previous \in Models /\ loaded = {previous} /\ state = "unloading"
  /\ pc = "load" => loaded = {} /\ active = None /\ state = "loading"
  /\ pc = "warm" => loaded = {} /\ active = None /\ state = "warming"
  /\ pc = "warmed" => loaded = {goal} /\ active = None /\ state = "warming"
  /\ pc = "recover" =>
       /\ loaded \subseteq {goal} /\ active = None
       /\ state \in {"loading", "warming"}
       /\ state = "loading" => loaded = {}
  /\ pc \in {"reload", "rewarmed", "fail"} => previous \in Models /\ state = "rollback"
  /\ pc = "reload" => loaded = {}
  /\ pc = "rewarmed" => loaded = {previous}
  /\ pc = "fail" => loaded \subseteq {previous}

ManagerInv ==
  /\ ActivationInv
  /\ leasedBy # None => state = "ready"
  /\ using # Idle => /\ pc = "off" /\ state = "ready"
                     /\ using.model = provider /\ leasedBy = using.session
=============================================================================
