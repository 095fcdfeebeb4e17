---------------------- MODULE ResourceSupervisorProofs ----------------------
(***************************************************************************)
(* Theorems about ResourceSupervisor, for every policy and every bound.    *)
(***************************************************************************)
EXTENDS ResourceSupervisor, TLAPS

ThreadType ==
  /\ pc \in [OpId -> Executing \cup Undoing \cup {"off"}]
  /\ args \in [OpId -> ArgsType]
  /\ todo \in [OpId -> SUBSET Workload] /\ mark \in [OpId -> SUBSET Workload]

SnapshotType ==
  /\ profile \in Profile \cup {None} /\ desired \in SUBSET Workload
  /\ lifecycle \in [Workload -> Lifecycle]
  /\ operation \in OperationType
  /\ lastReady \in Profile \cup {None}

(* The control primitives keep the thread tables well typed. *)
LEMMA GotoType ==
  ASSUME ThreadType, NEW t \in OpId, NEW l \in Executing \cup Undoing, Goto(t, l)
  PROVE  ThreadType'
BY DEF ThreadType, Goto

LEMMA LoopType ==
  ASSUME ThreadType, NEW t \in OpId, NEW l \in Executing \cup Undoing,
         NEW S \in SUBSET Workload, Loop(t, l, S)
  PROVE  ThreadType'
BY DEF ThreadType, Loop

LEMMA AdvanceType ==
  ASSUME ThreadType, NEW t \in OpId, NEW w \in Workload,
         NEW l \in Executing \cup Undoing, NEW m \in Executing \cup Undoing,
         Advance(t, w, l, m)
  PROVE  ThreadType'
BY DEF ThreadType, Advance

LEMMA CollectType ==
  ASSUME ThreadType, NEW t \in OpId, NEW w \in Workload,
         NEW k \in BOOLEAN, Collect(t, w, k)
  PROVE  ThreadType'
BY DEF ThreadType, Collect

LEMMA ExitType ==
  ASSUME ThreadType, NEW t \in OpId, Exit(t)
  PROVE  ThreadType'
BY DEF ThreadType, Exit, NoArgs, ArgsType, None

LEMMA RaiseType ==
  ASSUME ThreadType, NEW t \in OpId, Raise(t)
  PROVE  ThreadType'
<1>1. /\ Workload \ args[t].prevDesired \in SUBSET Workload
      /\ {} \in SUBSET Workload
  OBVIOUS
<1>2. "undo_probe_stop" \in Executing \cup Undoing /\ "give_up" \in Executing \cup Undoing
  BY DEF Undoing
<1> QED
  BY <1>1, <1>2, LoopType DEF Raise

LEMMA SnapshotSteps ==
  ASSUME SnapshotType
  PROVE  /\ \A p \in Phase : SetPhase(p) => SnapshotType'
         /\ \A w \in Workload, l \in Lifecycle : SetWorkload(w, l) => SnapshotType'
BY DEF SnapshotType, SetPhase, SetWorkload, OperationType

(***************************************************************************)
(* Type correctness                                                        *)
(***************************************************************************)
WorldType ==
  /\ handler \in {Free} \cup [target : Workload, want : SUBSET Workload,
                               profile : Profile \cup {None}]
  /\ container \in [Workload -> {"stopped", "loading", "healthy"}]
  /\ fresh \in SUBSET Workload /\ overlooked \in SUBSET Workload
  /\ nextId \in 1..(MaxOps + 1)
  /\ restarts \in 0..MaxFaults /\ crashes \in 0..MaxFaults

LEMMA TypeParts == TypeOK <=> SnapshotType /\ ThreadType /\ WorldType
BY DEF TypeOK, SnapshotType, ThreadType, WorldType

LEMMA TypePartsNext == TypeOK' <=> SnapshotType' /\ ThreadType' /\ WorldType'
BY DEF TypeOK, SnapshotType, ThreadType, WorldType

LEMMA ContainerSteps ==
  ASSUME WorldType, NEW w \in Workload, UNCHANGED <<handler, bounds>>,
         StopContainer(w) \/ StartContainer(w)
  PROVE  WorldType'
BY DEF WorldType, StopContainer, StartContainer, bounds, Resident

LEMMA OverlookType ==
  ASSUME WorldType, NEW w \in Workload, NEW u, Overlook(w, u),
         UNCHANGED <<handler, container, fresh, bounds>>
  PROVE  WorldType'
BY DEF WorldType, Overlook, bounds

LEMMA WorldUnchanged ==
  ASSUME WorldType, UNCHANGED world
  PROVE  WorldType'
BY DEF WorldType, world, bounds

LEMMA SnapshotUnchanged ==
  ASSUME SnapshotType, UNCHANGED snapshot
  PROVE  SnapshotType'
BY DEF SnapshotType, snapshot

LEMMA ThreadUnchanged ==
  ASSUME ThreadType, UNCHANGED thread
  PROVE  ThreadType'
BY DEF ThreadType, thread

LEMMA PlanType ==
  /\ \A p \in Profile : Plan[p] \in SUBSET Workload
  /\ Profile = {"asr_only", "tts_only"}
BY DEF Plan, Profile, Workload

LEMMA BootType ==
  ASSUME NEW c
  PROVE  /\ Boot(c).profile \in Profile
         /\ Boot(c).desired \in SUBSET Workload
         /\ Boot(c).lifecycle \in [Workload -> Lifecycle]
BY PlanType DEF Boot, Lifecycle

LEMMA InitType == ASSUME ConstantsAssumption, Init PROVE TypeOK
<1>1. SnapshotType
  BY BootType DEF Init, SnapshotType, NoOp, OperationType, None
<1>2. ThreadType
  BY DEF Init, ThreadType, NoArgs, ArgsType, None
<1>3. WorldType
  BY DEF Init, WorldType, BootOverlooks, Free, None, ConstantsAssumption
<1> QED
  BY <1>1, <1>2, <1>3, TypeParts

LEMMA RestartType == ASSUME ConstantsAssumption, TypeOK, Restart PROVE TypeOK'
<1>1. SnapshotType'
  BY BootType DEF Restart, SnapshotType, NoOp, OperationType, None
<1>2. ThreadType'
  BY DEF Restart, ThreadType, NoArgs, ArgsType, None
<1>3. WorldType'
  <2>1. restarts' \in 0..MaxFaults
    BY DEF Restart, TypeOK, ConstantsAssumption
  <2> QED
    BY <2>1 DEF Restart, TypeOK, WorldType, BootOverlooks, Free
<1> QED
  BY <1>1, <1>2, <1>3, TypeParts, TypePartsNext

(* Creating an operation, with or without its thread. *)
LEMMA NewOperationType ==
  ASSUME ConstantsAssumption, TypeOK,
         NEW a \in {"reconcile", "reset"}, NEW g \in Profile \cup Workload,
         NEW h \in Phase, NewOperation(a, g, h)
  PROVE  /\ operation' \in OperationType /\ nextId \in OpId
         /\ nextId' \in 1..(MaxOps + 1) /\ fresh' \in SUBSET Workload
BY DEF NewOperation, TypeOK, OperationType, OpId, ConstantsAssumption

LEMMA StartOperationType ==
  ASSUME ConstantsAssumption, TypeOK,
         NEW a \in {"reconcile", "reset"}, NEW g \in Profile \cup Workload,
         NEW S \in SUBSET Workload, NEW p \in Profile \cup {None},
         NEW f \in SUBSET Workload, StartOperation(a, g, S, p, f)
  PROVE  /\ SnapshotType' /\ ThreadType'
         /\ nextId' \in 1..(MaxOps + 1) /\ fresh' \in SUBSET Workload
<1>1. NewOperation(a, g, "queued") /\ "queued" \in Phase
  BY DEF StartOperation, Phase
<1>2. /\ operation' \in OperationType /\ nextId \in OpId
      /\ nextId' \in 1..(MaxOps + 1) /\ fresh' \in SUBSET Workload
  BY <1>1, NewOperationType
<1>3. SnapshotType'
  BY <1>2 DEF StartOperation, SnapshotType, TypeOK
<1>4. ThreadType'
  <2>1. CASE UNCHANGED thread
    BY <2>1, TypeParts, TypePartsNext, ThreadUnchanged
  <2>2. CASE ~UNCHANGED thread
    <3>1. /\ pc' = [pc EXCEPT ![nextId] = "probe"]
          /\ args' = [args EXCEPT ![nextId] =
               [want |-> S, profile |-> p, force |-> f,
                prevDesired |-> desired, prevProfile |-> profile,
                prevReady |-> lastReady]]
          /\ todo' = [todo EXCEPT ![nextId] = Workload]
          /\ mark' = mark
      BY <2>2 DEF StartOperation
    <3>2. "probe" \in Executing
      BY DEF Executing
    <3>3. [want |-> S, profile |-> p, force |-> f,
           prevDesired |-> desired, prevProfile |-> profile,
           prevReady |-> lastReady] \in ArgsType
      BY DEF ArgsType, TypeOK
    <3> QED
      BY <3>1, <3>2, <3>3, <1>2 DEF ThreadType, TypeOK
  <2> QED
    BY <2>1, <2>2
<1> QED
  BY <1>2, <1>3, <1>4

LEMMA ReconcileType ==
  ASSUME ConstantsAssumption, TypeOK, NEW p \in Profile, Reconcile(p)
  PROVE  TypeOK'
<1>1. CASE AnswerAlreadyReady(p)
  <2>1. NewOperation("reconcile", p, "ready") /\ "ready" \in Phase
    BY <1>1 DEF AnswerAlreadyReady, Phase, Terminal
  <2>2. /\ operation' \in OperationType
        /\ nextId' \in 1..(MaxOps + 1) /\ fresh' \in SUBSET Workload
    BY <2>1, NewOperationType
  <2>3. SnapshotType'
    BY <1>1, <2>2 DEF AnswerAlreadyReady, SnapshotType, TypeOK
  <2>4. ThreadType'
    BY <1>1, TypeParts, TypePartsNext, ThreadUnchanged DEF AnswerAlreadyReady
  <2> QED
    BY <2>2, <2>3, <2>4, TypeParts, TypePartsNext DEF WorldType, Reconcile, TypeOK
<1>2. CASE StartOperation("reconcile", p, Plan[p], p, {})
  <2>1. /\ SnapshotType' /\ ThreadType'
        /\ nextId' \in 1..(MaxOps + 1) /\ fresh' \in SUBSET Workload
    <3>1. /\ p \in Profile \cup Workload /\ p \in Profile \cup {None}
          /\ Plan[p] \in SUBSET Workload /\ {} \in SUBSET Workload
          /\ "reconcile" \in {"reconcile", "reset"}
      BY PlanType
    <3> QED
      BY <1>2, <3>1, StartOperationType
  <2> QED
    BY <2>1, TypeParts, TypePartsNext DEF WorldType, Reconcile, TypeOK
<1> QED
  BY <1>1, <1>2 DEF Reconcile

LEMMA ResetReadType ==
  ASSUME ConstantsAssumption, TypeOK, NEW w \in Workload, ResetRead(w)
  PROVE  TypeOK'
<1>1. ResetWant(w) \in SUBSET Workload
  BY PlanType DEF ResetWant, TypeOK, Workload, Profile
<1>2. ProfileFor(ResetWant(w)) \in Profile \cup {None}
  BY DEF ProfileFor
<1>3. WorldType'
  BY <1>1, <1>2 DEF ResetRead, WorldType, TypeOK, bounds
<1> QED
  BY <1>3, TypeParts, TypePartsNext, SnapshotUnchanged, ThreadUnchanged DEF ResetRead

LEMMA ResetSubmitType ==
  ASSUME ConstantsAssumption, TypeOK, ResetSubmit
  PROVE  TypeOK'
<1>1. /\ handler.target \in Workload /\ handler.want \in SUBSET Workload
      /\ handler.profile \in Profile \cup {None}
      /\ {handler.target} \in SUBSET Workload
  BY DEF TypeOK, ResetSubmit
<1>2. handler' = Free /\ UNCHANGED <<container, overlooked, restarts, crashes>>
  BY DEF ResetSubmit
<1>3. CASE UNCHANGED <<snapshot, thread, fresh, nextId>>
  <2>1. WorldType'
    BY <1>2, <1>3 DEF WorldType, TypeOK
  <2> QED
    BY <1>3, <2>1, TypeParts, TypePartsNext, SnapshotUnchanged, ThreadUnchanged
<1>4. CASE StartOperation("reset", handler.target, handler.want,
                          handler.profile, {handler.target})
  <2>1. /\ SnapshotType' /\ ThreadType'
        /\ nextId' \in 1..(MaxOps + 1) /\ fresh' \in SUBSET Workload
    BY <1>1, <1>4, StartOperationType
  <2>2. WorldType'
    BY <1>2, <2>1 DEF WorldType, TypeOK
  <2> QED
    BY <2>1, <2>2, TypeParts, TypePartsNext
<1> QED
  BY <1>3, <1>4 DEF ResetSubmit

(* The steps of the operation thread. *)
LEMMA ThreadStepType ==
  ASSUME TypeOK, NEW t \in OpId, ThreadStep(t)
  PROVE  TypeOK'
<1> USE TypeParts, TypePartsNext
<1> DEFINE Label == Executing \cup Undoing
<1>1. Label = {"probe", "drain", "mark_draining", "stop", "mark_stopped",
               "release", "reprobe", "announce", "mark_starting", "start",
               "warm", "mark_warming", "poll", "mark_ready", "commit", "finish",
               "undo_probe_stop", "undo_stop", "undo_probe_start", "undo_start",
               "undo_poll", "observe", "give_up"}
  BY DEF Executing, Undoing
<1>2. /\ todo[t] \in SUBSET Workload /\ mark[t] \in SUBSET Workload
      /\ args[t] \in ArgsType
  BY DEF TypeOK
<1>3. /\ args[t].want \in SUBSET Workload /\ args[t].prevDesired \in SUBSET Workload
      /\ ToStop(t) \in SUBSET Workload
      /\ args[t].profile \in Profile \cup {None}
      /\ args[t].prevProfile \in Profile \cup {None}
      /\ args[t].prevReady \in Profile \cup {None}
  BY <1>2 DEF ArgsType, ToStop
<1>4. StoreFails(t) => ThreadType'
  BY RaiseType DEF StoreFails
<1>5. {"draining", "releasing", "starting", "warming", "ready", "failed",
       "rolled_back"} \subseteq Phase
  BY DEF Phase, Terminal
<1>6. Lifecycle = {"stopped", "draining", "starting", "warming", "ready"}
  BY DEF Lifecycle
<1> HIDE DEF Label
<1>7. ASSUME Execute(t) PROVE TypeOK'
  <2>1. CASE Probe(t)
    <3>1. PICK w \in Workload :
            /\ Collect(t, w, Healthy(w))
            /\ Overlook(w, w \notin args[t].want \/ w \in args[t].force)
      BY <2>1, <1>2 DEF Probe
    <3>2. Healthy(w) \in BOOLEAN
      BY DEF Healthy
    <3>3. WorldType'
      BY <2>1, <3>1, <1>2, OverlookType DEF Probe
    <3>4. ThreadType'
      BY <3>1, <3>2, <1>2, CollectType
    <3> QED
      BY <2>1, <3>3, <3>4, <1>2, SnapshotUnchanged DEF Probe
  <2>2. CASE PlanStop(t)
    BY <2>2, <1>1, <1>3, LoopType, SnapshotUnchanged, WorldUnchanged
    DEF PlanStop, Label
  <2>3. CASE Drain(t)
    BY <2>3, <1>1, <1>4, <1>5, GotoType, SnapshotSteps, WorldUnchanged
    DEF Drain, Label
  <2>4. CASE MarkDraining(t)
    BY <2>4, <1>1, <1>2, <1>4, <1>6, GotoType, SnapshotSteps, WorldUnchanged
    DEF MarkDraining, Label
  <2>5. CASE Stop(t)
    BY <2>5, <1>1, <1>2, GotoType, SnapshotUnchanged, ContainerSteps DEF Stop, Label
  <2>6. CASE MarkStopped(t)
    BY <2>6, <1>1, <1>2, <1>4, <1>6, AdvanceType, SnapshotSteps, WorldUnchanged
    DEF MarkStopped, Label
  <2>7. CASE Release(t)
    BY <2>7, <1>1, <1>3, <1>4, <1>5, LoopType, SnapshotSteps, WorldUnchanged
    DEF Release, Label
  <2>8. CASE Reprobe(t)
    <3>1. \A w \in Workload : (~Healthy(w)) \in BOOLEAN
      BY DEF Healthy
    <3> QED
      BY <2>8, <3>1, <1>2, CollectType, SnapshotUnchanged, WorldUnchanged DEF Reprobe
  <2>9. CASE PlanStart(t)
    BY <2>9, <1>1, <1>2, LoopType, GotoType, SnapshotUnchanged, WorldUnchanged
    DEF PlanStart, Label
  <2>10. CASE Announce(t)
    BY <2>10, <1>1, <1>4, <1>5, GotoType, SnapshotSteps, WorldUnchanged
    DEF Announce, Label
  <2>11. CASE MarkStarting(t)
    BY <2>11, <1>1, <1>2, <1>4, <1>6, GotoType, SnapshotSteps, WorldUnchanged
    DEF MarkStarting, Label
  <2>12. CASE Start(t)
    BY <2>12, <1>1, <1>2, GotoType, SnapshotUnchanged, ContainerSteps DEF Start, Label
  <2>13. CASE Warm(t)
    BY <2>13, <1>1, <1>4, <1>5, GotoType, SnapshotSteps, WorldUnchanged
    DEF Warm, Label
  <2>14. CASE MarkWarming(t)
    BY <2>14, <1>1, <1>2, <1>4, <1>6, GotoType, SnapshotSteps, WorldUnchanged
    DEF MarkWarming, Label
  <2>15. CASE Poll(t)
    BY <2>15, <1>1, GotoType, SnapshotUnchanged, WorldUnchanged DEF Poll, Label
  <2>16. CASE MarkReady(t)
    BY <2>16, <1>1, <1>2, <1>4, <1>6, AdvanceType, SnapshotSteps, WorldUnchanged
    DEF MarkReady, Label
  <2>17. CASE Commit(t)
    <3>1. SnapshotType'
      BY <2>17, <1>3 DEF Commit, SnapshotType
    <3>2. UNCHANGED world
      BY <2>17 DEF Commit
    <3>3. ThreadType'
      BY <2>17, <1>1, <1>4, GotoType DEF Commit, Label
    <3> QED
      BY <3>1, <3>2, <3>3, WorldUnchanged
  <2>18. CASE Finish(t)
    BY <2>18, <1>4, <1>5, ExitType, SnapshotSteps, WorldUnchanged DEF Finish
  <2> QED
    BY <1>7, <2>1, <2>2, <2>3, <2>4, <2>5, <2>6, <2>7, <2>8, <2>9, <2>10,
       <2>11, <2>12, <2>13, <2>14, <2>15, <2>16, <2>17, <2>18 DEF Execute
<1>8. ASSUME Rollback(t) PROVE TypeOK'
  <2>1. CASE UndoProbeStop(t)
    <3>1. PICK w \in Workload :
            /\ Goto(t, "undo_stop") \/ Collect(t, w, FALSE)
            /\ Overlook(w, TRUE)
      BY <2>1, <1>2 DEF UndoProbeStop
    <3>2. WorldType'
      BY <2>1, <3>1, <1>2, OverlookType DEF UndoProbeStop
    <3>3. ThreadType'
      BY <3>1, <1>1, <1>2, GotoType, CollectType DEF Label
    <3> QED
      BY <2>1, <3>2, <3>3, <1>2, SnapshotUnchanged DEF UndoProbeStop
  <2>2. CASE UndoStop(t)
    BY <2>2, <1>1, <1>2, AdvanceType, SnapshotUnchanged, ContainerSteps
    DEF UndoStop, Label
  <2>3. CASE UndoStopsDone(t)
    BY <2>3, <1>1, <1>3, LoopType, SnapshotUnchanged, WorldUnchanged
    DEF UndoStopsDone, Label
  <2>4. CASE UndoProbeStart(t)
    BY <2>4, <1>1, <1>2, GotoType, CollectType, SnapshotUnchanged, WorldUnchanged
    DEF UndoProbeStart, Label
  <2>5. CASE UndoStart(t)
    BY <2>5, <1>1, <1>2, GotoType, SnapshotUnchanged, ContainerSteps
    DEF UndoStart, Label
  <2>6. CASE UndoPoll(t)
    BY <2>6, <1>1, <1>2, AdvanceType, SnapshotUnchanged, WorldUnchanged
    DEF UndoPoll, Label
  <2>7. CASE UndoStartsDone(t)
    BY <2>7, <1>1, LoopType, SnapshotUnchanged, WorldUnchanged
    DEF UndoStartsDone, Label
  <2>8. CASE Observe(t)
    <3>1. \A w \in Workload : Healthy(w) \in BOOLEAN
      BY DEF Healthy
    <3> QED
      BY <2>8, <3>1, <1>2, CollectType, SnapshotUnchanged, WorldUnchanged DEF Observe
  <2>9. CASE PublishRollback(t)
    <3>1. SnapshotType'
      BY <2>9, <1>3, <1>5, <1>6 DEF PublishRollback, SnapshotType, OperationType
    <3>2. UNCHANGED world
      BY <2>9 DEF PublishRollback
    <3>3. ThreadType'
      BY <2>9, <1>4, ExitType DEF PublishRollback
    <3> QED
      BY <3>1, <3>2, <3>3, WorldUnchanged
  <2>10. CASE GiveUp(t)
    BY <2>10, <1>5, ExitType, SnapshotSteps, WorldUnchanged DEF GiveUp
  <2> QED
    BY <1>8, <2>1, <2>2, <2>3, <2>4, <2>5, <2>6, <2>7, <2>8, <2>9, <2>10
    DEF Rollback
<1>9. ASSUME CommandFails(t) PROVE TypeOK'
  <2>1. WorldType'
    <3>1. UNCHANGED <<handler, bounds>>
      BY <1>9 DEF CommandFails
    <3>2. CASE UNCHANGED <<container, fresh, overlooked>>
      BY <3>1, <3>2, WorldUnchanged DEF world
    <3> QED
      BY <1>9, <1>2, <3>1, <3>2, ContainerSteps DEF CommandFails
  <2> QED
    BY <1>9, <2>1, RaiseType, SnapshotUnchanged DEF CommandFails
<1>10. ASSUME StartTimeout(t) PROVE TypeOK'
  BY <1>10, RaiseType, SnapshotUnchanged, WorldUnchanged DEF StartTimeout
<1> QED
  BY <1>7, <1>8, <1>9, <1>10 DEF ThreadStep

LEMMA EnvironmentType ==
  ASSUME ConstantsAssumption, TypeOK, NEW w \in Workload,
         BecomeHealthy(w) \/ Crash(w)
  PROVE  TypeOK'
<1>1. WorldType'
  BY DEF TypeOK, WorldType, BecomeHealthy, Crash, bounds, ConstantsAssumption
<1>2. UNCHANGED <<snapshot, thread>>
  BY DEF BecomeHealthy, Crash
<1> QED
  BY <1>1, <1>2, TypeParts, TypePartsNext, SnapshotUnchanged, ThreadUnchanged

LEMMA NextType == ASSUME TypeOK, [Next]_vars PROVE TypeOK'
<1>1. CASE UNCHANGED vars
  BY <1>1, TypeParts, TypePartsNext, SnapshotUnchanged, ThreadUnchanged, WorldUnchanged
  DEF vars, world
<1>2. CASE Next
  BY <1>2, ConstantsAssumption, ReconcileType, ResetReadType, ResetSubmitType,
     RestartType, EnvironmentType, ThreadStepType
  DEF Next
<1> QED
  BY <1>1, <1>2

(* Every reachable state is well typed, whatever the policy, the bounds and *)
(* the failures allowed.                                                    *)
THEOREM TypeCorrect == Spec => []TypeOK
<1>1. Init => TypeOK
  BY InitType, ConstantsAssumption
<1>2. TypeOK /\ [Next]_vars => TypeOK'
  BY NextType
<1> QED
  BY <1>1, <1>2, PTL DEF Spec

(***************************************************************************)
(* Serialization                                                           *)
(***************************************************************************)

(* What a step of thread t does to the thread tables: t itself goes to a    *)
(* label of the set L or ends, and nothing else moves.                      *)
Moves(t, L) ==
  /\ \A s \in OpId \ {t} : /\ pc'[s] = pc[s] /\ args'[s] = args[s]
                           /\ todo'[s] = todo[s] /\ mark'[s] = mark[s]
  /\ pc'[t] \in L
  /\ pc'[t] # "off" => args'[t] = args[t]

LEMMA GotoMoves ==
  ASSUME ThreadType, NEW t \in OpId, NEW l, Goto(t, l)
  PROVE  Moves(t, {l}) /\ todo'[t] = todo[t] /\ mark'[t] = mark[t]
BY DEF ThreadType, Goto, Moves

LEMMA LoopMoves ==
  ASSUME ThreadType, NEW t \in OpId, NEW l, NEW S, Loop(t, l, S)
  PROVE  Moves(t, {l}) /\ todo'[t] = S /\ mark'[t] = {}
BY DEF ThreadType, Loop, Moves

LEMMA AdvanceMoves ==
  ASSUME ThreadType, NEW t \in OpId, NEW w, NEW l, NEW m, Advance(t, w, l, m)
  PROVE  /\ Moves(t, {l, m})
         /\ pc'[t] = IF todo[t] = {w} THEN m ELSE l
         /\ todo'[t] = todo[t] \ {w} /\ mark'[t] = mark[t]
BY DEF ThreadType, Advance, Moves

LEMMA CollectMoves ==
  ASSUME ThreadType, NEW t \in OpId, NEW w, NEW k, Collect(t, w, k)
  PROVE  /\ Moves(t, {pc[t]})
         /\ todo'[t] = todo[t] \ {w}
         /\ mark'[t] = IF k THEN mark[t] \cup {w} ELSE mark[t]
BY DEF ThreadType, Collect, Moves

(* Collecting a probed workload, split on what the probe said. *)
LEMMA CollectCases ==
  ASSUME ThreadType, NEW t \in OpId, NEW w, NEW k \in BOOLEAN, Collect(t, w, k)
  PROVE  /\ pc'[t] = pc[t] /\ args'[t] = args[t] /\ todo'[t] = todo[t] \ {w}
         /\ k => mark'[t] = mark[t] \cup {w}
         /\ ~k => mark'[t] = mark[t]
BY DEF ThreadType, Collect

LEMMA ExitMoves ==
  ASSUME ThreadType, NEW t \in OpId, Exit(t)
  PROVE  Moves(t, {"off"})
BY DEF ThreadType, Exit, Moves

LEMMA RaiseMoves ==
  ASSUME ThreadType, NEW t \in OpId, Raise(t)
  PROVE  \/ /\ pc[t] \in Executing /\ Moves(t, {"undo_probe_stop"})
            /\ todo'[t] = Workload \ args[t].prevDesired /\ mark'[t] = {}
         \/ /\ pc[t] \notin Executing /\ Moves(t, {"give_up"})
<1>1. CASE pc[t] \in Executing
  BY <1>1, LoopMoves DEF Raise
<1>2. CASE pc[t] \notin Executing
  BY <1>2, LoopMoves DEF Raise
<1> QED
  BY <1>1, <1>2

(* How a step changes the published phase of the operation it works for. *)
Advances(t) ==
  /\ operation'.id = operation.id
  /\ \/ /\ pc'[t] \in Executing \cup Undoing
        /\ PhaseAt(pc'[t], operation'.phase)
     \/ pc'[t] = "off" /\ operation'.phase \in Terminal
  /\ \/ operation'.phase = operation.phase
     \/ /\ operation.phase \notin Terminal
        /\ PhaseRank[operation.phase] <= PhaseRank[operation'.phase]
  /\ \/ operation'.phase # "rolled_back" /\ desired' = desired
     \/ operation'.phase = "rolled_back" /\ desired' = args[t].prevDesired

LEMMA PhaseSet ==
  ASSUME TypeOK, NEW p \in Phase, SetPhase(p)
  PROVE  operation'.id = operation.id /\ operation'.phase = p /\ desired' = desired
BY DEF TypeOK, OperationType, SetPhase

LEMMA ThreadAdvances ==
  ASSUME TypeOK, ~StoreMayFail, NEW t \in OpId, ThreadStep(t),
         PhaseAt(pc[t], operation.phase)
  PROVE  /\ Live(t) /\ Moves(t, Executing \cup Undoing \cup {"off"}) /\ Advances(t)
         /\ UNCHANGED <<handler, bounds>>
<1>1. ThreadType
  BY TypeParts
<1>2. ~StoreFails(t)
  BY DEF StoreFails
<1>3. Phase = {"queued", "draining", "releasing", "starting", "warming",
               "ready", "failed", "rolled_back"}
  BY DEF Phase, Terminal
<1>4. \A l \in Executing \cup Undoing : l # "off"
  BY DEF Executing, Undoing
<1>5. Raise(t) /\ UNCHANGED snapshot /\ pc[t] \in Executing \cup Undoing
        => /\ Moves(t, Executing \cup Undoing \cup {"off"}) /\ Advances(t)
  BY <1>1, RaiseMoves
  DEF Moves, Advances, PhaseAt, Executing, Undoing, snapshot, Phase, Terminal
<1>6. ASSUME Execute(t)
      PROVE  /\ Live(t) /\ Moves(t, Executing \cup Undoing \cup {"off"})
             /\ Advances(t) /\ UNCHANGED <<handler, bounds>>
  <2> USE <1>1, <1>2, <1>3 DEF Moves, Advances, PhaseAt, Executing, Undoing,
          PhaseRank, Terminal, Live, world
  <2>1. CASE Probe(t)
    BY <2>1, CollectMoves DEF Probe, snapshot
  <2>2. CASE PlanStop(t)
    BY <2>2, LoopMoves DEF PlanStop, snapshot
  <2>3. CASE Drain(t)
    BY <2>3, GotoMoves, PhaseSet DEF Drain
  <2>4. CASE MarkDraining(t)
    BY <2>4, GotoMoves DEF MarkDraining, SetWorkload
  <2>5. CASE Stop(t)
    BY <2>5, GotoMoves DEF Stop, snapshot
  <2>6. CASE MarkStopped(t)
    BY <2>6, AdvanceMoves DEF MarkStopped, SetWorkload
  <2>7. CASE Release(t)
    BY <2>7, LoopMoves, PhaseSet DEF Release
  <2>8. CASE Reprobe(t)
    BY <2>8, CollectMoves DEF Reprobe, snapshot
  <2>9. CASE PlanStart(t)
    BY <2>9, LoopMoves, GotoMoves DEF PlanStart, snapshot
  <2>10. CASE Announce(t)
    BY <2>10, GotoMoves, PhaseSet DEF Announce
  <2>11. CASE MarkStarting(t)
    BY <2>11, GotoMoves DEF MarkStarting, SetWorkload
  <2>12. CASE Start(t)
    BY <2>12, GotoMoves DEF Start, snapshot
  <2>13. CASE Warm(t)
    BY <2>13, GotoMoves, PhaseSet DEF Warm
  <2>14. CASE MarkWarming(t)
    BY <2>14, GotoMoves DEF MarkWarming, SetWorkload
  <2>15. CASE Poll(t)
    BY <2>15, GotoMoves DEF Poll, snapshot
  <2>16. CASE MarkReady(t)
    BY <2>16, AdvanceMoves DEF MarkReady, SetWorkload
  <2>17. CASE Commit(t)
    BY <2>17, GotoMoves DEF Commit
  <2>18. CASE Finish(t)
    BY <2>18, ExitMoves, PhaseSet DEF Finish
  <2> QED
    BY <1>6, <2>1, <2>2, <2>3, <2>4, <2>5, <2>6, <2>7, <2>8, <2>9, <2>10,
       <2>11, <2>12, <2>13, <2>14, <2>15, <2>16, <2>17, <2>18 DEF Execute
<1>7. ASSUME Rollback(t)
      PROVE  /\ Live(t) /\ Moves(t, Executing \cup Undoing \cup {"off"})
             /\ Advances(t) /\ UNCHANGED <<handler, bounds>>
  <2> USE <1>1, <1>2, <1>3 DEF Moves, Advances, PhaseAt, Executing, Undoing,
          PhaseRank, Terminal, Live, world
  <2>1. CASE UndoProbeStop(t)
    BY <2>1, GotoMoves, CollectMoves DEF UndoProbeStop, snapshot
  <2>2. CASE UndoStop(t)
    BY <2>2, AdvanceMoves DEF UndoStop, snapshot
  <2>3. CASE UndoStopsDone(t)
    BY <2>3, LoopMoves DEF UndoStopsDone, snapshot
  <2>4. CASE UndoProbeStart(t)
    BY <2>4, GotoMoves, CollectMoves DEF UndoProbeStart, snapshot
  <2>5. CASE UndoStart(t)
    BY <2>5, GotoMoves DEF UndoStart, snapshot
  <2>6. CASE UndoPoll(t)
    BY <2>6, AdvanceMoves DEF UndoPoll, snapshot
  <2>7. CASE UndoStartsDone(t)
    BY <2>7, LoopMoves DEF UndoStartsDone, snapshot
  <2>8. CASE Observe(t)
    BY <2>8, CollectMoves DEF Observe, snapshot
  <2>9. CASE PublishRollback(t)
    <3>1. operation'.id = operation.id /\ operation'.phase = "rolled_back"
      BY <2>9 DEF PublishRollback, TypeOK, OperationType
    <3> QED
      BY <2>9, <3>1, ExitMoves DEF PublishRollback
  <2>10. CASE GiveUp(t)
    BY <2>10, ExitMoves, PhaseSet DEF GiveUp
  <2> QED
    BY <1>7, <2>1, <2>2, <2>3, <2>4, <2>5, <2>6, <2>7, <2>8, <2>9, <2>10
    DEF Rollback
<1>8. CASE CommandFails(t)
  <2>1. pc[t] \in Executing \cup Undoing
    BY <1>8 DEF CommandFails, Executing, Undoing
  <2> QED
    BY <1>8, <1>4, <1>5, <2>1 DEF CommandFails, Live
<1>9. CASE StartTimeout(t)
  <2>1. pc[t] \in Executing \cup Undoing
    BY <1>9 DEF StartTimeout, Executing, Undoing
  <2> QED
    BY <1>9, <1>4, <1>5, <2>1 DEF StartTimeout, Live, world
<1> QED
  BY <1>6, <1>7, <1>8, <1>9 DEF ThreadStep

LEMMA OpIdRange == OpId = 1..MaxOps /\ 0 \notin OpId
BY ConstantsAssumption DEF OpId

LEMMA PhaseAtActive ==
  ASSUME NEW l \in Executing \cup Undoing, NEW p, PhaseAt(l, p)
  PROVE  p \in Phase \ Terminal
BY DEF PhaseAt, Phase, Terminal, Executing, Undoing

LEMMA LiveActive ==
  ASSUME TypeOK, SerialInv, NEW t \in OpId, Live(t)
  PROVE  operation.id = t /\ Active
<1>1. pc[t] \in Executing \cup Undoing
  BY DEF TypeOK, Live
<1> QED
  BY <1>1, PhaseAtActive, OpIdRange DEF SerialInv, Active, NoOp

(* A step of a live thread keeps the invariant. *)
LEMMA ThreadSerial ==
  ASSUME TypeOK, TypeOK', SerialInv, ~StoreMayFail, NEW t \in OpId, ThreadStep(t)
  PROVE  SerialInv'
<1>1. Live(t)
  <2>1. pc[t] # "off"
    BY DEF ThreadStep, Execute, Rollback, Probe, PlanStop, Drain, MarkDraining,
           Stop, MarkStopped, Release, Reprobe, PlanStart, Announce, MarkStarting,
           Start, Warm, MarkWarming, Poll, MarkReady, Commit, Finish,
           UndoProbeStop, UndoStop, UndoStopsDone, UndoProbeStart, UndoStart,
           UndoPoll, UndoStartsDone, Observe, PublishRollback, GiveUp,
           CommandFails, StartTimeout
  <2> QED
    BY <2>1 DEF Live
<1>2. operation.id = t /\ PhaseAt(pc[t], operation.phase)
  BY <1>1 DEF SerialInv
<1>3. /\ Moves(t, Executing \cup Undoing \cup {"off"}) /\ Advances(t)
      /\ UNCHANGED bounds
  BY <1>2, ThreadAdvances
<1>4. \A s \in OpId \ {t} : ~Live(s) /\ ~Live(s)'
  BY <1>2, <1>3 DEF SerialInv, Live, Moves
<1>5. operation'.id = t /\ operation.id < nextId' /\ t # 0
  BY <1>2, <1>3, OpIdRange DEF Advances, bounds, SerialInv
<1>6. "off" \notin Executing \cup Undoing
  BY DEF Executing, Undoing
<1>7. CASE pc'[t] = "off"
  <2>1. ~Active'
    BY <1>3, <1>6, <1>7 DEF Advances, Active
  <2> QED
    BY <1>2, <1>4, <1>5, <1>7, <2>1 DEF SerialInv, Live
<1>8. CASE pc'[t] # "off"
  BY <1>2, <1>3, <1>4, <1>5, <1>8 DEF SerialInv, Live, Advances
<1> QED
  BY <1>7, <1>8

(* A new operation starts only when no thread is left. *)
LEMMA StartSerial ==
  ASSUME TypeOK, SerialInv, ~StoreMayFail, ~Active,
         NEW a, NEW g, NEW S, NEW p, NEW f, StartOperation(a, g, S, p, f)
  PROVE  /\ SerialInv' /\ operation'.id # operation.id
         /\ \A t \in OpId : ~Live(t)
         /\ nextId \in OpId /\ operation'.id = nextId
         /\ \A t \in OpId : Live(t)' <=> t = nextId
<1>1. \A t \in OpId : ~Live(t)
  BY LiveActive
<1>2. /\ nextId \in OpId /\ nextId' = nextId + 1
      /\ operation'.id = nextId /\ operation'.phase = "queued"
  BY ConstantsAssumption DEF StartOperation, NewOperation, TypeOK, OpId
<1>3. pc' = [pc EXCEPT ![nextId] = "probe"]
  BY DEF StartOperation
<1>4. pc'[nextId] = "probe" /\ \A t \in OpId \ {nextId} : pc'[t] = "off"
  BY <1>1, <1>2, <1>3 DEF TypeOK, Live
<1>5. PhaseAt("probe", "queued")
  BY DEF PhaseAt
<1>6. operation'.id < nextId'
  BY <1>2 DEF OpId, ConstantsAssumption
<1>7. SerialInv'
  BY <1>2, <1>4, <1>5, <1>6, OpIdRange DEF SerialInv, Live
<1>8. operation.id # nextId
  BY <1>2, ConstantsAssumption DEF SerialInv, TypeOK, OperationType, OpId
<1> QED
  BY <1>1, <1>2, <1>4, <1>7, <1>8 DEF Live

LEMMA AlreadyReadySerial ==
  ASSUME TypeOK, SerialInv, ~Active, NEW p \in Profile, AnswerAlreadyReady(p)
  PROVE  /\ SerialInv' /\ operation'.id # operation.id /\ operation'.phase = "ready"
         /\ \A t \in OpId : ~Live(t) /\ ~Live(t)'
<1>1. \A t \in OpId : ~Live(t)
  BY LiveActive
<1>2. /\ nextId \in OpId /\ nextId' = nextId + 1
      /\ operation'.id = nextId /\ operation'.phase = "ready" /\ pc' = pc
  BY ConstantsAssumption
  DEF AnswerAlreadyReady, NewOperation, TypeOK, OpId, thread
<1>3. ~Active'
  BY <1>2 DEF Active, Terminal
<1>4. operation'.id < nextId' /\ operation.id # nextId
  BY <1>2, ConstantsAssumption DEF SerialInv, TypeOK, OperationType, OpId
<1> QED
  BY <1>1, <1>2, <1>3, <1>4, OpIdRange DEF SerialInv, Live

LEMMA SerialUnchanged ==
  ASSUME SerialInv, UNCHANGED <<operation, pc, nextId>>
  PROVE  SerialInv'
BY DEF SerialInv, Active, Live

LEMMA InitSerial == ASSUME ConstantsAssumption, Init PROVE SerialInv
BY DEF Init, SerialInv, NoOp, Active, Live, OpId

LEMMA RestartSerial == ASSUME TypeOK, Restart PROVE SerialInv'
BY ConstantsAssumption DEF Restart, SerialInv, NoOp, Active, Live, OpId, TypeOK

LEMMA NextSerial ==
  ASSUME ~StoreMayFail, TypeOK, TypeOK', SerialInv, [Next]_vars
  PROVE  SerialInv'
<1>1. CASE UNCHANGED vars
  BY <1>1, SerialUnchanged DEF vars, snapshot, thread, bounds
<1>2. ASSUME NEW p \in Profile, Reconcile(p) PROVE SerialInv'
  BY <1>2, StartSerial, AlreadyReadySerial DEF Reconcile
<1>3. ASSUME NEW w \in Workload, ResetRead(w) \/ BecomeHealthy(w) \/ Crash(w)
      PROVE  SerialInv'
  BY <1>3, SerialUnchanged
  DEF ResetRead, BecomeHealthy, Crash, snapshot, thread, bounds
<1>4. CASE ResetSubmit
  <2>1. CASE UNCHANGED <<snapshot, thread, fresh, nextId>>
    BY <2>1, SerialUnchanged DEF snapshot, thread
  <2> QED
    BY <1>4, <2>1, StartSerial DEF ResetSubmit
<1> QED
  BY <1>1, <1>2, <1>3, <1>4, RestartSerial, ThreadSerial DEF Next

(* As long as the state file can be written, operations are serialized: a   *)
(* running thread always works for the published, unfinished operation.     *)
THEOREM OperationsSerialized == ASSUME ~StoreMayFail PROVE Spec => []Serialized
<1>1. Init => TypeOK /\ SerialInv
  BY InitType, InitSerial, ConstantsAssumption
<1>2. TypeOK /\ SerialInv /\ [Next]_vars => (TypeOK /\ SerialInv)'
  BY NextType, NextSerial
<1>3. TypeOK /\ SerialInv => Serialized
  BY LiveActive DEF Serialized, SerialInv
<1> QED
  BY <1>1, <1>2, <1>3, PTL DEF Spec

(***************************************************************************)
(* What a step may do to an operation                                      *)
(***************************************************************************)

LEMMA ThreadStepForward ==
  ASSUME TypeOK, SerialInv, ~StoreMayFail, NEW t \in OpId, ThreadStep(t)
  PROVE  /\ Live(t) /\ operation.id = t /\ Active
         /\ Moves(t, Executing \cup Undoing \cup {"off"}) /\ Advances(t)
         /\ UNCHANGED <<handler, bounds>>
<1>1. pc[t] # "off"
  BY DEF ThreadStep, Execute, Rollback, Probe, PlanStop, Drain, MarkDraining,
         Stop, MarkStopped, Release, Reprobe, PlanStart, Announce, MarkStarting,
         Start, Warm, MarkWarming, Poll, MarkReady, Commit, Finish,
         UndoProbeStop, UndoStop, UndoStopsDone, UndoProbeStart, UndoStart,
         UndoPoll, UndoStartsDone, Observe, PublishRollback, GiveUp,
         CommandFails, StartTimeout
<1>2. PhaseAt(pc[t], operation.phase)
  BY <1>1 DEF SerialInv, Live
<1> QED
  BY <1>1, <1>2, LiveActive, ThreadAdvances DEF Live

LEMMA NextForward ==
  ASSUME ~StoreMayFail, TypeOK, SerialInv, [Next]_vars,
         operation # NoOp, operation'.id = operation.id
  PROVE  \/ operation'.phase = operation.phase
         \/ /\ operation.phase \notin Terminal
            /\ PhaseRank[operation.phase] <= PhaseRank[operation'.phase]
<1>1. CASE UNCHANGED operation
  BY <1>1
<1>2. ASSUME NEW p \in Profile, Reconcile(p) PROVE FALSE
  BY <1>2, StartSerial, AlreadyReadySerial DEF Reconcile
<1>3. CASE ResetSubmit
  BY <1>1, <1>3, StartSerial DEF ResetSubmit, snapshot
<1>4. CASE Restart
  <2>1. operation'.id = 0
    BY <1>4 DEF Restart, NoOp
  <2> QED
    BY <2>1 DEF SerialInv
<1>5. ASSUME NEW t \in OpId, ThreadStep(t)
      PROVE  \/ operation'.phase = operation.phase
             \/ /\ operation.phase \notin Terminal
                /\ PhaseRank[operation.phase] <= PhaseRank[operation'.phase]
  BY <1>5, ThreadStepForward DEF Advances
<1>6. ASSUME NEW w \in Workload, ResetRead(w) \/ BecomeHealthy(w) \/ Crash(w)
      PROVE  UNCHANGED operation
  BY <1>6 DEF ResetRead, BecomeHealthy, Crash, snapshot
<1> QED
  BY <1>1, <1>2, <1>3, <1>4, <1>5, <1>6 DEF Next, vars, snapshot

(* An operation never goes back to an earlier phase and never leaves a      *)
(* terminal one, as long as the state file can be written.                  *)
THEOREM PhasesForward == ASSUME ~StoreMayFail PROVE Spec => PhaseForward
<1>1. Init => TypeOK /\ SerialInv
  BY InitType, InitSerial, ConstantsAssumption
<1>2. TypeOK /\ SerialInv /\ [Next]_vars => (TypeOK /\ SerialInv)'
  BY NextType, NextSerial
<1>3. TypeOK /\ SerialInv /\ [Next]_vars =>
        [ operation # NoOp /\ operation'.id = operation.id =>
            \/ operation'.phase = operation.phase
            \/ /\ operation.phase \notin Terminal
               /\ PhaseRank[operation.phase] <= PhaseRank[operation'.phase] ]_vars
  BY NextForward
<1> QED
  BY <1>1, <1>2, <1>3, PTL DEF Spec, PhaseForward

(***************************************************************************)
(* Refinement of the operation ledger                                      *)
(***************************************************************************)

LEMMA StatusValues ==
  /\ operation = NoOp => Status = "none"
  /\ operation # NoOp /\ operation.phase \in Terminal => Status = operation.phase
  /\ Active <=> Status = "active"
BY DEF Status, Active, Terminal

LEMMA StatusValuesNext ==
  /\ operation' = NoOp => Status' = "none"
  /\ operation' # NoOp /\ operation'.phase \in Terminal => Status' = operation'.phase
  /\ Active' <=> Status' = "active"
BY DEF Status, Active, Terminal

LEMMA LedgerInit == ASSUME ConstantsAssumption, Init PROVE Ledger!Init
<1>1. TypeOK /\ operation = NoOp /\ ~Active /\ nextId = 1
  BY InitType DEF Init, Active
<1> QED
  BY <1>1, StatusValues DEF Ledger!Init, TypeOK, NoOp

LEMMA LedgerUnchanged ==
  ASSUME UNCHANGED <<operation, nextId, desired, args>>
  PROVE  UNCHANGED Ledger!vars
BY DEF Ledger!vars, Status, Active

LEMMA LedgerStart ==
  ASSUME TypeOK, TypeOK', SerialInv, ~StoreMayFail, ~Active,
         NEW a, NEW g, NEW S, NEW p, NEW f, StartOperation(a, g, S, p, f)
  PROVE  Ledger!Next
<1>1. /\ nextId \in OpId /\ operation'.id = nextId /\ nextId' = nextId + 1
      /\ operation'.phase = "queued" /\ desired' = S /\ nextId <= MaxOps
      /\ args' = [args EXCEPT ![nextId] =
           [want |-> S, profile |-> p, force |-> f,
            prevDesired |-> desired, prevProfile |-> profile,
            prevReady |-> lastReady]]
  BY StartSerial DEF StartOperation, NewOperation
<1>2. Active'
  BY <1>1, OpIdRange DEF Active, Terminal, NoOp
<1>3. args'[operation'.id].prevDesired = desired
  BY <1>1 DEF TypeOK
<1>4. /\ (nextId - 1)' = (nextId - 1) + 1 /\ operation'.id = (nextId - 1) + 1
      /\ nextId - 1 < MaxOps
  BY <1>1, ConstantsAssumption DEF OpId
<1>5. S \in SUBSET Workload
  BY <1>1 DEF TypeOK
<1>6. Ledger!Accept(S)
  BY <1>1, <1>2, <1>3, <1>4, StatusValues, StatusValuesNext
  DEF Ledger!Accept, Ledger!Issue
<1> QED
  BY <1>5, <1>6 DEF Ledger!Next

LEMMA LedgerAlready ==
  ASSUME TypeOK, SerialInv, ~Active, NEW p \in Profile, AnswerAlreadyReady(p)
  PROVE  Ledger!Next
<1>1. /\ nextId \in OpId /\ operation'.id = nextId /\ nextId' = nextId + 1
      /\ operation'.phase = "ready" /\ desired' = desired /\ nextId <= MaxOps
  BY ConstantsAssumption
  DEF AnswerAlreadyReady, NewOperation, TypeOK, OpId
<1>2. operation' # NoOp /\ ~Active'
  BY <1>1, OpIdRange DEF Active, Terminal, NoOp
<1>3. /\ (nextId - 1)' = (nextId - 1) + 1 /\ operation'.id = (nextId - 1) + 1
      /\ nextId - 1 < MaxOps
  BY <1>1, ConstantsAssumption DEF OpId
<1>4. Status # "active" /\ Status' = "ready"
  BY <1>1, <1>2, StatusValues, StatusValuesNext DEF Terminal
<1>5. Ledger!AlreadyDone
  BY <1>1, <1>2, <1>3, <1>4 DEF Ledger!AlreadyDone, Ledger!Issue
<1> QED
  BY <1>5 DEF Ledger!Next

LEMMA LedgerThread ==
  ASSUME TypeOK, TypeOK', SerialInv, SerialInv', ~StoreMayFail,
         NEW t \in OpId, ThreadStep(t)
  PROVE  Ledger!Next \/ UNCHANGED Ledger!vars
<1>1. /\ Live(t) /\ operation.id = t /\ Active
      /\ Moves(t, Executing \cup Undoing \cup {"off"}) /\ Advances(t)
      /\ nextId' = nextId
  BY ThreadStepForward DEF bounds
<1>2. operation'.id = operation.id /\ operation' # NoOp
  BY <1>1, OpIdRange DEF Advances, NoOp
<1>3. CASE pc'[t] # "off"
  <2>1. operation'.phase \in Phase \ Terminal /\ args'[t] = args[t]
    BY <1>1, <1>3, PhaseAtActive DEF Advances, Moves
  <2>2. Active' /\ desired' = desired
    BY <1>1, <1>2, <2>1 DEF Active, Advances, Terminal
  <2> QED
    BY <1>1, <1>2, <2>1, <2>2, StatusValues, StatusValuesNext DEF Ledger!vars
<1>4. CASE pc'[t] = "off"
  <2>1. operation'.phase \in Terminal
    BY <1>1, <1>4 DEF Advances, Executing, Undoing
  <2>2. ~Active' /\ Status = "active" /\ Status' = operation'.phase
    BY <1>1, <1>2, <2>1, StatusValues, StatusValuesNext DEF Active
  <2>3. CASE operation'.phase = "rolled_back"
    BY <1>1, <1>2, <2>2, <2>3 DEF Advances, Ledger!Next, Ledger!RollBack
  <2>4. CASE operation'.phase \in {"ready", "failed"}
    <3>1. Ledger!Complete(operation'.phase)
      BY <1>1, <1>2, <2>2, <2>4 DEF Advances, Ledger!Complete
    <3> QED
      BY <2>4, <3>1 DEF Ledger!Next
  <2> QED
    BY <2>1, <2>3, <2>4 DEF Terminal
<1> QED
  BY <1>3, <1>4

LEMMA LedgerNext ==
  ASSUME ~StoreMayFail, TypeOK, TypeOK', SerialInv, SerialInv', [Next]_vars
  PROVE  [Ledger!Next]_(Ledger!vars)
<1>1. CASE UNCHANGED vars
  BY <1>1, LedgerUnchanged DEF vars, snapshot, thread, bounds
<1>2. ASSUME NEW p \in Profile, Reconcile(p) PROVE Ledger!Next
  BY <1>2, LedgerStart, LedgerAlready DEF Reconcile
<1>3. ASSUME NEW w \in Workload, ResetRead(w) \/ BecomeHealthy(w) \/ Crash(w)
      PROVE  UNCHANGED Ledger!vars
  BY <1>3, LedgerUnchanged
  DEF ResetRead, BecomeHealthy, Crash, snapshot, thread, bounds
<1>4. ASSUME ResetSubmit PROVE Ledger!Next \/ UNCHANGED Ledger!vars
  <2>1. CASE UNCHANGED <<snapshot, thread, fresh, nextId>>
    BY <2>1, LedgerUnchanged DEF snapshot, thread
  <2> QED
    BY <1>4, <2>1, LedgerStart DEF ResetSubmit
<1>5. ASSUME Restart PROVE Ledger!Next
  <2>1. operation' = NoOp /\ ~Active' /\ nextId' = nextId
    BY <1>5 DEF Restart, Active
  <2>2. desired' \in SUBSET Workload
    BY DEF TypeOK
  <2>3. Ledger!Forget(desired')
    BY <2>1, StatusValuesNext DEF Ledger!Forget, NoOp
  <2> QED
    BY <2>2, <2>3 DEF Ledger!Next
<1> QED
  BY <1>1, <1>2, <1>3, <1>4, <1>5, LedgerThread DEF Next

(* The supervisor with its threads, locks, commands and rollbacks           *)
(* implements the ledger of operations, as long as the state file can be    *)
(* written.                                                                 *)
THEOREM ImplementsLedger == ASSUME ~StoreMayFail PROVE Spec => LedgerSpec
<1>1. Init => TypeOK /\ SerialInv
  BY InitType, InitSerial, ConstantsAssumption
<1>2. TypeOK /\ SerialInv /\ [Next]_vars => (TypeOK /\ SerialInv)'
  BY NextType, NextSerial
<1>3. Init => Ledger!Init
  BY LedgerInit, ConstantsAssumption
<1>4. /\ TypeOK /\ TypeOK' /\ SerialInv /\ SerialInv' /\ [Next]_vars
      => [Ledger!Next]_(Ledger!vars)
  BY LedgerNext
<1> QED
  BY <1>1, <1>2, <1>3, <1>4, PTL DEF Spec, LedgerSpec, Ledger!Spec

(***************************************************************************)
(* Residency: what is true of the containers                               *)
(***************************************************************************)

LEMMA FirstUnique ==
  ASSUME NEW S \in SUBSET Workload, NEW v, NEW w
  PROVE  /\ IsFirst(StartRank, S, v) /\ IsFirst(StartRank, S, w) => v = w
         /\ IsFirst(StopRank, S, v) /\ IsFirst(StopRank, S, w) => v = w
<1>1. \A a, b \in Workload :
        /\ StartRank[a] <= StartRank[b] /\ StartRank[b] <= StartRank[a] => a = b
        /\ StopRank[a] <= StopRank[b] /\ StopRank[b] <= StopRank[a] => a = b
  BY DEF StartRank, StopRank, Workload
<1> QED
  BY <1>1 DEF IsFirst

(* What a step can do to what the supervisor relies on. *)
LEMMA ContainerKept ==
  ASSUME UNCHANGED <<container, overlooked, bounds>>
  PROVE  /\ \A v : /\ Healthy(v)' <=> Healthy(v)
                   /\ Resident(v)' <=> Resident(v)
                   /\ Up(v)' <=> Up(v)
                   /\ Serves(v)' <=> Serves(v)
         /\ crashes' = crashes
BY DEF Healthy, Resident, Up, Serves, bounds

LEMMA HealthyServes == \A w : Healthy(w) => Resident(w) /\ Serves(w)
BY DEF Healthy, Resident, Serves

LEMMA StopEffect ==
  ASSUME TypeOK, NEW w \in Workload, StopContainer(w), UNCHANGED bounds
  PROVE  /\ ~Resident(w)' /\ ~Up(w)' /\ crashes' = crashes
         /\ \A v \in Workload \ {w} : /\ Up(v)' <=> Up(v)
                                      /\ Resident(v)' <=> Resident(v)
                                      /\ Serves(v)' <=> Serves(v)
BY DEF TypeOK, StopContainer, Healthy, Resident, Up, Serves, bounds

LEMMA StartEffect ==
  ASSUME TypeOK, NEW w \in Workload, StartContainer(w), UNCHANGED bounds
  PROVE  /\ crashes' = crashes
         /\ \A v \in Workload \ {w} : /\ Up(v)' <=> Up(v)
                                      /\ Resident(v)' <=> Resident(v)
                                      /\ Serves(v)' <=> Serves(v)
<1>1. /\ crashes' = crashes /\ overlooked' = overlooked
      /\ container' = [container EXCEPT ![w] = IF Resident(w) THEN @ ELSE "loading"]
      /\ container \in [Workload -> {"stopped", "loading", "healthy"}]
  BY DEF TypeOK, StartContainer, bounds
<1>2. \A v \in Workload \ {w} : container'[v] = container[v]
  BY <1>1
<1> QED
  BY <1>1, <1>2 DEF Healthy, Resident, Up, Serves

(* A container that runs and is not healthy is passed over, once it is not  *)
(* wanted.                                                                  *)
LEMMA OverlookEffect ==
  ASSUME TypeOK, NEW w \in Workload, NEW u \in BOOLEAN, Overlook(w, u),
         UNCHANGED <<container, bounds>>
  PROVE  /\ u => Healthy(w) \/ ~Up(w)'
         /\ crashes' = crashes
         /\ \A v \in Workload : /\ Healthy(v)' <=> Healthy(v)
                                /\ Resident(v)' <=> Resident(v)
                                /\ Serves(v)' <=> Serves(v)
                                /\ Up(v)' => Up(v)
<1>1. container[w] \in {"stopped", "loading", "healthy"} /\ overlooked \subseteq overlooked'
  BY DEF TypeOK, Overlook
<1>2. u /\ container[w] = "loading" => w \in overlooked'
  BY DEF Overlook
<1> QED
  BY <1>1, <1>2 DEF Healthy, Resident, Up, Serves, bounds

LEMMA RaiseProgress ==
  ASSUME TypeOK, NEW t \in OpId, Raise(t), args'[t] = args[t]
  PROVE  Progress(t)'
<1>1. CASE pc[t] \in Executing
  <2>1. /\ pc'[t] = "undo_probe_stop"
        /\ todo'[t] = Workload \ args[t].prevDesired
    BY <1>1, TypeParts, RaiseMoves DEF Moves
  <2> QED
    BY <2>1 DEF Progress, Stopping, Starting, Restoring
<1>2. CASE pc[t] \notin Executing
  <2>1. pc'[t] = "give_up"
    BY <1>2, TypeParts, RaiseMoves DEF Moves
  <2> QED
    BY <2>1 DEF Progress, Stopping, Starting, Restoring
<1> QED
  BY <1>1, <1>2

(* Each step of a thread establishes what its next label promises. *)
LEMMA ExecuteProgress ==
  ASSUME TypeOK, ~StoreMayFail, NEW t \in OpId,
         Progress(t), Execute(t), pc'[t] # "off" => args'[t] = args[t]
  PROVE  pc'[t] # "off" => Progress(t)'
<1>1. ThreadType
  BY TypeParts
<1>2. ~StoreFails(t)
  BY DEF StoreFails
<1>3. /\ todo[t] \in SUBSET Workload /\ mark[t] \in SUBSET Workload
      /\ args[t].want \in SUBSET Workload
      /\ args[t].prevDesired \in SUBSET Workload
  BY DEF TypeOK, ArgsType
<1> USE <1>1, <1>2, <1>3 DEF Progress, Stopping, Starting, Restoring, Moves
<1>4. CASE Probe(t)
  <2>1. PICK w \in todo[t] :
          /\ Collect(t, w, Healthy(w))
          /\ Overlook(w, w \notin args[t].want \/ w \in args[t].force)
    BY <1>4 DEF Probe
  <2>2. Healthy(w) \in BOOLEAN
    BY DEF Healthy
  <2>3. /\ pc[t] = "probe" /\ pc'[t] = "probe" /\ todo'[t] = todo[t] \ {w}
        /\ Healthy(w) => mark'[t] = mark[t] \cup {w}
        /\ ~Healthy(w) => mark'[t] = mark[t]
    BY <1>4, <2>1, <2>2, CollectCases DEF Probe
  <2>4. /\ w \notin args[t].want \/ w \in args[t].force => Healthy(w) \/ ~Up(w)'
        /\ \A v \in Workload : Up(v)' => Up(v)
    <3>1. UNCHANGED <<container, bounds>>
      BY <1>4 DEF Probe
    <3>2. (w \notin args[t].want \/ w \in args[t].force) \in BOOLEAN
      OBVIOUS
    <3> QED
      BY <2>1, <3>1, <3>2, OverlookEffect
  <2> QED
    BY <2>3, <2>4
<1>5. CASE PlanStop(t)
  BY <1>5, LoopMoves, ContainerKept DEF PlanStop, world, ToStop
<1>6. CASE Drain(t)
  BY <1>6, GotoMoves, ContainerKept DEF Drain, world
<1>7. CASE MarkDraining(t)
  BY <1>7, GotoMoves, ContainerKept DEF MarkDraining, world
<1>8. CASE Stop(t)
  <2>1. PICK w \in todo[t] : IsFirst(StopRank, todo[t], w) /\ StopContainer(w)
    BY <1>8 DEF Stop
  <2>2. /\ pc[t] = "stop" /\ pc'[t] = "mark_stopped" /\ todo'[t] = todo[t]
    BY <1>8, GotoMoves DEF Stop
  <2>3. /\ ~Resident(w)' /\ ~Up(w)'
        /\ \A v \in Workload \ {w} : Up(v)' <=> Up(v)
    BY <1>8, <2>1, StopEffect DEF Stop
  <2>4. \A v \in todo[t] : IsFirst(StopRank, todo[t], v) => v = w
    BY <2>1, FirstUnique
  <2> QED
    BY <2>2, <2>3, <2>4
<1>9. CASE MarkStopped(t)
  <2>1. PICK w \in todo[t] : /\ IsFirst(StopRank, todo[t], w)
                             /\ Advance(t, w, "mark_draining", "release")
    BY <1>9 DEF MarkStopped
  <2>2. /\ pc[t] = "mark_stopped" /\ ~Resident(w)
        /\ todo'[t] = todo[t] \ {w}
        /\ pc'[t] = IF todo[t] = {w} THEN "release" ELSE "mark_draining"
    BY <1>9, <2>1, AdvanceMoves DEF MarkStopped
  <2>3. /\ \A v : /\ Up(v)' <=> Up(v)
                  /\ Resident(v)' <=> Resident(v)
                  /\ Serves(v)' <=> Serves(v)
        /\ crashes' = crashes
    BY <1>9, ContainerKept DEF MarkStopped, world
  <2> QED
    BY <2>2, <2>3 DEF Up
<1>10. CASE Release(t)
  BY <1>10, LoopMoves, ContainerKept DEF Release, world
<1>11. CASE Reprobe(t)
  <2>1. PICK w \in todo[t] : Collect(t, w, ~Healthy(w))
    BY <1>11 DEF Reprobe
  <2>2. (~Healthy(w)) \in BOOLEAN
    BY DEF Healthy
  <2>3. /\ pc[t] = "reprobe" /\ pc'[t] = "reprobe" /\ todo'[t] = todo[t] \ {w}
        /\ ~Healthy(w) => mark'[t] = mark[t] \cup {w}
        /\ Healthy(w) => mark'[t] = mark[t]
    BY <1>11, <2>1, <2>2, CollectCases DEF Reprobe
  <2>4. /\ \A v : /\ Up(v)' <=> Up(v)
                  /\ Resident(v)' <=> Resident(v)
                  /\ Serves(v)' <=> Serves(v)
        /\ crashes' = crashes
    BY <1>11, ContainerKept DEF Reprobe, world
  <2> QED
    BY <2>3, <2>4, HealthyServes
<1>12. CASE PlanStart(t)
  BY <1>12, LoopMoves, GotoMoves, ContainerKept DEF PlanStart, world
<1>13. CASE Announce(t)
  BY <1>13, GotoMoves, ContainerKept DEF Announce, world
<1>14. CASE MarkStarting(t)
  BY <1>14, GotoMoves, ContainerKept DEF MarkStarting, world
<1>15. CASE Start(t)
  <2>1. PICK w \in todo[t] : StartContainer(w)
    BY <1>15 DEF Start
  <2>2. \A v \in Workload \ {w} : (Up(v)' <=> Up(v)) /\ (Serves(v)' <=> Serves(v))
    BY <1>15, <2>1, StartEffect DEF Start
  <2> QED
    BY <1>15, <2>1, <2>2, GotoMoves DEF Start
<1>16. CASE Warm(t)
  BY <1>16, GotoMoves, ContainerKept DEF Warm, world
<1>17. CASE MarkWarming(t)
  BY <1>17, GotoMoves, ContainerKept DEF MarkWarming, world
<1>18. CASE Poll(t)
  BY <1>18, GotoMoves, ContainerKept, FirstUnique, HealthyServes DEF Poll, world
<1>19. CASE MarkReady(t)
  BY <1>19, AdvanceMoves, ContainerKept DEF MarkReady, world
<1>20. CASE Commit(t)
  BY <1>20, GotoMoves, ContainerKept DEF Commit, world
<1>21. CASE Finish(t)
  BY <1>21, ExitMoves, ContainerKept DEF Finish, world
<1> QED
  BY <1>4, <1>5, <1>6, <1>7, <1>8, <1>9, <1>10, <1>11, <1>12, <1>13, <1>14,
     <1>15, <1>16, <1>17, <1>18, <1>19, <1>20, <1>21 DEF Execute

LEMMA RollbackProgress ==
  ASSUME TypeOK, ~StoreMayFail, NEW t \in OpId,
         Progress(t), Rollback(t), pc'[t] # "off" => args'[t] = args[t]
  PROVE  pc'[t] # "off" => Progress(t)'
<1>1. ThreadType
  BY TypeParts
<1>2. ~StoreFails(t)
  BY DEF StoreFails
<1>3. /\ todo[t] \in SUBSET Workload /\ mark[t] \in SUBSET Workload
      /\ args[t].want \in SUBSET Workload
      /\ args[t].prevDesired \in SUBSET Workload
  BY DEF TypeOK, ArgsType
<1> USE <1>1, <1>2, <1>3 DEF Progress, Stopping, Starting, Restoring, Moves
<1>4. CASE UndoProbeStop(t)
  <2>1. PICK w \in todo[t] :
          /\ \/ Healthy(w) /\ Goto(t, "undo_stop")
             \/ ~Healthy(w) /\ Collect(t, w, FALSE)
          /\ Overlook(w, TRUE)
    BY <1>4 DEF UndoProbeStop
  <2>2. /\ Healthy(w) \/ ~Up(w)'
        /\ \A v \in Workload : Up(v)' => Up(v)
    BY <1>4, <2>1, OverlookEffect DEF UndoProbeStop
  <2>3. CASE Goto(t, "undo_stop")
    BY <1>4, <2>2, <2>3, GotoMoves DEF UndoProbeStop
  <2>4. CASE ~Healthy(w) /\ Collect(t, w, FALSE)
    <3>1. /\ pc[t] = "undo_probe_stop" /\ pc'[t] = "undo_probe_stop"
          /\ todo'[t] = todo[t] \ {w}
      BY <1>4, <2>4, CollectCases DEF UndoProbeStop
    <3> QED
      BY <2>2, <2>4, <3>1
  <2> QED
    BY <2>1, <2>3, <2>4
<1>5. CASE UndoStop(t)
  <2>1. PICK w \in todo[t] :
          /\ StopContainer(w)
          /\ Advance(t, w, "undo_probe_stop", "undo_probe_stop")
    BY <1>5 DEF UndoStop
  <2>2. ~Up(w)' /\ \A v \in Workload \ {w} : Up(v)' <=> Up(v)
    BY <1>5, <2>1, StopEffect DEF UndoStop
  <2> QED
    BY <1>5, <2>1, <2>2, AdvanceMoves DEF UndoStop
<1>6. CASE UndoStopsDone(t)
  BY <1>6, LoopMoves, ContainerKept DEF UndoStopsDone, world
<1>7. CASE UndoProbeStart(t)
  <2>1. PICK w \in todo[t] :
          \/ ~Healthy(w) /\ Goto(t, "undo_start")
          \/ Healthy(w) /\ Collect(t, w, FALSE)
    BY <1>7 DEF UndoProbeStart
  <2>2. \A v : (Up(v)' <=> Up(v)) /\ (Serves(v)' <=> Serves(v))
    BY <1>7, ContainerKept DEF UndoProbeStart, world
  <2>3. CASE Goto(t, "undo_start")
    BY <1>7, <2>2, <2>3, GotoMoves DEF UndoProbeStart
  <2>4. CASE Healthy(w) /\ Collect(t, w, FALSE)
    <3>1. /\ pc[t] = "undo_probe_start" /\ pc'[t] = "undo_probe_start"
          /\ todo'[t] = todo[t] \ {w}
      BY <1>7, <2>4, CollectCases DEF UndoProbeStart
    <3> QED
      BY <2>2, <2>4, <3>1, HealthyServes
  <2> QED
    BY <2>1, <2>3, <2>4
<1>8. CASE UndoStart(t)
  <2>1. PICK w \in todo[t] : StartContainer(w)
    BY <1>8 DEF UndoStart
  <2>2. \A v \in Workload \ {w} : (Up(v)' <=> Up(v)) /\ (Serves(v)' <=> Serves(v))
    BY <1>8, <2>1, StartEffect DEF UndoStart
  <2> QED
    BY <1>8, <2>1, <2>2, GotoMoves DEF UndoStart
<1>9. CASE UndoPoll(t)
  BY <1>9, AdvanceMoves, ContainerKept, HealthyServes DEF UndoPoll, world
<1>10. CASE UndoStartsDone(t)
  BY <1>10, LoopMoves, ContainerKept DEF UndoStartsDone, world
<1>11. CASE Observe(t)
  <2>1. PICK w \in todo[t] : Collect(t, w, Healthy(w))
    BY <1>11 DEF Observe
  <2>2. Healthy(w) \in BOOLEAN
    BY DEF Healthy
  <2>3. /\ pc[t] = "observe" /\ pc'[t] = "observe" /\ todo'[t] = todo[t] \ {w}
        /\ Healthy(w) => mark'[t] = mark[t] \cup {w}
        /\ ~Healthy(w) => mark'[t] = mark[t]
    BY <1>11, <2>1, <2>2, CollectCases DEF Observe
  <2>4. /\ \A v : /\ Up(v)' <=> Up(v)
                  /\ Resident(v)' <=> Resident(v)
                  /\ Serves(v)' <=> Serves(v)
        /\ crashes' = crashes
    BY <1>11, ContainerKept DEF Observe, world
  <2> QED
    BY <2>3, <2>4, HealthyServes DEF Serves
<1>12. CASE PublishRollback(t)
  BY <1>12, ExitMoves, ContainerKept DEF PublishRollback, world
<1>13. CASE GiveUp(t)
  BY <1>13, ExitMoves, ContainerKept DEF GiveUp, world
<1> QED
  BY <1>4, <1>5, <1>6, <1>7, <1>8, <1>9, <1>10, <1>11, <1>12, <1>13 DEF Rollback

(* What a step of a thread can do to the containers. *)
LEMMA ThreadContainers ==
  ASSUME TypeOK, NEW t \in OpId, ThreadStep(t)
  PROVE  \/ UNCHANGED container /\ overlooked \subseteq overlooked'
         \/ \E w \in Workload : StopContainer(w)
         \/ pc[t] = "start" /\ \E w \in todo[t] : StartContainer(w)
         \/ pc[t] = "undo_start" /\ \E w \in todo[t] : StartContainer(w)
<1>1. todo[t] \in SUBSET Workload
  BY DEF TypeOK
<1>2. CASE Stop(t) \/ UndoStop(t)
  BY <1>1, <1>2 DEF Stop, UndoStop
<1>3. CASE Start(t)
  BY <1>3 DEF Start
<1>4. CASE UndoStart(t)
  BY <1>4 DEF UndoStart
<1>5. CASE CommandFails(t)
  BY <1>1, <1>5 DEF CommandFails
<1>7. CASE Probe(t) \/ UndoProbeStop(t)
  BY <1>7 DEF Probe, UndoProbeStop, Overlook
<1>6. CASE ~(Stop(t) \/ UndoStop(t) \/ Start(t) \/ UndoStart(t) \/ CommandFails(t)
               \/ Probe(t) \/ UndoProbeStop(t))
  BY <1>6
  DEF ThreadStep, Execute, Rollback, PlanStop, Drain, MarkDraining,
      MarkStopped, Release, Reprobe, PlanStart, Announce, MarkStarting,
      Warm, MarkWarming, Poll, MarkReady, Commit, Finish,
      UndoStopsDone, UndoProbeStart,
      UndoPoll, UndoStartsDone, Observe, PublishRollback, GiveUp,
      StartTimeout, world
<1> QED
  BY <1>2, <1>3, <1>4, <1>5, <1>6, <1>7

LEMMA ThreadProgress ==
  ASSUME TypeOK, SerialInv, ~StoreMayFail, NEW t \in OpId, Progress(t), ThreadStep(t)
  PROVE  pc'[t] # "off" => Progress(t)'
<1>1. pc'[t] # "off" => args'[t] = args[t]
  BY ThreadStepForward DEF Moves
<1>2. CASE CommandFails(t) \/ StartTimeout(t)
  BY <1>1, <1>2, RaiseProgress DEF CommandFails, StartTimeout
<1> QED
  BY <1>1, <1>2, ExecuteProgress, RollbackProgress DEF ThreadStep

LEMMA RolledBackBy ==
  ASSUME TypeOK, NEW t \in OpId, ThreadStep(t),
         operation.phase # "rolled_back", operation'.phase = "rolled_back"
  PROVE  PublishRollback(t)
<1>1. ASSUME NEW p \in {"draining", "releasing", "starting", "warming",
                        "ready", "failed"}, SetPhase(p)
      PROVE  FALSE
  <2>1. p \in Phase
    BY DEF Phase, Terminal
  <2> QED
    BY <1>1, <2>1, PhaseSet
<1>2. ~UNCHANGED operation
  OBVIOUS
<1> QED
  BY <1>1, <1>2
  DEF ThreadStep, Execute, Rollback, Probe, PlanStop, Drain, MarkDraining, Stop,
      MarkStopped, Release, Reprobe, PlanStart, Announce, MarkStarting, Start,
      Warm, MarkWarming, Poll, MarkReady, Commit, Finish,
      UndoProbeStop, UndoStop, UndoStopsDone, UndoProbeStart, UndoStart,
      UndoPoll, UndoStartsDone, Observe, GiveUp, CommandFails, StartTimeout,
      SetWorkload, snapshot

LEMMA GroupFacts ==
  /\ Plan["asr_only"] \in Groups /\ Plan["tts_only"] \in Groups
  /\ \A p \in Profile : Plan[p] \in Groups
  /\ \A G \in Groups : ~("tts" \in G /\ ("asr" \in G \/ "correction" \in G))
BY DEF Plan, Profile, Groups

LEMMA GroupResidency ==
  ASSUME NEW G \in Groups, \A w \in Workload \ G : ~Up(w)'
  PROVE  ExclusiveResidency'
<1>1. {"tts", "asr", "correction"} \subseteq Workload
  BY DEF Workload
<1> QED
  BY <1>1, GroupFacts DEF ExclusiveResidency

LEMMA ResidencyKept ==
  ASSUME ExclusiveResidency, \A w \in Workload : Up(w)' => Up(w)
  PROVE  ExclusiveResidency'
BY DEF ExclusiveResidency, Workload

LEMMA ThreadResidency ==
  ASSUME TypeOK, TypeOK', SerialInv, SerialInv', ResidencyInv,
         ~StoreMayFail, NEW t \in OpId, ThreadStep(t)
  PROVE  ResidencyInv'
<1>1. /\ Live(t) /\ operation.id = t /\ Active
      /\ Moves(t, Executing \cup Undoing \cup {"off"}) /\ Advances(t)
      /\ UNCHANGED <<handler, bounds>>
  BY ThreadStepForward
<1>2. Progress(t) /\ desired = args[t].want
  BY <1>1 DEF ResidencyInv
<1>3. pc'[t] # "off" => Progress(t)'
  BY <1>2, ThreadProgress
<1>4. \A s \in OpId : Live(s)' => s = t
  BY <1>1 DEF SerialInv, Live, Moves
<1>5. \A s \in OpId : Live(s)' =>
        desired' = args'[s].want /\ Progress(s)' /\ args'[s] = args[s]
  <2>1. SUFFICES ASSUME Live(t)'
                 PROVE  /\ desired' = args'[t].want /\ Progress(t)'
                        /\ args'[t] = args[t]
    BY <1>4
  <2>2. pc'[t] # "off" /\ args'[t] = args[t]
    BY <1>1, <2>1 DEF Live, Moves
  <2>3. operation'.phase # "rolled_back"
    <3>1. pc'[t] \in Executing \cup Undoing
      BY <1>1, <2>2 DEF Moves
    <3> QED
      BY <1>1, <2>2, <3>1, PhaseAtActive DEF Advances, Terminal
  <2> QED
    BY <1>1, <1>2, <1>3, <2>2, <2>3 DEF Advances
<1>6. RollbackRestores'
  <2>1. SUFFICES ASSUME operation'.phase = "rolled_back"
                 PROVE  /\ \A w \in desired' : Serves(w)' /\ (crashes' = 0 => Published(w)')
                        /\ \A w \in Workload : /\ Up(w)' => w \in desired'
                                               /\ Published(w)' => Resident(w)'
    BY DEF RollbackRestores
  <2>2. operation.phase # "rolled_back"
    BY <1>1 DEF Active, Terminal
  <2>3. PublishRollback(t)
    BY <2>1, <2>2, RolledBackBy
  <2>4. /\ pc[t] = "observe" /\ todo[t] = {} /\ desired' = args[t].prevDesired
        /\ lifecycle' = [w \in Workload |->
                           IF w \in mark[t] THEN "ready" ELSE "stopped"]
        /\ desired' \subseteq Workload
    BY <2>3 DEF PublishRollback, TypeOK, ArgsType
  <2>5. /\ crashes' = crashes
        /\ \A w : /\ Up(w)' <=> Up(w)
                  /\ Resident(w)' <=> Resident(w)
                  /\ Serves(w)' <=> Serves(w)
    BY <2>3, ContainerKept DEF PublishRollback, world
  <2>6. /\ \A w \in args[t].prevDesired : Serves(w)
        /\ \A w \in Workload \ args[t].prevDesired : ~Up(w)
        /\ \A w \in mark[t] : Resident(w)
        /\ crashes = 0 => args[t].prevDesired \subseteq mark[t]
    BY <1>2, <2>4 DEF Progress
  <2> QED
    BY <2>4, <2>5, <2>6 DEF Published
<1>7. ExclusiveResidency'
  <2>1. todo[t] \in SUBSET Workload
    BY DEF TypeOK
  <2>2. SUFFICES ASSUME Policy = "exclusive" PROVE ExclusiveResidency'
    BY DEF ExclusiveResidency
  <2>3. /\ ExclusiveResidency
        /\ args[t].prevDesired \in Groups /\ args[t].want \in Groups
    BY <1>1, <1>2, <2>2 DEF ResidencyInv
  <2>4. CASE UNCHANGED container /\ overlooked \subseteq overlooked'
    BY <2>3, <2>4, ResidencyKept DEF Up, Resident
  <2>5. CASE \E w \in Workload : StopContainer(w)
    BY <1>1, <2>3, <2>5, StopEffect, ResidencyKept
  <2>6. CASE pc[t] = "start" /\ \E w \in todo[t] : StartContainer(w)
    <3>1. todo[t] \subseteq args[t].want
          /\ \A v \in Workload \ args[t].want : ~Up(v)
      BY <1>2, <2>6 DEF Progress, Starting
    <3>2. \A v \in Workload \ args[t].want : ~Up(v)'
      BY <1>1, <2>1, <2>6, <3>1, StartEffect
    <3> QED
      BY <2>3, <3>2, GroupResidency
  <2>7. CASE pc[t] = "undo_start" /\ \E w \in todo[t] : StartContainer(w)
    <3>1. todo[t] \subseteq args[t].prevDesired
          /\ \A v \in Workload \ args[t].prevDesired : ~Up(v)
      BY <1>2, <2>7 DEF Progress, Restoring
    <3>2. \A v \in Workload \ args[t].prevDesired : ~Up(v)'
      BY <1>1, <2>1, <2>7, <3>1, StartEffect
    <3> QED
      BY <2>3, <3>2, GroupResidency
  <2> QED
    BY <2>4, <2>5, <2>6, <2>7, ThreadContainers
<1>8. ASSUME Policy = "exclusive"
      PROVE  /\ desired' \in Groups
             /\ handler' # Free => handler'.want \in Groups
             /\ \A s \in OpId : Live(s)' => args'[s].prevDesired \in Groups
  <2>1. desired \in Groups /\ args[t].prevDesired \in Groups
    BY <1>1, <1>8 DEF ResidencyInv
  <2>2. desired' \in Groups
    BY <1>1, <2>1 DEF Advances
  <2>3. \A s \in OpId : Live(s)' => args'[s].prevDesired \in Groups
    BY <1>4, <1>5, <2>1
  <2> QED
    BY <1>1, <1>8, <2>2, <2>3 DEF ResidencyInv
<1> QED
  BY <1>5, <1>6, <1>7, <1>8 DEF ResidencyInv

LEMMA StartResidency ==
  ASSUME TypeOK, TypeOK', SerialInv, ResidencyInv, ~StoreMayFail, ~Active,
         NEW a, NEW g, NEW S, NEW p, NEW f, StartOperation(a, g, S, p, f),
         Policy = "exclusive" => S \in Groups,
         UNCHANGED <<container, overlooked>>, handler' \in {handler, Free}
  PROVE  ResidencyInv'
<1>1. /\ nextId \in OpId /\ operation'.phase = "queued" /\ desired' = S
      /\ pc' = [pc EXCEPT ![nextId] = "probe"]
      /\ args' = [args EXCEPT ![nextId] =
           [want |-> S, profile |-> p, force |-> f,
            prevDesired |-> desired, prevProfile |-> profile,
            prevReady |-> lastReady]]
      /\ todo' = [todo EXCEPT ![nextId] = Workload]
  BY StartSerial DEF StartOperation, NewOperation
<1>2. /\ pc'[nextId] = "probe" /\ todo'[nextId] = Workload
      /\ args'[nextId].want = S /\ args'[nextId].prevDesired = desired
  BY <1>1 DEF TypeOK
<1>3. \A t \in OpId : Live(t)' => t = nextId
  BY StartSerial
<1>4. ASSUME NEW t \in OpId, t = nextId PROVE Progress(t)'
  BY <1>2, <1>4 DEF Progress, Stopping, Starting, Restoring
<1>5. RollbackRestores'
  BY <1>1 DEF RollbackRestores
<1>6. ExclusiveResidency'
  BY ResidencyKept DEF ResidencyInv, Up, Resident
<1> QED
  BY <1>1, <1>2, <1>3, <1>4, <1>5, <1>6 DEF ResidencyInv

(* What the containers do on their own takes nothing from what the thread   *)
(* relies on.                                                               *)
Undisturbed ==
  /\ crashes' = 0 => crashes = 0
  /\ \A w \in Workload : /\ Up(w)' <=> Up(w)
                         /\ Resident(w)' <=> Resident(w)
                         /\ Serves(w) => Serves(w)'

LEMMA QuietResidency ==
  ASSUME TypeOK, ResidencyInv, UNCHANGED <<snapshot, thread>>, Undisturbed,
         Policy = "exclusive" /\ handler' # Free => handler'.want \in Groups
  PROVE  ResidencyInv'
<1>1. ASSUME NEW t \in OpId, Progress(t) PROVE Progress(t)'
  <2>1. /\ todo[t] \subseteq Workload /\ mark[t] \subseteq Workload
        /\ args[t].want \subseteq Workload /\ args[t].prevDesired \subseteq Workload
    BY DEF TypeOK, ArgsType
  <2> QED
    BY <1>1, <2>1 DEF Progress, Undisturbed, thread
<1>2. RollbackRestores'
  BY DEF ResidencyInv, RollbackRestores, Undisturbed, Published, snapshot, TypeOK
<1>3. ExclusiveResidency'
  BY ResidencyKept DEF ResidencyInv, Undisturbed
<1> QED
  BY <1>1, <1>2, <1>3 DEF ResidencyInv, Live, snapshot, thread

LEMMA ContainersAlone ==
  ASSUME TypeOK, NEW w \in Workload, BecomeHealthy(w) \/ Crash(w)
  PROVE  Undisturbed
<1>1. CASE BecomeHealthy(w)
  <2>1. /\ container[w] = "loading" /\ container'[w] = "healthy"
        /\ \A v \in Workload \ {w} : container'[v] = container[v]
        /\ overlooked' = overlooked /\ crashes' = crashes
    BY <1>1 DEF BecomeHealthy, TypeOK, bounds
  <2> QED
    BY <2>1 DEF Undisturbed, Up, Resident, Serves, Healthy
<1>2. CASE Crash(w)
  <2>1. crashes' = crashes + 1 /\ crashes \in Nat
    BY <1>2 DEF Crash, TypeOK
  <2> QED
    BY <1>2, <2>1 DEF Crash, Undisturbed, Up, Resident, Serves, Healthy, TypeOK
<1> QED
  BY <1>1, <1>2

LEMMA UndisturbedStep ==
  ASSUME UNCHANGED <<container, overlooked, crashes>> PROVE Undisturbed
BY DEF Undisturbed, Up, Resident, Serves, Healthy

LEMMA BootGroups ==
  ASSUME NEW c PROVE Boot(c).desired \in Groups
BY GroupFacts DEF Boot

(* At boot nothing but the desired workloads counts as up. *)
LEMMA BootApart ==
  /\ overlooked = BootOverlooks(container) => ExclusiveResidency
  /\ (overlooked = BootOverlooks(container))' => ExclusiveResidency'
<1>1. {"tts", "asr", "correction"} \subseteq Workload
  BY DEF Workload
<1>2. /\ Boot(container).desired \in Groups
      /\ Boot(container').desired \in Groups
  BY BootGroups
<1> QED
  BY <1>1, <1>2, GroupFacts DEF ExclusiveResidency, Up, Resident, BootOverlooks

LEMMA InitResidency ==
  ASSUME Init PROVE ResidencyInv
BY BootApart, BootGroups
DEF Init, ResidencyInv, Live, RollbackRestores, NoOp, None

LEMMA RestartResidency ==
  ASSUME TypeOK, Restart PROVE ResidencyInv'
<1>1. /\ container' = container /\ handler' = Free /\ operation'.phase = None
      /\ \A t \in OpId : ~Live(t)'
      /\ desired' \in Groups /\ overlooked' = BootOverlooks(container)
  BY BootGroups DEF Restart, NoOp, Live
<1>2. RollbackRestores'
  BY <1>1 DEF RollbackRestores, None
<1>3. ExclusiveResidency'
  BY <1>1, BootApart DEF BootOverlooks
<1> QED
  BY <1>1, <1>2, <1>3 DEF ResidencyInv

LEMMA ResetWantGroups ==
  ASSUME NEW w \in Workload, Policy = "exclusive"
  PROVE  ResetWant(w) \in Groups
BY GroupFacts DEF ResetWant

LEMMA NextResidency ==
  ASSUME ~StoreMayFail, TypeOK, TypeOK', SerialInv, SerialInv',
         ResidencyInv, [Next]_vars
  PROVE  ResidencyInv'
<1>1. CASE UNCHANGED vars
  BY <1>1, UndisturbedStep, QuietResidency DEF vars, bounds, ResidencyInv
<1>2. ASSUME NEW p \in Profile, Reconcile(p) PROVE ResidencyInv'
  <2>1. CASE AnswerAlreadyReady(p)
    <3>1. /\ desired' = desired /\ operation'.phase = "ready"
          /\ UNCHANGED <<thread, container, overlooked, crashes, handler, lifecycle>>
      BY <1>2, <2>1 DEF AnswerAlreadyReady, NewOperation, Reconcile
    <3>2. RollbackRestores'
      BY <3>1 DEF RollbackRestores
    <3>3. \A t \in OpId : Progress(t)' <=> Progress(t)
      BY <3>1 DEF Progress, Healthy, Resident, Up, Serves, thread
    <3>4. ExclusiveResidency'
      BY <3>1, ResidencyKept DEF ResidencyInv, Up, Resident
    <3> QED
      BY <3>1, <3>2, <3>3, <3>4 DEF ResidencyInv, Live, thread
  <2>2. CASE StartOperation("reconcile", p, Plan[p], p, {})
    BY <1>2, <2>2, GroupFacts, StartResidency DEF Reconcile
  <2> QED
    BY <1>2, <2>1, <2>2 DEF Reconcile
<1>3. ASSUME NEW w \in Workload, ResetRead(w) PROVE ResidencyInv'
  <2>1. handler'.want = ResetWant(w)
    BY <1>3 DEF ResetRead
  <2>2. Undisturbed
    BY <1>3, UndisturbedStep DEF ResetRead, bounds
  <2> QED
    BY <1>3, <2>1, <2>2, ResetWantGroups, QuietResidency DEF ResetRead
<1>4. ASSUME NEW w \in Workload, BecomeHealthy(w) \/ Crash(w) PROVE ResidencyInv'
  <2>1. UNCHANGED <<snapshot, thread, handler>>
    BY <1>4 DEF BecomeHealthy, Crash
  <2> QED
    BY <1>4, <2>1, ContainersAlone, QuietResidency DEF ResidencyInv
<1>5. CASE ResetSubmit
  <2>1. handler' = Free /\ handler # Free /\ UNCHANGED <<container, overlooked, crashes>>
    BY <1>5 DEF ResetSubmit
  <2>2. CASE UNCHANGED <<snapshot, thread, fresh, nextId>>
    BY <2>1, <2>2, UndisturbedStep, QuietResidency
  <2>3. CASE ~Active /\ StartOperation("reset", handler.target, handler.want,
                                       handler.profile, {handler.target})
    <3>1. Policy = "exclusive" => handler.want \in Groups
      BY <2>1 DEF ResidencyInv
    <3> QED
      BY <2>1, <2>3, <3>1, StartResidency
  <2> QED
    BY <1>5, <2>2, <2>3 DEF ResetSubmit
<1> QED
  BY <1>1, <1>2, <1>3, <1>4, <1>5, RestartResidency, ThreadResidency DEF Next

(* Under the exclusive policy ASR / correction and TTS are never resident   *)
(* together, whatever commands fail, containers crash, starts time out and  *)
(* whenever the supervisor restarts, but for running containers it passed   *)
(* over: those found loading when they should have been stopped, and those  *)
(* found running beside the desired ones at boot.                           *)
THEOREM ExclusiveGroups ==
  ASSUME ~StoreMayFail PROVE Spec => []ExclusiveResidency
<1>1. Init => TypeOK /\ SerialInv /\ ResidencyInv
  BY InitType, InitSerial, InitResidency, ConstantsAssumption
<1>2. TypeOK /\ SerialInv /\ ResidencyInv /\ [Next]_vars
        => (TypeOK /\ SerialInv /\ ResidencyInv)'
  BY NextType, NextSerial, NextResidency
<1>3. ResidencyInv => ExclusiveResidency
  BY DEF ResidencyInv, ExclusiveResidency
<1> QED
  BY <1>1, <1>2, <1>3, PTL DEF Spec

(* ... and a rolled back operation runs all workloads it found desired, and *)
(* no other that it has not passed over; what it publishes as ready runs,   *)
(* and unless a container crashed, what it put back is published as ready.  *)
THEOREM RollbackIsExact ==
  ASSUME ~StoreMayFail PROVE Spec => []RollbackRestores
<1>1. Init => TypeOK /\ SerialInv /\ ResidencyInv
  BY InitType, InitSerial, InitResidency, ConstantsAssumption
<1>2. TypeOK /\ SerialInv /\ ResidencyInv /\ [Next]_vars
        => (TypeOK /\ SerialInv /\ ResidencyInv)'
  BY NextType, NextSerial, NextResidency
<1>3. ResidencyInv => RollbackRestores
  BY DEF ResidencyInv
<1> QED
  BY <1>1, <1>2, <1>3, PTL DEF Spec

LEMMA ReadyBy ==
  ASSUME TypeOK, NEW t \in OpId, ThreadStep(t), Active, operation'.phase = "ready"
  PROVE  Finish(t)
<1>1. ASSUME NEW p \in {"draining", "releasing", "starting", "warming", "failed"},
             SetPhase(p)
      PROVE  FALSE
  <2>1. p \in Phase
    BY DEF Phase, Terminal
  <2> QED
    BY <1>1, <2>1, PhaseSet
<1>2. ~UNCHANGED operation
  BY DEF Active, Terminal
<1>3. ~PublishRollback(t)
  BY DEF PublishRollback, TypeOK, OperationType
<1> QED
  BY <1>1, <1>2, <1>3
  DEF ThreadStep, Execute, Rollback, Probe, PlanStop, Drain, MarkDraining, Stop,
      MarkStopped, Release, Reprobe, PlanStart, Announce, MarkStarting, Start,
      Warm, MarkWarming, Poll, MarkReady, Commit,
      UndoProbeStop, UndoStop, UndoStopsDone, UndoProbeStart, UndoStart,
      UndoPoll, UndoStartsDone, Observe, GiveUp, CommandFails, StartTimeout,
      SetWorkload, snapshot

LEMMA NextDelivers ==
  ASSUME ~StoreMayFail, TypeOK, SerialInv, ResidencyInv, [Next]_vars,
         operation.id = operation'.id, Active, operation'.phase = "ready"
  PROVE  Delivered
<1>1. ~UNCHANGED operation
  BY DEF Active, Terminal
<1>2. ASSUME NEW t \in OpId, ThreadStep(t)
      PROVE  Delivered
  <2>1. Live(t) /\ pc[t] = "finish"
    BY <1>2, ThreadStepForward, ReadyBy DEF Finish
  <2>2. Progress(t) /\ desired = args[t].want
    BY <2>1 DEF ResidencyInv
  <2> QED
    BY <2>1, <2>2 DEF Progress, Delivered
<1>3. ~Restart
  BY DEF Restart, NoOp, None
<1> QED
  BY <1>1, <1>2, <1>3
  DEF Next, Reconcile, ResetRead, ResetSubmit, BecomeHealthy, Crash, vars, snapshot

(* ... and an operation that ends ready leaves the desired workloads        *)
(* running, healthy unless a container crashed, and no other that it has    *)
(* not passed over.                                                         *)
THEOREM ReadyIsExact ==
  ASSUME ~StoreMayFail PROVE Spec => ReadyDelivers
<1>1. Init => TypeOK /\ SerialInv /\ ResidencyInv
  BY InitType, InitSerial, InitResidency, ConstantsAssumption
<1>2. TypeOK /\ SerialInv /\ ResidencyInv /\ [Next]_vars
        => (TypeOK /\ SerialInv /\ ResidencyInv)'
  BY NextType, NextSerial, NextResidency
<1>3. TypeOK /\ SerialInv /\ ResidencyInv /\ [Next]_vars =>
        [ operation.id = operation'.id /\ Active /\ operation'.phase = "ready"
            => Delivered ]_vars
  BY NextDelivers
<1> QED
  BY <1>1, <1>2, <1>3, PTL DEF Spec, ReadyDelivers

(***************************************************************************)
(* Resets                                                                  *)
(***************************************************************************)

(* Starting a workload that is not up makes it fresh, and takes that from   *)
(* no other.                                                                *)
LEMMA StartFresh ==
  ASSUME NEW w \in Workload, StartContainer(w)
  PROVE  fresh \subseteq fresh' /\ (Up(w)' => Up(w) \/ w \in fresh')
BY DEF StartContainer, Up

(* Each step of a thread goes on with the restart of the one workload it    *)
(* was told to restart.                                                     *)
LEMMA ExecuteRestarts ==
  ASSUME TypeOK, ~StoreMayFail, NEW t \in OpId, NEW g \in Workload,
         Progress(t), Execute(t), args[t].force = {g}, Restarts(t, g)
  PROVE  pc'[t] # "off" => Restarts(t, g)'
<1>1. ThreadType
  BY TypeParts
<1>2. ~StoreFails(t)
  BY DEF StoreFails
<1>3. todo[t] \in SUBSET Workload /\ mark[t] \in SUBSET Workload
  BY DEF TypeOK
<1> USE <1>1, <1>2, <1>3 DEF Restarts, Stopping, Starting, Moves
<1>4. CASE Probe(t)
  BY <1>4, CollectMoves DEF Probe
<1>5. CASE PlanStop(t)
  <2>1. Up(g) => g \in ToStop(t)
    BY <1>5 DEF PlanStop, Progress, ToStop
  <2>2. Up(g)' <=> Up(g)
    BY <1>5, ContainerKept DEF PlanStop, world
  <2>3. \/ pc'[t] = "drain" /\ todo'[t] = ToStop(t)
        \/ pc'[t] = "reprobe" /\ ToStop(t) = {}
    BY <1>5, LoopMoves DEF PlanStop
  <2> QED
    BY <2>1, <2>2, <2>3
<1>6. CASE Drain(t) \/ MarkDraining(t)
  BY <1>6, GotoMoves, ContainerKept DEF Drain, MarkDraining, world
<1>7. CASE Stop(t)
  <2>1. PICK w \in todo[t] : StopContainer(w)
    BY <1>7 DEF Stop
  <2>2. pc[t] = "stop" /\ pc'[t] = "mark_stopped" /\ todo'[t] = todo[t]
    BY <1>7, GotoMoves DEF Stop
  <2>3. Up(g)' => Up(g)
    BY <1>7, <2>1, StopEffect DEF Stop
  <2> QED
    BY <2>2, <2>3
<1>8. CASE MarkStopped(t)
  <2>1. PICK w \in todo[t] : /\ IsFirst(StopRank, todo[t], w)
                             /\ Advance(t, w, "mark_draining", "release")
    BY <1>8 DEF MarkStopped
  <2>2. /\ pc[t] = "mark_stopped" /\ ~Resident(w)
        /\ todo'[t] = todo[t] \ {w}
        /\ pc'[t] = IF todo[t] = {w} THEN "release" ELSE "mark_draining"
    BY <1>8, <2>1, AdvanceMoves DEF MarkStopped, Progress
  <2>3. Up(g)' <=> Up(g)
    BY <1>8, ContainerKept DEF MarkStopped, world
  <2> QED
    BY <2>2, <2>3 DEF Up
<1>9. CASE Release(t)
  BY <1>9, LoopMoves, ContainerKept DEF Release, world
<1>10. CASE Reprobe(t)
  BY <1>10, CollectMoves, ContainerKept DEF Reprobe, world
<1>11. CASE PlanStart(t)
  BY <1>11, LoopMoves, GotoMoves, ContainerKept DEF PlanStart, world
<1>12. CASE Announce(t) \/ MarkStarting(t) \/ Warm(t) \/ MarkWarming(t)
  BY <1>12, GotoMoves, ContainerKept DEF Announce, MarkStarting, Warm, MarkWarming, world
<1>13. CASE Start(t)
  <2>1. PICK w \in todo[t] : StartContainer(w)
    BY <1>13 DEF Start
  <2>2. pc[t] = "start" /\ pc'[t] = "warm"
    BY <1>13, GotoMoves DEF Start
  <2>3. /\ fresh \subseteq fresh' /\ (Up(w)' => Up(w) \/ w \in fresh')
        /\ \A v \in Workload \ {w} : Up(v)' <=> Up(v)
    BY <1>13, <2>1, StartFresh, StartEffect DEF Start
  <2> QED
    BY <2>2, <2>3
<1>14. CASE Poll(t) \/ Commit(t)
  BY <1>14, GotoMoves, ContainerKept DEF Poll, Commit, world
<1>15. CASE MarkReady(t)
  BY <1>15, AdvanceMoves, ContainerKept DEF MarkReady, world
<1>16. CASE Finish(t)
  BY <1>16, ExitMoves DEF Finish
<1> QED
  BY <1>4, <1>5, <1>6, <1>7, <1>8, <1>9, <1>10, <1>11, <1>12, <1>13, <1>14,
     <1>15, <1>16 DEF Execute

(* A thread that rolls back promises nothing of the restart any more.       *)
LEMMA RollbackRestarts ==
  ASSUME TypeOK, ~StoreMayFail, NEW t \in OpId, NEW g,
         Rollback(t) \/ CommandFails(t) \/ StartTimeout(t)
  PROVE  Restarts(t, g)'
<1>1. ThreadType
  BY TypeParts
<1>2. pc'[t] \in Undoing \cup {"off"}
  <2>1. Raise(t) => pc'[t] \in Undoing
    BY <1>1, RaiseMoves DEF Moves, Undoing
  <2>2. Rollback(t) => pc'[t] \in Undoing \cup {"off"}
    <3> USE <1>1 DEF Moves, Undoing
    <3>1. UndoProbeStop(t) \/ UndoProbeStart(t) \/ Observe(t) => pc'[t] \in Undoing
      BY GotoMoves, CollectMoves DEF UndoProbeStop, UndoProbeStart, Observe
    <3>2. UndoStop(t) \/ UndoPoll(t) => pc'[t] \in Undoing
      BY AdvanceMoves DEF UndoStop, UndoPoll
    <3>3. UndoStopsDone(t) \/ UndoStartsDone(t) \/ UndoStart(t) => pc'[t] \in Undoing
      BY LoopMoves, GotoMoves DEF UndoStopsDone, UndoStartsDone, UndoStart
    <3>4. PublishRollback(t) \/ GiveUp(t) => pc'[t] = "off"
      BY ExitMoves DEF PublishRollback, GiveUp, StoreFails
    <3> QED
      BY <3>1, <3>2, <3>3, <3>4 DEF Rollback
  <2> QED
    BY <2>1, <2>2 DEF CommandFails, StartTimeout
<1> QED
  BY <1>2 DEF Restarts, Undoing, Stopping, Starting

(* The target of an operation stays what it was when it was accepted.       *)
LEMMA ThreadKeepsTarget ==
  ASSUME TypeOK, NEW t \in OpId, ThreadStep(t)
  PROVE  operation'.action = operation.action /\ operation'.target = operation.target
<1>1. \A p : operation' = [operation EXCEPT !.phase = p] =>
        operation'.action = operation.action /\ operation'.target = operation.target
  BY DEF TypeOK, OperationType
<1> QED
  BY <1>1
  DEF ThreadStep, Execute, Rollback, Probe, PlanStop, Drain, MarkDraining, Stop,
      MarkStopped, Release, Reprobe, PlanStart, Announce, MarkStarting, Start,
      Warm, MarkWarming, Poll, MarkReady, Commit, Finish,
      UndoProbeStop, UndoStop, UndoStopsDone, UndoProbeStart, UndoStart,
      UndoPoll, UndoStartsDone, Observe, PublishRollback, GiveUp,
      CommandFails, StartTimeout, SetPhase, SetWorkload, snapshot

(* A step of the operation's thread; when it ends ready, its target is      *)
(* healthy, for it is desired, and so it was started anew.                  *)
LEMMA ThreadReset ==
  ASSUME TypeOK, SerialInv, ResidencyInv, ResetInv, ~StoreMayFail,
         NEW t \in OpId, ThreadStep(t)
  PROVE  ResetInv'
<1>1. /\ Live(t) /\ operation.id = t /\ Active /\ UNCHANGED handler
      /\ Moves(t, Executing \cup Undoing \cup {"off"})
  BY ThreadStepForward
<1>2. operation'.action = operation.action /\ operation'.target = operation.target
  BY ThreadKeepsTarget
<1>3. \A x \in OpId : Live(x)' => x = t
  BY <1>1 DEF Moves, Live, SerialInv
<1>4. Progress(t)
  BY <1>1 DEF ResidencyInv
<1>5. ASSUME NEW g, g = operation.target, operation.action = "reset", Live(t)'
      PROVE  /\ g \in args'[t].want /\ args'[t].force = {g}
             /\ Restarts(t, g)'
  <2>1. g \in args[t].want /\ args[t].force = {g} /\ Restarts(t, g)
    BY <1>1, <1>5 DEF ResetInv
  <2>2. g \in Workload
    BY <2>1 DEF TypeOK, ArgsType
  <2>3. args'[t] = args[t] /\ pc'[t] # "off"
    BY <1>1, <1>5 DEF Moves, Live
  <2>4. Restarts(t, g)'
    BY <1>4, <2>1, <2>2, <2>3, ExecuteRestarts, RollbackRestarts DEF ThreadStep
  <2> QED
    BY <2>1, <2>3, <2>4
<1>6. ResetRestartsTarget'
  <2>1. SUFFICES ASSUME operation'.action = "reset", operation'.phase = "ready"
                 PROVE  operation'.target \in fresh' \cup overlooked'
    BY DEF ResetRestartsTarget
  <2>2. pc[t] = "finish" /\ fresh' = fresh /\ overlooked' = overlooked
    BY <1>1, <2>1, ReadyBy DEF Finish, world
  <2>3. operation.target \in args[t].want /\ Restarts(t, operation.target)
    BY <1>1, <1>2, <2>1 DEF ResetInv
  <2>4. Resident(operation.target)
    BY <1>4, <2>2, <2>3 DEF Progress, Serves
  <2> QED
    BY <1>2, <2>2, <2>3, <2>4 DEF Restarts, Up
<1>7. ASSUME NEW x \in OpId, Live(x)', operation'.action = "reset"
      PROVE  /\ operation'.target \in args'[x].want /\ args'[x].force = {operation'.target}
             /\ Restarts(x, operation.target)'
  <2>1. PICK g : g = operation.target
    OBVIOUS
  <2>2. x = t /\ operation'.target = g /\ operation.action = "reset"
    BY <1>2, <1>3, <1>7, <2>1
  <2>3. g \in args'[t].want /\ args'[t].force = {g} /\ Restarts(t, g)'
    BY <1>5, <1>7, <2>1, <2>2
  <2> QED
    BY <2>2, <2>3 DEF Restarts
<1> QED
  BY <1>1, <1>6, <1>7 DEF ResetInv

(* A reset that is accepted is told to restart its target, which is one of  *)
(* the workloads it asks for.                                               *)
LEMMA StartReset ==
  ASSUME TypeOK, SerialInv, ResetInv, ~StoreMayFail, ~Active,
         NEW a, NEW g, NEW S, NEW p, NEW f, StartOperation(a, g, S, p, f),
         a = "reset" => g \in S /\ f = {g}, handler' \in {handler, Free}
  PROVE  ResetInv'
<1>1. /\ nextId \in OpId /\ operation'.phase = "queued"
      /\ operation'.action = a /\ operation'.target = g
      /\ pc' = [pc EXCEPT ![nextId] = "probe"]
      /\ args' = [args EXCEPT ![nextId] =
           [want |-> S, profile |-> p, force |-> f,
            prevDesired |-> desired, prevProfile |-> profile,
            prevReady |-> lastReady]]
  BY StartSerial DEF StartOperation, NewOperation
<1>2. pc'[nextId] = "probe" /\ args'[nextId].want = S /\ args'[nextId].force = f
  BY <1>1 DEF TypeOK
<1>3. \A t \in OpId : Live(t)' => t = nextId
  BY StartSerial
<1>4. ASSUME NEW t \in OpId, t = nextId PROVE Restarts(t, g)'
  BY <1>2, <1>4 DEF Restarts, Stopping, Starting
<1>5. ResetRestartsTarget'
  BY <1>1 DEF ResetRestartsTarget
<1> QED
  BY <1>1, <1>2, <1>3, <1>4, <1>5 DEF ResetInv

(* A request that is answered at once, or the first half of a reset.        *)
LEMMA QuietReset ==
  ASSUME TypeOK, ResetInv, UNCHANGED <<operation, thread, fresh, overlooked>>,
         Undisturbed,
         handler' # Free => handler' = handler \/ handler'.target \in handler'.want
  PROVE  ResetInv'
<1>1. \A t \in OpId : \A g \in Workload : Restarts(t, g)' <=> Restarts(t, g)
  BY DEF Restarts, Undisturbed, thread
<1>2. ResetRestartsTarget'
  BY DEF ResetInv, ResetRestartsTarget
<1>3. \A t \in OpId : args[t].want \subseteq Workload
  BY DEF TypeOK, ArgsType
<1> QED
  BY <1>1, <1>2, <1>3 DEF ResetInv, Live, thread

(* Every step keeps what resets promise. *)
LEMMA NextReset ==
  ASSUME ~StoreMayFail, TypeOK, SerialInv, ResidencyInv, ResetInv, [Next]_vars
  PROVE  ResetInv'
<1>1. CASE UNCHANGED vars
  BY <1>1, UndisturbedStep, QuietReset DEF vars, snapshot, bounds
<1>2. ASSUME NEW p \in Profile, Reconcile(p) PROVE ResetInv'
  <2>1. CASE AnswerAlreadyReady(p)
    <3>1. /\ operation'.action = "reconcile" /\ UNCHANGED <<thread, handler>>
          /\ \A t \in OpId : ~Live(t)'
      BY <1>2, <2>1, AlreadyReadySerial DEF AnswerAlreadyReady, NewOperation, Reconcile
    <3> QED
      BY <3>1 DEF ResetInv, ResetRestartsTarget
  <2>2. CASE StartOperation("reconcile", p, Plan[p], p, {})
    BY <1>2, <2>2, StartReset DEF Reconcile
  <2> QED
    BY <1>2, <2>1, <2>2 DEF Reconcile
<1>3. ASSUME NEW w \in Workload, ResetRead(w) PROVE ResetInv'
  <2>1. w \in ResetWant(w)
    BY DEF ResetWant, Plan, Workload
  <2>2. handler'.target = w /\ handler'.want = ResetWant(w)
    BY <1>3 DEF ResetRead
  <2>3. Undisturbed
    BY <1>3, UndisturbedStep DEF ResetRead, bounds
  <2> QED
    BY <1>3, <2>1, <2>2, <2>3, QuietReset DEF ResetRead, snapshot
<1>4. ASSUME NEW w \in Workload, BecomeHealthy(w) \/ Crash(w) PROVE ResetInv'
  <2>1. UNCHANGED <<operation, thread, handler, fresh, overlooked>>
    BY <1>4 DEF BecomeHealthy, Crash, snapshot
  <2> QED
    BY <1>4, <2>1, ContainersAlone, QuietReset
<1>5. CASE ResetSubmit
  <2>1. handler' = Free /\ handler # Free /\ handler.target \in handler.want
        /\ UNCHANGED <<container, overlooked, crashes>>
    BY <1>5 DEF ResetSubmit, ResetInv
  <2>2. CASE UNCHANGED <<snapshot, thread, fresh, nextId>>
    BY <2>1, <2>2, UndisturbedStep, QuietReset DEF snapshot
  <2>3. CASE ~Active /\ StartOperation("reset", handler.target, handler.want,
                                       handler.profile, {handler.target})
    BY <2>1, <2>3, StartReset
  <2> QED
    BY <1>5, <2>2, <2>3 DEF ResetSubmit
<1>6. CASE Restart
  <2>1. handler' = Free /\ operation'.action = None /\ \A t \in OpId : ~Live(t)'
    BY <1>6 DEF Restart, NoOp, Live
  <2> QED
    BY <2>1 DEF ResetInv, ResetRestartsTarget, None
<1> QED
  BY <1>1, <1>2, <1>3, <1>4, <1>5, <1>6, ThreadReset DEF Next

(* ... and a reset that ends ready has stopped its target, if it was up,    *)
(* and started it again: what serves is not the container it was asked to   *)
(* replace, unless that one was passed over because it was still loading.   *)
THEOREM ResetsRestart ==
  ASSUME ~StoreMayFail PROVE Spec => []ResetRestartsTarget
<1>1. Init => TypeOK /\ SerialInv /\ ResidencyInv /\ ResetInv
  <2>1. Init => ResetInv
    BY DEF Init, ResetInv, ResetRestartsTarget, Live, NoOp, None
  <2> QED
    BY <2>1, InitType, InitSerial, InitResidency, ConstantsAssumption
<1>2. TypeOK /\ SerialInv /\ ResidencyInv /\ ResetInv /\ [Next]_vars
        => (TypeOK /\ SerialInv /\ ResidencyInv /\ ResetInv)'
  BY NextType, NextSerial, NextResidency, NextReset
<1>3. ResetInv => ResetRestartsTarget
  BY DEF ResetInv
<1> QED
  BY <1>1, <1>2, <1>3, PTL DEF Spec
=============================================================================
