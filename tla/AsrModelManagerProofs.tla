------------------------ MODULE AsrModelManagerProofs ------------------------
(***************************************************************************)
(* The manager's invariants and the lease it implements, for any set of    *)
(* models and sessions and any number of worker restarts.                  *)
(*                                                                         *)
(* ManagerInv is inductive with TypeOK: it says for every label of         *)
(* activate() what is loaded, served and published there, and that leases  *)
(* and transcriptions only exist while nothing is activated.  The lock is  *)
(* what makes it inductive: Acquire, Transcribe and Begin all need it      *)
(* free, which ManagerInv turns into facts about the model.                *)
(***************************************************************************)
EXTENDS AsrModelManager, TLAPS

LEMMA InitManager == ASSUME ManagerAssumption, Init PROVE TypeOK /\ ManagerInv
BY DEF ManagerAssumption, Init, TypeOK, ManagerInv, ActivationInv, Idle, None

(* Every variable holds a value of the shape the code gives it. *)
LEMMA ManagerTypeStep ==
  ASSUME ManagerAssumption, TypeOK, ManagerInv, [Next]_vars
  PROVE  TypeOK'
<1>1. CASE UNCHANGED vars
  BY <1>1 DEF vars, snapshot, activation, TypeOK
<1>2. CASE \E m \in Models : RequestActivation(m)
  BY <1>2 DEF RequestActivation, snapshot, activation, TypeOK
<1>3. CASE Refuse \/ Begin \/ Unload \/ Construct \/ LoadWeights
  <2>1. pc # "off" => goal \in Models
    BY DEF ManagerInv, ActivationInv
  <2>2. CASE Refuse
    BY <2>2 DEF Refuse, Return, snapshot, TypeOK
  <2>3. CASE Begin
    BY <2>3 DEF Begin, Publish, TypeOK
  <2>4. CASE Unload \/ Construct \/ LoadWeights
    BY <2>1, <2>4 DEF Unload, Construct, LoadWeights, Publish, Goto, snapshot,
       TypeOK
  <2> QED
    BY <1>3, <2>2, <2>3, <2>4
<1>4. CASE WarmUp \/ Recover \/ Reload \/ Rewarm \/ Fail
  <2>1. pc # "off" => goal \in Models
    BY DEF ManagerInv, ActivationInv
  <2>2. pc = "rewarmed" \/ pc = "reload" => previous \in Models
    BY DEF ManagerInv, ActivationInv
  <2> QED
    BY <1>4, <2>1, <2>2 DEF WarmUp, Recover, Reload, Rewarm, Fail, Publish,
       Goto, Return, snapshot, TypeOK
<1>5. CASE \/ \E s \in Sessions, m \in Models : Acquire(s, m)
           \/ \E s \in Sessions : Release(s)
  BY <1>5 DEF Acquire, Release, activation, TypeOK
<1>6. CASE \/ \E s \in Sessions \cup {None}, m \in Models : Transcribe(s, m)
           \/ Transcribed
  BY <1>6 DEF Transcribe, Transcribed, Idle, snapshot, activation, TypeOK
<1>7. CASE Restart
  BY <1>7 DEF Restart, ManagerAssumption, Idle, TypeOK
<1> QED
  BY <1>1, <1>2, <1>3, <1>4, <1>5, <1>6, <1>7 DEF Next, Activate

LEMMA ManagerStep ==
  ASSUME ManagerAssumption, TypeOK, ManagerInv, [Next]_vars
  PROVE  ManagerInv'
<1>1. CASE UNCHANGED vars
  BY <1>1 DEF vars, snapshot, activation, ManagerInv, ActivationInv
<1>2. CASE \E m \in Models : RequestActivation(m)
  <2>1. /\ pc = "off" \/ task = goal
        /\ UNCHANGED <<snapshot, provider, loaded, activation, using>>
        /\ task = None
    BY <1>2 DEF RequestActivation, ManagerInv, ActivationInv
  <2>2. pc = "off"
    BY <2>1 DEF ManagerInv, ActivationInv, ManagerAssumption
  <2> QED
    BY <2>1, <2>2 DEF snapshot, activation, ManagerInv, ActivationInv
<1>3. CASE Refuse
  BY <1>3 DEF Refuse, Return, LockFree, snapshot, ManagerInv, ActivationInv
<1>4. CASE Begin
  BY <1>4 DEF Begin, Publish, LockFree, ManagerInv, ActivationInv,
     ManagerAssumption, TypeOK
<1>5. CASE Unload
  BY <1>5 DEF Unload, Publish, Goto, ManagerInv, ActivationInv
<1>6. CASE Construct
  BY <1>6 DEF Construct, Publish, Goto, snapshot, ManagerInv, ActivationInv
<1>7. CASE LoadWeights
  BY <1>7 DEF LoadWeights, Goto, snapshot, ManagerInv, ActivationInv
<1>8. CASE WarmUp
  BY <1>8 DEF WarmUp, Publish, Goto, Return, snapshot, ManagerInv, ActivationInv
<1>9. CASE Recover
  BY <1>9 DEF Recover, Publish, Goto, Return, ManagerInv, ActivationInv, TypeOK
<1>10. CASE Reload
  BY <1>10 DEF Reload, Goto, snapshot, ManagerInv, ActivationInv
<1>11. CASE Rewarm
  BY <1>11 DEF Rewarm, Publish, Goto, Return, snapshot, ManagerInv, ActivationInv
<1>12. CASE Fail
  BY <1>12 DEF Fail, Publish, Return, ManagerInv, ActivationInv
<1>13. CASE \E s \in Sessions, m \in Models : Acquire(s, m)
  BY <1>13 DEF Acquire, LockFree, activation, ManagerInv, ActivationInv
<1>14. CASE \E s \in Sessions : Release(s)
  BY <1>14 DEF Release, LockFree, activation, ManagerInv, ActivationInv
<1>15. CASE \E s \in Sessions \cup {None}, m \in Models : Transcribe(s, m)
  BY <1>15 DEF Transcribe, LockFree, snapshot, activation, ManagerInv, ActivationInv
<1>16. CASE Transcribed
  BY <1>16 DEF Transcribed, Idle, snapshot, activation, ManagerInv, ActivationInv
<1>17. CASE Restart
  BY <1>17 DEF Restart, Idle, ManagerInv, ActivationInv
<1> QED
  BY <1>1, <1>2, <1>3, <1>4, <1>5, <1>6, <1>7, <1>8, <1>9, <1>10, <1>11,
     <1>12, <1>13, <1>14, <1>15, <1>16, <1>17 DEF Next, Activate

LEMMA ManagerInvariant == Spec => [](TypeOK /\ ManagerInv)
<1>1. Init => TypeOK /\ ManagerInv
  BY ManagerAssumption, InitManager
<1>2. TypeOK /\ ManagerInv /\ [Next]_vars => TypeOK' /\ ManagerInv'
  BY ManagerAssumption, ManagerTypeStep, ManagerStep
<1> QED
  BY <1>1, <1>2, PTL DEF Spec

(* Type correctness. *)
THEOREM ManagerTypeCorrect == Spec => []TypeOK
BY ManagerInvariant, PTL

(* A lease pins its model: no activation runs while it is held. *)
THEOREM LeasePinned == Spec => []LeasePinsModel
<1>1. TypeOK /\ ManagerInv => LeasePinsModel
  BY DEF ManagerInv, ActivationInv, LeasePinsModel
<1> QED
  BY <1>1, ManagerInvariant, PTL

(* The weights of two providers are never in memory together. *)
THEOREM OneResident == Spec => []SingleResident
<1>1. TypeOK /\ ManagerInv => SingleResident
  <2> SUFFICES ASSUME TypeOK, ManagerInv PROVE SingleResident
    OBVIOUS
  <2>1. \/ loaded = {} \/ loaded = {provider} \/ loaded = {goal}
        \/ loaded = {previous}
    BY DEF TypeOK, ManagerInv, ActivationInv
  <2> QED
    BY <2>1 DEF SingleResident
<1> QED
  BY <1>1, ManagerInvariant, PTL

(* The lock-free snapshot never claims a model that is not served. *)
THEOREM HonestSnapshot == Spec => []SnapshotHonest
<1>1. TypeOK /\ ManagerInv => SnapshotHonest
  <2> SUFFICES ASSUME TypeOK, ManagerInv PROVE SnapshotHonest
    OBVIOUS
  <2>1. CASE pc = "off"
    BY <2>1 DEF ManagerInv, ActivationInv, SnapshotHonest
  <2>2. CASE pc \in {"unload", "warm", "warmed", "reload", "rewarmed", "fail"}
    BY <2>2 DEF ManagerInv, ActivationInv, SnapshotHonest
  <2>3. CASE pc \in {"load", "recover"}
    BY <2>3 DEF ManagerInv, ActivationInv, SnapshotHonest
  <2> QED
    BY <2>1, <2>2, <2>3 DEF TypeOK
<1> QED
  BY <1>1, ManagerInvariant, PTL

(* A transcription runs on the loaded model its session leased. *)
THEOREM TranscriptionsPinned == Spec => []TranscribesOnItsModel
<1>1. TypeOK /\ ManagerInv => TranscribesOnItsModel
  BY DEF ManagerInv, ActivationInv, TranscribesOnItsModel
<1> QED
  BY <1>1, ManagerInvariant, PTL

(* Every step of the manager is a step of the abstract lease or none. *)
LEMMA LeaseStep ==
  ASSUME ManagerAssumption, TypeOK, ManagerInv, ManagerInv', [Next]_vars
  PROVE  [Lease!Next]_Lease!vars
<1> DEFINE serving == IF state = "ready" THEN active ELSE None
<1>1. CASE UNCHANGED vars
  BY <1>1 DEF vars, snapshot, Lease!vars
<1>2. CASE \/ \E m \in Models : RequestActivation(m)
           \/ Refuse
           \/ \E s \in Sessions \cup {None}, m \in Models : Transcribe(s, m)
           \/ Transcribed
  BY <1>2 DEF RequestActivation, Refuse, Transcribe, Transcribed, snapshot,
     Lease!vars
<1>3. CASE Begin \/ Unload \/ Construct \/ LoadWeights \/ WarmUp
           \/ Recover \/ Reload \/ Rewarm \/ Fail
  <2>1. leasedBy = None
    BY <1>3 DEF Begin, Unload, Construct, LoadWeights, WarmUp, Recover, Reload,
       Rewarm, Fail, LockFree, ManagerInv, ActivationInv
  <2>2. leasedBy' = leasedBy
    BY <1>3 DEF Begin, Unload, Construct, LoadWeights, WarmUp, Recover, Reload,
       Rewarm, Fail, Publish, snapshot
  <2>3. serving' \in Models \cup {None}
    <3>1. state' = "ready" => active' \in Models
      BY <1>3 DEF ManagerInv, ActivationInv, Begin, Unload, Construct,
         LoadWeights, WarmUp, Recover, Reload, Rewarm, Fail, Publish, snapshot,
         TypeOK
    <3> QED
      BY <3>1
  <2> QED
    BY <2>1, <2>2, <2>3 DEF Lease!Next, Lease!Switch
<1>4. CASE \E s \in Sessions, m \in Models : Acquire(s, m)
  <2>1. PICK s \in Sessions, m \in Models : Acquire(s, m)
    BY <1>4
  <2>2. /\ serving # None /\ leasedBy \in {None, s}
        /\ leasedBy' = s /\ serving' = serving
    BY <2>1 DEF Acquire, LockFree, ManagerInv, ActivationInv, ManagerAssumption
  <2> QED
    BY <2>2 DEF Lease!Next, Lease!Acquire
<1>5. CASE \E s \in Sessions : Release(s)
  BY <1>5 DEF Release, Lease!Next, Lease!Release
<1>6. CASE Restart
  BY <1>6 DEF Restart, Lease!Next, Lease!Die
<1> QED
  BY <1>1, <1>2, <1>3, <1>4, <1>5, <1>6 DEF Next, Activate

(* The manager implements the abstract lease on the served model. *)
THEOREM ImplementsLease == Spec => LeaseSpec
<1>1. Init => Lease!Init
  BY DEF Init, Lease!Init
<1>2. TypeOK /\ ManagerInv /\ ManagerInv' /\ [Next]_vars
        => [Lease!Next]_Lease!vars
  BY ManagerAssumption, LeaseStep
<1> QED
  BY <1>1, <1>2, ManagerInvariant, PTL DEF Spec, LeaseSpec, Lease!Spec
=============================================================================
