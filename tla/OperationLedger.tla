-------------------------- MODULE OperationLedger ---------------------------
(***************************************************************************)
(* What the resource supervisor promises about its operations, without the *)
(* threads, the containers and the phases: one operation at a time, each   *)
(* with an identifier of its own, changes the desired set ("intent") when  *)
(* it is accepted and either keeps it (ready, failed) or gives back the    *)
(* one it found (rolled back).                                             *)
(***************************************************************************)
EXTENDS Integers

CONSTANTS MaxOps, Intents, NoIntent

VARIABLES used,      \* identifiers given out
          current,   \* identifier of the latest operation, 0 if none
          status,    \* "none", "active", "ready", "failed" or "rolled_back"
          intent,    \* the desired set
          fallback   \* while active: the desired set it replaced

vars == <<used, current, status, intent, fallback>>

Init ==
  /\ used = 0 /\ current = 0 /\ status = "none"
  /\ intent \in Intents /\ fallback = NoIntent

Issue(s) ==
  /\ status # "active" /\ used < MaxOps
  /\ used' = used + 1 /\ current' = used + 1 /\ status' = s

(* A new operation replaces the intent and remembers the one it found. *)
Accept(d) == Issue("active") /\ intent' = d /\ fallback' = intent

(* What is asked for is already there: a finished operation says so. *)
AlreadyDone == Issue("ready") /\ UNCHANGED <<intent, fallback>>

Complete(s) ==
  /\ status = "active" /\ status' = s /\ fallback' = NoIntent
  /\ UNCHANGED <<used, current, intent>>

RollBack ==
  /\ status = "active" /\ status' = "rolled_back"
  /\ intent' = fallback /\ fallback' = NoIntent
  /\ UNCHANGED <<used, current>>

(* The process that keeps the ledger starts again. *)
Forget(d) ==
  /\ current' = 0 /\ status' = "none" /\ intent' = d /\ fallback' = NoIntent
  /\ UNCHANGED used

Next ==
  \/ \E d \in Intents : Accept(d) \/ Forget(d)
  \/ AlreadyDone
  \/ \E s \in {"ready", "failed"} : Complete(s)
  \/ RollBack

Spec == Init /\ [][Next]_vars
=============================================================================
