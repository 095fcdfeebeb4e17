---------------------------- MODULE ResourcePoll ----------------------------
(***************************************************************************)
(* How a page of the site asks for a resource reset and follows the        *)
(* operation: frontend/realtime/src/resources.ts with                      *)
(* components/ResourceReset.tsx.  The page posts the reset, then fetches   *)
(* the operation by its id, every interval while it is answered and more   *)
(* and more slowly while it is not, until a terminal phase, a refusal or   *)
(* the deadline.  What the gateway answers is chosen freely: the           *)
(* operation's own life is ResourceSupervisor.  Time is counted in poll    *)
(* intervals, and what a request itself takes is not counted.              *)
(***************************************************************************)
EXTENDS Integers

CONSTANT
  Deadline       \* timeoutMs in intervals

ASSUME DeadlineAssumption == Deadline \in Nat

VARIABLES
  poll,          \* "idle", "posting" or "polling"
  left,          \* intervals before the deadline
  delay          \* delayMs in intervals

pollVars == <<poll, left, delay>>

MaxDelay == 4

PollInit == poll = "idle" /\ left = 0 /\ delay = 1

AskReset == poll = "idle" /\ poll' = "posting" /\ UNCHANGED <<left, delay>>

Accepted ==
  /\ poll = "posting"
  /\ poll' = "polling" /\ left' = Deadline /\ delay' = 1

(* What a request for an operation comes to: a phase on its way, the ready *)
(* phase, another terminal phase, a status below 500, or anything else: no *)
(* answer, a status of 500 or more, an answer that is not an operation.    *)
Answer == {"pending", "ready", "ended", "refused", "lost"}

NextDelay(a) ==
  IF a = "pending" THEN 1 ELSE IF 2 * delay > MaxDelay THEN MaxDelay ELSE 2 * delay

(* Mutant: the deadline starts again whenever the gateway is lost. *)
PollAgainRestarted(a) ==
  /\ poll = "polling" /\ left > 0
  /\ a \in {"pending", "lost"}
  /\ delay' = NextDelay(a)
  /\ left' = IF a = "lost" THEN Deadline ELSE IF left > delay' THEN left - delay' ELSE 0
  /\ UNCHANGED poll

PollAgain(a) ==
  /\ poll = "polling" /\ left > 0
  /\ a \in {"pending", "lost"}
  /\ delay' = NextDelay(a)
  /\ left' = IF left > delay' THEN left - delay' ELSE 0
  /\ UNCHANGED poll

PollOver == poll' = "idle" /\ left' = 0 /\ delay' = 1

PollSucceeds(a) == poll = "polling" /\ left > 0 /\ a = "ready" /\ PollOver

(* The reset is not accepted; the operation failed, was rolled back or     *)
(* cancelled; its id is refused; the deadline passed ("lost").             *)
PollFails(a) ==
  /\ \/ poll = "posting" /\ a \in {"refused", "lost"}
     \/ poll = "polling" /\ left > 0 /\ a \in {"ended", "refused"}
     \/ poll = "polling" /\ left = 0 /\ a = "lost"
  /\ PollOver
=============================================================================
