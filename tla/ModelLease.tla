----------------------------- MODULE ModelLease -----------------------------
(***************************************************************************)
(* What the ASR worker promises a realtime session: whoever holds the      *)
(* lease finds the same model served until it gives the lease back, or     *)
(* until the worker dies.                                                  *)
(***************************************************************************)
CONSTANTS Models, Sessions, None

VARIABLES serving,  \* the model that answers requests, or None
          owner     \* the session that holds the lease, or None

vars == <<serving, owner>>

Init == serving = None /\ owner = None

(* A session may take the lease of a served model, again if it has it. *)
Acquire(s) ==
  /\ serving # None /\ owner \in {None, s}
  /\ owner' = s /\ UNCHANGED serving

Release == owner' = None /\ UNCHANGED serving

(* The served model changes, or is gone, only while nobody holds the lease. *)
Switch(m) == owner = None /\ serving' = m /\ UNCHANGED owner

Die == serving' = None /\ owner' = None

Next ==
  \/ \E s \in Sessions : Acquire(s)
  \/ \E m \in Models \cup {None} : Switch(m)
  \/ Release \/ Die

Spec == Init /\ [][Next]_vars
=============================================================================
