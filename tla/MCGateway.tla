----------------------------- MODULE MCGateway -----------------------------
(***************************************************************************)
(* The shared state of the gateway: its sessions and its artifacts.  The   *)
(* two have no variable in common, so that a behaviour of both is one of   *)
(* each; only one of them moves here.                                      *)
(*                                                                         *)
(* Requests for a turn are interchangeable: SessionBroker only compares    *)
(* them for equality.                                                      *)
(***************************************************************************)
EXTENDS SessionBroker, ArtifactStore, TLC

GatewayInit == Init /\ StoreInit

GatewayNext ==
  \/ StoreInit /\ Next /\ UNCHANGED storeVars
  \/ Init /\ StoreNext /\ UNCHANGED vars

GatewaySpec == GatewayInit /\ [][GatewayNext]_<<vars, storeVars>>

TurnSymmetry == Permutations(Turn)
=============================================================================
