------------------------------ MODULE MCReload ------------------------------
(***************************************************************************)
(* What a configuration change goes through: the controller, with two      *)
(* management requests against two nodes and two selectors, and the        *)
(* supervisor that restarts the listeners of two inbounds.  The supervisor *)
(* hears of the controller's reloads through its channel only, which its   *)
(* own module models, so one of the two is explored at a time.             *)
(***************************************************************************)
EXTENDS MCController, MCInboundSupervisor

(* Reloads that name no inbound are left to the runs Configuration and     *)
(* InboundFailedReload; one aborted task at a time still holds on, and     *)
(* only the transparent inbound is deleted.                                *)
InboundBounds ==
  /\ publishing # Quiet
  /\ Cardinality(late \cup closing) <= 1
  /\ \A i \in Inbounds \ Transparent : config[i].state # "absent"

VARIABLE focus

ReloadInit ==
  /\ NodesEnabled /\ EnabledInit
  /\ focus \in {"controller", "inbounds"}
  /\ focus = "inbounds" => store.selected = CHOOSE n \in Nodes : TRUE

ReloadNext ==
  /\ UNCHANGED focus
  /\ \/ focus = "controller" /\ Next /\ UNCHANGED inboundVars
     \/ focus = "inbounds" /\ InboundNext /\ InboundBounds' /\ UNCHANGED vars

ReloadSpec == ReloadInit /\ [][ReloadNext]_<<vars, inboundVars, focus>>
=============================================================================
