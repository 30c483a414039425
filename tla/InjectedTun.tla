----------------------------- MODULE InjectedTun -----------------------------
(***************************************************************************)
(* run_tun_owner of doradus-runtime (plane/inbounds/listener_tun.rs) for a *)
(* TUN device whose descriptor the platform host owns (Android's           *)
(* VpnService).  The supervisor never restarts this owner: "Its fd-backed  *)
(* task reloads itself".  The task subscribes to inbound reloads inside    *)
(* wait_for_shutdown_or_matching_inbound_reload, so only while it waits.   *)
(***************************************************************************)
EXTENDS Naturals

CONSTANT MaxVersion   (* bound on the changes of the TUN inbound           *)

VARIABLES
  config,     (* the persisted TUN inbound: enabled, version               *)
  pending,    (* a mutation holds the reload lock                          *)
  shutdown,   (* the watch channel                                         *)
  pc,         (* where the task is                                         *)
  held,       (* the configuration it runs with                            *)
  signal      (* what its receiver holds: nothing, an event, Lagged        *)

vars == <<config, pending, shutdown, pc, held, signal>>
controller == <<config, pending>>

-----------------------------------------------------------------------------
(* mutate_and_reload_inbound(s): commit under the lock, announce at its end. *)
Change(e) ==
  /\ ~pending /\ config.version < MaxVersion
  /\ config' = [enabled |-> e, version |-> config.version + 1]
  /\ pending' = TRUE
  /\ UNCHANGED <<shutdown, pc, held, signal>>

Subscribed == pc \in {"running", "waiting"}

Deliver(kind) == signal' = IF Subscribed THEN kind ELSE signal

Announce ==
  /\ pending
  /\ pending' = FALSE
  /\ Deliver("event")
  /\ UNCHANGED <<config, shutdown, pc, held>>

ReloadFails ==
  /\ pending
  /\ pending' = FALSE
  /\ UNCHANGED <<config, shutdown, pc, held, signal>>

(* retry_inbound *)
Retry ==
  /\ ~pending /\ config.enabled
  /\ Deliver("event")
  /\ UNCHANGED <<config, pending, shutdown, pc, held>>

(* More events of other inbounds than the channel holds.                   *)
Lag ==
  /\ Deliver("lagged")
  /\ UNCHANGED <<controller, shutdown, pc, held>>

RequestShutdown ==
  /\ ~shutdown
  /\ shutdown' = TRUE
  /\ UNCHANGED <<controller, pc, held, signal>>

-----------------------------------------------------------------------------
(* The top of the loop: an enabled device is run, a disabled one waits.    *)
Turn ==
  /\ pc = "top"
  /\ pc' = IF held.enabled THEN "assemble" ELSE "subscribe"
  /\ UNCHANGED <<controller, shutdown, held, signal>>

(* run_tun_device_until_ref: the proxy runtime is built under the reload   *)
(* lock, then the dispatcher runs with the wait as its stop signal.        *)
Assemble ==
  /\ pc = "assemble" /\ ~pending
  /\ pc' = "running"
  /\ signal' = "none"
  /\ UNCHANGED <<controller, shutdown, held>>

(* The build or the dispatcher fails: "waiting for reload".                *)
RunFails ==
  /\ pc \in {"assemble", "running"}
  /\ pc' = "subscribe"
  /\ UNCHANGED <<controller, shutdown, held, signal>>

(* The dispatcher stops for whatever ended the wait.                       *)
RunEnds ==
  /\ pc = "running" /\ (signal # "none" \/ shutdown)
  /\ pc' = IF shutdown THEN "exited" ELSE "reload"
  /\ UNCHANGED <<controller, shutdown, held, signal>>

Subscribe ==
  /\ pc = "subscribe"
  /\ pc' = IF shutdown THEN "exited" ELSE "waiting"
  /\ signal' = "none"
  /\ UNCHANGED <<controller, shutdown, held>>

(* Mutant of WaitEnds: the select has no shutdown arm.                     *)
WaitForReloadOnly ==
  /\ pc = "waiting" /\ signal # "none"
  /\ pc' = IF signal = "event" THEN "exited" ELSE "reload"
  /\ UNCHANGED <<controller, shutdown, held, signal>>

(* The wait returns true for shutdown and for a matching event, and the    *)
(* loop breaks on true; on Lagged it returns false and the loop goes on.   *)
WaitEnds ==
  /\ pc = "waiting" /\ (signal # "none" \/ shutdown)
  /\ pc' = IF shutdown \/ signal = "event" THEN "exited" ELSE "reload"
  /\ UNCHANGED <<controller, shutdown, held, signal>>

(* Mutant of LoadConfig: the loaded configuration goes straight to the     *)
(* device.                                                                 *)
LoadConfigAndRun ==
  /\ pc = "reload"
  /\ held' \in {config, held}
  /\ pc' = "assemble"
  /\ UNCHANGED <<controller, shutdown, signal>>

(* load_tun_config_for_supervisor; on an error the old one is used again.  *)
LoadConfig ==
  /\ pc = "reload"
  /\ held' \in {config, held}
  /\ pc' = "top"
  /\ UNCHANGED <<controller, shutdown, signal>>

-----------------------------------------------------------------------------
Init ==
  /\ config \in [enabled: BOOLEAN, version: {0}]
  /\ pending = FALSE /\ shutdown = FALSE
  /\ pc = "top"
  /\ held = config
  /\ signal = "none"

Run == Turn \/ Assemble \/ RunEnds \/ Subscribe \/ WaitEnds \/ LoadConfig

Next ==
  \/ Run
  \/ RunFails
  \/ \E e \in BOOLEAN : Change(e)
  \/ Announce \/ ReloadFails \/ Retry \/ Lag
  \/ RequestShutdown

Spec == Init /\ [][Next]_vars

(* The executor polls the task, a mutation ends one way or the other, and  *)
(* the lock is first come, first served.                                   *)
FairSpec ==
  Spec /\ WF_vars(Run) /\ SF_vars(Assemble) /\ WF_vars(Announce \/ ReloadFails)
-----------------------------------------------------------------------------
(* A device is assembled and runs only under a configuration that enables  *)
(* it, through every reload, failed load and failed run of its task.       *)
RunsEnabled == pc \in {"assemble", "running"} => held.enabled

(* Shutdown ends the task wherever it finds it, also while it waits for    *)
(* the reload lock or runs with a subscription it has just opened.         *)
ShutdownEnds == shutdown ~> pc = "exited"

(* run_until_with_tun_runtime: the device "is reused across reloads while  *)
(* its proxy runtime is rebuilt": only shutdown ends the task that owns it. *)
OwnerSurvivesReloads == pc = "exited" => shutdown
=============================================================================
