--------------------------- MODULE DnsSupervisor ---------------------------
(***************************************************************************)
(* run_dns_supervisor of doradus-runtime (plane/data_plane_supervisor.rs): *)
(* the task that binds the UDP and TCP DNS listeners to the configured     *)
(* address and binds them again when the controller announces a change.    *)
(* Each transport waits on a subscription of its own, taken before the     *)
(* configuration is read.                                                  *)
(***************************************************************************)
EXTENDS Naturals, FiniteSets

CONSTANT MaxVersion   (* bound on the changes of the DNS server            *)

ASSUME DnsOptions == MaxVersion \in Nat

Transports == {"udp", "tcp"}

VARIABLES
  server,     (* persisted server setting: an address, none or unparsable  *)
  version,    (* number of changes of it                                   *)
  announced,  (* version of the last dns reload event                      *)
  pending,    (* a mutation was committed and its reload is not over       *)
  shutdown,   (* the watch channel                                         *)
  pc,         (* where the supervisor is                                   *)
  missed,     (* transport -> events its receiver has not consumed         *)
  read,       (* the setting and version the supervisor read               *)
  bound       (* transports it serves on                                   *)

vars == <<server, version, announced, pending, shutdown, pc, missed, read, bound>>

Servers == {"address", "none", "invalid"}

-----------------------------------------------------------------------------
(* mutate_and_reload_dns commits, then announces after publishing.         *)
Change(s) ==
  /\ ~pending /\ version < MaxVersion
  /\ server' = s
  /\ version' = version + 1
  /\ pending' = TRUE
  /\ UNCHANGED <<announced, shutdown, pc, missed, read, bound>>

Announce ==
  /\ pending
  /\ pending' = FALSE
  /\ announced' = version
  /\ missed' = [t \in Transports |-> TRUE]
  /\ UNCHANGED <<server, version, shutdown, pc, read, bound>>

(* The reload after the commit fails: nothing is announced.                *)
ReloadFails ==
  /\ pending
  /\ pending' = FALSE
  /\ UNCHANGED <<server, version, announced, shutdown, pc, missed, read, bound>>

RequestShutdown ==
  /\ ~shutdown
  /\ shutdown' = TRUE
  /\ UNCHANGED <<server, version, announced, pending, pc, missed, read, bound>>

-----------------------------------------------------------------------------
(* Both receivers subscribe: events sent before are not theirs.            *)
Subscribe ==
  /\ pc = "loop"
  /\ missed' = [t \in Transports |-> FALSE]
  /\ pc' = IF shutdown THEN "returned" ELSE "configure"
  /\ UNCHANGED <<server, version, announced, pending, shutdown, read, bound>>

(* Mutant of Configure: the version before the last change is read.        *)
ConfigureBehind ==
  /\ pc = "configure"
  /\ read' = [server |-> server, version |-> version - 1]
  /\ pc' = "bind"
  /\ UNCHANGED <<server, version, announced, pending, shutdown, missed, bound>>

(* configured_dns_server, parse_dns_server: no server waits for a reload,  *)
(* an address that does not parse ends the supervisor.                     *)
Configure ==
  /\ pc = "configure"
  /\ read' = [server |-> server, version |-> version]
  /\ pc' = IF server = "none" THEN "wait"
           ELSE IF shutdown THEN "returned"
           ELSE IF server = "invalid" THEN "failed" ELSE "bind"
  /\ UNCHANGED <<server, version, announced, pending, shutdown, missed, bound>>

(* The store cannot be read: the error ends the supervisor.                *)
ConfigureFails ==
  /\ pc = "configure"
  /\ pc' = "failed"
  /\ UNCHANGED <<server, version, announced, pending, shutdown, missed, read, bound>>

(* Mutant of BindListeners: the subscriptions are taken after the binds.   *)
BindThenSubscribe(B) ==
  /\ pc = "bind"
  /\ bound' = B
  /\ pc' = IF B = {} THEN "wait" ELSE "serve"
  /\ missed' = [t \in Transports |-> FALSE]
  /\ UNCHANGED <<server, version, announced, pending, shutdown, read>>

(* Either transport may be taken by another process.                       *)
BindListeners(B) ==
  /\ pc = "bind"
  /\ bound' = B
  /\ pc' = IF B = {} THEN "wait" ELSE "serve"
  /\ UNCHANGED <<server, version, announced, pending, shutdown, missed, read>>

(* Mutant of ServeEnds: the transports share one subscription.             *)
ServeEndsShared(t) ==
  /\ pc = "serve" /\ t \in bound
  /\ missed[t] \/ shutdown
  /\ missed' = [u \in Transports |-> FALSE]
  /\ bound' = bound \ {t}
  /\ UNCHANGED <<server, version, announced, pending, shutdown, pc, read>>

(* serve_until of one transport ends by its own subscription.              *)
ServeEnds(t) ==
  /\ pc = "serve" /\ t \in bound
  /\ missed[t] \/ shutdown
  /\ missed' = [missed EXCEPT ![t] = FALSE]
  /\ bound' = bound \ {t}
  /\ UNCHANGED <<server, version, announced, pending, shutdown, pc, read>>

(* A transport fails while it serves: try_join drops the other one.        *)
ServeFails(t) ==
  /\ pc = "serve" /\ t \in bound
  /\ bound' = {}
  /\ pc' = "failed"
  /\ UNCHANGED <<server, version, announced, pending, shutdown, missed, read>>

(* Both listeners are down before the loop turns.                          *)
Rebind ==
  /\ pc = "serve" /\ bound = {}
  /\ pc' = IF shutdown THEN "returned" ELSE "loop"
  /\ UNCHANGED <<server, version, announced, pending, shutdown, missed, read, bound>>

(* wait_for_dns_reload on the UDP subscription.                            *)
WaitEnds ==
  /\ pc = "wait" /\ (missed["udp"] \/ shutdown)
  /\ pc' = IF shutdown THEN "returned" ELSE "loop"
  /\ missed' = [missed EXCEPT !["udp"] = FALSE]
  /\ UNCHANGED <<server, version, announced, pending, shutdown, read, bound>>

-----------------------------------------------------------------------------
Init ==
  /\ server \in Servers
  /\ version = 0 /\ announced = 0 /\ pending = FALSE
  /\ shutdown = FALSE
  /\ pc = "loop"
  /\ missed = [t \in Transports |-> FALSE]
  /\ read = [server |-> "none", version |-> 0]
  /\ bound = {}

Supervise ==
  \/ Subscribe \/ Configure \/ Rebind \/ WaitEnds
  \/ \E B \in SUBSET Transports : BindListeners(B)
  \/ \E t \in Transports : ServeEnds(t)

Next ==
  \/ Supervise
  \/ \E s \in Servers : Change(s)
  \/ Announce \/ ReloadFails
  \/ RequestShutdown
  \/ ConfigureFails
  \/ \E t \in Transports : ServeFails(t)

Spec == Init /\ [][Next]_vars

(* The executor polls a task that can go on.                               *)
FairSpec == Spec /\ WF_vars(Supervise)
-----------------------------------------------------------------------------
Over == pc \in {"returned", "failed"}

TypeOK ==
  /\ server \in Servers /\ version \in Nat /\ announced \in Nat
  /\ pending \in BOOLEAN /\ shutdown \in BOOLEAN
  /\ pc \in {"loop", "configure", "bind", "serve", "wait", "returned", "failed"}
  /\ missed \in [Transports -> BOOLEAN]
  /\ read \in [server: Servers, version: Nat]
  /\ bound \subseteq Transports

(* "Both listeners must observe changes published during their setup": a   *)
(* listener that serves, or a supervisor that waits, knows every announced *)
(* change or has its event still to come.                                  *)
NoMissedReload ==
  /\ pc = "serve" => \A t \in bound : read.version >= announced \/ missed[t]
  /\ pc = "wait" => read.version >= announced \/ missed["udp"]

(* An announced change is eventually read, and a shutdown eventually ends  *)
(* the supervisor, even when the events of the two transports come apart.  *)
ReloadsAndStops ==
  /\ announced > read.version ~> read.version >= announced \/ Over
  /\ shutdown ~> Over
=============================================================================
