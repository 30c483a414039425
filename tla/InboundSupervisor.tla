------------------------- MODULE InboundSupervisor -------------------------
(***************************************************************************)
(* run_until_inner of doradus-runtime (plane/inbounds/mod.rs): the task    *)
(* that owns the socket listeners of every inbound and restarts them when  *)
(* the controller announces a changed inbound on a bounded broadcast       *)
(* channel, with start_inbounds and supervise_listener (listeners.rs) and  *)
(* the status each step leaves behind (control/inbound_runtime.rs).        *)
(*                                                                         *)
(* The controller is its effect on this task: a mutation commits the       *)
(* inbound, and its reload either fails or publishes and announces it.     *)
(***************************************************************************)
EXTENDS Naturals, Sequences, FiniteSets, Maps

CONSTANTS
  Inbounds,     (* ids of socket inbounds                                  *)
  Transports,   (* inbound -> the sockets it listens on                    *)
  Transparent,  (* the tproxy and redir inbounds, of a build for Linux     *)
  Capacity,     (* capacity of the inbound reload channel (32)             *)
  MaxVersion    (* bound on the changes of one inbound                     *)

Ports == {"tcp", "udp"}

All == "all"          (* InboundReload::All                                 *)
Quiet == "quiet"      (* a reload whose plan names no inbound               *)
Nothing == "nothing"  (* nobody holds the reload lock                       *)

ASSUME SupervisorOptions ==
  /\ Transports \in [Inbounds -> SUBSET Ports]
  /\ Transparent \subseteq Inbounds
  /\ {All, Quiet, Nothing} \cap Inbounds = {}
  /\ Capacity \in Nat \ {0}
  /\ MaxVersion \in Nat

VARIABLES
  config,     (* inbound -> persisted record                               *)
  loaded,     (* inbound -> version in the published snapshot              *)
  announced,  (* inbound -> version when it was last announced             *)
  publishing, (* the event of the reload in progress                       *)
  queue,      (* events the supervisor has not received                    *)
  lagged,     (* the channel overwrote events it had not received          *)
  stage,      (* where the supervisor is                                   *)
  target,     (* inbounds it is restarting                                 *)
  served,     (* inbound -> the record it was last started from            *)
  binding,    (* sockets start_inbounds has still to bind                  *)
  owned,      (* keys of the owner map                                     *)
  open,       (* sockets of running listener tasks: <<inbound, port, version>> *)
  closing,    (* <<inbound, port>> of aborted tasks that still hold them   *)
  spawned,    (* transparent listener tasks that have not bound yet        *)
  late,       (* <<inbound, port>> of those, aborted and perhaps running   *)
  status      (* inbound -> RuntimeEntry                                   *)

controller == <<config, loaded, announced, publishing>>
channel == <<queue, lagged>>
tasks == <<owned, open, closing, spawned, late>>
inboundVars == <<controller, channel, stage, target, served, binding, tasks, status>>

States == {"none", "disabled", "starting", "running", "degraded", "failed", "stopping"}
Events == Inbounds \cup {All}
Record == [state: {"absent", "disabled", "enabled"}, version: Nat]

-----------------------------------------------------------------------------
(* InboundRuntimeState: a RuntimeEntry is a state and the states of its    *)
(* listeners by kind.                                                      *)
Blank(state) == [state |-> state, listeners |-> EmptyMap]

HasFailed(e) == \E k \in DOMAIN e.listeners : e.listeners[k] = "failed"
HasRunning(e) == \E k \in DOMAIN e.listeners : e.listeners[k] = "running"

Ready(e, kind) ==
  LET l == Put(e.listeners, kind, "running")
  IN [listeners |-> l,
      state |-> IF HasFailed([e EXCEPT !.listeners = l]) THEN "degraded" ELSE "running"]

Failed(e, kind) ==
  LET l == Put(e.listeners, kind, "failed")
  IN [listeners |-> l,
      state |-> IF HasRunning([e EXCEPT !.listeners = l]) THEN "degraded" ELSE "failed"]

Stopping(e) ==
  [state |-> "stopping", listeners |-> [k \in DOMAIN e.listeners |-> "stopping"]]

(* Mutant of Started: an owner that bound something is left as it is.      *)
StartedUnmarked(e, isOwned) == IF isOwned THEN e ELSE Failed(e, "inbound")

(* owner_started, or mark_no_listener when nothing was bound.              *)
Started(e, isOwned) ==
  IF ~isOwned THEN Failed(e, "inbound")
  ELSE IF e.state = "starting" THEN Ready(e, "listener") ELSE e

-----------------------------------------------------------------------------
(* Mutant of Send: the channel has no bound.                               *)
SendUnbounded(ev) == queue' = Append(queue, ev) /\ UNCHANGED lagged

(* broadcast::Sender::send: a full channel overwrites the oldest event.    *)
Send(ev) ==
  /\ queue' = Append(IF Len(queue) = Capacity THEN Tail(queue) ELSE queue, ev)
  /\ lagged' = (lagged \/ Len(queue) = Capacity)

(* mutate_and_reload_inbound: one inbound is saved or deleted.             *)
CommitInbound(i, s) ==
  /\ publishing = Nothing /\ config[i].version < MaxVersion
  /\ config' = [config EXCEPT ![i] = [state |-> s, version |-> @.version + 1]]
  /\ publishing' = i
  /\ UNCHANGED <<loaded, announced, channel, stage, target, served, binding, tasks, status>>

(* mutate_and_reload_inbounds: the users every listener authenticates.     *)
CommitUsers ==
  /\ publishing = Nothing /\ \A i \in Inbounds : config[i].version < MaxVersion
  /\ config' = [i \in Inbounds |-> [config[i] EXCEPT !.version = @ + 1]]
  /\ publishing' = All
  /\ UNCHANGED <<loaded, announced, channel, stage, target, served, binding, tasks, status>>

(* A reload, or a mutation of something else.                              *)
BeginPlainReload ==
  /\ publishing = Nothing
  /\ publishing' = Quiet
  /\ UNCHANGED <<config, loaded, announced, channel, stage, target, served, binding,
                 tasks, status>>

(* rebuild_locked succeeds: the snapshot carries every inbound, the event  *)
(* names the ones of this mutation.                                        *)
ReloadSucceeds ==
  /\ publishing # Nothing
  /\ loaded' = [i \in Inbounds |-> config[i].version]
  /\ announced' = [i \in Inbounds |->
                     IF publishing \in {i, All} THEN config[i].version ELSE announced[i]]
  /\ IF publishing = Quiet THEN UNCHANGED channel ELSE Send(publishing)
  /\ publishing' = Nothing
  /\ UNCHANGED <<config, stage, target, served, binding, tasks, status>>

(* rebuild_locked fails: the committed record stays, nothing is announced. *)
ReloadFails ==
  /\ publishing # Nothing
  /\ publishing' = Nothing
  /\ UNCHANGED <<config, loaded, announced, channel, stage, target, served, binding,
                 tasks, status>>

(* retry_inbound *)
Retry(i) ==
  /\ publishing = Nothing
  /\ config[i].state = "enabled"
  /\ status' = [status EXCEPT ![i] = Blank("starting")]
  /\ Send(i)
  /\ UNCHANGED <<controller, stage, target, served, binding, tasks>>

-----------------------------------------------------------------------------
(* Mutants of Receive: the events a lagged receiver missed are forgotten,  *)
(* alone or with the ones still queued.                                    *)
ReceiveIgnoringLag ==
  /\ stage = "idle" /\ queue # <<>>
  /\ stage' = "abort"
  /\ lagged' = FALSE
  /\ IF Head(queue) = All
     THEN target' = Inbounds /\ queue' = <<>>
     ELSE target' = {Head(queue)} /\ queue' = Tail(queue)
  /\ UNCHANGED <<controller, served, binding, tasks, status>>
ReceiveDiscardingLag ==
  /\ stage = "idle" /\ (lagged \/ queue # <<>>)
  /\ stage' = IF lagged THEN "idle" ELSE "abort"
  /\ lagged' = FALSE
  /\ queue' = IF lagged THEN <<>> ELSE Tail(queue)
  /\ target' = Inbounds
  /\ UNCHANGED <<controller, served, binding, tasks, status>>

(* next_inbound_reload: a lagged receiver reconciles everything; All       *)
(* discards the events queued behind it.                                   *)
Receive ==
  /\ stage = "idle" /\ (lagged \/ queue # <<>>)
  /\ stage' = "abort"
  /\ lagged' = FALSE
  /\ IF lagged \/ Head(queue) = All
     THEN target' = Inbounds /\ queue' = <<>>
     ELSE target' = {Head(queue)} /\ queue' = Tail(queue)
  /\ UNCHANGED <<controller, served, binding, tasks, status>>

(* Mutant of AbortOwners: the owners are forgotten, their tasks run on.    *)
ForgetOwners(I) ==
  /\ owned' = owned \ I
  /\ status' = [i \in Inbounds |->
                  IF i \in owned \cap I THEN Stopping(status[i]) ELSE status[i]]
  /\ UNCHANGED <<open, closing, spawned, late>>

(* The tasks of the owners I are aborted.  What is awaited is the task     *)
(* that supervises the listener: it passes the abort on to the listener,   *)
(* which drops its socket when the scheduler gets to it.  A transparent    *)
(* listener that has not bound yet may be about to.                        *)
AbortOwners(I) ==
  /\ owned' = owned \ I
  /\ open' = {x \in open : x[1] \notin I}
  /\ closing' = closing \cup {<<x[1], x[2]>> : x \in {y \in open : y[1] \in I}}
  /\ spawned' = {x \in spawned : x[1] \notin I}
  /\ late' = late \cup {<<x[1], x[2]>> : x \in {y \in spawned : y[1] \in I}}
  /\ status' = [i \in Inbounds |->
                  IF i \in owned \cap I THEN Stopping(status[i]) ELSE status[i]]

Abort ==
  /\ stage = "abort"
  /\ AbortOwners(target)
  /\ stage' = "read"
  /\ UNCHANGED <<controller, channel, target, served, binding>>

SocketDropped(x) ==
  /\ x \in closing
  /\ closing' = closing \ {x}
  /\ UNCHANGED <<controller, channel, stage, target, served, binding, owned, open, spawned, late,
                 status>>

(* start_inbounds_inner reads the records ...                              *)
ReadRecords ==
  /\ stage = "read"
  /\ served' = [i \in Inbounds |-> IF i \in target THEN config[i] ELSE served[i]]
  /\ stage' = "select"
  /\ UNCHANGED <<controller, channel, target, binding, tasks, status>>

(* ... builds a selector, for which it waits for the reload lock, marks    *)
(* the inbounds it is about to start ...                                   *)
MarkStarting ==
  /\ stage = "select" /\ publishing = Nothing
  /\ status' = [i \in Inbounds |->
                  IF i \notin target \/ served[i].state = "absent" THEN status[i]
                  ELSE Blank(IF served[i].state = "enabled" THEN "starting" ELSE "disabled")]
  /\ binding' = {x \in target \X Ports :
                   served[x[1]].state = "enabled" /\ x[2] \in Transports[x[1]]}
  /\ stage' = "bind"
  /\ UNCHANGED <<controller, channel, target, served, tasks>>

(* ... whose failure ends the supervisor ...                               *)
StartFails ==
  /\ stage = "select" /\ publishing = Nothing
  /\ AbortOwners(owned)
  /\ stage' = "stopped"
  /\ UNCHANGED <<controller, channel, target, served, binding>>

(* ... and binds each socket.  Only TCP reports that it is ready.          *)
Bind(i, p) ==
  /\ stage = "bind" /\ <<i, p>> \in binding /\ i \notin Transparent
  /\ <<i, p>> \notin closing
  /\ binding' = binding \ {<<i, p>>}
  /\ open' = open \cup {<<i, p, served[i].version>>}
  /\ owned' = owned \cup {i}
  /\ status' = [status EXCEPT ![i] = IF p = "tcp" THEN Ready(@, "tcp") ELSE @]
  /\ UNCHANGED <<controller, channel, stage, target, served, closing, spawned, late>>

BindFails(i, p) ==
  /\ stage = "bind" /\ <<i, p>> \in binding /\ i \notin Transparent
  /\ binding' = binding \ {<<i, p>>}
  /\ status' = [status EXCEPT ![i] = Failed(@, p)]
  /\ UNCHANGED <<controller, channel, stage, target, served, tasks>>

(* No socket of the inbound was dealt with yet.                            *)
Untouched(i) == Transports[i] # {} /\ \A p \in Transports[i] : <<i, p>> \in binding

(* start_transparent_listener: the tasks become owners, and bind later.    *)
SpawnTransparent(i) ==
  /\ stage = "bind" /\ i \in target \cap Transparent /\ Untouched(i)
  /\ binding' = {x \in binding : x[1] # i}
  /\ spawned' = spawned \cup {<<i, p, served[i].version>> : p \in Transports[i]}
  /\ owned' = owned \cup {i}
  /\ UNCHANGED <<controller, channel, stage, target, served, open, closing, late, status>>

(* A record that does not compile, or whose protocol or transport cannot   *)
(* be served, is skipped before any socket of it is bound.                 *)
SkipInbound(i) ==
  /\ stage = "bind" /\ i \in target /\ Untouched(i)
  /\ binding' = {x \in binding : x[1] # i}
  /\ UNCHANGED <<controller, channel, stage, target, served, tasks, status>>

(* The end of the start: the transparent inbounds (deferred_socket_ids)    *)
(* are left to their tasks, the skipped ones too.                          *)
FinishStart ==
  /\ stage = "bind" /\ binding = {}
  /\ status' = [i \in Inbounds |->
                  IF i \in target \ Transparent /\ served[i].state = "enabled"
                  THEN Started(status[i], i \in owned) ELSE status[i]]
  /\ stage' = "idle"
  /\ UNCHANGED <<controller, channel, target, served, binding, tasks>>

(* serve_listener and serve_udp_listener of a transparent inbound bind and *)
(* report in their first poll; one that fails ends.                        *)
TaskBinds(x) ==
  /\ x \in spawned /\ <<x[1], x[2]>> \notin closing
  /\ spawned' = spawned \ {x}
  /\ open' = open \cup {x}
  /\ status' = [status EXCEPT ![x[1]] = Ready(@, x[2])]
  /\ UNCHANGED <<controller, channel, stage, target, served, binding, owned, closing, late>>

TaskFails(x) ==
  /\ x \in spawned
  /\ spawned' = spawned \ {x}
  /\ status' = [status EXCEPT ![x[1]] = Failed(@, x[2])]
  /\ UNCHANGED <<controller, channel, stage, target, served, binding, owned, open, closing, late>>

(* A task aborted before it reported: it never ran, or that poll ends only *)
(* now, and reports over the status of its successor.                      *)
LateTaskEnds(x) ==
  /\ x \in late
  /\ late' = late \ {x}
  /\ \/ UNCHANGED <<closing, status>>
     \/ /\ x \notin closing /\ \A y \in open : <<y[1], y[2]>> # x
        /\ closing' = closing \cup {x}
        /\ status' = [status EXCEPT ![x[1]] = Ready(@, x[2])]
     \/ /\ status' = [status EXCEPT ![x[1]] = Failed(@, x[2])]
        /\ UNCHANGED closing
  /\ UNCHANGED <<controller, channel, stage, target, served, binding, owned, open, spawned>>

(* supervise_listener: a listener task ends by itself.                     *)
ListenerDies(x) ==
  /\ x \in open
  /\ open' = open \ {x}
  /\ status' = [status EXCEPT ![x[1]] =
                  IF @.state = "stopping" \/ HasFailed(@) THEN @
                  ELSE Failed(@, "listener")]
  /\ UNCHANGED <<controller, channel, stage, target, served, binding, owned, closing, spawned, late>>

Shutdown ==
  /\ stage = "idle"
  /\ AbortOwners(owned)
  /\ stage' = "stopped"
  /\ UNCHANGED <<controller, channel, target, served, binding>>

-----------------------------------------------------------------------------
(* The supervisor subscribes, then starts every inbound.                   *)
InboundInit ==
  /\ config \in [Inbounds -> [state: {"absent", "disabled", "enabled"}, version: {0}]]
  /\ loaded = [i \in Inbounds |-> 0]
  /\ announced = [i \in Inbounds |-> 0]
  /\ publishing = Nothing
  /\ queue = <<>> /\ lagged = FALSE
  /\ stage = "read" /\ target = Inbounds
  /\ served = [i \in Inbounds |-> [state |-> "absent", version |-> 0]]
  /\ binding = {}
  /\ owned = {} /\ open = {} /\ closing = {} /\ spawned = {} /\ late = {}
  /\ status = [i \in Inbounds |-> Blank("none")]

Supervise ==
  \/ Receive \/ Abort \/ ReadRecords \/ MarkStarting \/ StartFails \/ FinishStart
  \/ \E i \in Inbounds : SkipInbound(i) \/ SpawnTransparent(i)
  \/ \E i \in Inbounds, p \in Ports : Bind(i, p) \/ BindFails(i, p)

EndReload == ReloadSucceeds \/ ReloadFails

InboundNext ==
  \/ Supervise
  \/ EndReload
  \/ \E i \in Inbounds :
       \/ \E s \in {"absent", "disabled", "enabled"} : CommitInbound(i, s)
       \/ Retry(i)
  \/ CommitUsers
  \/ BeginPlainReload
  \/ \E x \in open : ListenerDies(x)
  \/ \E x \in closing : SocketDropped(x)
  \/ \E x \in spawned : TaskBinds(x) \/ TaskFails(x)
  \/ \E x \in late : LateTaskEnds(x)
  \/ Shutdown

InboundSpec == InboundInit /\ [][InboundNext]_inboundVars

(* The executor polls a task that can go on, and a reload that holds the   *)
(* lock ends.  The lock is first come, first served, so a supervisor that  *)
(* waits for it gets it however many reloads follow each other.            *)
FairSpec ==
  /\ InboundSpec
  /\ WF_inboundVars(Supervise) /\ WF_inboundVars(EndReload)
  /\ SF_inboundVars(MarkStarting \/ StartFails)
-----------------------------------------------------------------------------
InboundTypeOK ==
  /\ config \in [Inbounds -> Record] /\ served \in [Inbounds -> Record]
  /\ loaded \in [Inbounds -> Nat] /\ announced \in [Inbounds -> Nat]
  /\ publishing \in Events \cup {Quiet, Nothing}
  /\ queue \in Seq(Events) /\ Len(queue) <= Capacity /\ lagged \in BOOLEAN
  /\ stage \in {"idle", "abort", "read", "select", "bind", "stopped"}
  /\ target \subseteq Inbounds /\ owned \subseteq Inbounds
  /\ binding \subseteq Inbounds \X Ports
  /\ open \subseteq Inbounds \X Ports \X Nat /\ closing \subseteq Inbounds \X Ports
  /\ spawned \subseteq Transparent \X Ports \X Nat /\ late \subseteq Transparent \X Ports
  /\ \A i \in Inbounds : status[i].state \in States

AtRest == stage = "idle" /\ queue = <<>> /\ ~lagged /\ publishing = Nothing

(* No announced change is lost: a supervisor at rest has started every     *)
(* inbound from a record at least as new as its last announcement, although *)
(* events overflow the channel, are discarded behind All and arrive while  *)
(* it restarts something else.                                             *)
AnnouncedIsServed ==
  AtRest => \A i \in Inbounds : served[i].version >= announced[i]

(* A listener of an older record never serves beside or instead of the     *)
(* current one, and a disabled or deleted inbound has none.                *)
OneGeneration ==
  stage = "idle" => \A x \in open :
    x[3] = served[x[1]].version /\ served[x[1]].state = "enabled"

(* The status is left to the tasks of a transparent inbound, and some have *)
(* yet to report, or none was spawned.                                     *)
Unreported(i) == i \in Transparent /\ (i \notin owned \/ \E x \in spawned : x[1] = i)

Outcomes == {"running", "degraded", "failed"}

(* The status never sticks at "stopping", and at "starting" only where no  *)
(* listener task will report: at rest an enabled inbound is running,       *)
(* degraded or failed, unless it is a transparent one that was skipped or  *)
(* whose tasks have yet to bind; a disabled one is disabled, unless a task *)
(* of it that was aborted while it bound reports over that.                *)
StatusSettles ==
  AtRest => \A i \in Inbounds :
    /\ served[i].state = "enabled" =>
         status[i].state \in Outcomes \/ (status[i].state = "starting" /\ Unreported(i))
    /\ served[i].state = "disabled" =>
         status[i].state = "disabled" \/ (i \in Transparent /\ status[i].state \in Outcomes)

(* A restart is complete: listeners of the record that was read and of no  *)
(* other, and a status that says how it ended.                             *)
ListenersSettle == OneGeneration /\ StatusSettles

(* Every announced change is eventually served, unless the supervisor      *)
(* stops.                                                                  *)
EventuallyServed ==
  \A i \in Inbounds :
    announced[i] > served[i].version ~>
      served[i].version >= announced[i] \/ stage = "stopped"

(* run_until: "restart the affected owner after a successful configuration *)
(* reload": once a snapshot with the record is published and the           *)
(* supervisor is at rest, the record is served.                            *)
ReloadApplied ==
  AtRest => \A i \in Inbounds :
    loaded[i] = config[i].version => served[i].version = config[i].version
=============================================================================
