-------------------------- MODULE MCConfiguration --------------------------
(***************************************************************************)
(* What follows from a configuration.  The three tasks that watch for its  *)
(* changes on their own: the DNS supervisor, the owner of an injected TUN  *)
(* device, and the supervisor of the socket inbounds, here with one        *)
(* inbound on two sockets.  And routing (MCRoutes): the stored rules, the  *)
(* indexes of patterns, and the decisions about flows.  They share nothing *)
(* but the shutdown signal, which each task reads through a receiver of    *)
(* its own, so the model explores one of them at a time.                   *)
(***************************************************************************)
EXTENDS DnsSupervisor, MCRoutes

CONSTANT proxy      (* the inbound                                          *)

VARIABLES
  focus,                                            (* the task explored    *)
  tunConfig, tunPending, tunShutdown, tunPc, tunHeld, tunSignal,
  inConfig, inLoaded, inAnnounced, inPublishing, inQueue, inLagged, inPc,
  inTarget, inServed, inBinding, inOwned, inOpen, inClosing, inSpawned, inLate, inStatus

Tun == INSTANCE InjectedTun WITH
         config <- tunConfig, pending <- tunPending, shutdown <- tunShutdown,
         pc <- tunPc, held <- tunHeld, signal <- tunSignal

Inb == INSTANCE InboundSupervisor WITH
         Inbounds <- {proxy}, Transports <- [i \in {proxy} |-> {"tcp", "udp"}], Transparent <- {},
         Capacity <- 1, MaxVersion <- 2,
         config <- inConfig, loaded <- inLoaded, announced <- inAnnounced,
         publishing <- inPublishing, queue <- inQueue, lagged <- inLagged,
         stage <- inPc, target <- inTarget, served <- inServed, binding <- inBinding,
         owned <- inOwned, open <- inOpen, closing <- inClosing,
         spawned <- inSpawned, late <- inLate, status <- inStatus

tunVars == <<tunConfig, tunPending, tunShutdown, tunPc, tunHeld, tunSignal>>
inVars == <<inConfig, inLoaded, inAnnounced, inPublishing, inQueue, inLagged, inPc,
            inTarget, inServed, inBinding, inOwned, inOpen, inClosing, inSpawned, inLate, inStatus>>
routingVars == <<indexVars, tableVars, routeVars>>
allVars == <<vars, tunVars, inVars, routingVars, focus>>

(* The parts that rest start in one state.                                 *)
ConfigurationInit ==
  /\ Init /\ Tun!Init /\ Inb!InboundInit /\ IndexInit /\ RouteTableInit /\ RouteInit
  /\ focus \in {"dns", "tun", "inbounds", "index", "table", "routes"}
  /\ focus # "dns" => server = "none"
  /\ focus # "tun" => ~tunConfig.enabled
  /\ focus # "inbounds" => inConfig[proxy].state = "enabled"
  /\ focus # "index" => inserted = {}
  /\ focus # "table" => Len(table) = 2
  /\ focus # "routes" => published = 1

OfDns(Steps) == focus = "dns" /\ Steps /\ UNCHANGED <<tunVars, inVars, routingVars, focus>>
OfTun(Steps) == focus = "tun" /\ Steps /\ UNCHANGED <<vars, inVars, routingVars, focus>>
OfInbounds(Steps) == focus = "inbounds" /\ Steps /\ UNCHANGED <<vars, tunVars, routingVars, focus>>
OfRouting(part, Steps) == focus = part /\ Steps /\ UNCHANGED <<vars, tunVars, inVars, focus>>

ConfigurationNext ==
  \/ OfDns(Next) \/ OfTun(Tun!Next) \/ OfInbounds(Inb!InboundNext)
  \/ OfRouting("index", IndexNext) /\ UNCHANGED <<tableVars, routeVars>>
  \/ OfRouting("table", RouteTableNext) /\ UNCHANGED <<indexVars, routeVars>>
  \/ OfRouting("routes", RouteNext) /\ UNCHANGED <<indexVars, tableVars>>

(* Each task under the fairness of its module: the executor polls it, a    *)
(* reload under way ends, and the lock it waits for is handed over in turn. *)
ConfigurationSpec ==
  /\ ConfigurationInit /\ [][ConfigurationNext]_allVars
  /\ WF_allVars(OfDns(Supervise) \/ OfTun(Tun!Run) \/ OfInbounds(Inb!Supervise))
  /\ WF_allVars(OfTun(Tun!Announce \/ Tun!ReloadFails) \/ OfInbounds(Inb!EndReload))
  /\ SF_allVars(OfTun(Tun!Assemble) \/ OfInbounds(Inb!MarkStarting \/ Inb!StartFails))

(* The owner of the injected device runs it only while it is enabled.      *)
TunRunsEnabled == Tun!RunsEnabled

(* Shutdown ends the owner of the injected device wherever it finds it.    *)
TunShutdownEnds == Tun!ShutdownEnds

(* The owner of the injected device follows its configuration and the      *)
(* shutdown signal (run_tun_owner).                                        *)
TunOwnerFollows == []TunRunsEnabled /\ TunShutdownEnds

(* An announced change of the inbound is eventually served.                *)
InboundEventuallyServed == Inb!EventuallyServed
=============================================================================
