------------------------------- MODULE TunUdp -------------------------------
(***************************************************************************)
(* UDP and ICMP echo through the TUN device (doradus-tun).  One proxy task *)
(* serves all the destinations of a source (full cone), one smoltcp socket *)
(* all the sources of a destination.  An echo request has a task of its    *)
(* own.  The loop task of TunTcp runs these handlers too; they are taken   *)
(* here in any order, which the order of the loop is a case of.            *)
(***************************************************************************)
EXTENDS Integers, Sequences, FiniteSets, Maps, SequencesExt, FiniteSetsExt

CONSTANTS
  UdpFlows, IcmpFlows,   (* flow keys                                      *)
  SourceOf,              (* flow key -> source key (network and address)   *)
  DestOf,                (* UDP flow key -> destination                    *)
  UdpChannelCap,         (* channel_capacity of TunProxyRuntime            *)
  MaxDatagrams,          (* bound on what clients send                     *)
  MaxReplies,            (* bound on what remotes send                     *)
  MaxRequests            (* bound on close requests and idle NAT entries   *)

AllFlows == UdpFlows \cup IcmpFlows
UdpSources == {SourceOf[f] : f \in UdpFlows}

(* The network is part of a key, so that UDP and echo flows share none.    *)
ASSUME UdpKeys ==
  /\ IsFiniteSet(UdpFlows) /\ IsFiniteSet(IcmpFlows) /\ UdpFlows \cap IcmpFlows = {}
  /\ SourceOf \in [AllFlows -> Range(SourceOf)] /\ DestOf \in [UdpFlows -> Range(DestOf)]
  /\ \A f \in UdpFlows, g \in IcmpFlows : SourceOf[f] # SourceOf[g]

VARIABLES
  net,         (* what the loop task owns: see TunUdpInit                  *)
  datagrams,   (* proxy_inputs: flows of the packets to dispatch           *)
  results,     (* the channel from all tasks to the loop                   *)
  ration       (* what is left of the bounds                               *)

tunUdpVars == <<net, datagrams, results, ration>>

TunUdpInit ==
  /\ net \in {[socket |-> [d \in Range(DestOf) |-> "none"],  \* TunDispatcher
               tracked |-> {}, nat |-> {}, cached |-> {},    \* FlowTracker
               resolver |-> b,
               lookup |-> EmptyMap, nextId |-> 0,            \* ProcessLookups
               task |-> EmptyMap, bound |-> {}, gens |-> 0,  \* UdpTaskManager
               echo |-> {}, requested |-> {}] : b \in BOOLEAN}
  /\ datagrams = <<>> /\ results = <<>>
  /\ ration = [in |-> MaxDatagrams, out |-> MaxReplies, close |-> MaxRequests]

Afford(what) == ration[what] > 0 /\ ration' = [ration EXCEPT ![what] = @ - 1]

-----------------------------------------------------------------------------
(* Helpers of TunProxyRuntime.                                             *)
TrackUdp(r, f) == [r EXCEPT !.tracked = @ \cup {f}, !.nat = @ \cup {f}]

UntrackUdp(f, r) ==
  IF f \notin r.tracked THEN r
  ELSE [r EXCEPT !.tracked = @ \ {f}, !.nat = @ \ {f}, !.requested = @ \ {f},
                 !.cached = {k \in @ : \E x \in r.tracked \ {f} : SourceOf[x] = k}]

FlowsBut(s, f) == FoldLeft(LAMBDA kept, x : IF x = f THEN kept ELSE Append(kept, x), <<>>, s)

ForgetDeferred(r, f) ==
  LET k == SourceOf[f]
      kept == FlowsBut(r.lookup[k].events, f)
  IN IF k \notin DOMAIN r.lookup THEN r
     ELSE IF kept = <<>> THEN [r EXCEPT !.lookup = Drop(@, {k})]
     ELSE [r EXCEPT !.lookup[k].events = kept]

(* UdpTaskManager::remove_source: the flows it returns are the caller's.   *)
ReleaseSource(r, k) ==
  IF k \notin DOMAIN r.task THEN r
  ELSE [r EXCEPT !.task = Drop(@, {k}), !.bound = @ \ r.task[k].flows]
FlowsOf(r, k) == IF k \in DOMAIN r.task THEN r.task[k].flows ELSE {}

(* Mutant of UnbindFlow: the task of the last flow is kept.                *)
UnbindKeepingTask(r, f) ==
  IF f \notin r.bound THEN r
  ELSE [r EXCEPT !.bound = @ \ {f}, !.task[SourceOf[f]].flows = @ \ {f}]

(* The last flow of a source takes the task with it; another is announced  *)
(* to the task, if its queue has room.                                     *)
UnbindFlow(r, f) ==
  LET k == SourceOf[f]
      left == FlowsOf(r, k) \ {f}
  IN IF f \notin r.bound THEN r
     ELSE IF left = {} THEN [ReleaseSource(r, k) EXCEPT !.bound = @ \ {f}]
     ELSE [r EXCEPT !.bound = @ \ {f}, !.task[k].flows = left,
                    !.task[k].cmds = IF Len(@) < UdpChannelCap THEN Append(@, <<"close", f>>) ELSE @]

RemoveUdpFlowTask(r, f) ==
  LET a == ForgetDeferred(r, f)
      b == [a EXCEPT !.echo = {e \in @ : e.flow # f}]
  IN IF f \in UdpFlows THEN UnbindFlow(b, f) ELSE b

(* close_udp_flow: only the last tracked flow of a destination closes the  *)
(* socket.                                                                 *)
CloseUdpFlow(f, r) ==
  LET a == RemoveUdpFlowTask(r, f)
      shared == \E x \in a.tracked \cap UdpFlows : x # f /\ DestOf[x] = DestOf[f]
      b == IF shared \/ a.socket[DestOf[f]] = "none" THEN a
           ELSE [a EXCEPT !.socket[DestOf[f]] = "closing"]
  IN UntrackUdp(f, b)

(* Mutant of CloseSource: the flows of the task are not closed.            *)
DropSource(k, r) == ReleaseSource(r, k)

CloseSource(k, r) == FoldSet(CloseUdpFlow, ReleaseSource(r, k), FlowsOf(r, k))

-----------------------------------------------------------------------------
(* A packet of a client: prepare_rx makes the socket of its destination.   *)
ClientDatagram(f) ==
  /\ Afford("in")
  /\ net' = IF f \in UdpFlows /\ net.socket[DestOf[f]] = "none"
            THEN [net EXCEPT !.socket[DestOf[f]] = "open"] ELSE net
  /\ datagrams' = Append(datagrams, f)
  /\ UNCHANGED results

(* collect_proxy_inputs removes a closing socket, after its last packets.  *)
CollectUdpSocket(d) ==
  /\ net.socket[d] = "closing"
  /\ net' = [net EXCEPT !.socket[d] = "none"]
  /\ UNCHANGED <<datagrams, results, ration>>

-----------------------------------------------------------------------------
(* handle_udp_datagram and open_icmp_flow.                                 *)
EnsureSource(r, f) ==
  LET k == SourceOf[f]
      fresh == [gen |-> r.gens + 1, pc |-> "opening", first |-> f, flows |-> {f},
                cmds |-> <<>>, routes |-> {}]
  IN IF k \in DOMAIN r.task
     THEN [r EXCEPT !.task[k].flows = @ \cup {f}, !.bound = @ \cup {f}]
     ELSE [r EXCEPT !.task = Put(@, k, fresh), !.gens = @ + 1, !.bound = @ \cup {f}]

TakesData(r, k) == r.task[k].pc # "finished" /\ Len(r.task[k].cmds) < UdpChannelCap

(* A full queue releases the source; run_dispatcher_until then closes the  *)
(* flow that met it, replay of deferred datagrams every flow of the source.*)
Datagram(r, f) ==
  LET k == SourceOf[f]
      a == EnsureSource(TrackUdp(r, f), f)
  IN IF TakesData(a, k) THEN [a EXCEPT !.task[k].cmds = Append(@, <<"data", f>>)]
     ELSE FoldSet(UntrackUdp, ReleaseSource(a, k), a.task[k].flows)

Echo(r, f) ==
  [TrackUdp(r, f) EXCEPT !.echo = @ \cup {[id |-> r.gens + 1, flow |-> f, pc |-> "pinging"]},
                         !.gens = @ + 1]

ReadyDatagram(r, f) == IF f \in UdpFlows THEN Datagram(r, f) ELSE Echo(r, f)
Failed(r, f) == f \in UdpFlows /\ f \notin ReadyDatagram(r, f).tracked

(* defer_process_lookup: UDP and ICMP lose a packet of a full queue.       *)
DeferDatagram(r, f) ==
  LET k == SourceOf[f] IN
  IF k \in DOMAIN r.lookup
  THEN IF Len(r.lookup[k].events) >= UdpChannelCap THEN r
       ELSE TrackUdp([r EXCEPT !.lookup[k].events = Append(@, f)], f)
  ELSE [TrackUdp(r, f) EXCEPT !.nextId = @ + 1,
          !.lookup = Put(@, k, [id |-> r.nextId + 1, events |-> <<f>>, sent |-> FALSE])]

Waits(r, f) == SourceOf[f] \in DOMAIN r.lookup \/ (r.resolver /\ SourceOf[f] \notin r.cached)
LookupsFull(r, f) == SourceOf[f] \notin DOMAIN r.lookup /\ Cardinality(DOMAIN r.lookup) >= UdpChannelCap

Abandon(r, f) == IF f \in UdpFlows THEN CloseUdpFlow(f, r) ELSE r

DispatchDatagram ==
  /\ datagrams # <<>>
  /\ LET f == Head(datagrams) IN
     net' = IF Waits(net, f)
            THEN IF LookupsFull(net, f) THEN Abandon(net, f) ELSE DeferDatagram(net, f)
            ELSE IF Failed(net, f) THEN Abandon(ReadyDatagram(net, f), f) ELSE ReadyDatagram(net, f)
  /\ datagrams' = Tail(datagrams)
  /\ UNCHANGED <<results, ration>>

-----------------------------------------------------------------------------
(* handle_proxy_output.                                                    *)
Deliver(r, o, lost) ==
  IF o.flow \in r.tracked /\ (lost \/ r.socket[DestOf[o.flow]] = "none")
  THEN CloseUdpFlow(o.flow, r) ELSE r

UdpClosed(r, f) ==
  IF f \in r.bound THEN CloseSource(SourceOf[f], r) ELSE CloseUdpFlow(f, r)

(* bind_translated refuses an endpoint another source holds.               *)
UdpBound(r, k, refused) == IF refused THEN CloseSource(k, r) ELSE r

IcmpData(r, o) ==
  LET a == [r EXCEPT !.echo = {e \in @ : e.id # o.id}]
  IN IF \E e \in a.echo : e.flow = o.flow THEN a ELSE UntrackUdp(o.flow, a)

(* Replay stops at the first datagram it cannot queue and closes all flows *)
(* of the source, those the failed send already untracked too.             *)
ReplayDatagram(a, f) ==
  IF a.failed THEN a ELSE [net |-> ReadyDatagram(a.net, f), failed |-> Failed(a.net, f)]

ReplayDatagrams(r, k, events) ==
  LET end == FoldLeft(ReplayDatagram, [net |-> r, failed |-> FALSE], events)
      deferred == {events[i] : i \in DOMAIN events}
  IN IF ~end.failed THEN end.net
     ELSE FoldSet(CloseUdpFlow, end.net, deferred \cup {f \in end.net.tracked : SourceOf[f] = k})

SourceResolved(r, o) ==
  LET k == SourceOf[o.flow] IN
  IF k \notin DOMAIN r.lookup \/ r.lookup[k].id # o.id THEN r
  ELSE ReplayDatagrams([r EXCEPT !.lookup = Drop(@, {k}), !.cached = @ \cup {k}], k, r.lookup[k].events)

(* Nondeterminism: a write fails, or another source holds the endpoint.    *)
HandleResult(refused) ==
  /\ results # <<>>
  /\ LET o == Head(results) IN
     net' = CASE o.kind = "data"     -> Deliver(net, o, refused)
              [] o.kind = "closed"   -> UdpClosed(net, o.flow)
              [] o.kind = "bound"    -> UdpBound(net, SourceOf[o.flow], refused)
              [] o.kind = "echo"     -> IcmpData(net, o)
              [] o.kind = "resolved" -> SourceResolved(net, o)
  /\ results' = Tail(results)
  /\ UNCHANGED <<datagrams, ration>>

(* reap_finished_tasks, with what is still in the channel left there.      *)
ReapEcho(e, r) == IF \E x \in r.echo : x.flow = e.flow THEN r ELSE UntrackUdp(e.flow, r)

ReapUdp ==
  LET done == {k \in DOMAIN net.task : net.task[k].pc = "finished"}
      echoes == {e \in net.echo : e.pc = "finished"}
  IN /\ done \cup echoes # {}
     /\ net' = FoldSet(CloseSource, FoldSet(ReapEcho, [net EXCEPT !.echo = @ \ echoes], echoes), done)
     /\ UNCHANGED <<datagrams, results, ration>>

(* sweep of an idle NAT entry.  An echo flow loses its tasks only.         *)
SweepFlow(f) ==
  /\ f \in net.nat /\ Afford("close")
  /\ LET r == [net EXCEPT !.nat = @ \ {f}]
     IN net' = IF f \in UdpFlows THEN CloseUdpFlow(f, r) ELSE RemoveUdpFlowTask(r, f)
  /\ UNCHANGED <<datagrams, results>>

RequestUdpClose(f) ==
  /\ f \in net.tracked \ net.requested /\ Afford("close")
  /\ net' = [net EXCEPT !.requested = @ \cup {f}]
  /\ UNCHANGED <<datagrams, results>>

(* apply_close_requests leaves the task of an echo flow to end by itself.  *)
ApplyUdpClose(f) ==
  /\ f \in net.tracked \cap net.requested
  /\ net' = IF f \in UdpFlows THEN CloseUdpFlow(f, net) ELSE UntrackUdp(f, net)
  /\ UNCHANGED <<datagrams, results, ration>>

-----------------------------------------------------------------------------
(* Tasks.  A result waits for room in the channel, or is given up.         *)
EmitResult(kind, f, id) ==
  /\ Len(results) < UdpChannelCap
  /\ results' = Append(results, [kind |-> kind, flow |-> f, id |-> id])

ResolveSource(k) ==
  /\ k \in DOMAIN net.lookup /\ ~net.lookup[k].sent
  /\ EmitResult("resolved", Head(net.lookup[k].events), net.lookup[k].id)
  /\ net' = [net EXCEPT !.lookup[k].sent = TRUE]
  /\ UNCHANGED <<datagrams, ration>>

(* run_icmp_proxy: a reply in either case, unless it cannot be encoded.    *)
PingEnds(e, replied) ==
  /\ e \in net.echo /\ e.pc = "pinging"
  /\ IF replied THEN EmitResult("echo", e.flow, e.id) ELSE UNCHANGED results
  /\ net' = [net EXCEPT !.echo = (@ \ {e}) \cup {[e EXCEPT !.pc = "finished"]}]
  /\ UNCHANGED <<datagrams, ration>>

(* run_udp_proxy.                                                          *)
Serving(k, pc) == k \in DOMAIN net.task /\ net.task[k].pc = pc
SetTask(k, t) == net' = [net EXCEPT !.task[k] = t]

OpenEnds(k, opened) ==
  /\ Serving(k, "opening")
  /\ EmitResult(IF opened THEN "bound" ELSE "closed", net.task[k].first, 0)
  /\ SetTask(k, [net.task[k] EXCEPT !.pc = IF opened THEN "serving" ELSE "finished"])
  /\ UNCHANGED <<datagrams, ration>>

TakeUdpCommand(k) ==
  /\ Serving(k, "serving") /\ net.task[k].cmds # <<>>
  /\ LET t == [net.task[k] EXCEPT !.cmds = Tail(@)]
         c == Head(net.task[k].cmds)
     IN SetTask(k, IF c[1] = "data" THEN [t EXCEPT !.routes = @ \cup {c[2]}]
                   ELSE IF t.routes \subseteq {c[2]}
                        THEN [t EXCEPT !.routes = {c[2]}, !.pc = "ending"]
                        ELSE [t EXCEPT !.routes = @ \ {c[2]}])
  /\ UNCHANGED <<datagrams, results, ration>>

(* A datagram of any peer goes to a flow the task knows.                   *)
RemoteDatagram(k, f) ==
  /\ Serving(k, "serving") /\ f \in net.task[k].routes /\ Afford("out")
  /\ EmitResult("data", f, 0)
  /\ UNCHANGED <<net, datagrams>>

(* A failed send or receive, the idle timer or the progress watchdog.      *)
ServeStops(k) ==
  /\ Serving(k, "serving")
  /\ SetTask(k, [net.task[k] EXCEPT !.pc = "ending"])
  /\ UNCHANGED <<datagrams, results, ration>>

(* One close per flow the task served; a full channel skips one.           *)
EmitUdpClosed(k, f) ==
  /\ Serving(k, "ending") /\ f \in net.task[k].routes
  /\ IF Len(results) < UdpChannelCap THEN EmitResult("closed", f, 0) ELSE UNCHANGED results
  /\ SetTask(k, [net.task[k] EXCEPT !.routes = @ \ {f}])
  /\ UNCHANGED <<datagrams, ration>>

TaskEnds(k) ==
  /\ \/ Serving(k, "ending") /\ net.task[k].routes = {}
     \/ (Serving(k, "opening") \/ Serving(k, "serving")) /\ Len(results) = UdpChannelCap
  /\ SetTask(k, [net.task[k] EXCEPT !.pc = "finished", !.cmds = <<>>])
  /\ UNCHANGED <<datagrams, results, ration>>

UdpLoop ==
  \/ DispatchDatagram \/ ReapUdp
  \/ \E refused \in BOOLEAN : HandleResult(refused)
  \/ \E f \in AllFlows : ApplyUdpClose(f)
  \/ \E d \in DOMAIN net.socket : CollectUdpSocket(d)

TunUdpNext ==
  \/ UdpLoop
  \/ \E f \in AllFlows : ClientDatagram(f) \/ SweepFlow(f) \/ RequestUdpClose(f)
  \/ \E k \in Range(SourceOf) : ResolveSource(k)
  \/ \E e \in net.echo, replied \in BOOLEAN : PingEnds(e, replied)
  \/ \E k \in UdpSources :
       \/ \E opened \in BOOLEAN : OpenEnds(k, opened)
       \/ TakeUdpCommand(k) \/ ServeStops(k) \/ TaskEnds(k)
       \/ \E f \in UdpFlows : RemoteDatagram(k, f) \/ EmitUdpClosed(k, f)

TunUdpSpec == TunUdpInit /\ [][TunUdpNext]_tunUdpVars

-----------------------------------------------------------------------------
DeferredFlows == UNION {{net.lookup[k].events[i] : i \in DOMAIN net.lookup[k].events} : k \in DOMAIN net.lookup}

(* The flow index and the tasks agree, every task still has a flow, and a  *)
(* flow with a task is tracked: a reply would be dropped as stale and the  *)
(* task never closed.                                                      *)
UdpTasksOwned ==
  /\ net.bound = UNION {net.task[k].flows : k \in DOMAIN net.task}
  /\ \A k \in DOMAIN net.task :
       net.task[k].flows # {} /\ \A f \in net.task[k].flows : SourceOf[f] = k /\ f \in net.tracked

(* A tracked flow has a task or waits for one, so that something will      *)
(* untrack it; only an echo flow whose NAT entry was swept may have none.  *)
TrackedHasOwner ==
  \A f \in net.tracked :
    \/ f \in net.bound \cup DeferredFlows \cup {e.flow : e \in net.echo}
    \/ f \in IcmpFlows \ net.nat

(* Tasks, flows and sources of UDP agree, so that each ends with the other. *)
UdpFlowsOwned == UdpTasksOwned /\ TrackedHasOwner
=============================================================================
