------------------------------ MODULE UdpInbound ------------------------------
(***************************************************************************)
(* Framed UDP of an inbound (doradus-runtime, plane/inbounds/handler_udp): *)
(* protocol sessions hand packets to one manager task, which keeps a       *)
(* worker per client source; a worker owns the outbound datagram of its    *)
(* flow and tells the manager and its session when the flow opens and      *)
(* ends.  The management API closes a flow through the connection monitor: *)
(* a flag, then a broadcast every session and worker subscribes to.        *)
(*                                                                         *)
(* A source stands for the UdpSourceKey of its session.  The flow of a     *)
(* worker is its source and the target of the packet that opened it.       *)
(***************************************************************************)
EXTENDS Integers, Sequences, FiniteSets, Maps

CONSTANTS
  Sources,        (* client sources                                        *)
  Targets,        (* destinations of packets                               *)
  SessionOf,      (* source -> the session its packets come through        *)
  Capacity,       (* of every bounded channel                              *)
  MaxPackets,     (* bound on the packets clients send                     *)
  MaxCloses       (* bound on the close requests of the management API     *)

Sessions == {SessionOf[a] : a \in Sources}
Flows == Sources \X Targets
NoFlow == <<>>
Lagged == <<"lagged">>
Elsewhere == <<"elsewhere">>   (* a flow of another inbound                *)

VARIABLES
  session,      (* session -> phase, active flow, end of its input, and    *)
                (* closeOnEnd: its codec carries a single flow             *)
  cancelled,    (* sessions whose cancel token is set                      *)
  replies,      (* session -> responses waiting in its channel             *)
  notices,      (* session -> flow events waiting in its channel           *)
  ingress,      (* packets waiting for the manager                         *)
  commands,     (* commands waiting for the manager                        *)
  lifecycle,    (* worker events waiting for the manager                   *)
  manager,      (* "running", "ending" or "ended"                          *)
  handles,      (* source -> generation and flow of its worker's handle    *)
  pendingClose, (* source -> flow to close as soon as it is open           *)
  worker,       (* sequence of the workers ever spawned, by generation     *)
  requested,    (* flows with a close request in the monitor               *)
  announcing,   (* flows whose request is not broadcast yet                *)
  heard,        (* receiver -> close broadcasts it has not read            *)
  sent,         (* packets sent so far                                     *)
  closes        (* close requests made so far                              *)

sessionVars == <<session, cancelled, replies, notices>>
managerVars == <<ingress, commands, lifecycle, manager, handles, pendingClose>>
monitorVars == <<requested, announcing, closes>>
udpVars == <<sessionVars, managerVars, worker, monitorVars, heard, sent>>

-----------------------------------------------------------------------------
(* A worker reads its receiver until run() returns: then the sender held   *)
(* by the manager is closed.                                               *)
Alive(w) == w.pc \notin {"ended", "gone"}
Processing(w) == w.pc \in {"packet", "opened", "announce", "check", "sendto", "notify"}
Ears == Sessions \cup (1..Len(worker))

WorkerOf(a) == worker[handles[a].generation]
Set(g, field, v) == worker' = [worker EXCEPT ![g][field] = v]
Goto(g, p) ==
  worker' = [worker EXCEPT ![g].pc = p,
                           ![g].packet = IF p \in {"top", "leave"} THEN NoFlow ELSE @]
Cancel(G) == [g \in DOMAIN worker |-> IF g \in G THEN [worker[g] EXCEPT !.cancel = TRUE] ELSE worker[g]]

(* try_send: a full channel loses the packet.                              *)
Offer(q, x) == IF Len(q) < Capacity THEN Append(q, x) ELSE q
Room(q) == Len(q) < Capacity

(* broadcast::Receiver: the oldest message is overwritten, and the next    *)
(* recv reports Lagged before it goes on with what is left.                *)
Hear(q, f) ==
  IF Len(SelectSeq(q, LAMBDA m : m # Lagged)) < Capacity THEN Append(q, f)
  ELSE <<Lagged>> \o Append(Tail(SelectSeq(q, LAMBDA m : m # Lagged)), f)

-----------------------------------------------------------------------------
(* ConnectionMonitor::request_close for a flow in the connection list: the *)
(* flag under the state lock, the broadcast after it.                      *)
Observed(f) == \E g \in DOMAIN worker : worker[g].observed /\ worker[g].flow = f

RequestClose(f) ==
  /\ closes < MaxCloses
  /\ Observed(f) /\ f \notin requested
  /\ requested' = requested \cup {f}
  /\ announcing' = announcing \cup {f}
  /\ closes' = closes + 1
  /\ UNCHANGED <<sessionVars, managerVars, worker, heard, sent>>

Listens(r) ==
  IF r \in Sessions THEN session[r].phase # "over" ELSE worker[r].pc # "start" /\ Alive(worker[r])
Broadcast(f) == heard' = [r \in DOMAIN heard |-> IF Listens(r) THEN Hear(heard[r], f) ELSE heard[r]]

BroadcastClose(f) ==
  /\ f \in announcing
  /\ announcing' = announcing \ {f}
  /\ Broadcast(f)
  /\ UNCHANGED <<sessionVars, managerVars, worker, requested, closes, sent>>

(* A close of another inbound's flow.  Read from an empty queue it changes *)
(* nothing; the model takes one where it may push a message out.           *)
CloseElsewhere ==
  /\ closes = MaxCloses /\ \E r \in DOMAIN heard : heard[r] # <<>>
  /\ Broadcast(Elsewhere)
  /\ closes' = closes + 1
  /\ UNCHANGED <<sessionVars, managerVars, worker, requested, announcing, sent>>

-----------------------------------------------------------------------------
(* InboundUdpSession::run.                                                 *)
Phase(s, p) == session' = [session EXCEPT ![s].phase = p]
Owns(s, f) == session[s].closeOnEnd /\ session[s].active = f
CloseSeen(s) == session[s].active # NoFlow /\ session[s].active \in requested

ReceivePacket(a, t) ==
  LET s == SessionOf[a] IN
  /\ session[s].phase = "open" /\ ~session[s].inputClosed /\ sent < MaxPackets
  /\ sent' = sent + 1
  /\ ingress' = Offer(ingress, <<a, t>>)
  /\ UNCHANGED <<session, cancelled, replies, notices, commands, lifecycle, manager, handles, pendingClose,
                 worker, monitorVars, heard>>

(* The codec ends: leave at once, or drain the replies still expected.     *)
(* Which of the two depends on pending_packets, a count of what was        *)
(* accepted less what was answered, which the model leaves open.           *)
InputEnds(s) ==
  /\ session[s].phase = "open" /\ ~session[s].inputClosed
  /\ \E p \in {"open", "leaving"} :
       session' = [session EXCEPT ![s].inputClosed = TRUE, ![s].phase = p]
  /\ UNCHANGED <<cancelled, replies, notices, managerVars, worker, monitorVars, heard, sent>>

(* The codec fails, or the drain timer fires.                              *)
StopReading(s) ==
  /\ session[s].phase \in {"open", "replying"}
  /\ Phase(s, "leaving")
  /\ UNCHANGED <<cancelled, replies, notices, managerVars, worker, monitorVars, heard, sent>>

TakeReply(s) ==
  /\ session[s].phase = "open" /\ replies[s] > 0
  /\ replies' = [replies EXCEPT ![s] = @ - 1]
  /\ Phase(s, "replying")
  /\ UNCHANGED <<cancelled, notices, managerVars, worker, monitorVars, heard, sent>>

(* send_session_reply: the codec's write ends, unless the flow is closed.  *)
WriteReply(s) ==
  /\ session[s].phase = "replying"
  /\ \/ ~CloseSeen(s) /\ Phase(s, "open")
     \/ (CloseSeen(s) \/ session[s].inputClosed) /\ Phase(s, "leaving")
  /\ UNCHANGED <<cancelled, replies, notices, managerVars, worker, monitorVars, heard, sent>>

(* The session's phase after a reason to stop: run() tells the manager to  *)
(* close the flow first, send_session_reply just ends.                     *)
StopPhase(s) == IF session[s].phase = "open" THEN "closeFlow" ELSE "leaving"

(* UdpSessionFlow::on_event.  While a reply is written, only a stream      *)
(* session reads its events.                                               *)
ReadsNotices(s) ==
  session[s].phase = "open" \/ (session[s].phase = "replying" /\ session[s].closeOnEnd)

TakeNotice(s) ==
  /\ ReadsNotices(s)
  /\ notices[s] # <<>>
  /\ LET n == Head(notices[s])
         stop == session[s].closeOnEnd /\ IF n.kind = "opened" THEN n.flow \in requested ELSE Owns(s, n.flow)
     IN session' = [session EXCEPT ![s].active = IF session[s].closeOnEnd /\ n.kind = "opened" THEN n.flow ELSE @,
                                   ![s].phase = IF stop THEN StopPhase(s) ELSE @]
  /\ notices' = [notices EXCEPT ![s] = Tail(@)]
  /\ UNCHANGED <<cancelled, replies, managerVars, worker, monitorVars, heard, sent>>

HearClose(s) ==
  /\ ReadsNotices(s)
  /\ heard[s] # <<>>
  /\ LET m == Head(heard[s]) IN
       Phase(s, IF m = Lagged THEN IF CloseSeen(s) THEN "leaving" ELSE session[s].phase
                ELSE IF Owns(s, m) THEN StopPhase(s) ELSE session[s].phase)
  /\ heard' = [heard EXCEPT ![s] = Tail(@)]
  /\ UNCHANGED <<cancelled, replies, notices, managerVars, worker, monitorVars, sent>>

SendCloseFlow(s) ==
  /\ session[s].phase = "closeFlow" /\ Room(commands)
  /\ commands' = Append(commands, [kind |-> "flow", session |-> s, flow |-> session[s].active])
  /\ Phase(s, "leaving")
  /\ UNCHANGED <<cancelled, replies, notices, ingress, lifecycle, manager, handles, pendingClose,
                 worker, monitorVars, heard, sent>>

Leave(s) ==
  /\ session[s].phase = "leaving"
  /\ cancelled' = cancelled \cup {s}
  /\ Phase(s, "closeSession")
  /\ UNCHANGED <<replies, notices, managerVars, worker, monitorVars, heard, sent>>

(* The session is gone: its channels are dropped with what they hold.      *)
SessionOver(s) ==
  /\ Phase(s, "over")
  /\ replies' = [replies EXCEPT ![s] = 0]
  /\ notices' = [notices EXCEPT ![s] = <<>>]
  /\ heard' = [heard EXCEPT ![s] = <<>>]

SendCloseSession(s) ==
  /\ session[s].phase = "closeSession" /\ Room(commands)
  /\ commands' = Append(commands, [kind |-> "session", session |-> s, flow |-> NoFlow])
  /\ SessionOver(s)
  /\ UNCHANGED <<cancelled, ingress, lifecycle, manager, handles, pendingClose, worker, monitorVars, sent>>

(* Mutant of DropSession: there is no Drop for InboundUdpSession.          *)
DropSessionUncancelled(s) ==
  /\ session[s].phase # "over"
  /\ SessionOver(s)
  /\ UNCHANGED <<cancelled, managerVars, worker, monitorVars, sent>>

(* The session's task is aborted at any await: only Drop runs.             *)
DropSession(s) ==
  /\ session[s].phase # "over"
  /\ cancelled' = cancelled \cup {s}
  /\ SessionOver(s)
  /\ UNCHANGED <<managerVars, worker, monitorVars, sent>>

SessionStep(s) ==
  \/ TakeReply(s) \/ WriteReply(s) \/ TakeNotice(s) \/ HearClose(s)
  \/ SendCloseFlow(s) \/ Leave(s) \/ SendCloseSession(s)

-----------------------------------------------------------------------------
(* spawn_udp_flow: the task offers the first packet to its own queue when  *)
(* it starts, so later packets may get there first.                        *)
NewWorker(p) ==
  [source |-> p[1], queue |-> <<>>, pc |-> "start", cancel |-> FALSE,
   packet |-> p, flow |-> NoFlow, observed |-> FALSE]

Spawn(a, p, old) ==
  /\ worker' = Append(Cancel(old), NewWorker(p))
  /\ handles' = Put(handles, a, [generation |-> Len(worker) + 1, flow |-> NoFlow])
  /\ pendingClose' = Drop(pendingClose, {a})
  /\ heard' = Put(heard, Len(worker) + 1, <<>>)

(* Mutant of TakePacket: a cancelled worker is replaced, too.              *)
TakePacketOrReplace ==
  /\ manager = "running" /\ ingress # <<>>
  /\ ingress' = Tail(ingress)
  /\ LET p == Head(ingress)  a == p[1] IN
       IF SessionOf[a] \in cancelled THEN UNCHANGED <<worker, handles, pendingClose, heard>>
       ELSE IF a \notin DOMAIN handles THEN Spawn(a, p, {})
       ELSE IF Alive(WorkerOf(a)) /\ ~WorkerOf(a).cancel
         THEN Set(handles[a].generation, "queue", Offer(WorkerOf(a).queue, p))
              /\ UNCHANGED <<handles, pendingClose, heard>>
       ELSE Spawn(a, p, {handles[a].generation})
  /\ UNCHANGED <<sessionVars, commands, lifecycle, manager, monitorVars, sent>>

(* Ingress of run_udp_manager: a packet of a cancelled session is dropped, *)
(* a live worker gets it if its queue has room, a worker that returned is  *)
(* replaced by a new generation.                                           *)
TakePacket ==
  /\ manager = "running" /\ ingress # <<>>
  /\ ingress' = Tail(ingress)
  /\ LET p == Head(ingress)  a == p[1] IN
       IF SessionOf[a] \in cancelled THEN UNCHANGED <<worker, handles, pendingClose, heard>>
       ELSE IF a \notin DOMAIN handles THEN Spawn(a, p, {})
       ELSE IF Alive(WorkerOf(a))
         THEN Set(handles[a].generation, "queue", Offer(WorkerOf(a).queue, p))
              /\ UNCHANGED <<handles, pendingClose, heard>>
       ELSE Spawn(a, p, {handles[a].generation})
  /\ UNCHANGED <<sessionVars, commands, lifecycle, manager, monitorVars, sent>>

GenerationsOf(A) == {handles[a].generation : a \in A}

(* opening_worker_key: a worker of the session with the flow's source that *)
(* has not reported its flow.                                              *)
Opening(s, f) == {a \in DOMAIN handles : SessionOf[a] = s /\ handles[a].flow = NoFlow /\ a = f[1]}

TakeCommand ==
  /\ manager = "running" /\ commands # <<>>
  /\ commands' = Tail(commands)
  /\ LET c == Head(commands)
         mine == {a \in DOMAIN handles : SessionOf[a] = c.session}
         matched == {a \in mine : handles[a].flow = c.flow}
         opening == Opening(c.session, c.flow)
     IN IF c.kind = "session"
        THEN /\ worker' = Cancel(GenerationsOf(mine))
             /\ pendingClose' = Drop(pendingClose, {a \in Sources : SessionOf[a] = c.session})
        ELSE /\ worker' = Cancel(GenerationsOf(matched))
             /\ pendingClose' = IF matched = {} /\ opening # {}
                                THEN Put(pendingClose, CHOOSE a \in opening : TRUE, c.flow)
                                ELSE pendingClose
  /\ UNCHANGED <<sessionVars, ingress, lifecycle, manager, handles, monitorVars, heard, sent>>

(* Mutant of Current: the generation is not compared.                *)
Same(a, e) == a \in DOMAIN handles
Current(a, e) == a \in DOMAIN handles /\ handles[a].generation = e.generation

(* Mutant of PendingAfter: a close waits until the worker is gone.         *)
PendingUntilClosed(a, e) == IF e.kind = "closed" THEN Drop(pendingClose, {a}) ELSE pendingClose
PendingAfter(a, e) == Drop(pendingClose, {a})

(* Opened records the flow and consumes a close that came first; Closed    *)
(* removes the handle and reaps the task.  An event of an older generation *)
(* changes nothing.                                                        *)
TakeLifecycle ==
  /\ manager = "running" /\ lifecycle # <<>>
  /\ LET e == Head(lifecycle)  a == worker[e.generation].source IN
       /\ lifecycle' = Tail(lifecycle)
       /\ IF ~Current(a, e) THEN UNCHANGED <<handles, pendingClose, worker>>
          ELSE /\ pendingClose' = PendingAfter(a, e)
               /\ IF e.kind = "closed" THEN handles' = Drop(handles, {a}) /\ UNCHANGED worker
                  ELSE /\ handles' = [handles EXCEPT ![a].flow = e.flow]
                       /\ worker' = IF a \in DOMAIN pendingClose /\ pendingClose[a] = e.flow
                                    THEN Cancel({handles[a].generation}) ELSE worker
  /\ UNCHANGED <<sessionVars, ingress, commands, manager, monitorVars, heard, sent>>

(* Drop of InboundUdpManager: every session and every packet in process    *)
(* holds the inbound, so it comes after them.  The handles are cancelled   *)
(* and joined; nobody reads the lifecycle events any more.                 *)
ShutDown ==
  /\ manager = "running"
  /\ \A s \in Sessions : session[s].phase = "over"
  /\ \A g \in DOMAIN worker : ~Processing(worker[g])
  /\ manager' = "ending"
  /\ worker' = Cancel(GenerationsOf(DOMAIN handles))
  /\ lifecycle' = <<>> /\ ingress' = <<>> /\ commands' = <<>>
  /\ UNCHANGED <<sessionVars, handles, pendingClose, monitorVars, heard, sent>>

JoinWorkers ==
  /\ manager = "ending" /\ \A g \in DOMAIN worker : worker[g].pc = "gone"
  /\ manager' = "ended"
  /\ handles' = EmptyMap /\ pendingClose' = EmptyMap
  /\ UNCHANGED <<sessionVars, ingress, commands, lifecycle, worker, monitorVars, heard, sent>>

ManagerStep == TakePacket \/ TakeCommand \/ TakeLifecycle \/ JoinWorkers

-----------------------------------------------------------------------------
(* UdpFlowWorker::run.                                                     *)
SessionOfWorker(g) == SessionOf[worker[g].source]
Stopped(g) == worker[g].cancel \/ SessionOfWorker(g) \in cancelled

Start(g) ==
  /\ worker[g].pc = "start"
  /\ worker' = [worker EXCEPT ![g].pc = IF manager = "running" THEN "top" ELSE "leave",
                              ![g].queue = Offer(@, worker[g].packet), ![g].packet = NoFlow]
  /\ UNCHANGED <<sessionVars, managerVars, monitorVars, heard, sent>>

LoopTop(g) ==
  /\ worker[g].pc = "top"
  /\ Goto(g, IF Stopped(g) THEN "leave" ELSE "select")
  /\ UNCHANGED <<sessionVars, managerVars, monitorVars, heard, sent>>

NextPacket(g) ==
  /\ worker[g].pc = "select" /\ worker[g].queue # <<>>
  /\ worker' = [worker EXCEPT ![g].pc = "packet", ![g].packet = Head(worker[g].queue),
                              ![g].queue = Tail(@)]
  /\ UNCHANGED <<sessionVars, managerVars, monitorVars, heard, sent>>

(* A reply of the outbound, or a DNS answer: offered to the session, whose *)
(* absence ends the worker.                                                *)
Reply(g) ==
  /\ \/ worker[g].pc = "packet"
     \/ worker[g].pc = "select" /\ worker[g].flow # NoFlow
  /\ IF session[SessionOfWorker(g)].phase = "over"
     THEN Goto(g, "leave") /\ UNCHANGED replies
     ELSE /\ Goto(g, "top")
          /\ replies' = [replies EXCEPT ![SessionOfWorker(g)] = IF @ < Capacity THEN @ + 1 ELSE @]
  /\ UNCHANGED <<session, cancelled, notices, managerVars, monitorVars, heard, sent>>

(* Idle, an outbound error, a failed open or a failed send.                *)
GiveUp(g) ==
  /\ worker[g].pc \in {"select", "packet", "sendto"}
  /\ Goto(g, "leave")
  /\ UNCHANGED <<sessionVars, managerVars, monitorVars, heard, sent>>

(* cancel_rx, session_cancel_rx in the select, and around process_packet.  *)
Interrupt(g) ==
  /\ (worker[g].pc = "select" \/ Processing(worker[g])) /\ Stopped(g)
  /\ Goto(g, "leave")
  /\ UNCHANGED <<sessionVars, managerVars, monitorVars, heard, sent>>

(* Mutant of WorkerHears: Lagged is taken for news about other flows.      *)
WorkerHearsOthers(g) ==
  /\ worker[g].pc = "select" /\ heard[g] # <<>>
  /\ Goto(g, IF Head(heard[g]) = worker[g].flow THEN "leave" ELSE "top")
  /\ heard' = [heard EXCEPT ![g] = Tail(@)]
  /\ UNCHANGED <<sessionVars, managerVars, monitorVars, sent>>

WorkerHears(g) ==
  /\ worker[g].pc = "select" /\ heard[g] # <<>>
  /\ LET m == Head(heard[g])  f == worker[g].flow IN
       Goto(g, IF m = f \/ (m = Lagged /\ f \in requested) THEN "leave" ELSE "top")
  /\ heard' = [heard EXCEPT ![g] = Tail(@)]
  /\ UNCHANGED <<sessionVars, managerVars, monitorVars, sent>>

(* process_packet opens the datagram of the first packet that needs one.   *)
OpenDatagram(g) ==
  /\ worker[g].pc = "packet"
  /\ worker' = IF worker[g].flow # NoFlow THEN [worker EXCEPT ![g].pc = "sendto"]
               ELSE [worker EXCEPT ![g].pc = "opened", ![g].observed = TRUE,
                                   ![g].flow = worker[g].packet]
  /\ UNCHANGED <<sessionVars, managerVars, monitorVars, heard, sent>>

AnnounceOpened(g) ==
  /\ worker[g].pc = "opened" /\ Room(lifecycle)
  /\ lifecycle' = Append(lifecycle, [kind |-> "opened", generation |-> g, flow |-> worker[g].flow])
  /\ Goto(g, "announce")
  /\ UNCHANGED <<sessionVars, ingress, commands, manager, handles, pendingClose, monitorVars, heard, sent>>

AnnounceFlow(g) ==
  LET s == SessionOfWorker(g) IN
  /\ worker[g].pc = "announce"
  /\ IF session[s].phase = "over" THEN Goto(g, "leave") /\ UNCHANGED notices
     ELSE /\ Room(notices[s])
          /\ notices' = [notices EXCEPT ![s] = Append(@, [kind |-> "opened", flow |-> worker[g].flow])]
          /\ Goto(g, "check")
  /\ UNCHANGED <<session, cancelled, replies, managerVars, monitorVars, heard, sent>>

(* The monitor is asked once the flow is known, and after each send.       *)
CheckClose(g) ==
  /\ worker[g].pc \in {"check", "sendto"}
  /\ Goto(g, IF worker[g].flow \in requested THEN "notify"
             ELSE IF worker[g].pc = "check" THEN "sendto" ELSE "top")
  /\ UNCHANGED <<sessionVars, managerVars, monitorVars, heard, sent>>

(* A FlowClosed to the session, if it still listens.                       *)
TellClosed(g, s) ==
  IF worker[g].flow = NoFlow \/ session[s].phase = "over" THEN UNCHANGED notices
  ELSE /\ Room(notices[s])
       /\ notices' = [notices EXCEPT ![s] = Append(@, [kind |-> "closed", flow |-> worker[g].flow])]

(* notify_flow_closed waits for room as long as nothing cancels it.        *)
NotifyFlowClosed(g) ==
  /\ worker[g].pc = "notify"
  /\ Goto(g, "leave")
  /\ TellClosed(g, SessionOfWorker(g))
  /\ UNCHANGED <<session, cancelled, replies, managerVars, monitorVars, heard, sent>>

(* Leaving: FlowClosed to the session, given up after a second.            *)
NotifyClosed(g) ==
  /\ worker[g].pc = "leave"
  /\ Goto(g, "close")
  /\ TellClosed(g, SessionOfWorker(g))
  /\ UNCHANGED <<session, cancelled, replies, managerVars, monitorVars, heard, sent>>

(* A session that reads its events does so within the second.              *)
NotifyTimesOut(g) ==
  LET s == SessionOfWorker(g) IN
  /\ worker[g].pc = "leave" /\ worker[g].flow # NoFlow /\ ~Room(notices[s])
  /\ ~ReadsNotices(s)
  /\ Goto(g, "close")
  /\ UNCHANGED <<sessionVars, managerVars, monitorVars, heard, sent>>

(* Mutant of Release: ConnectionMonitor::close keeps the request.          *)
ReleaseKeepingRequest(g) ==
  /\ worker[g].pc = "close"
  /\ worker' = [worker EXCEPT ![g].pc = "ended", ![g].observed = FALSE, ![g].queue = <<>>]
  /\ heard' = [heard EXCEPT ![g] = <<>>]
  /\ UNCHANGED <<sessionVars, managerVars, monitorVars, sent>>

(* The datagram and the observation are dropped: the monitor forgets the   *)
(* flow and its request; the receivers of the worker close.                *)
Release(g) ==
  /\ worker[g].pc = "close"
  /\ worker' = [worker EXCEPT ![g].pc = "ended", ![g].observed = FALSE, ![g].queue = <<>>]
  /\ requested' = requested \ {worker[g].flow}
  /\ heard' = [heard EXCEPT ![g] = <<>>]
  /\ UNCHANGED <<sessionVars, managerVars, announcing, closes, sent>>

AnnounceClosed(g) ==
  /\ worker[g].pc = "ended"
  /\ worker' = [worker EXCEPT ![g].pc = "gone", ![g].flow = NoFlow, ![g].cancel = TRUE]
  /\ IF manager = "running"
     THEN /\ Room(lifecycle)
          /\ lifecycle' = Append(lifecycle, [kind |-> "closed", generation |-> g, flow |-> worker[g].flow])
     ELSE UNCHANGED lifecycle
  /\ UNCHANGED <<sessionVars, ingress, commands, manager, handles, pendingClose, monitorVars, heard, sent>>

WorkerStep(g) ==
  \/ Start(g) \/ LoopTop(g) \/ NextPacket(g) \/ Interrupt(g) \/ WorkerHears(g)
  \/ OpenDatagram(g) \/ AnnounceOpened(g) \/ AnnounceFlow(g) \/ CheckClose(g)
  \/ NotifyFlowClosed(g) \/ NotifyClosed(g) \/ Release(g) \/ AnnounceClosed(g)

-----------------------------------------------------------------------------
UdpInit ==
  /\ session \in [Sessions -> [phase: {"open"}, active: {NoFlow}, inputClosed: {FALSE}, closeOnEnd: BOOLEAN]]
  /\ cancelled = {} /\ replies = [s \in Sessions |-> 0] /\ notices = [s \in Sessions |-> <<>>]
  /\ ingress = <<>> /\ commands = <<>> /\ lifecycle = <<>> /\ manager = "running"
  /\ handles = EmptyMap /\ pendingClose = EmptyMap
  /\ worker = <<>>
  /\ requested = {} /\ announcing = {} /\ closes = 0
  /\ heard = [s \in Sessions |-> <<>>]
  /\ sent = 0

UdpNext ==
  \/ \E f \in Flows : RequestClose(f) \/ BroadcastClose(f)
  \/ CloseElsewhere
  \/ \E a \in Sources, t \in Targets : ReceivePacket(a, t)
  \/ \E s \in Sessions : InputEnds(s) \/ StopReading(s) \/ DropSession(s) \/ SessionStep(s)
  \/ ShutDown \/ ManagerStep
  \/ \E g \in DOMAIN worker : Reply(g) \/ GiveUp(g) \/ NotifyTimesOut(g) \/ WorkerStep(g)

UdpSpec == UdpInit /\ [][UdpNext]_udpVars
-----------------------------------------------------------------------------
(* A source never holds two outbound datagrams, whatever generations of    *)
(* its worker overlap: run_udp_manager replaces only a worker that has     *)
(* released its own.                                                       *)
OneDatagramPerSource ==
  \A g, h \in DOMAIN worker :
    worker[g].observed /\ worker[h].observed /\ worker[g].source = worker[h].source => g = h

(* A worker that still runs is the one the manager's handle of its source  *)
(* names, so every cancellation reaches it: a lifecycle event of an older  *)
(* generation never removes the handle of a newer one.                     *)
RunningWorkersOwned ==
  \A g \in DOMAIN worker :
    Alive(worker[g]) => LET a == worker[g].source IN
                        a \in DOMAIN handles /\ handles[a].generation = g

(* Each source has one worker that runs and one datagram, and the manager  *)
(* can cancel both (run_udp_manager).                                      *)
WorkersOwned == OneDatagramPerSource /\ RunningWorkersOwned

(* "A pending close belongs to a concrete source worker that is still      *)
(* opening": run_udp_manager keeps none for another.                       *)
PendingCloseIsForOpening ==
  \A a \in DOMAIN pendingClose : a \in DOMAIN handles /\ handles[a].flow = NoFlow

(* A close request does not outlive its flow: a later flow of the same     *)
(* addresses is not closed by it.                                          *)
RequestsDieWithFlow == \A f \in requested : Observed(f)

(* A request to close is for a flow that is there or being opened, never   *)
(* for the next one under its key.                                         *)
ClosesAreCurrent == PendingCloseIsForOpening /\ RequestsDieWithFlow

(* The executor polls every task, tokio's select! polls its ready arms in  *)
(* a random order, and a codec's write ends.                               *)
UdpFairness ==
  /\ \A s \in Sessions : WF_udpVars(SessionStep(s)) /\ SF_udpVars(TakeNotice(s)) /\ SF_udpVars(HearClose(s))
  /\ WF_udpVars(ManagerStep)
  /\ \A f \in Flows : WF_udpVars(BroadcastClose(f))
  /\ \A g \in 1..MaxPackets :
       /\ WF_udpVars(g \in DOMAIN worker /\ WorkerStep(g))
       /\ SF_udpVars(g \in DOMAIN worker /\ WorkerHears(g))

(* A flow whose close the management API requested ends, even when the     *)
(* broadcast overtakes its opening or is lost to a lagging receiver, and   *)
(* the session of a single-flow codec ends with it.                        *)
CloseRequestServed ==
  \A a \in Sources :
    (\E t \in Targets : <<a, t>> \in requested) ~>
      /\ \A t \in Targets : <<a, t>> \notin requested
      /\ session[SessionOf[a]].closeOnEnd => session[SessionOf[a]].phase = "over"

(* A session that ended or was dropped leaves no worker behind: its token  *)
(* stops the packets still queued for the manager, too.                    *)
SessionEndReleases ==
  \A s \in Sessions :
    (session[s].phase = "over") ~>
      \A g \in DOMAIN worker : SessionOf[worker[g].source] = s => worker[g].pc = "gone"

=============================================================================
