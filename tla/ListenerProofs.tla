--------------------------- MODULE ListenerProofs ---------------------------
(***************************************************************************)
(* What two listeners keep.  The UDP manager: for every set of sources,    *)
(* targets and sessions, every channel capacity, and any number of packets *)
(* and closes.  run_dns_supervisor misses no announced change, for any     *)
(* number of changes: the subscriptions are taken before the setting is    *)
(* read, so an announcement either precedes the read, which then sees its  *)
(* version, or reaches both receivers.                                     *)
(***************************************************************************)
EXTENDS UdpInbound, DnsSupervisor, SequenceTheorems, TLAPS

RunningPc ==
  {"start", "top", "select", "packet", "opened", "announce", "check", "sendto", "notify", "leave", "close"}

WorkerRecord ==
  [source : Sources, queue : Seq(Flows), cancel : BOOLEAN, observed : BOOLEAN,
   packet : Flows \cup {NoFlow}, flow : Flows \cup {NoFlow}, pc : RunningPc \cup {"ended", "gone"}]

EventRecord ==
  [kind : {"opened", "closed"}, generation : DOMAIN worker, flow : Flows \cup {NoFlow}]

HandleRecord == [generation : Nat, flow : Flows \cup {NoFlow}]

(* The part of the state that the manager and its workers share.           *)
UdpShape ==
  /\ worker \in Seq(WorkerRecord)
  /\ ingress \in Seq(Flows)
  /\ lifecycle \in Seq(EventRecord)

(* A handle names a worker of its source.                                  *)
HandlesNameWorkers ==
  \A a \in DOMAIN handles :
    /\ handles[a] \in HandleRecord /\ handles[a].generation \in DOMAIN worker
    /\ worker[handles[a].generation].source = a

(* A flow is in the monitor only while its worker runs.                    *)
ObservedRuns ==
  \A g \in DOMAIN worker : worker[g].observed => Alive(worker[g]) /\ worker[g].flow \in Flows

(* The packet in process is one that a session handed over.                *)
PacketHeld ==
  \A g \in DOMAIN worker : worker[g].pc \in {"start", "packet"} => worker[g].packet \in Flows

(* The end of a worker is announced after it.                              *)
ClosedIsGone ==
  \A i \in DOMAIN lifecycle :
    lifecycle[i].kind = "closed" => worker[lifecycle[i].generation].pc = "gone"

UdpInv ==
  /\ UdpShape /\ HandlesNameWorkers /\ ObservedRuns /\ PacketHeld /\ ClosedIsGone
  /\ RunningWorkersOwned /\ PendingCloseIsForOpening /\ RequestsDieWithFlow

-----------------------------------------------------------------------------
LEMMA UdpInitKeeps == UdpInit => UdpInv
<1> SUFFICES ASSUME UdpInit PROVE UdpInv
  OBVIOUS
<1>1. /\ worker = <<>> /\ lifecycle = <<>> /\ ingress = <<>> /\ DOMAIN handles = {}
      /\ DOMAIN pendingClose = {} /\ requested = {}
  BY DEF UdpInit, EmptyMap
<1>2. UdpShape
  BY <1>1 DEF UdpShape
<1> QED
  BY <1>1, <1>2 DEF UdpInv, HandlesNameWorkers, ObservedRuns, PacketHeld, ClosedIsGone,
                    RunningWorkersOwned, PendingCloseIsForOpening, RequestsDieWithFlow

(* No pair is the empty tuple.                                             *)
LEMMA NoFlowIsNone == NoFlow \notin Flows
BY DEF NoFlow, Flows

(* The events that wait name workers.                                      *)
LEMMA EventsNameWorkers ==
  ASSUME UdpInv
  PROVE  /\ lifecycle \in Seq(EventRecord) /\ worker \in Seq(WorkerRecord) /\ ingress \in Seq(Flows)
         /\ \A i \in DOMAIN lifecycle : lifecycle[i] \in EventRecord /\ lifecycle[i].generation \in DOMAIN worker
<1>1. lifecycle \in Seq(EventRecord) /\ worker \in Seq(WorkerRecord) /\ ingress \in Seq(Flows)
  BY DEF UdpInv, UdpShape
<1>2. \A i \in DOMAIN lifecycle : lifecycle[i] \in EventRecord
  BY <1>1
<1> QED BY <1>1, <1>2 DEF EventRecord

(* A step of one worker that keeps its source, is not undone when it ends, *)
(* and takes the request of a flow with the flow.                          *)
LEMMA WorkerStepKeeps ==
  ASSUME UdpInv, NEW g \in DOMAIN worker, NEW w \in WorkerRecord,
         worker' = [worker EXCEPT ![g] = w],
         w.source = worker[g].source,
         Alive(w) => Alive(worker[g]),
         worker[g].pc = "gone" => w.pc = "gone",
         w.observed => Alive(w) /\ w.flow \in Flows,
         w.pc \in {"start", "packet"} => w.packet \in Flows,
         worker[g].observed => \/ w.observed /\ w.flow = worker[g].flow
                               \/ worker[g].flow \notin requested',
         requested' \subseteq requested,
         UNCHANGED <<handles, pendingClose>>, ingress' \in Seq(Flows),
         \/ lifecycle' = lifecycle
         \/ \E e \in EventRecord : /\ lifecycle' = Append(lifecycle, e)
                                   /\ e.kind = "closed" => e.generation = g /\ w.pc = "gone"
  PROVE  UdpInv'
<1>1. /\ worker \in Seq(WorkerRecord) /\ worker' \in Seq(WorkerRecord)
      /\ DOMAIN worker' = DOMAIN worker /\ Len(worker') = Len(worker)
      /\ worker'[g] = w /\ \A h \in DOMAIN worker : h # g => worker'[h] = worker[h]
  BY DEF UdpInv, UdpShape
<1>2. UdpShape'
  <2>1. EventRecord' = EventRecord
    BY <1>1 DEF EventRecord
  <2>2. lifecycle \in Seq(EventRecord)
    BY DEF UdpInv, UdpShape
  <2>3. \A e \in EventRecord : Append(lifecycle, e) \in Seq(EventRecord)
    BY <2>2, AppendProperties
  <2>4. lifecycle' \in Seq(EventRecord)
    BY <2>2, <2>3
  <2> QED BY <1>1, <2>1, <2>4 DEF UdpInv, UdpShape
<1>3. HandlesNameWorkers'
  BY <1>1 DEF UdpInv, HandlesNameWorkers
<1>4. ObservedRuns' /\ PacketHeld'
  BY <1>1 DEF UdpInv, ObservedRuns, PacketHeld
<1>5. ClosedIsGone'
  <2>1. ASSUME NEW i \in DOMAIN lifecycle', lifecycle'[i].kind = "closed"
        PROVE  worker'[lifecycle'[i].generation].pc = "gone"
    <3>1. CASE i \in DOMAIN lifecycle /\ lifecycle'[i] = lifecycle[i]
      <4>1. lifecycle[i].generation \in DOMAIN worker
        <5>1. lifecycle[i] \in EventRecord
          BY <3>1 DEF UdpInv, UdpShape
        <5> QED BY <5>1 DEF EventRecord
      <4> QED BY <1>1, <2>1, <3>1, <4>1 DEF UdpInv, ClosedIsGone
    <3>2. CASE ~(i \in DOMAIN lifecycle /\ lifecycle'[i] = lifecycle[i])
      <4>1. PICK e \in EventRecord : /\ lifecycle' = Append(lifecycle, e)
                                     /\ e.kind = "closed" => e.generation = g /\ w.pc = "gone"
        BY <2>1, <3>2
      <4>2. lifecycle \in Seq(EventRecord) /\ i \in DOMAIN Append(lifecycle, e)
        BY <2>1, <4>1 DEF UdpInv, UdpShape
      <4>3. lifecycle'[i] = e
        BY <3>2, <4>1, <4>2, AppendProperties
      <4> QED BY <1>1, <2>1, <4>1, <4>3
    <3> QED BY <3>1, <3>2
  <2> QED BY <2>1 DEF ClosedIsGone
<1>6. RunningWorkersOwned'
  BY <1>1 DEF UdpInv, RunningWorkersOwned
<1>7. PendingCloseIsForOpening'
  BY DEF UdpInv, PendingCloseIsForOpening
<1>8. RequestsDieWithFlow'
  BY <1>1 DEF UdpInv, RequestsDieWithFlow, Observed
<1> QED BY <1>2, <1>3, <1>4, <1>5, <1>6, <1>7, <1>8 DEF UdpInv
(* Of those, the steps that only move on within run().                     *)
LEMMA GotoKeeps ==
  ASSUME UdpInv, NEW g \in DOMAIN worker, NEW p \in RunningPc \ {"start", "packet"}, Goto(g, p), Alive(worker[g]),
         UNCHANGED <<requested, handles, pendingClose, ingress, lifecycle>>
  PROVE  UdpInv'
<1> DEFINE w == [worker[g] EXCEPT !.pc = p, !.packet = IF p \in {"top", "leave"} THEN NoFlow ELSE @]
<1>1. worker[g] \in WorkerRecord /\ worker \in Seq(WorkerRecord)
  BY DEF UdpInv, UdpShape
<1>2. w \in WorkerRecord /\ w.source = worker[g].source /\ w.pc = p
      /\ w.flow = worker[g].flow /\ w.observed = worker[g].observed
  BY <1>1 DEF WorkerRecord
<1>3. worker' = [worker EXCEPT ![g] = w]
  BY <1>1 DEF Goto
<1>4. Alive(w) /\ worker[g].pc # "gone"
  BY <1>2 DEF Alive, RunningPc
<1>5. worker[g].observed => worker[g].flow \in Flows
  BY DEF UdpInv, ObservedRuns
<1> HIDE DEF w
<1> QED BY <1>2, <1>3, <1>4, <1>5, EventsNameWorkers, WorkerStepKeeps

(* A step that none of this depends on.                                    *)
LEMMA UdpUnchangedKeeps ==
  ASSUME UdpInv, UNCHANGED <<worker, requested, handles, pendingClose, lifecycle>>,
         ingress' \in Seq(Flows)
  PROVE  UdpInv'
BY DEF UdpInv, UdpShape, EventRecord, HandlesNameWorkers, ObservedRuns, PacketHeld, ClosedIsGone,
       RunningWorkersOwned, PendingCloseIsForOpening, RequestsDieWithFlow, Observed

-----------------------------------------------------------------------------
(* The worker, from its first packet to the release of its datagram.       *)
LEMMA WorkerRunKeeps ==
  ASSUME UdpInv, NEW g \in DOMAIN worker,
         \/ LoopTop(g) \/ Reply(g) \/ GiveUp(g) \/ Interrupt(g) \/ WorkerHears(g)
         \/ AnnounceFlow(g) \/ CheckClose(g)
         \/ NotifyFlowClosed(g) \/ NotifyClosed(g) \/ NotifyTimesOut(g)
  PROVE  UdpInv'
<1>1. UNCHANGED <<requested, handles, pendingClose, ingress, lifecycle>>
  BY DEF LoopTop, Reply, GiveUp, Interrupt, WorkerHears, AnnounceFlow, CheckClose,
         NotifyFlowClosed, NotifyClosed, NotifyTimesOut, managerVars, monitorVars
<1>2. Alive(worker[g])
  BY DEF LoopTop, Reply, GiveUp, Interrupt, WorkerHears, AnnounceFlow, CheckClose,
         NotifyFlowClosed, NotifyClosed, NotifyTimesOut, Alive, Processing
<1>3. \E p \in RunningPc \ {"start", "packet"} : Goto(g, p)
  BY DEF LoopTop, Reply, GiveUp, Interrupt, WorkerHears, AnnounceFlow, CheckClose,
         NotifyFlowClosed, NotifyClosed, NotifyTimesOut, RunningPc
<1> QED BY <1>1, <1>2, <1>3, GotoKeeps

LEMMA StartKeeps ==
  ASSUME UdpInv, NEW g \in DOMAIN worker, Start(g)
  PROVE  UdpInv'
<1> DEFINE w == [worker[g] EXCEPT !.pc = IF manager = "running" THEN "top" ELSE "leave",
                                  !.queue = Offer(@, worker[g].packet), !.packet = NoFlow]
<1>1. worker[g] \in WorkerRecord /\ worker \in Seq(WorkerRecord)
  BY DEF UdpInv, UdpShape
<1>2. worker[g].pc = "start" /\ worker[g].packet \in Flows
  BY DEF Start, UdpInv, PacketHeld
<1>3. Offer(worker[g].queue, worker[g].packet) \in Seq(Flows)
  BY <1>1, <1>2, AppendProperties DEF Offer, WorkerRecord
<1>4. /\ w \in WorkerRecord /\ w.source = worker[g].source /\ w.pc \in {"top", "leave"}
      /\ w.flow = worker[g].flow /\ w.observed = worker[g].observed
  BY <1>1, <1>3 DEF WorkerRecord, RunningPc
<1>5. worker' = [worker EXCEPT ![g] = w]
  BY <1>1 DEF Start
<1>6. Alive(w) /\ Alive(worker[g])
  BY <1>2, <1>4 DEF Alive
<1>7. worker[g].observed => worker[g].flow \in Flows
  BY DEF UdpInv, ObservedRuns
<1>8. UNCHANGED <<requested, handles, pendingClose, ingress, lifecycle>>
  BY DEF Start, managerVars, monitorVars
<1> HIDE DEF w
<1> QED BY <1>2, <1>4, <1>5, <1>6, <1>7, <1>8, EventsNameWorkers, WorkerStepKeeps

LEMMA NextPacketKeeps ==
  ASSUME UdpInv, NEW g \in DOMAIN worker, NextPacket(g)
  PROVE  UdpInv'
<1> DEFINE w == [worker[g] EXCEPT !.pc = "packet", !.packet = Head(worker[g].queue), !.queue = Tail(@)]
<1>1. worker[g] \in WorkerRecord /\ worker \in Seq(WorkerRecord)
  BY DEF UdpInv, UdpShape
<1>2. worker[g].pc = "select" /\ worker[g].queue # <<>>
  BY DEF NextPacket
<1>3. Head(worker[g].queue) \in Flows /\ Tail(worker[g].queue) \in Seq(Flows)
  BY <1>1, <1>2, HeadTailProperties DEF WorkerRecord
<1>4. /\ w \in WorkerRecord /\ w.source = worker[g].source /\ w.pc = "packet" /\ w.packet \in Flows
      /\ w.flow = worker[g].flow /\ w.observed = worker[g].observed
  BY <1>1, <1>3 DEF WorkerRecord, RunningPc
<1>5. worker' = [worker EXCEPT ![g] = w]
  BY <1>1 DEF NextPacket
<1>6. Alive(w) /\ Alive(worker[g])
  BY <1>2, <1>4 DEF Alive
<1>7. worker[g].observed => worker[g].flow \in Flows
  BY DEF UdpInv, ObservedRuns
<1>8. UNCHANGED <<requested, handles, pendingClose, ingress, lifecycle>>
  BY DEF NextPacket, managerVars, monitorVars
<1> HIDE DEF w
<1> QED BY <1>2, <1>4, <1>5, <1>6, <1>7, <1>8, EventsNameWorkers, WorkerStepKeeps

(* The flow of the first packet enters the monitor; a worker that has a    *)
(* flow keeps it.                                                          *)
LEMMA OpenDatagramKeeps ==
  ASSUME UdpInv, NEW g \in DOMAIN worker, OpenDatagram(g)
  PROVE  UdpInv'
<1> DEFINE w == IF worker[g].flow # NoFlow THEN [worker[g] EXCEPT !.pc = "sendto"]
                ELSE [worker[g] EXCEPT !.pc = "opened", !.observed = TRUE, !.flow = worker[g].packet]
<1>1. worker[g] \in WorkerRecord /\ worker \in Seq(WorkerRecord)
  BY DEF UdpInv, UdpShape
<1>2. worker[g].pc = "packet" /\ worker[g].packet \in Flows
  BY DEF OpenDatagram, UdpInv, PacketHeld
<1>3. /\ w \in WorkerRecord /\ w.source = worker[g].source /\ w.pc \in {"sendto", "opened"}
      /\ worker[g].flow # NoFlow => w.flow = worker[g].flow /\ w.observed = worker[g].observed
      /\ worker[g].flow = NoFlow => w.flow \in Flows
  BY <1>1, <1>2 DEF WorkerRecord, RunningPc
<1>4. worker' = [worker EXCEPT ![g] = w]
  BY <1>1 DEF OpenDatagram
<1>5. Alive(w) /\ Alive(worker[g])
  BY <1>2, <1>3 DEF Alive
<1>6. worker[g].observed => worker[g].flow \in Flows
  BY DEF UdpInv, ObservedRuns
<1>7. UNCHANGED <<requested, handles, pendingClose, ingress, lifecycle>>
  BY DEF OpenDatagram, managerVars, monitorVars
<1> HIDE DEF w
<1> QED BY <1>2, <1>3, <1>4, <1>5, <1>6, <1>7, NoFlowIsNone, EventsNameWorkers, WorkerStepKeeps

(* The two events a worker sends the manager.                              *)
LEMMA AnnounceOpenedKeeps ==
  ASSUME UdpInv, NEW g \in DOMAIN worker, AnnounceOpened(g)
  PROVE  UdpInv'
<1> DEFINE w == [worker[g] EXCEPT !.pc = "announce"]
           e == [kind |-> "opened", generation |-> g, flow |-> worker[g].flow]
<1>1. worker[g] \in WorkerRecord /\ worker \in Seq(WorkerRecord)
  BY DEF UdpInv, UdpShape
<1>2. worker[g].pc = "opened"
  BY DEF AnnounceOpened
<1>3. /\ w \in WorkerRecord /\ w.source = worker[g].source /\ w.pc = "announce"
      /\ w.flow = worker[g].flow /\ w.observed = worker[g].observed
  BY <1>1 DEF WorkerRecord, RunningPc
<1>4. worker' = [worker EXCEPT ![g] = w]
  BY <1>1 DEF AnnounceOpened, Goto, WorkerRecord
<1>5. Alive(w) /\ Alive(worker[g])
  BY <1>2, <1>3 DEF Alive
<1>6. worker[g].observed => worker[g].flow \in Flows
  BY DEF UdpInv, ObservedRuns
<1>7. lifecycle' = Append(lifecycle, e) /\ e \in EventRecord /\ e.kind = "opened"
  BY <1>1 DEF AnnounceOpened, EventRecord, WorkerRecord
<1>8. UNCHANGED <<requested, handles, pendingClose, ingress>>
  BY DEF AnnounceOpened, monitorVars
<1> HIDE DEF w, e
<1> QED BY <1>2, <1>3, <1>4, <1>5, <1>6, <1>7, <1>8, EventsNameWorkers, WorkerStepKeeps

LEMMA AnnounceClosedKeeps ==
  ASSUME UdpInv, NEW g \in DOMAIN worker, AnnounceClosed(g)
  PROVE  UdpInv'
<1> DEFINE w == [worker[g] EXCEPT !.pc = "gone", !.flow = NoFlow, !.cancel = TRUE]
           e == [kind |-> "closed", generation |-> g, flow |-> worker[g].flow]
<1>1. worker[g] \in WorkerRecord /\ worker \in Seq(WorkerRecord)
  BY DEF UdpInv, UdpShape
<1>2. worker[g].pc = "ended" /\ ~worker[g].observed
  BY DEF AnnounceClosed, UdpInv, ObservedRuns, Alive
<1>3. /\ w \in WorkerRecord /\ w.source = worker[g].source /\ w.pc = "gone"
      /\ w.observed = worker[g].observed
  BY <1>1 DEF WorkerRecord
<1>4. worker' = [worker EXCEPT ![g] = w]
  BY <1>1 DEF AnnounceClosed
<1>5. ~Alive(w)
  BY <1>3 DEF Alive
<1>6. e \in EventRecord /\ e.generation = g /\ lifecycle' \in {lifecycle, Append(lifecycle, e)}
  BY <1>1 DEF AnnounceClosed, EventRecord, WorkerRecord
<1>7. UNCHANGED <<requested, handles, pendingClose, ingress>>
  BY DEF AnnounceClosed, monitorVars
<1> HIDE DEF w, e
<1> QED BY <1>2, <1>3, <1>4, <1>5, <1>6, <1>7, EventsNameWorkers, WorkerStepKeeps

(* The flow leaves the monitor together with its close request.            *)
LEMMA ReleaseKeeps ==
  ASSUME UdpInv, NEW g \in DOMAIN worker, Release(g)
  PROVE  UdpInv'
<1> DEFINE w == [worker[g] EXCEPT !.pc = "ended", !.observed = FALSE, !.queue = <<>>]
<1>1. worker[g] \in WorkerRecord /\ worker \in Seq(WorkerRecord)
  BY DEF UdpInv, UdpShape
<1>2. worker[g].pc = "close"
  BY DEF Release
<1>3. w \in WorkerRecord /\ w.source = worker[g].source /\ w.pc = "ended" /\ ~w.observed
  <2>1. <<>> \in Seq(Flows)
    OBVIOUS
  <2> QED BY <1>1, <2>1 DEF WorkerRecord
<1>4. worker' = [worker EXCEPT ![g] = w]
  BY <1>1 DEF Release
<1>5. ~Alive(w)
  BY <1>3 DEF Alive
<1>6. /\ UNCHANGED <<handles, pendingClose, ingress, lifecycle>>
      /\ requested' \subseteq requested /\ worker[g].flow \notin requested'
  BY DEF Release, managerVars
<1> HIDE DEF w
<1> QED BY <1>2, <1>3, <1>4, <1>5, <1>6, EventsNameWorkers, WorkerStepKeeps

(* WorkerStep(g) and what may happen to a worker besides.                  *)
LEMMA WorkerKeeps ==
  ASSUME UdpInv, NEW g \in DOMAIN worker, Reply(g) \/ GiveUp(g) \/ NotifyTimesOut(g) \/ WorkerStep(g)
  PROVE  UdpInv'
BY WorkerRunKeeps, StartKeeps, NextPacketKeeps, OpenDatagramKeeps, AnnounceOpenedKeeps,
   AnnounceClosedKeeps, ReleaseKeeps DEF WorkerStep

-----------------------------------------------------------------------------
(* A cancellation is only a flag.                                          *)
LEMMA CancelKeepsWorkers ==
  ASSUME UdpInv, NEW G
  PROVE  /\ Cancel(G) \in Seq(WorkerRecord) /\ DOMAIN Cancel(G) = DOMAIN worker
         /\ Len(Cancel(G)) = Len(worker)
         /\ \A g \in DOMAIN worker :
              /\ Cancel(G)[g].source = worker[g].source /\ Cancel(G)[g].pc = worker[g].pc
              /\ Cancel(G)[g].flow = worker[g].flow /\ Cancel(G)[g].observed = worker[g].observed
              /\ Cancel(G)[g].packet = worker[g].packet
<1>1. worker \in Seq(WorkerRecord) /\ DOMAIN worker = 1 .. Len(worker) /\ Len(worker) \in Nat
  BY DEF UdpInv, UdpShape
<1>2. \A g \in DOMAIN worker :
         /\ Cancel(G)[g] \in WorkerRecord
         /\ Cancel(G)[g].source = worker[g].source /\ Cancel(G)[g].pc = worker[g].pc
         /\ Cancel(G)[g].flow = worker[g].flow /\ Cancel(G)[g].observed = worker[g].observed
         /\ Cancel(G)[g].packet = worker[g].packet
  <2> TAKE g \in DOMAIN worker
  <2>1. worker[g] \in WorkerRecord
    BY <1>1
  <2>2. [worker[g] EXCEPT !.cancel = TRUE] \in WorkerRecord
    BY <2>1 DEF WorkerRecord
  <2>3. Cancel(G)[g] = IF g \in G THEN [worker[g] EXCEPT !.cancel = TRUE] ELSE worker[g]
    BY DEF Cancel
  <2> QED BY <2>1, <2>2, <2>3 DEF WorkerRecord
<1>3. DOMAIN Cancel(G) = DOMAIN worker
  BY DEF Cancel
<1>4. Cancel(G) \in [1 .. Len(worker) -> WorkerRecord]
  <2>1. Cancel(G) = [g \in 1 .. Len(worker) |-> Cancel(G)[g]]
    BY <1>1 DEF Cancel
  <2> QED BY <1>1, <1>2, <2>1
<1>5. Cancel(G) \in Seq(WorkerRecord) /\ Len(Cancel(G)) = Len(worker)
  BY <1>1, <1>4, IsASeq, LenProperties
<1> QED BY <1>2, <1>3, <1>5

(* A step of the manager that starts and ends no worker.                   *)
LEMMA ManagerCancelKeeps ==
  ASSUME UdpInv, NEW G, worker' = Cancel(G) \/ worker' = worker,
         ingress' \in Seq(Flows), UNCHANGED requested,
         lifecycle' \in Seq(EventRecord),
         \A i \in DOMAIN lifecycle' : \E j \in DOMAIN lifecycle : lifecycle'[i] = lifecycle[j],
         DOMAIN handles' \subseteq DOMAIN handles,
         \A a \in DOMAIN handles' : /\ handles'[a] \in HandleRecord
                                     /\ handles'[a].generation = handles[a].generation,
         \A g \in DOMAIN worker : Alive(worker[g]) => worker[g].source \in DOMAIN handles',
         \A a \in DOMAIN pendingClose' : a \in DOMAIN handles' /\ handles'[a].flow = NoFlow
  PROVE  UdpInv'
<1>1. /\ worker' \in Seq(WorkerRecord) /\ DOMAIN worker' = DOMAIN worker
      /\ \A g \in DOMAIN worker :
           /\ worker'[g].source = worker[g].source /\ worker'[g].pc = worker[g].pc
           /\ worker'[g].flow = worker[g].flow /\ worker'[g].observed = worker[g].observed
           /\ worker'[g].packet = worker[g].packet
  BY CancelKeepsWorkers DEF UdpInv, UdpShape
<1>2. UdpShape'
  <2>1. EventRecord' = EventRecord
    BY <1>1 DEF EventRecord
  <2> QED BY <1>1, <2>1 DEF UdpShape
<1>3. HandlesNameWorkers'
  BY <1>1 DEF UdpInv, HandlesNameWorkers
<1>4. ObservedRuns' /\ PacketHeld'
  BY <1>1 DEF UdpInv, ObservedRuns, PacketHeld, Alive
<1>5. ClosedIsGone'
  BY <1>1, EventsNameWorkers DEF UdpInv, ClosedIsGone
<1>6. RunningWorkersOwned'
  BY <1>1 DEF UdpInv, RunningWorkersOwned, Alive
<1>7. PendingCloseIsForOpening'
  BY DEF PendingCloseIsForOpening
<1>8. RequestsDieWithFlow'
  BY <1>1 DEF UdpInv, RequestsDieWithFlow, Observed
<1> QED BY <1>2, <1>3, <1>4, <1>5, <1>6, <1>7, <1>8 DEF UdpInv

(* The events that are left when the first is taken are events that waited. *)
LEMMA TailOfEvents ==
  ASSUME UdpInv, lifecycle # <<>>
  PROVE  /\ Tail(lifecycle) \in Seq(EventRecord) /\ Head(lifecycle) = lifecycle[1] /\ 1 \in DOMAIN lifecycle
         /\ \A i \in DOMAIN Tail(lifecycle) : \E j \in DOMAIN lifecycle : Tail(lifecycle)[i] = lifecycle[j]
<1>1. lifecycle \in Seq(EventRecord)
  BY EventsNameWorkers
<1>2. /\ Tail(lifecycle) \in Seq(EventRecord) /\ Len(Tail(lifecycle)) = Len(lifecycle) - 1
      /\ \A i \in 1 .. Len(Tail(lifecycle)) : Tail(lifecycle)[i] = lifecycle[i + 1]
      /\ Head(lifecycle) = lifecycle[1] /\ Len(lifecycle) \in Nat \ {0}
  BY <1>1, HeadTailProperties, LenProperties, EmptySeq
<1> QED BY <1>1, <1>2

LEMMA TakeCommandKeeps ==
  ASSUME UdpInv, TakeCommand
  PROVE  UdpInv'
<1> DEFINE c == Head(commands)
           mine == {a \in DOMAIN handles : SessionOf[a] = c.session}
           matched == {a \in mine : handles[a].flow = c.flow}
           opening == Opening(c.session, c.flow)
<1>1. UNCHANGED <<ingress, lifecycle, handles, requested>>
  BY DEF TakeCommand, monitorVars
<1>2. \E G : worker' = Cancel(G)
  BY DEF TakeCommand
<1>3. \A a \in DOMAIN pendingClose' : a \in DOMAIN handles /\ handles[a].flow = NoFlow
  <2>1. opening # {} => /\ (CHOOSE a \in opening : TRUE) \in DOMAIN handles
                        /\ handles[CHOOSE a \in opening : TRUE].flow = NoFlow
    BY DEF Opening
  <2>2. \/ pendingClose' = Drop(pendingClose, {a \in Sources : SessionOf[a] = c.session})
        \/ pendingClose' = pendingClose
        \/ opening # {} /\ pendingClose' = Put(pendingClose, CHOOSE a \in opening : TRUE, c.flow)
    BY DEF TakeCommand
  <2>3. DOMAIN pendingClose' \subseteq DOMAIN pendingClose
           \cup IF opening # {} THEN {CHOOSE a \in opening : TRUE} ELSE {}
    BY <2>2 DEF Put, Drop, Restrict
  <2> QED BY <2>1, <2>3 DEF UdpInv, PendingCloseIsForOpening
<1>4. /\ \A g \in DOMAIN worker : Alive(worker[g]) => worker[g].source \in DOMAIN handles
      /\ \A a \in DOMAIN handles : handles[a] \in HandleRecord
  BY DEF UdpInv, RunningWorkersOwned, HandlesNameWorkers
<1>5. /\ lifecycle' \in Seq(EventRecord) /\ ingress' \in Seq(Flows)
      /\ \A i \in DOMAIN lifecycle' : \E j \in DOMAIN lifecycle : lifecycle'[i] = lifecycle[j]
  BY <1>1, EventsNameWorkers
<1> HIDE DEF c, mine, matched, opening
<1> QED BY <1>1, <1>2, <1>3, <1>4, <1>5, ManagerCancelKeeps

(* The end of a worker that was replaced takes nothing from its successor. *)
LEMMA TakeLifecycleKeeps ==
  ASSUME UdpInv, TakeLifecycle
  PROVE  UdpInv'
<1> DEFINE e == Head(lifecycle)
           a == worker[e.generation].source
<1>1. /\ lifecycle # <<>> /\ lifecycle' = Tail(lifecycle) /\ UNCHANGED <<ingress, requested>>
      /\ ~Current(a, e) => UNCHANGED <<handles, pendingClose, worker>>
      /\ Current(a, e) /\ e.kind = "closed"
           => handles' = Drop(handles, {a}) /\ pendingClose' = Drop(pendingClose, {a}) /\ UNCHANGED worker
      /\ Current(a, e) /\ e.kind # "closed"
           => /\ handles' = [handles EXCEPT ![a].flow = e.flow] /\ pendingClose' = Drop(pendingClose, {a})
              /\ worker' = worker \/ \E G : worker' = Cancel(G)
  BY DEF TakeLifecycle, PendingAfter, monitorVars
<1>2. /\ lifecycle' \in Seq(EventRecord) /\ ingress' \in Seq(Flows)
      /\ \A i \in DOMAIN lifecycle' : \E j \in DOMAIN lifecycle : lifecycle'[i] = lifecycle[j]
  BY <1>1, TailOfEvents, EventsNameWorkers
<1>3. e.kind = "closed" => worker[e.generation].pc = "gone"
  BY <1>1, TailOfEvents DEF UdpInv, ClosedIsGone
<1>4. \A g \in DOMAIN worker : Alive(worker[g])
         => worker[g].source \in DOMAIN handles /\ handles[worker[g].source].generation = g
  BY DEF UdpInv, RunningWorkersOwned
<1>5. /\ \A x \in DOMAIN pendingClose : x \in DOMAIN handles /\ handles[x].flow = NoFlow
      /\ \A x \in DOMAIN handles : handles[x] \in HandleRecord
      /\ e.flow \in Flows \cup {NoFlow}
  <2>1. e \in EventRecord
    BY <1>1, TailOfEvents, EventsNameWorkers
  <2> QED BY <2>1 DEF UdpInv, PendingCloseIsForOpening, HandlesNameWorkers, EventRecord
<1> HIDE DEF e, a
<1>6. CASE ~Current(a, e)
  <2>1. UNCHANGED <<handles, pendingClose, worker>>
    BY <1>1, <1>6
  <2> QED BY <1>1, <1>2, <1>4, <1>5, <2>1, ManagerCancelKeeps
<1>7. CASE Current(a, e) /\ e.kind = "closed"
  <2>1. /\ DOMAIN handles' = DOMAIN handles \ {a} /\ \A x \in DOMAIN handles' : handles'[x] = handles[x]
        /\ DOMAIN pendingClose' = DOMAIN pendingClose \ {a} /\ worker' = worker
    BY <1>1, <1>7 DEF Drop, Restrict
  <2>2. \A g \in DOMAIN worker : Alive(worker[g]) => worker[g].source # a
    BY <1>3, <1>4, <1>7 DEF Current, Alive
  <2> QED BY <1>1, <1>2, <1>4, <1>5, <2>1, <2>2, ManagerCancelKeeps
<1>8. CASE Current(a, e) /\ e.kind # "closed"
  <2>1. /\ DOMAIN handles' = DOMAIN handles
        /\ \A x \in DOMAIN handles : /\ handles'[x] \in HandleRecord
                                     /\ handles'[x].generation = handles[x].generation
        /\ \A x \in DOMAIN handles : x # a => handles'[x] = handles[x]
        /\ DOMAIN pendingClose' = DOMAIN pendingClose \ {a}
        /\ worker' = worker \/ \E G : worker' = Cancel(G)
    BY <1>1, <1>5, <1>8 DEF Drop, Restrict, HandleRecord, Current
  <2> QED BY <1>1, <1>2, <1>4, <1>5, <2>1, ManagerCancelKeeps
<1> QED BY <1>6, <1>7, <1>8

LEMMA ShutDownKeeps ==
  ASSUME UdpInv, ShutDown
  PROVE  UdpInv'
<1>1. /\ lifecycle' = <<>> /\ ingress' = <<>> /\ UNCHANGED <<handles, pendingClose, requested>>
      /\ worker' = Cancel(GenerationsOf(DOMAIN handles))
  BY DEF ShutDown, monitorVars
<1>2. /\ lifecycle' \in Seq(EventRecord) /\ ingress' \in Seq(Flows)
      /\ \A i \in DOMAIN lifecycle' : \E j \in DOMAIN lifecycle : lifecycle'[i] = lifecycle[j]
  BY <1>1
<1>3. /\ \A g \in DOMAIN worker : Alive(worker[g]) => worker[g].source \in DOMAIN handles
      /\ \A a \in DOMAIN handles : handles[a] \in HandleRecord
  BY DEF UdpInv, RunningWorkersOwned, HandlesNameWorkers
<1>4. \A x \in DOMAIN pendingClose : x \in DOMAIN handles /\ handles[x].flow = NoFlow
  BY DEF UdpInv, PendingCloseIsForOpening
<1> QED BY <1>1, <1>2, <1>3, <1>4, ManagerCancelKeeps

(* The handles go when every worker has.                                   *)
LEMMA JoinWorkersKeeps ==
  ASSUME UdpInv, JoinWorkers
  PROVE  UdpInv'
<1>1. /\ DOMAIN handles' = {} /\ DOMAIN pendingClose' = {}
      /\ UNCHANGED <<ingress, lifecycle, worker, requested>>
      /\ \A g \in DOMAIN worker : ~Alive(worker[g])
  BY DEF JoinWorkers, monitorVars, EmptyMap, Alive
<1>2. /\ lifecycle' \in Seq(EventRecord) /\ ingress' \in Seq(Flows)
      /\ \A i \in DOMAIN lifecycle' : \E j \in DOMAIN lifecycle : lifecycle'[i] = lifecycle[j]
  BY <1>1, EventsNameWorkers
<1> QED BY <1>1, <1>2, ManagerCancelKeeps

-----------------------------------------------------------------------------
(* A new worker takes the place of one that has released its datagram, or  *)
(* of none: no other worker of its source runs.                            *)
LEMMA SpawnKeeps ==
  ASSUME UdpInv, NEW p \in Flows, NEW old, Spawn(p[1], p, old),
         \A g \in DOMAIN worker : Alive(worker[g]) => worker[g].source # p[1],
         ingress' \in Seq(Flows), UNCHANGED <<lifecycle, requested>>
  PROVE  UdpInv'
<1> DEFINE c == Cancel(old)
           n == NewWorker(p)
           a == p[1]
           g0 == Len(worker) + 1
<1>1. /\ c \in Seq(WorkerRecord) /\ DOMAIN c = DOMAIN worker /\ Len(c) = Len(worker)
      /\ \A g \in DOMAIN worker :
           /\ c[g].source = worker[g].source /\ c[g].pc = worker[g].pc
           /\ c[g].flow = worker[g].flow /\ c[g].observed = worker[g].observed
           /\ c[g].packet = worker[g].packet
  BY CancelKeepsWorkers
<1>2. /\ n \in WorkerRecord /\ n.source = a /\ n.pc = "start" /\ ~n.observed /\ n.packet \in Flows
  <2>1. <<>> \in Seq(Flows) /\ a \in Sources
    BY DEF Flows
  <2> QED BY <2>1 DEF NewWorker, WorkerRecord, RunningPc
<1>3. worker \in Seq(WorkerRecord) /\ DOMAIN worker = 1 .. Len(worker) /\ Len(worker) \in Nat
  BY DEF UdpInv, UdpShape
<1>4. worker' = Append(c, n)
  BY DEF Spawn
<1> HIDE DEF c, n, a
<1>5. /\ worker' \in Seq(WorkerRecord) /\ DOMAIN worker' = 1 .. g0 /\ worker'[g0] = n
      /\ \A g \in DOMAIN worker : worker'[g] = c[g] /\ g # g0
  BY <1>1, <1>2, <1>3, <1>4
<1>6. /\ DOMAIN handles' = DOMAIN handles \cup {a}
      /\ handles'[a] = [generation |-> g0, flow |-> NoFlow]
      /\ \A x \in DOMAIN handles : x # a => handles'[x] = handles[x]
      /\ DOMAIN pendingClose' = DOMAIN pendingClose \ {a}
  BY DEF Spawn, Put, Drop, Restrict, a
<1> HIDE DEF g0
<1>7. UdpShape'
  <2>1. lifecycle \in Seq(EventRecord)
    BY EventsNameWorkers
  <2>2. EventRecord \subseteq EventRecord'
    BY <1>3, <1>5 DEF EventRecord, g0
  <2>3. lifecycle \in Seq(EventRecord')
    BY <2>1, <2>2, SeqMonotonic
  <2> QED BY <1>5, <2>3 DEF UdpShape
<1>8. HandlesNameWorkers'
  <2>1. handles'[a] \in HandleRecord /\ handles'[a].generation = g0 /\ g0 \in DOMAIN worker'
    BY <1>3, <1>5, <1>6 DEF HandleRecord, g0
  <2>2. DOMAIN worker \subseteq DOMAIN worker'
    BY <1>3, <1>5 DEF g0
  <2> QED BY <1>1, <1>2, <1>5, <1>6, <2>1, <2>2 DEF UdpInv, HandlesNameWorkers
<1>9. ObservedRuns' /\ PacketHeld' /\ RunningWorkersOwned'
  <2>1. \A g \in DOMAIN worker' : g = g0 \/ g \in DOMAIN worker
    BY <1>3, <1>5 DEF g0
  <2>2. ObservedRuns' /\ PacketHeld'
    BY <1>1, <1>2, <1>5, <2>1 DEF UdpInv, ObservedRuns, PacketHeld, Alive
  <2>3. RunningWorkersOwned'
    <3>1. \A g \in DOMAIN worker : Alive(worker'[g]) => worker'[g].source # a
      BY <1>1, <1>5 DEF Alive, a
    <3> QED BY <1>1, <1>2, <1>5, <1>6, <2>1, <3>1 DEF UdpInv, RunningWorkersOwned, Alive
  <2> QED BY <2>2, <2>3
<1>10. ClosedIsGone'
  BY <1>1, <1>5, EventsNameWorkers DEF UdpInv, ClosedIsGone
<1>11. PendingCloseIsForOpening'
  BY <1>6 DEF UdpInv, PendingCloseIsForOpening
<1>12. RequestsDieWithFlow'
  <2>1. DOMAIN worker \subseteq DOMAIN worker'
    BY <1>3, <1>5 DEF g0
  <2> QED BY <1>1, <1>5, <2>1 DEF UdpInv, RequestsDieWithFlow, Observed
<1> QED BY <1>7, <1>8, <1>9, <1>10, <1>11, <1>12 DEF UdpInv

LEMMA TakePacketKeeps ==
  ASSUME UdpInv, TakePacket
  PROVE  UdpInv'
<1> DEFINE p == Head(ingress)
           a == p[1]
           g == handles[a].generation
<1>1. ingress \in Seq(Flows) /\ ingress # <<>> /\ worker \in Seq(WorkerRecord)
  BY EventsNameWorkers DEF TakePacket
<1>2. p \in Flows /\ ingress' \in Seq(Flows)
  BY <1>1, HeadTailProperties DEF TakePacket
<1>3. UNCHANGED <<lifecycle, requested>>
  BY DEF TakePacket, monitorVars
<1>4. \A h \in DOMAIN worker : Alive(worker[h])
         => worker[h].source \in DOMAIN handles /\ handles[worker[h].source].generation = h
  BY DEF UdpInv, RunningWorkersOwned
<1>5. CASE SessionOf[a] \in cancelled
  <2>1. UNCHANGED <<worker, handles, pendingClose>>
    BY <1>5 DEF TakePacket
  <2> QED BY <1>2, <1>3, <2>1, UdpUnchangedKeeps
<1>6. CASE SessionOf[a] \notin cancelled /\ a \notin DOMAIN handles
  <2>1. Spawn(a, p, {})
    BY <1>6 DEF TakePacket
  <2>2. \A h \in DOMAIN worker : Alive(worker[h]) => worker[h].source # a
    BY <1>4, <1>6
  <2> HIDE DEF p
  <2> QED BY <1>2, <1>3, <2>1, <2>2, SpawnKeeps
<1>7. CASE SessionOf[a] \notin cancelled /\ a \in DOMAIN handles /\ ~Alive(WorkerOf(a))
  <2>1. Spawn(a, p, {g})
    BY <1>7 DEF TakePacket
  <2>2. \A h \in DOMAIN worker : Alive(worker[h]) => worker[h].source # a
    BY <1>4, <1>7 DEF WorkerOf
  <2> HIDE DEF p
  <2> QED BY <1>2, <1>3, <2>1, <2>2, SpawnKeeps
<1>8. CASE SessionOf[a] \notin cancelled /\ a \in DOMAIN handles /\ Alive(WorkerOf(a))
  <2> DEFINE w == [worker[g] EXCEPT !.queue = Offer(@, p)]
  <2>1. g \in DOMAIN worker /\ WorkerOf(a) = worker[g]
    BY <1>8 DEF UdpInv, HandlesNameWorkers, WorkerOf
  <2>2. worker[g] \in WorkerRecord
    BY <1>1, <2>1
  <2>3. Offer(worker[g].queue, p) \in Seq(Flows)
    <3>1. worker[g].queue \in Seq(Flows)
      BY <2>2 DEF WorkerRecord
    <3> QED BY <1>2, <3>1, AppendProperties DEF Offer
  <2>4. /\ w \in WorkerRecord /\ w.source = worker[g].source /\ w.pc = worker[g].pc
        /\ w.flow = worker[g].flow /\ w.observed = worker[g].observed /\ w.packet = worker[g].packet
    BY <2>2, <2>3 DEF WorkerRecord
  <2>5. worker' = [worker EXCEPT ![g] = w] /\ UNCHANGED <<handles, pendingClose>>
    BY <1>1, <1>8, <2>1 DEF TakePacket, Set
  <2>6. /\ worker[g].observed => Alive(worker[g]) /\ worker[g].flow \in Flows
        /\ worker[g].pc \in {"start", "packet"} => worker[g].packet \in Flows
    BY <2>1 DEF UdpInv, ObservedRuns, PacketHeld
  <2>7. Alive(w) <=> Alive(worker[g])
    BY <2>4 DEF Alive
  <2> HIDE DEF w, g
  <2> QED BY <1>2, <1>3, <2>1, <2>4, <2>5, <2>6, <2>7, WorkerStepKeeps
<1> QED BY <1>5, <1>6, <1>7, <1>8

-----------------------------------------------------------------------------
(* A close is requested of a flow that is there.                           *)
LEMMA RequestCloseKeeps ==
  ASSUME UdpInv, NEW f, RequestClose(f)
  PROVE  UdpInv'
<1>1. /\ Observed(f) /\ requested' = requested \cup {f}
      /\ UNCHANGED <<worker, ingress, lifecycle, handles, pendingClose>>
  BY DEF RequestClose, managerVars
<1>2. RequestsDieWithFlow'
  BY <1>1 DEF UdpInv, RequestsDieWithFlow, Observed
<1> QED
  BY <1>1, <1>2 DEF UdpInv, UdpShape, EventRecord, HandlesNameWorkers, ObservedRuns, PacketHeld,
                    ClosedIsGone, RunningWorkersOwned, PendingCloseIsForOpening

(* Sessions and broadcasts: what a session leaves behind is in its         *)
(* channels.                                                               *)
LEMMA SessionsKeep ==
  ASSUME UdpInv,
         \/ \E f \in Flows : BroadcastClose(f)
         \/ CloseElsewhere
         \/ \E s \in Sessions : InputEnds(s) \/ StopReading(s) \/ DropSession(s) \/ SessionStep(s)
         \/ UNCHANGED udpVars
  PROVE  UdpInv'
<1>1. UNCHANGED <<worker, requested, handles, pendingClose, lifecycle, ingress>>
  BY DEF BroadcastClose, CloseElsewhere, InputEnds, StopReading, DropSession, SessionStep, TakeReply,
         WriteReply, TakeNotice, HearClose, SendCloseFlow, Leave, SendCloseSession, managerVars,
         monitorVars, udpVars
<1> QED BY <1>1, EventsNameWorkers, UdpUnchangedKeeps

LEMMA ReceivePacketKeeps ==
  ASSUME UdpInv, NEW a \in Sources, NEW t \in Targets, ReceivePacket(a, t)
  PROVE  UdpInv'
<1>1. UNCHANGED <<worker, requested, handles, pendingClose, lifecycle>>
  BY DEF ReceivePacket, monitorVars
<1>2. <<a, t>> \in Flows
  BY DEF Flows
<1>3. ingress' \in Seq(Flows)
  BY <1>2, EventsNameWorkers, AppendProperties DEF ReceivePacket, Offer
<1> QED BY <1>1, <1>3, UdpUnchangedKeeps

LEMMA UdpNextKeeps == UdpInv /\ [UdpNext]_udpVars => UdpInv'
<1> SUFFICES ASSUME UdpInv, [UdpNext]_udpVars PROVE UdpInv'
  OBVIOUS
<1>1. CASE \E f \in Flows : RequestClose(f)
  BY <1>1, RequestCloseKeeps
<1>2. CASE \E a \in Sources, t \in Targets : ReceivePacket(a, t)
  BY <1>2, ReceivePacketKeeps
<1>3. CASE ShutDown \/ ManagerStep
  BY <1>3, ShutDownKeeps, TakePacketKeeps, TakeCommandKeeps, TakeLifecycleKeeps, JoinWorkersKeeps
     DEF ManagerStep
<1>4. CASE \E g \in DOMAIN worker : Reply(g) \/ GiveUp(g) \/ NotifyTimesOut(g) \/ WorkerStep(g)
  BY <1>4, WorkerKeeps
<1>5. CASE \/ \E f \in Flows : BroadcastClose(f)
           \/ CloseElsewhere
           \/ \E s \in Sessions : InputEnds(s) \/ StopReading(s) \/ DropSession(s) \/ SessionStep(s)
           \/ UNCHANGED udpVars
  BY <1>5, SessionsKeep
<1> QED BY <1>1, <1>2, <1>3, <1>4, <1>5 DEF UdpNext

-----------------------------------------------------------------------------
(* Every source has at most one worker that runs and one outbound          *)
(* datagram, and the manager can cancel them, however packets, lifecycle   *)
(* events, closes and the shutdown of run_udp_manager interleave.          *)
THEOREM WorkersStayOwned == UdpSpec => []WorkersOwned
<1>1. UdpInv => WorkersOwned
  <2> SUFFICES ASSUME UdpInv PROVE OneDatagramPerSource
    BY DEF UdpInv, WorkersOwned
  <2> QED BY DEF UdpInv, ObservedRuns, RunningWorkersOwned, OneDatagramPerSource
<1> QED BY <1>1, UdpInitKeeps, UdpNextKeeps, PTL DEF UdpSpec

(* A close that waits in the manager is for a worker that is still         *)
(* opening, and a request in the monitor for a flow that is there: neither *)
(* closes the next flow under the same key.                                *)
THEOREM ClosesStayCurrent == UdpSpec => []ClosesAreCurrent
<1>1. UdpInv => ClosesAreCurrent
  BY DEF UdpInv, ClosesAreCurrent
<1> QED BY <1>1, UdpInitKeeps, UdpNextKeeps, PTL DEF UdpSpec

-----------------------------------------------------------------------------
(* The DNS server supervisor.                                              *)
(* A transport t that will act on the setting knows the last announcement  *)
(* or has its event still to come.                                         *)
Informed(t) == read.version >= announced \/ missed[t]

Inv ==
  /\ TypeOK
  /\ announced <= version
  /\ pc = "bind" => \A t \in Transports : Informed(t)
  /\ pc = "serve" => \A t \in bound : Informed(t)
  /\ pc = "wait" => Informed("udp")

(* The supervisor starts with nothing announced.                           *)
LEMMA InitEstablishesInv == Init => Inv
<1> SUFFICES ASSUME Init PROVE Inv
  OBVIOUS
<1>1. missed \in [Transports -> BOOLEAN]
  BY Zenon DEF Init
<1>2. /\ server \in Servers /\ version = 0 /\ announced = 0
      /\ pending = FALSE /\ shutdown = FALSE /\ pc = "loop"
      /\ read = [server |-> "none", version |-> 0] /\ bound = {}
  BY DEF Init
<1>3. /\ version \in Nat /\ announced \in Nat /\ announced <= version
  BY <1>2
<1>4. pending \in BOOLEAN /\ shutdown \in BOOLEAN
  BY <1>2
<1>5. read \in [server: Servers, version: Nat]
  BY <1>2 DEF Servers
<1>6. TypeOK
  BY <1>1, <1>2, <1>3, <1>4, <1>5 DEF TypeOK
<1> QED BY <1>2, <1>3, <1>6 DEF Inv

(* Each step of the controller, of the supervisor and of its listeners     *)
(* keeps the invariant; Configure and Announce carry the argument.         *)
LEMMA StepKeepsInv == Inv /\ [Next]_vars => Inv'
<1> SUFFICES ASSUME Inv, [Next]_vars PROVE Inv'
  OBVIOUS
<1> USE DEF Inv, TypeOK, Informed, Servers, Transports
<1>1. ASSUME NEW s \in Servers, Change(s) PROVE Inv'
  BY <1>1 DEF Change
<1>2. CASE Announce
  <2>1. missed' \in [Transports -> BOOLEAN]
    BY <1>2, Zenon DEF Announce
  <2>2. \A t \in Transports : missed'[t]
    BY <1>2, Zenon DEF Announce
  <2>3. /\ pending' = FALSE /\ announced' = version
        /\ UNCHANGED <<server, version, shutdown, pc, read, bound>>
    BY <1>2 DEF Announce
  <2>4. pending' \in BOOLEAN
    BY <2>3
  <2>5. TypeOK'
    BY <2>1, <2>3, <2>4
  <2> QED BY <2>2, <2>3, <2>5
<1>3. CASE ReloadFails
  BY <1>3 DEF ReloadFails
<1>4. CASE RequestShutdown
  BY <1>4 DEF RequestShutdown
<1>5. CASE Subscribe
  BY <1>5 DEF Subscribe
<1>6. CASE Configure
  BY <1>6 DEF Configure
<1>7. CASE ConfigureFails
  BY <1>7 DEF ConfigureFails
<1>8. ASSUME NEW B \in SUBSET Transports, BindListeners(B) PROVE Inv'
  BY <1>8 DEF BindListeners
<1>9. ASSUME NEW t \in Transports, ServeEnds(t) PROVE Inv'
  BY <1>9 DEF ServeEnds
<1>10. ASSUME NEW t \in Transports, ServeFails(t) PROVE Inv'
  BY <1>10 DEF ServeFails
<1>11. CASE Rebind
  BY <1>11 DEF Rebind
<1>12. CASE WaitEnds
  BY <1>12 DEF WaitEnds
<1>13. CASE UNCHANGED vars
  BY <1>13 DEF vars
<1> QED
  BY <1>1, <1>2, <1>3, <1>4, <1>5, <1>6, <1>7, <1>8, <1>9, <1>10, <1>11, <1>12, <1>13
     DEF Next, Supervise

(* The inductive invariant holds throughout.                               *)
LEMMA InvHolds == Spec => []Inv
BY InitEstablishesInv, StepKeepsInv, PTL DEF Spec

(* A listener that serves and a supervisor that waits know every announced *)
(* change or have its event still to come: run_dns_supervisor subscribes   *)
(* before it reads the configuration.                                      *)
THEOREM ReloadsAreNeverMissed == Spec => []NoMissedReload
<1>1. Inv => NoMissedReload
  BY DEF Inv, NoMissedReload, Informed
<1> QED BY <1>1, InvHolds, PTL
=============================================================================
