------------------------------- MODULE TunTcp -------------------------------
(***************************************************************************)
(* TCP through the TUN device (doradus-tun): one loop task polls smoltcp,  *)
(* turns its socket events into proxy inputs, and writes the outputs of    *)
(* one proxy task per flow back; every channel is bounded.  A new source   *)
(* socket waits for the lookup of its process before it is routed.         *)
(*                                                                         *)
(* A chunk read from the remote peer is ChunkLen units long, so a socket   *)
(* can take a part of it; a unit carries the generation of its task.       *)
(***************************************************************************)
EXTENDS Integers, Sequences, FiniteSets, Maps, SequencesExt, FiniteSetsExt

CONSTANTS
  TcpFlows,       (* flow keys; all of them have the same source socket    *)
  ChannelCap,     (* channel_capacity of TunProxyRuntime                   *)
  TxCap,          (* units in the transmit buffer of a smoltcp socket      *)
  ChunkLen,       (* units in one read of the remote stream                *)
  Budgets         (* bounds on what is put in from outside, one per case:  *)
                  (* conns and up of clients, down of remotes, closes of   *)
                  (* the management API and idle NAT entries               *)

(* A read of nothing is the end of the stream.                             *)
ASSUME TunTcpAssumption ==
  IsFiniteSet(TcpFlows) /\ ChannelCap \in Nat /\ TxCap \in Nat /\ ChunkLen \in Nat \ {0}

NoLookup == [id |-> 0, events |-> <<>>, sent |-> FALSE]

VARIABLES
  tun,        (* what the loop task owns: see TunTcpInit                   *)
  inputs,     (* proxy_inputs of the dispatcher                            *)
  outputs,    (* the channel from all tasks to the loop                    *)
  phase,      (* step of drive_data_plane_once                             *)
  budget      (* what is left of the chosen bounds                         *)

tunTcpVars == <<tun, inputs, outputs, phase, budget>>

NoSocket == [st |-> "none", tx |-> 0, got |-> <<>>, sent |-> 0, fin |-> FALSE, gen |-> 0]

(* With or without a process resolver.                                     *)
TunTcpInit ==
  /\ tun \in {[sock |-> [f \in TcpFlows |-> NoSocket],  \* TunDispatcher
               tracked |-> {}, nat |-> {},              \* FlowTracker
               cached |-> FALSE,                        \* process of the source
               resolver |-> b,
               lookup |-> NoLookup, nextId |-> 0,       \* ProcessLookups
               task |-> EmptyMap, gens |-> 0,           \* TcpTaskManager
               pending |-> [f \in TcpFlows |-> <<>>], closes |-> {},
               requested |-> {},                        \* close requests of the observer
               ok |-> TRUE] : b \in BOOLEAN}
  /\ inputs = <<>> /\ outputs = <<>> /\ phase = "poll" /\ budget \in Budgets

Spend(what, n) == budget[what] >= n /\ budget' = [budget EXCEPT ![what] = @ - n]

-----------------------------------------------------------------------------
(* Helpers of TunProxyRuntime: functions of the state the loop owns.       *)
Track(r, f) == [r EXCEPT !.tracked = @ \cup {f}, !.nat = @ \cup {f}]

(* The cached process goes with the last tracked flow of the source; the   *)
(* observer forgets a close request of a closed flow.                      *)
Untrack(r, f) ==
  IF f \notin r.tracked THEN r
  ELSE [r EXCEPT !.tracked = @ \ {f}, !.nat = @ \ {f}, !.requested = @ \ {f},
                 !.cached = @ /\ r.tracked # {f}]

ClearPending(r, f) == [r EXCEPT !.pending[f] = <<>>, !.closes = @ \ {f}]
AbortTask(r, f) == ClearPending([r EXCEPT !.task = Drop(@, {f})], f)

EventsBut(events, f) ==
  FoldLeft(LAMBDA kept, e : IF e.flow = f THEN kept ELSE Append(kept, e), <<>>, events)
DropDeferred(r, f) ==
  LET kept == EventsBut(r.lookup.events, f)
  IN IF r.lookup.id = 0 THEN r
     ELSE IF kept = <<>> THEN [r EXCEPT !.lookup = NoLookup]
     ELSE [r EXCEPT !.lookup.events = kept]

RemoveFlowTask(r, f) == AbortTask(DropDeferred(r, f), f)

(* smoltcp: close() lets queued data out before the FIN, abort() resets.   *)
CloseTcp(r, f) == IF r.sock[f].st = "open" THEN [r EXCEPT !.sock[f].st = "closing"] ELSE r
AbortTcp(r, f) == IF r.sock[f].st # "none" THEN [r EXCEPT !.sock[f].st = "dead"] ELSE r

(* send_slice: an error when the socket may not send, else what fits.      *)
Writable(r, f) == r.sock[f].st = "open"
Fits(r, f, payload) ==
  IF Len(payload) < TxCap - r.sock[f].tx THEN Len(payload) ELSE TxCap - r.sock[f].tx
WriteTcp(r, f, payload) ==
  LET n == Fits(r, f, payload) IN
  [r EXCEPT !.sock[f].tx = @ + n, !.sock[f].got = @ \o SubSeq(payload, 1, n)]

FinishTcpClose(r, f) == Untrack(AbortTask(CloseTcp(r, f), f), f)

-----------------------------------------------------------------------------
(* The network side of TunDispatcher::poll: smoltcp consumes packets of    *)
(* the client and collect_proxy_inputs reports what became of each socket. *)
Event(kind, f, n) == [kind |-> kind, flow |-> f, n |-> n]
Report(kind, f, n) == inputs' = Append(inputs, Event(kind, f, n))

(* A socket is made before the packet is consumed, and only for a flow     *)
(* that has none: not in the poll that collects its predecessor.           *)
ClientConnects(f) ==
  /\ phase = "poll" /\ tun.sock[f].st = "none"
  /\ \A i \in DOMAIN inputs : inputs[i].flow # f
  /\ tun' = [tun EXCEPT !.sock[f] = [NoSocket EXCEPT !.st = "open"]]
  /\ Spend("conns", 1)
  /\ Report("opened", f, 0)
  /\ UNCHANGED <<outputs, phase>>

ClientSends(f) ==
  /\ phase = "poll" /\ tun.sock[f].st \in {"open", "closing"}
  /\ ~tun.sock[f].fin /\ Spend("up", 1)
  /\ tun' = [tun EXCEPT !.sock[f].sent = @ + 1]
  /\ Report("data", f, tun.sock[f].sent + 1)
  /\ UNCHANGED <<outputs, phase>>

ClientFins(f) ==
  /\ phase = "poll" /\ tun.sock[f].st \in {"open", "closing"} /\ ~tun.sock[f].fin
  /\ tun' = [tun EXCEPT !.sock[f].fin = TRUE]
  /\ Report("half", f, 0)
  /\ UNCHANGED <<outputs, phase, budget>>

ClientAcks(f) ==
  /\ phase = "poll" /\ tun.sock[f].tx > 0
  /\ tun' = [tun EXCEPT !.sock[f].tx = 0]
  /\ UNCHANGED <<inputs, outputs, phase, budget>>

(* A reset, the end of both directions, or an earlier abort().             *)
SocketCloses(f) ==
  /\ phase = "poll" /\ tun.sock[f].st # "none"
  /\ tun' = [tun EXCEPT !.sock[f] = NoSocket]
  /\ Report("closed", f, 0)
  /\ UNCHANGED <<outputs, phase, budget>>

PollEnds ==
  /\ phase = "poll" /\ \A f \in TcpFlows : tun.sock[f].st # "dead"
  /\ phase' = "inputs"
  /\ UNCHANGED <<tun, inputs, outputs, budget>>

-----------------------------------------------------------------------------
(* handle_ready_input.                                                     *)
SpawnTask(r, f) ==
  LET a == AbortTask(r, f) IN
  [a EXCEPT !.task = Put(@, f, [gen |-> r.gens + 1, pc |-> "connecting", cmds |-> <<>>,
                                 forwarded |-> <<>>, emitted |-> 0, writeClosed |-> FALSE]),
            !.gens = @ + 1, !.sock[f].gen = IF r.sock[f].st = "none" THEN 0 ELSE r.gens + 1]

Accepts(r, f) ==
  f \in DOMAIN r.task /\ r.task[f].pc # "finished" /\ Len(r.task[f].cmds) < ChannelCap

(* No task, a full queue or a task that ended: only this flow is released. *)
(* Mutant of SendCommand: a full queue loses the chunk.                    *)
SendOrSkip(r, f, c) ==
  IF Accepts(r, f) THEN [r EXCEPT !.task[f].cmds = Append(@, c)]
  ELSE IF f \in DOMAIN r.task /\ r.task[f].pc # "finished" THEN r
  ELSE [Untrack(AbortTask(r, f), f) EXCEPT !.ok = FALSE]

SendCommand(r, f, c) ==
  IF Accepts(r, f) THEN [r EXCEPT !.task[f].cmds = Append(@, c)]
  ELSE [Untrack(AbortTask(r, f), f) EXCEPT !.ok = FALSE]

(* Mutant of Ready: the close of a client socket leaves its task.          *)
ReadyKeepingTask(r, e) ==
  CASE e.kind = "opened" -> SpawnTask(Track(r, e.flow), e.flow)
    [] e.kind = "data"   -> SendCommand(r, e.flow, e.n)
    [] e.kind = "half"   -> SendCommand(r, e.flow, 0)
    [] e.kind = "closed" -> Untrack(r, e.flow)

Ready(r, e) ==
  CASE e.kind = "opened" -> SpawnTask(Track(r, e.flow), e.flow)
    [] e.kind = "data"   -> SendCommand(r, e.flow, e.n)
    [] e.kind = "half"   -> SendCommand(r, e.flow, 0)
    [] e.kind = "closed" -> Untrack(AbortTask(r, e.flow), e.flow)

(* defer_process_lookup.  With one source, at most one lookup is pending.  *)
(* Mutant of Deferred: a flow closed while it waits stays tracked.         *)
DeferredTracked(r, e) ==
  IF e.kind = "closed" THEN DropDeferred(r, e.flow)
  ELSE IF Len(r.lookup.events) - 1 >= ChannelCap
       THEN [Untrack(DropDeferred(r, e.flow), e.flow) EXCEPT !.ok = FALSE]
       ELSE Track([r EXCEPT !.lookup.events = Append(@, e)], e.flow)

Deferred(r, e) ==
  IF e.kind = "closed" THEN Untrack(DropDeferred(r, e.flow), e.flow)
  ELSE IF Len(r.lookup.events) - 1 >= ChannelCap
       THEN [Untrack(DropDeferred(r, e.flow), e.flow) EXCEPT !.ok = FALSE]
       ELSE Track([r EXCEPT !.lookup.events = Append(@, e)], e.flow)

StartLookup(r, e) ==
  [Track(r, e.flow) EXCEPT !.nextId = @ + 1,
     !.lookup = [id |-> r.nextId + 1, events |-> <<e>>, sent |-> FALSE]]

HandleProxyInput(r, e) ==
  IF r.lookup.id # 0 THEN Deferred(r, e)
  ELSE IF e.kind = "opened" /\ r.resolver /\ ~r.cached THEN StartLookup(r, e)
  ELSE Ready(r, e)

(* apply_proxy_input_action: a recoverable error resets the client flow.   *)
DispatchInput ==
  /\ phase = "inputs" /\ inputs # <<>>
  /\ LET e == Head(inputs)
         r == HandleProxyInput(tun, e)
     IN tun' = IF r.ok THEN r ELSE AbortTcp([r EXCEPT !.ok = TRUE], e.flow)
  /\ inputs' = Tail(inputs)
  /\ UNCHANGED <<outputs, phase, budget>>

-----------------------------------------------------------------------------
(* process_proxy_outputs: close requests and pending bytes first.  A flow  *)
(* is closed on request as it is after a failed replay.                    *)
CloseFlow(f, r) == Untrack(AbortTcp(RemoveFlowTask(r, f), f), f)

(* Mutants of FlushFlow: the rest of a short write is lost; the close that *)
(* waits for the last byte is not finished.                                *)
FlushLosingRest(f, r) ==
  IF r.pending[f] = <<>> \/ ~Writable(r, f) THEN r
  ELSE ClearPending(WriteTcp(r, f, r.pending[f]), f)
FlushKeepingClose(f, r) ==
  LET n == Fits(r, f, r.pending[f])
  IN IF r.pending[f] = <<>> \/ ~Writable(r, f) THEN r
     ELSE [WriteTcp(r, f, r.pending[f]) EXCEPT !.pending[f] = SubSeq(@, n + 1, Len(@))]

FlushFlow(f, r) ==
  LET bytes == r.pending[f]
      n == Fits(r, f, bytes)
      rest == SubSeq(bytes, n + 1, Len(bytes))
      w == [WriteTcp(r, f, bytes) EXCEPT !.pending[f] = rest]
      done == IF f \in w.closes THEN FinishTcpClose(w, f) ELSE ClearPending(w, f)
  IN IF bytes = <<>> THEN r
     ELSE IF ~Writable(r, f) THEN (IF f \in r.closes THEN FinishTcpClose(r, f) ELSE r)
     ELSE IF rest = <<>> THEN done ELSE w

CloseAndFlush(r) ==
  FoldSet(FlushFlow, FoldSet(CloseFlow, r, r.tracked \cap r.requested), TcpFlows)

InputsEnd ==
  /\ phase = "inputs" /\ inputs = <<>>
  /\ tun' = CloseAndFlush(tun)
  /\ phase' = "drain"
  /\ UNCHANGED <<inputs, outputs, budget>>

(* handle_proxy_output.                                                    *)
Blocked(r, o) == ~Writable(r, o.flow) \/ Fits(r, o.flow, o.payload) < Len(o.payload)

TcpData(r, o) ==
  LET n == IF Writable(r, o.flow) THEN Fits(r, o.flow, o.payload) ELSE 0
      w == IF Writable(r, o.flow) THEN WriteTcp(r, o.flow, o.payload) ELSE r
  IN [w EXCEPT !.pending[o.flow] = @ \o SubSeq(o.payload, n + 1, Len(o.payload))]

TcpClosed(r, o) ==
  IF r.pending[o.flow] # <<>> THEN [r EXCEPT !.closes = @ \cup {o.flow}]
  ELSE FinishTcpClose(r, o.flow)

(* complete_process_lookup: replays the deferred events in order; an error *)
(* releases every flow of the source.                                      *)
ReplayEvent(r, e) == IF r.ok THEN Ready(r, e) ELSE r
Replay(r, events) ==
  LET end == FoldLeft(ReplayEvent, r, events)
  IN IF end.ok THEN end
     ELSE [FoldSet(CloseFlow, end, {events[i].flow : i \in DOMAIN events} \cup end.tracked)
             EXCEPT !.ok = TRUE]

ProcessResolved(r, o) ==
  IF r.lookup.id # o.gen THEN r
  ELSE Replay([r EXCEPT !.lookup = NoLookup, !.cached = TRUE], r.lookup.events)

HandleOutput ==
  /\ phase = "drain" /\ outputs # <<>>
  /\ LET o == Head(outputs) IN
     /\ tun' = CASE o.kind = "data"     -> TcpData(tun, o)
                 [] o.kind = "closed"   -> TcpClosed(tun, o)
                 [] o.kind = "resolved" -> ProcessResolved(tun, o)
     /\ phase' = IF o.kind = "data" /\ Blocked(tun, o) THEN "reap" ELSE "drain"
  /\ outputs' = Tail(outputs)
  /\ UNCHANGED <<inputs, budget>>

DrainEnds ==
  /\ phase = "drain" /\ outputs = <<>>
  /\ phase' = "reap"
  /\ UNCHANGED <<tun, inputs, outputs, budget>>

(* reap_finished_tasks.                                                    *)
ReapFlow(f, r) ==
  IF r.pending[f] # <<>> THEN [r EXCEPT !.closes = @ \cup {f}] ELSE FinishTcpClose(r, f)

Reap ==
  /\ phase = "reap"
  /\ tun' = FoldSet(ReapFlow, tun, {f \in DOMAIN tun.task : tun.task[f].pc = "finished"})
  /\ phase' = "maintain"
  /\ UNCHANGED <<inputs, outputs, budget>>

(* maintain: sweep the idle NAT entries E, if it is due.                   *)
ExpireFlow(f, r) == RemoveFlowTask(AbortTcp(r, f), f)
Maintain(E) ==
  /\ phase = "maintain"
  /\ tun' = FoldSet(ExpireFlow, [tun EXCEPT !.nat = @ \ E], E)
  /\ phase' = "poll"
  /\ Spend("idle", Cardinality(E))
  /\ UNCHANGED <<inputs, outputs>>

-----------------------------------------------------------------------------
(* The management API asks for the close of an observed flow.              *)
RequestTcpClose(f) ==
  /\ f \in tun.tracked \ tun.requested
  /\ tun' = [tun EXCEPT !.requested = @ \cup {f}]
  /\ Spend("closes", 1)
  /\ UNCHANGED <<inputs, outputs, phase>>

(* The lookup task of the source; aborting it takes its result with it.    *)
Emit(kind, f, gen, payload) ==
  /\ Len(outputs) < ChannelCap
  /\ outputs' = Append(outputs, [kind |-> kind, flow |-> f, gen |-> gen, payload |-> payload])

LookupEnds ==
  /\ tun.lookup.id # 0 /\ ~tun.lookup.sent
  /\ Emit("resolved", Head(tun.lookup.events).flow, tun.lookup.id, <<>>)
  /\ tun' = [tun EXCEPT !.lookup.sent = TRUE]
  /\ UNCHANGED <<inputs, phase, budget>>

(* run_tcp_proxy of flow f.                                                *)
Running(f, pc) == f \in DOMAIN tun.task /\ tun.task[f].pc = pc
TaskGoes(f, pc) == tun' = [tun EXCEPT !.task[f].pc = pc]

ConnectEnds(f, pc) ==
  /\ Running(f, "connecting") /\ pc \in {"relaying", "ending"}
  /\ TaskGoes(f, pc)
  /\ UNCHANGED <<inputs, outputs, phase, budget>>

Units(gen, from, n) == [i \in 1..n |-> <<gen, from + i>>]
ReadRemote(f) ==
  /\ Running(f, "relaying") /\ Spend("down", 1)
  /\ Emit("data", f, tun.task[f].gen, Units(tun.task[f].gen, tun.task[f].emitted, ChunkLen))
  /\ tun' = [tun EXCEPT !.task[f].emitted = @ + ChunkLen]
  /\ UNCHANGED <<inputs, phase>>

(* End of stream, a read error, or a failed write of a command.            *)
RemoteEnds(f) ==
  /\ Running(f, "relaying")
  /\ TaskGoes(f, "ending")
  /\ UNCHANGED <<inputs, outputs, phase, budget>>

EmitClosed(f) ==
  /\ Running(f, "ending")
  /\ Emit("closed", f, tun.task[f].gen, <<>>)
  /\ TaskGoes(f, "finished")
  /\ UNCHANGED <<inputs, phase, budget>>

(* emit_output gives up when the channel stays full.                       *)
EmitTimesOut(f) ==
  /\ Running(f, "relaying") \/ Running(f, "ending")
  /\ Len(outputs) = ChannelCap
  /\ TaskGoes(f, "finished")
  /\ UNCHANGED <<inputs, outputs, phase, budget>>

(* 0 stands for ProxyCommand::Shutdown.                                    *)
TakeCommand(f) ==
  /\ Running(f, "relaying") /\ tun.task[f].cmds # <<>>
  /\ LET t == tun.task[f]
         c == Head(t.cmds)
     IN tun' = [tun EXCEPT !.task[f] =
                  [t EXCEPT !.cmds = Tail(@),
                            !.writeClosed = @ \/ c = 0,
                            !.forwarded = IF c # 0 /\ ~t.writeClosed THEN Append(@, c) ELSE @]]
  /\ UNCHANGED <<inputs, outputs, phase, budget>>

(* run_dispatcher_until: shutdown asks every task to end and gives them a  *)
(* deadline; an error of the device closes at once.                        *)
Close(r) ==
  [r EXCEPT !.task = EmptyMap, !.lookup = NoLookup, !.tracked = {}, !.nat = {}, !.cached = FALSE,
            !.requested = {}, !.pending = [f \in TcpFlows |-> <<>>], !.closes = {}]
StopTun ==
  /\ phase = "poll"
  /\ tun' = Close(tun)
  /\ phase' = "over"
  /\ UNCHANGED <<inputs, outputs, budget>>

TunTcpNext ==
  \/ \E f \in TcpFlows :
       \/ ClientConnects(f) \/ ClientSends(f) \/ ClientFins(f) \/ ClientAcks(f) \/ SocketCloses(f)
       \/ RequestTcpClose(f)
       \/ \E pc \in {"relaying", "ending"} : ConnectEnds(f, pc)
       \/ ReadRemote(f) \/ RemoteEnds(f) \/ EmitClosed(f) \/ EmitTimesOut(f) \/ TakeCommand(f)
  \/ PollEnds \/ DispatchInput \/ InputsEnd \/ HandleOutput \/ DrainEnds \/ Reap
  \/ \E E \in SUBSET tun.nat : Maintain(E)
  \/ LookupEnds \/ StopTun

TunTcpSpec == TunTcpInit /\ [][TunTcpNext]_tunTcpVars

-----------------------------------------------------------------------------
Own(gen, s) == FlattenSeq([i \in DOMAIN s |-> IF s[i][1] = gen THEN <<s[i]>> ELSE <<>>])
Chunk(o, f, gen) == o.kind = "data" /\ o.flow = f /\ o.gen = gen
Queued(f, gen) ==
  FlattenSeq([i \in DOMAIN outputs |->
                IF Chunk(outputs[i], f, gen) THEN outputs[i].payload ELSE <<>>])

(* What earlier tasks of the same key left comes before all that the task  *)
(* of generation g read: in s, what its socket got and the loop holds, and *)
(* then in the outputs.                                                    *)
DataOf(o, f) == o.kind = "data" /\ o.flow = f
LeftoversFirst(s, outs, f, g) ==
  /\ \A i \in DOMAIN s : s[i][1] <= g
  /\ \A i, j \in DOMAIN s : i < j /\ s[i][1] = g => s[j][1] = g
  /\ \A j \in DOMAIN outs : DataOf(outs[j], f) =>
       /\ outs[j].gen <= g
       /\ \A i \in DOMAIN s : s[i][1] = g => outs[j].gen = g
       /\ \A i \in DOMAIN outs : i < j /\ Chunk(outs[i], f, g) => outs[j].gen = g

(* While a flow has its proxy task and its client socket, what the task    *)
(* read from the remote is in what the socket got, what the loop holds and *)
(* what the channel holds, complete, in order and in one piece.  Data      *)
(* carries no generation the loop checks (TcpData), so what an aborted     *)
(* task of the same key left in the channel can reach the new socket: it   *)
(* then comes before, never between or after, what the new task read.      *)
StreamIntact ==
  \A f \in DOMAIN tun.task :
    LET g == tun.task[f].gen
        s == tun.sock[f].got \o tun.pending[f]
    IN tun.sock[f].gen = g =>
         /\ Own(g, tun.sock[f].got) \o Own(g, tun.pending[f]) \o Queued(f, g)
              = Units(g, 0, tun.task[f].emitted)
         /\ LeftoversFirst(s, outputs, f, g)

(* What a task forwarded, has queued and will be handed is exactly what    *)
(* its client sent: a full queue ends the flow and never skips a chunk.    *)
Chunks(s) == FlattenSeq([i \in DOMAIN s |-> IF s[i] # 0 THEN <<s[i]>> ELSE <<>>])
Undispatched(f) ==
  FlattenSeq([i \in DOMAIN inputs |->
                IF inputs[i].kind = "data" /\ inputs[i].flow = f THEN <<inputs[i].n>> ELSE <<>>])
UploadIntact ==
  \A f \in DOMAIN tun.task :
    tun.sock[f].gen = tun.task[f].gen =>
      tun.task[f].forwarded \o Chunks(tun.task[f].cmds) \o Undispatched(f)
        = [i \in 1..tun.sock[f].sent |-> i]

(* Both directions of a flow keep their order and lose nothing while its   *)
(* task and its socket last; only leftovers of an earlier task of its key  *)
(* may come before what the client gets.                                   *)
StreamsIntact == StreamIntact /\ UploadIntact

(* Every task belongs to a tracked flow, and no flow of a source has one   *)
(* while the source waits for its process: the close of a client socket    *)
(* would release the deferred events only and leave the task running.      *)
TasksTracked ==
  /\ DOMAIN tun.task \subseteq tun.tracked
  /\ tun.lookup.id # 0 => tun.task = EmptyMap

(* A tracked flow still has the socket, or the event, that releases it.    *)
TrackedReleasable ==
  \A f \in tun.tracked :
    \/ tun.sock[f].st # "none"
    \/ \E i \in DOMAIN inputs : inputs[i].flow = f

(* A close waits for pending output only: it is finished with the last.    *)
CloseWaitsForOutput == \A f \in tun.closes : tun.pending[f] # <<>>

(* What a flow holds in the loop task (its task, its tracking, a close     *)
(* that waits) is left with something that releases it.  Bytes that wait   *)
(* for a socket the flow no longer has are not meant: they stay until the  *)
(* key is used again.                                                      *)
FlowsReleasable == TasksTracked /\ TrackedReleasable /\ CloseWaitsForOutput

(* A socket closed because its task ended was given all its task read.     *)
EndedStreamComplete ==
  \A f \in TcpFlows : tun.sock[f].st = "closing" => Queued(f, tun.sock[f].gen) = <<>>
=============================================================================
