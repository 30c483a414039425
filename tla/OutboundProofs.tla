--------------------------- MODULE OutboundProofs ---------------------------
(***************************************************************************)
(* What the way out keeps: the shared UDP socket of a DNS client and a UDP *)
(* association over a stream, for every number of calls, sockets and       *)
(* streams, the DNS resolver, for every number of queries and keys, every  *)
(* cache and every TTL, and the dialer that races the addresses of a host, *)
(* for every number of addresses and every content of the address cache.   *)
(***************************************************************************)
EXTENDS DnsUdpClient, ChainUot, DnsResolver, HappyEyeballs, SumProofs, SequenceTheorems,
  FiniteSetTheorems, WellFoundedInduction, TLAPS

-----------------------------------------------------------------------------
(* AsyncUdpDnsClient.                                                      *)
CallRecord ==
  [pc : {"idle", "bind", "send", "wait", "done", "gone"},
   got : {"none", "response", "error", "closed"}]

(* A sender in the map is that of a call of its key which has no result.   *)
SendersUnused ==
  \A k \in DOMAIN pending :
    /\ pending[k] \in Lookups /\ PendingKeyOf[pending[k]] = k
    /\ IsPending(call[pending[k]].got)

UdpClientInv ==
  /\ call \in [Lookups -> CallRecord] /\ sockets \in Nat
  /\ \A q \in Lookups : call[q].pc \in {"idle", "bind"} => IsPending(call[q].got)
  /\ SendersUnused /\ StoredSocketIsRead /\ WaitersReachable /\ OnlyDroppedLeaveSenders

(* Decide gives a result to the calls of Q that have none, and changes no  *)
(* other field.                                                            *)
LEMMA DecideProperties ==
  ASSUME NEW c \in [Lookups -> CallRecord], NEW Q, NEW r \in {"response", "error", "closed"}
  PROVE  /\ Decide(c, Q, r) \in [Lookups -> CallRecord]
         /\ \A q \in Lookups : /\ Decide(c, Q, r)[q].pc = c[q].pc
                               /\ IsPending(Decide(c, Q, r)[q].got) <=> q \notin Q /\ IsPending(c[q].got)
BY DEF Decide, IsPending, CallRecord

LEMMA AdvanceProperties ==
  ASSUME NEW c \in [Lookups -> CallRecord], NEW q \in Lookups,
         NEW pc \in {"bind", "send", "wait", "done", "gone"}
  PROVE  /\ Advance(c, q, pc) \in [Lookups -> CallRecord]
         /\ Advance(c, q, pc)[q].pc = pc /\ Advance(c, q, pc)[q].got = c[q].got
         /\ \A p \in Lookups : p # q => Advance(c, q, pc)[p] = c[p]
BY DEF Advance, CallRecord

(* A call that is registered takes the key, and decides the call that had  *)
(* it.                                                                     *)
LEMMA RegisterKeeps ==
  ASSUME UdpClientInv, NEW q \in Lookups, call[q].pc \in {"idle", "bind"}, Register(q),
         StoredSocketIsRead', receivers' # {}, sockets' \in Nat
  PROVE  UdpClientInv'
<1> DEFINE k == PendingKeyOf[q]
           d == Decide(call, HolderOf(k), "closed")
<1>1. call \in [Lookups -> CallRecord]
  BY DEF UdpClientInv
<1>2. q \notin HolderOf(k)
  BY DEF HolderOf, UdpClientInv, OnlyDroppedLeaveSenders
<1>3. /\ d \in [Lookups -> CallRecord]
      /\ \A p \in Lookups : /\ d[p].pc = call[p].pc
                            /\ IsPending(d[p].got) <=> p \notin HolderOf(k) /\ IsPending(call[p].got)
  BY <1>1, DecideProperties
<1>4. call' = Advance(d, q, "send") /\ pending' = Put(pending, k, q)
  BY DEF Register
<1> HIDE DEF d
<1>5. /\ call' \in [Lookups -> CallRecord] /\ call'[q].pc = "send" /\ IsPending(call'[q].got)
      /\ \A p \in Lookups : p # q => call'[p] = d[p]
  BY <1>2, <1>3, <1>4, AdvanceProperties DEF UdpClientInv
<1>6. /\ DOMAIN pending' = DOMAIN pending \cup {k} /\ pending'[k] = q
      /\ \A x \in DOMAIN pending : x # k => pending'[x] = pending[x]
  BY <1>4 DEF Put
<1>7. \A x \in DOMAIN pending : x # k => pending[x] \notin HolderOf(k) /\ pending[x] # q
  BY <1>2 DEF HolderOf, UdpClientInv, SendersUnused
<1>8. SendersUnused' /\ OnlyDroppedLeaveSenders'
  BY <1>3, <1>5, <1>6, <1>7 DEF UdpClientInv, SendersUnused, OnlyDroppedLeaveSenders
<1>9. WaitersReachable'
  <2> SUFFICES ASSUME NEW p \in Lookups, call'[p].pc \in {"send", "wait"}, IsPending(call'[p].got)
               PROVE  PendingKeyOf[p] \in DOMAIN pending' /\ pending'[PendingKeyOf[p]] = p
    BY DEF WaitersReachable
  <2>1. CASE p = q
    BY <1>6, <2>1
  <2>2. CASE p # q
    <3>1. PendingKeyOf[p] \in DOMAIN pending /\ pending[PendingKeyOf[p]] = p /\ p \notin HolderOf(k)
      BY <1>3, <1>5, <2>2 DEF UdpClientInv, WaitersReachable
    <3>2. PendingKeyOf[p] # k
      BY <3>1 DEF HolderOf
    <3> QED BY <1>6, <3>1, <3>2
  <2> QED BY <2>1, <2>2
<1>10. \A p \in Lookups : call'[p].pc \in {"idle", "bind"} => IsPending(call'[p].got)
  <2> SUFFICES ASSUME NEW p \in Lookups, call'[p].pc \in {"idle", "bind"} PROVE IsPending(call'[p].got)
    OBVIOUS
  <2>1. p # q /\ call'[p] = d[p] /\ call[p].pc \in {"idle", "bind"}
    BY <1>3, <1>5
  <2>2. p \notin HolderOf(k) /\ IsPending(call[p].got)
    BY <2>1 DEF HolderOf, UdpClientInv, OnlyDroppedLeaveSenders
  <2> QED BY <1>3, <2>1, <2>2
<1> QED BY <1>5, <1>8, <1>9, <1>10 DEF UdpClientInv

(* A call moves on and keeps its sender, if it has one.                    *)
LEMMA AdvanceKeeps ==
  ASSUME UdpClientInv, NEW q \in Lookups, NEW pc \in {"bind", "wait", "done", "gone"},
         call' = Advance(call, q, pc), UNCHANGED <<stored, receivers, pending, sockets>>,
         pc = "bind" => call[q].pc = "idle",
         pc = "wait" => call[q].pc = "send",
         pc = "done" => ~IsPending(call[q].got) \/ call[q].pc = "bind",
         pc = "gone" => call[q].pc \in {"bind", "send", "wait"}
  PROVE  UdpClientInv'
<1>1. /\ call' \in [Lookups -> CallRecord] /\ call'[q].pc = pc /\ call'[q].got = call[q].got
      /\ \A p \in Lookups : p # q => call'[p] = call[p]
  BY AdvanceProperties DEF UdpClientInv
<1>2. SendersUnused' /\ StoredSocketIsRead'
  BY <1>1 DEF UdpClientInv, SendersUnused, StoredSocketIsRead
<1>3. WaitersReachable'
  BY <1>1 DEF UdpClientInv, WaitersReachable
<1>4. OnlyDroppedLeaveSenders'
  BY <1>1 DEF UdpClientInv, OnlyDroppedLeaveSenders, SendersUnused
<1> QED BY <1>1, <1>2, <1>3, <1>4 DEF UdpClientInv

(* The calls of Q, among them the one that the map holds under k, get a    *)
(* result, and q ends if it had the key.                                   *)
LEMMA RemoveKeyKeeps ==
  ASSUME UdpClientInv, NEW q \in Lookups, NEW r \in {"response", "closed"},
         LET k == PendingKeyOf[q] IN
         /\ pending' = Drop(pending, {k})
         /\ \/ call' = Decide(call, HolderOf(k), r)
            \/ \E Q \in {HolderOf(k), HolderOf(k) \ {q}} :
                 call' = Advance(Decide(call, Q, r), q, "done") /\ call[q].pc \in {"send", "wait"},
         UNCHANGED <<stored, receivers, sockets>>
  PROVE  UdpClientInv'
<1> DEFINE k == PendingKeyOf[q]
           Told(p) == IsPending(call'[p].got) <=> p \notin HolderOf(k) /\ IsPending(call[p].got)
           Result == /\ call' \in [Lookups -> CallRecord]
                     /\ \A p \in Lookups : \/ call'[p].pc = call[p].pc /\ Told(p)
                                           \/ p = q /\ call'[p].pc = "done" /\ call[p].pc \in {"send", "wait"}
<1>1. Result
  <2>0. call \in [Lookups -> CallRecord]
    BY DEF UdpClientInv
  <2>1. CASE call' = Decide(call, HolderOf(k), r)
    <3>1. /\ call' \in [Lookups -> CallRecord]
          /\ \A p \in Lookups : /\ call'[p].pc = call[p].pc
                                /\ IsPending(call'[p].got) <=> p \notin HolderOf(k) /\ IsPending(call[p].got)
      BY <2>0, <2>1, DecideProperties
    <3> QED BY <3>1
  <2>2. ASSUME NEW Q \in {HolderOf(k), HolderOf(k) \ {q}},
               call' = Advance(Decide(call, Q, r), q, "done"), call[q].pc \in {"send", "wait"}
        PROVE  Result
    <3> DEFINE d == Decide(call, Q, r)
    <3>1. /\ d \in [Lookups -> CallRecord]
          /\ \A p \in Lookups : /\ d[p].pc = call[p].pc
                                /\ IsPending(d[p].got) <=> p \notin Q /\ IsPending(call[p].got)
      BY <2>0, DecideProperties
    <3> HIDE DEF d
    <3>2. /\ call' \in [Lookups -> CallRecord] /\ call'[q].pc = "done" /\ call'[q].got = d[q].got
          /\ \A p \in Lookups : p # q => call'[p] = d[p]
      BY <2>2, <3>1, AdvanceProperties DEF d
    <3> QED BY <2>2, <3>1, <3>2
  <2> QED BY <2>1, <2>2
<1>2. /\ DOMAIN pending' = DOMAIN pending \ {k}
      /\ \A x \in DOMAIN pending' : pending'[x] = pending[x]
  BY DEF Drop, Restrict
<1>3. \A x \in DOMAIN pending' : pending[x] \notin HolderOf(k) /\ pending[x] # q
  BY <1>2 DEF HolderOf, UdpClientInv, SendersUnused
<1>4. SendersUnused' /\ OnlyDroppedLeaveSenders' /\ StoredSocketIsRead'
  <2>1. \A x \in DOMAIN pending' :
          /\ pending[x] \in Lookups /\ PendingKeyOf[pending[x]] = x
          /\ IsPending(call'[pending[x]].got) /\ call'[pending[x]].pc \in {"send", "wait", "gone"}
    BY <1>1, <1>2, <1>3 DEF UdpClientInv, SendersUnused, OnlyDroppedLeaveSenders
  <2> QED BY <1>2, <2>1 DEF UdpClientInv, SendersUnused, OnlyDroppedLeaveSenders, StoredSocketIsRead
<1>5. WaitersReachable'
  <2> SUFFICES ASSUME NEW p \in Lookups, call'[p].pc \in {"send", "wait"}, IsPending(call'[p].got)
               PROVE  receivers' # {} /\ PendingKeyOf[p] \in DOMAIN pending' /\ pending'[PendingKeyOf[p]] = p
    BY DEF WaitersReachable
  <2>1. call[p].pc \in {"send", "wait"} /\ IsPending(call[p].got) /\ p \notin HolderOf(k)
    BY <1>1
  <2>2. receivers # {} /\ PendingKeyOf[p] \in DOMAIN pending /\ pending[PendingKeyOf[p]] = p
    BY <2>1 DEF UdpClientInv, WaitersReachable
  <2>3. PendingKeyOf[p] # k
    BY <2>1, <2>2 DEF HolderOf
  <2> QED BY <1>2, <2>2, <2>3
<1>6. \A p \in Lookups : call'[p].pc \in {"idle", "bind"} => IsPending(call'[p].got)
  <2> SUFFICES ASSUME NEW p \in Lookups, call'[p].pc \in {"idle", "bind"} PROVE IsPending(call'[p].got)
    OBVIOUS
  <2>1. call[p].pc \in {"idle", "bind"} /\ IsPending(call[p].got)
    BY <1>1 DEF UdpClientInv
  <2>2. p \notin HolderOf(k)
    BY <2>1 DEF HolderOf, UdpClientInv, OnlyDroppedLeaveSenders
  <2> QED BY <1>1, <2>1, <2>2
<1> QED BY <1>1, <1>4, <1>5, <1>6 DEF UdpClientInv

(* Every call is told, and none is left.                                   *)
LEMMA ReceiverFailsKeeps ==
  ASSUME UdpClientInv, NEW s \in receivers, ReceiverFails(s)
  PROVE  UdpClientInv'
<1> DEFINE Q == {pending[k] : k \in DOMAIN pending}
<1>1. /\ call' \in [Lookups -> CallRecord]
      /\ \A p \in Lookups : /\ call'[p].pc = call[p].pc
                            /\ IsPending(call'[p].got) <=> p \notin Q /\ IsPending(call[p].got)
  <2>1. call \in [Lookups -> CallRecord] /\ call' = Decide(call, Q, "error")
    BY DEF UdpClientInv, ReceiverFails
  <2> HIDE DEF Q
  <2> QED BY <2>1, DecideProperties
<1>2. DOMAIN pending' = {} /\ sockets' = sockets
  BY DEF ReceiverFails, EmptyMap
<1>3. receivers' = {} /\ stored' = Unbound
  BY DEF ReceiverFails, UdpClientInv, StoredSocketIsRead
<1>4. WaitersReachable'
  BY <1>1 DEF UdpClientInv, WaitersReachable
<1>5. \A p \in Lookups : call'[p].pc \in {"idle", "bind"} => IsPending(call'[p].got)
  BY <1>1 DEF UdpClientInv, OnlyDroppedLeaveSenders
<1> QED
  BY <1>1, <1>2, <1>3, <1>4, <1>5
     DEF UdpClientInv, SendersUnused, OnlyDroppedLeaveSenders, StoredSocketIsRead

LEMMA UdpClientNextKeeps == UdpClientInv /\ [UdpClientNext]_udpClientVars => UdpClientInv'
<1> SUFFICES ASSUME UdpClientInv, [UdpClientNext]_udpClientVars PROVE UdpClientInv'
  OBVIOUS
<1>1. ASSUME NEW q \in Lookups, Start(q) PROVE UdpClientInv'
  <2>1. CASE stored # Unbound
    <3>1. StoredSocketIsRead' /\ receivers' # {} /\ sockets' \in Nat /\ call[q].pc \in {"idle", "bind"}
      BY <1>1, <2>1 DEF Start, At, UdpClientInv, StoredSocketIsRead
    <3> QED BY <1>1, <2>1, <3>1, RegisterKeeps DEF Start
  <2>2. CASE stored = Unbound
    BY <1>1, <2>2, AdvanceKeeps DEF Start, At
  <2> QED BY <2>1, <2>2
<1>2. ASSUME NEW q \in Lookups, Bound(q) PROVE UdpClientInv'
  <2>1. StoredSocketIsRead' /\ receivers' # {} /\ sockets' \in Nat
    BY <1>2 DEF Bound, UdpClientInv, StoredSocketIsRead, Unbound
  <2> QED BY <1>2, <2>1, RegisterKeeps DEF Bound, At
<1>3. ASSUME NEW q \in Lookups, BindFails(q) \/ Sent(q) \/ TakeResult(q) \/ CancelCall(q)
      PROVE  UdpClientInv'
  BY <1>3, AdvanceKeeps DEF BindFails, Sent, TakeResult, CancelCall, At
<1>4. ASSUME NEW q \in Lookups, SendFails(q) \/ TimesOut(q) PROVE UdpClientInv'
  BY <1>4, RemoveKeyKeeps DEF SendFails, TimesOut, At
<1>5. ASSUME NEW q \in Lookups, Receive(PendingKeyOf[q]) PROVE UdpClientInv'
  <2>1. HolderOf(PendingKeyOf[q]) = {pending[PendingKeyOf[q]]}
    BY <1>5 DEF Receive, HolderOf
  <2> QED BY <1>5, <2>1, RemoveKeyKeeps DEF Receive
<1>6. ASSUME NEW s \in receivers, ReceiverFails(s) PROVE UdpClientInv'
  BY <1>6, ReceiverFailsKeeps
<1>7. CASE DropClient
  <2>1. /\ DOMAIN pending' = {} /\ receivers' = {} /\ stored' = Unbound /\ UNCHANGED <<call, sockets>>
        /\ \A q \in Lookups : call[q].pc \in {"done", "gone"}
    BY <1>7 DEF DropClient, EmptyMap, UdpClientInv, StoredSocketIsRead
  <2> QED BY <2>1 DEF UdpClientInv, SendersUnused, StoredSocketIsRead, WaitersReachable, OnlyDroppedLeaveSenders
<1>8. CASE UNCHANGED udpClientVars
  BY <1>8 DEF udpClientVars, UdpClientInv, SendersUnused, StoredSocketIsRead, WaitersReachable,
              OnlyDroppedLeaveSenders
<1> QED BY <1>1, <1>2, <1>3, <1>4, <1>5, <1>6, <1>7, <1>8 DEF UdpClientNext

(* A query always waits where its answer will come: its socket is read,    *)
(* its sender is in the map, and only a query that was dropped leaves one  *)
(* behind, however binds, sends, answers, timeouts and receive errors of   *)
(* AsyncUdpDnsClient interleave.                                           *)
THEOREM WaitersStayServed == UdpClientSpec => []WaitersServed
<1>1. UdpClientInit => UdpClientInv
  BY DEF UdpClientInit, UdpClientInv, CallRecord, SendersUnused, StoredSocketIsRead, WaitersReachable,
         OnlyDroppedLeaveSenders, IsPending, EmptyMap
<1>2. UdpClientInv => WaitersServed
  BY DEF UdpClientInv, WaitersServed
<1> QED BY <1>1, <1>2, UdpClientNextKeeps, PTL DEF UdpClientSpec

-----------------------------------------------------------------------------
(* ChainDatagram: the sessions.                                            *)
Half == [from : {TargetOf[c] : c \in Sends}, no : Nat, half : {"address", "payload"}]
StreamRecord == [up : BOOLEAN, failed : BOOLEAN, held : BOOLEAN, feed : Seq(Half)]
CallState ==
  [pc : {"idle", "take", "use", "read", "finish", "recover", "lock", "dial", "install", "sent", "refused"},
   gen : Nat, on : Nat, new : Nat, tries : Nat, part : Seq(Half), got : Seq(Half)]

UotShape ==
  /\ uot \in [Calls -> CallState] /\ stream \in Seq(StreamRecord)
  /\ generation \in Nat /\ current \in Streams \cup {NoStream}
  /\ closing \in {"no", "session", "queue", "done"} /\ closed = (closing # "no")
  /\ left \in [streams : Nat, replies : Nat, cancels : Nat]

(* A call that read the generation which still holds uses the session of   *)
(* that generation, and recovers only when that session is gone or was     *)
(* seen failing; the one that replaces it has the lock.                    *)
CallSound(c) ==
  /\ uot[c].gen <= generation
  /\ uot[c].pc \in {"use", "read"} =>
       uot[c].on \in Streams /\ (uot[c].gen = generation /\ ~closed => uot[c].on = current)
  /\ uot[c].pc \in {"recover", "lock", "dial", "install"} /\ uot[c].gen = generation /\ ~closed =>
       current = NoStream \/ stream[current].failed
  /\ uot[c].pc \in {"dial", "install"} => holder = c /\ uot[c].gen = generation
  /\ uot[c].pc = "install" => uot[c].new \in Streams

(* A stream is held by the association or by the call that installs it.    *)
StreamsHeld ==
  \A s \in Streams : stream[s].held => s = current \/ \E c \in Calls : uot[c].pc = "install" /\ uot[c].new = s

UotInv ==
  /\ UotShape /\ (\A c \in Calls : CallSound(c)) /\ StreamsHeld
  /\ closing \in {"queue", "done"} => current = NoStream

(* A step of one call that installs nothing.  The streams stay; what was   *)
(* seen failing stays so; a stream that the call was to install is shut    *)
(* down, or is still to be installed.                                      *)
LEMMA CallStepKeeps ==
  ASSUME UotInv, NEW c \in Calls, NEW u \in CallState, uot' = [uot EXCEPT ![c] = u],
         stream' \in Seq(StreamRecord), Streams \subseteq Streams',
         \A s \in Streams : stream[s].failed => stream'[s].failed,
         \A s \in Streams' : stream'[s].held =>
           \/ s \in Streams /\ stream[s].held /\ ~(uot[c].pc = "install" /\ uot[c].new = s)
           \/ u.pc = "install" /\ u.new = s,
         UNCHANGED <<closed, closing, generation, current>>,
         left' \in [streams : Nat, replies : Nat, cancels : Nat],
         \A d \in Calls \ {c} : uot[d].pc \in {"dial", "install"} => holder' = holder,
         CallSound(c)'
  PROVE  UotInv'
<1>1. /\ uot \in [Calls -> CallState] /\ uot' \in [Calls -> CallState] /\ uot'[c] = u
      /\ \A d \in Calls : d # c => uot'[d] = uot[d]
  BY DEF UotInv, UotShape
<1>2. UotShape'
  BY <1>1 DEF UotInv, UotShape
<1>3. ASSUME NEW d \in Calls PROVE CallSound(d)'
  <2>1. CASE d = c
    BY <2>1
  <2>2. CASE d # c
    <3>1. CallSound(d) /\ uot'[d] = uot[d] /\ (uot[d].pc \in {"dial", "install"} => holder' = holder)
      BY <1>1, <2>2 DEF UotInv
    <3>2. current \in Streams \cup {NoStream}
      BY DEF UotInv, UotShape
    <3> QED BY <3>1, <3>2 DEF CallSound
  <2> QED BY <2>1, <2>2
<1>4. StreamsHeld'
  <2> SUFFICES ASSUME NEW s \in Streams', stream'[s].held
               PROVE  s = current \/ \E d \in Calls : uot'[d].pc = "install" /\ uot'[d].new = s
    BY DEF StreamsHeld
  <2>1. CASE u.pc = "install" /\ u.new = s
    BY <1>1, <2>1
  <2>2. CASE s \in Streams /\ stream[s].held /\ ~(uot[c].pc = "install" /\ uot[c].new = s)
    BY <1>1, <2>2 DEF UotInv, StreamsHeld
  <2> QED BY <2>1, <2>2
<1> QED BY <1>2, <1>3, <1>4 DEF UotInv

(* Of those, the steps that touch no stream.                               *)
LEMMA QuietStepKeeps ==
  ASSUME UotInv, NEW c \in Calls, NEW u \in CallState, uot' = [uot EXCEPT ![c] = u],
         UNCHANGED <<stream, closed, closing, generation, current, left>>,
         uot[c].pc # "install", u.pc # "install",
         \A d \in Calls \ {c} : uot[d].pc \in {"dial", "install"} => holder' = holder,
         CallSound(c)'
  PROVE  UotInv'
<1>1. /\ stream' \in Seq(StreamRecord) /\ Streams \subseteq Streams'
      /\ left' \in [streams : Nat, replies : Nat, cancels : Nat]
      /\ \A s \in Streams : stream[s].failed => stream'[s].failed
      /\ \A s \in Streams' : stream'[s].held => s \in Streams /\ stream[s].held
  BY DEF UotInv, UotShape, Streams
<1> QED BY <1>1, CallStepKeeps

LEMMA StreamUpdate ==
  ASSUME UotInv, NEW s \in Streams, NEW r \in StreamRecord, stream' = [stream EXCEPT ![s] = r]
  PROVE  /\ stream' \in Seq(StreamRecord) /\ Streams' = Streams /\ stream'[s] = r
         /\ \A x \in Streams : x # s => stream'[x] = stream[x]
BY DEF UotInv, UotShape, Streams

LEMMA StreamsTyped ==
  ASSUME UotInv, NEW s \in Streams
  PROVE  stream[s] \in StreamRecord
BY DEF UotInv, UotShape, Streams

(* A call that gives up an installation shuts its stream down.             *)
GivesUp(c) ==
  \/ UNCHANGED stream /\ uot[c].pc # "install"
  \/ uot[c].pc = "install" /\ stream' = [stream EXCEPT ![uot[c].new].held = FALSE]

LEMMA GivesUpStream ==
  ASSUME UotInv, NEW c \in Calls, GivesUp(c)
  PROVE  /\ stream' \in Seq(StreamRecord) /\ Streams' = Streams
         /\ \A s \in Streams : stream'[s].failed = stream[s].failed
         /\ \A s \in Streams : stream'[s].held => stream[s].held /\ ~(uot[c].pc = "install" /\ uot[c].new = s)
<1>1. CASE UNCHANGED stream /\ uot[c].pc # "install"
  BY <1>1 DEF Streams, UotInv, UotShape
<1>2. CASE uot[c].pc = "install" /\ stream' = [stream EXCEPT ![uot[c].new].held = FALSE]
  <2> DEFINE r == [stream[uot[c].new] EXCEPT !.held = FALSE]
  <2>1. uot[c].new \in Streams
    BY <1>2 DEF UotInv, CallSound
  <2>2. r \in StreamRecord /\ r.failed = stream[uot[c].new].failed /\ ~r.held
    <3>1. stream[uot[c].new] \in StreamRecord
      BY <2>1, StreamsTyped
    <3> QED BY <3>1 DEF StreamRecord
  <2>3. stream' = [stream EXCEPT ![uot[c].new] = r]
    BY <1>2
  <2> HIDE DEF r
  <2>4. /\ stream' \in Seq(StreamRecord) /\ Streams' = Streams /\ stream'[uot[c].new] = r
        /\ \A s \in Streams : s # uot[c].new => stream'[s] = stream[s]
    BY <2>1, <2>2, <2>3, StreamUpdate
  <2> QED BY <2>1, <2>2, <2>4
<1> QED BY <1>1, <1>2 DEF GivesUp

LEMMA QuietTyped ==
  ASSUME NEW pc \in {"idle", "take", "sent", "refused"}
  PROVE  Quiet(pc) \in CallState /\ Quiet(pc).pc = pc /\ Quiet(pc).gen = 0
BY DEF Quiet, CallState, NoStream

(* A call that has ended, and one that waits for nothing, are sound.       *)
LEMMA EndKeeps ==
  ASSUME UotInv, NEW c \in Calls, NEW pc \in {"idle", "sent", "refused"}, End(c, pc),
         UNCHANGED <<closed, closing, generation, current>>,
         left' \in [streams : Nat, replies : Nat, cancels : Nat],
         GivesUp(c),
         holder' = holder \/ holder = c
  PROVE  UotInv'
<1>1. Quiet(pc) \in CallState /\ Quiet(pc).pc = pc /\ Quiet(pc).gen = 0
  BY QuietTyped
<1>2. uot' = [uot EXCEPT ![c] = Quiet(pc)]
  BY DEF End
<1>3. stream \in Seq(StreamRecord) /\ uot \in [Calls -> CallState] /\ generation \in Nat
  BY DEF UotInv, UotShape
<1>4. /\ stream' \in Seq(StreamRecord) /\ Streams' = Streams
      /\ \A s \in Streams : stream'[s].failed = stream[s].failed
      /\ \A s \in Streams : stream'[s].held => stream[s].held /\ ~(uot[c].pc = "install" /\ uot[c].new = s)
  BY GivesUpStream
<1>5. CallSound(c)'
  BY <1>1, <1>2, <1>3 DEF CallSound
<1>6. \A d \in Calls \ {c} : uot[d].pc \in {"dial", "install"} => holder' = holder
  BY DEF UotInv, CallSound
<1> QED BY <1>1, <1>2, <1>4, <1>5, <1>6, CallStepKeeps

LEMMA QueueRetryKeeps ==
  ASSUME UotInv, NEW c \in Calls, QueueRetry(c)
  PROVE  UotInv'
<1>1. uot[c].pc = "idle" /\ UNCHANGED <<closed, closing, generation, current, stream, holder, left>>
  BY DEF QueueRetry
<1>2. uot[c] \in CallState /\ generation \in Nat /\ left \in [streams : Nat, replies : Nat, cancels : Nat]
  BY DEF UotInv, UotShape
<1>3. CASE End(c, "refused")
  BY <1>1, <1>2, <1>3, EndKeeps DEF GivesUp
<1>4. CASE uot' = [uot EXCEPT ![c] = [Busy(c, "take") EXCEPT !.gen = generation]]
  <2> DEFINE u == [Busy(c, "take") EXCEPT !.gen = generation]
  <2>1. u \in CallState /\ u.pc = "take" /\ u.gen = generation
    BY <1>2 DEF Busy, CallState
  <2>2. uot' = [uot EXCEPT ![c] = u] /\ uot'[c] = u
    BY <1>4 DEF UotInv, UotShape
  <2> HIDE DEF u
  <2>3. CallSound(c)'
    BY <1>1, <1>2, <2>1, <2>2 DEF CallSound
  <2> QED BY <1>1, <2>1, <2>2, <2>3, QuietStepKeeps
<1> QED BY <1>3, <1>4 DEF QueueRetry

LEMMA TakeSessionKeeps ==
  ASSUME UotInv, NEW c \in Calls, TakeSession(c)
  PROVE  UotInv'
<1>1. uot[c].pc = "take" /\ UNCHANGED <<closed, closing, generation, current, stream, holder, left>>
  BY DEF TakeSession
<1>2. uot \in [Calls -> CallState] /\ uot[c] \in CallState /\ CallSound(c) /\ current \in Streams \cup {NoStream}
      /\ stream \in Seq(StreamRecord)
  BY DEF UotInv, UotShape
<1>3. CASE closed \/ current = NoStream
  <2> DEFINE u == [uot[c] EXCEPT !.pc = "recover"]
  <2>1. u \in CallState /\ u.pc = "recover" /\ u.gen = uot[c].gen
    BY <1>2 DEF CallState
  <2>2. uot' = [uot EXCEPT ![c] = u] /\ uot'[c] = u
    BY <1>2, <1>3 DEF TakeSession, Move
  <2> HIDE DEF u
  <2>3. CallSound(c)'
    BY <1>1, <1>2, <1>3, <2>1, <2>2 DEF CallSound
  <2> QED BY <1>1, <2>1, <2>2, <2>3, QuietStepKeeps
<1>4. CASE ~(closed \/ current = NoStream)
  <2> DEFINE u == [Busy(c, "use") EXCEPT !.on = current]
  <2>1. u \in CallState /\ u.pc = "use" /\ u.gen = uot[c].gen /\ u.on = current
    <3>1. current \in Nat
      BY <1>2 DEF Streams, NoStream
    <3> QED BY <1>2, <3>1 DEF CallState, Busy
  <2>2. uot' = [uot EXCEPT ![c] = u] /\ uot'[c] = u
    BY <1>2, <1>4 DEF TakeSession
  <2> HIDE DEF u
  <2>3. CallSound(c)'
    BY <1>1, <1>2, <1>4, <2>1, <2>2 DEF CallSound, Streams
  <2> QED BY <1>1, <2>1, <2>2, <2>3, QuietStepKeeps
<1> QED BY <1>3, <1>4

(* A call that sees its stream fail.                                       *)
LEMMA SeenFailingKeeps ==
  ASSUME UotInv, NEW c \in Calls, uot[c].pc \in {"use", "read"},
         stream' = SeenFailing(uot[c].on), Move(c, "recover"),
         UNCHANGED <<closed, closing, generation, current, holder, left>>
  PROVE  UotInv'
<1> DEFINE u == [uot[c] EXCEPT !.pc = "recover"]
           s0 == uot[c].on
<1>1. uot \in [Calls -> CallState] /\ uot[c] \in CallState /\ CallSound(c) /\ stream \in Seq(StreamRecord)
      /\ left \in [streams : Nat, replies : Nat, cancels : Nat]
  BY DEF UotInv, UotShape
<1>2. u \in CallState /\ u.pc = "recover" /\ u.gen = uot[c].gen
  BY <1>1 DEF CallState
<1>3. uot' = [uot EXCEPT ![c] = u] /\ uot'[c] = u
  BY <1>1 DEF Move
<1>4. s0 \in Streams
  BY <1>1 DEF CallSound
<1>5. /\ stream' \in Seq(StreamRecord) /\ Streams' = Streams /\ stream'[s0].failed
      /\ \A s \in Streams : /\ stream[s].failed => stream'[s].failed
                            /\ stream'[s].held = stream[s].held
  <2>1. stream[s0] \in StreamRecord
    BY <1>4, StreamsTyped
  <2>2. /\ [stream[s0] EXCEPT !.failed = TRUE] \in StreamRecord
        /\ [stream[s0] EXCEPT !.failed = TRUE].failed
        /\ [stream[s0] EXCEPT !.failed = TRUE].held = stream[s0].held
    BY <2>1 DEF StreamRecord
  <2>3. stream' = [stream EXCEPT ![s0] = [stream[s0] EXCEPT !.failed = TRUE]]
    BY DEF SeenFailing
  <2> QED BY <1>4, <2>2, <2>3, StreamUpdate
<1> HIDE DEF u, s0
<1>6. CallSound(c)'
  BY <1>1, <1>2, <1>3, <1>5 DEF CallSound, s0
<1> QED BY <1>1, <1>2, <1>3, <1>5, <1>6, CallStepKeeps

(* A call that moves on.                                                   *)
LEMMA MoveKeeps ==
  ASSUME UotInv, NEW c \in Calls, NEW pc \in {"finish", "read", "recover", "dial"}, Move(c, pc),
         UNCHANGED <<stream, closed, closing, generation, current, left>>,
         uot[c].pc # "install",
         \A d \in Calls \ {c} : uot[d].pc \in {"dial", "install"} => holder' = holder,
         pc = "read" => uot[c].pc = "use",
         pc = "recover" => closed,
         pc = "dial" => uot[c].pc = "lock" /\ uot[c].gen = generation /\ holder' = c
  PROVE  UotInv'
<1> DEFINE u == [uot[c] EXCEPT !.pc = pc]
<1>1. uot \in [Calls -> CallState] /\ uot[c] \in CallState /\ CallSound(c)
  BY DEF UotInv, UotShape
<1>2. u \in CallState /\ u.pc = pc /\ u.gen = uot[c].gen /\ u.on = uot[c].on
  BY <1>1 DEF CallState
<1>3. uot' = [uot EXCEPT ![c] = u] /\ uot'[c] = u
  BY <1>1 DEF Move
<1> HIDE DEF u
<1>4. CallSound(c)'
  BY <1>1, <1>2, <1>3 DEF CallSound, Streams
<1> QED BY <1>2, <1>3, <1>4, QuietStepKeeps

LEMMA RecoverKeeps ==
  ASSUME UotInv, NEW c \in Calls, Recover(c)
  PROVE  UotInv'
<1>1. uot[c].pc = "recover" /\ UNCHANGED <<closed, closing, generation, current, stream, holder, left>>
  BY DEF Recover
<1>2. uot \in [Calls -> CallState] /\ uot[c] \in CallState /\ CallSound(c)
      /\ left \in [streams : Nat, replies : Nat, cancels : Nat]
  BY DEF UotInv, UotShape
<1>3. CASE End(c, "refused")
  BY <1>1, <1>2, <1>3, EndKeeps DEF GivesUp
<1>4. CASE uot' = [uot EXCEPT ![c] = [Busy(c, "lock") EXCEPT !.tries = @ + 1]]
  <2> DEFINE u == [Busy(c, "lock") EXCEPT !.tries = @ + 1]
  <2>1. u \in CallState /\ u.pc = "lock" /\ u.gen = uot[c].gen
    <3>1. /\ Busy(c, "lock") \in CallState /\ Busy(c, "lock").pc = "lock" /\ Busy(c, "lock").gen = uot[c].gen
          /\ Busy(c, "lock").tries \in Nat
      BY <1>2 DEF CallState, Busy
    <3> QED BY <3>1 DEF CallState
  <2>2. uot' = [uot EXCEPT ![c] = u] /\ uot'[c] = u
    BY <1>2, <1>4
  <2> HIDE DEF u
  <2>3. CallSound(c)'
    BY <1>1, <1>2, <2>1, <2>2 DEF CallSound
  <2> QED BY <1>1, <2>1, <2>2, <2>3, QuietStepKeeps
<1> QED BY <1>3, <1>4 DEF Recover, EndClosed

(* Only one call at a time replaces the session, and only if the session   *)
(* is still the one it saw.                                                *)
LEMMA LockKeeps ==
  ASSUME UotInv, NEW c \in Calls, Lock(c)
  PROVE  UotInv'
<1>1. /\ uot[c].pc = "lock" /\ holder = Nobody
      /\ UNCHANGED <<closed, closing, generation, current, stream, left>>
  BY DEF Lock
<1>2. left \in [streams : Nat, replies : Nat, cancels : Nat]
  BY DEF UotInv, UotShape
<1>3. \A d \in Calls : uot[d].pc \notin {"dial", "install"}
  BY <1>1, UotAssumption DEF UotInv, CallSound
<1>4. CASE closed
  BY <1>1, <1>2, <1>4, EndKeeps DEF Lock, EndClosed, GivesUp
<1>5. CASE ~closed /\ generation # uot[c].gen
  BY <1>1, <1>3, <1>5, MoveKeeps DEF Lock
<1>6. CASE ~closed /\ generation = uot[c].gen
  BY <1>1, <1>3, <1>6, MoveKeeps DEF Lock
<1> QED BY <1>4, <1>5, <1>6

(* A reconnect that fails gives up the lock and what it connected.         *)
LEMMA FailReconnectKeeps ==
  ASSUME UotInv, NEW c \in Calls, DialFails(c) \/ ReplayFails(c)
  PROVE  UotInv'
<1>1. /\ FailReconnect(c) /\ uot[c].pc \in {"dial", "install"} /\ holder' = Nobody
      /\ UNCHANGED <<closed, closing, generation, current, left>>
      /\ GivesUp(c)
  BY DEF DialFails, ReplayFails, GivesUp
<1>2. uot \in [Calls -> CallState] /\ uot[c] \in CallState /\ CallSound(c) /\ holder = c
      /\ left \in [streams : Nat, replies : Nat, cancels : Nat] /\ stream \in Seq(StreamRecord)
      /\ current \in Streams \cup {NoStream}
  BY <1>1 DEF UotInv, UotShape, CallSound
<1>3. \A d \in Calls \ {c} : uot[d].pc \notin {"dial", "install"}
  BY <1>2 DEF UotInv, CallSound
<1>4. CASE End(c, "refused")
  BY <1>1, <1>2, <1>4, EndKeeps
<1>5. CASE uot' = [uot EXCEPT ![c] = [Busy(c, "recover") EXCEPT !.new = NoStream]]
  <2> DEFINE u == [Busy(c, "recover") EXCEPT !.new = NoStream]
  <2>1. u \in CallState /\ u.pc = "recover" /\ u.gen = uot[c].gen
    BY <1>2 DEF CallState, Busy, NoStream
  <2>2. uot' = [uot EXCEPT ![c] = u] /\ uot'[c] = u
    BY <1>2, <1>5
  <2> HIDE DEF u
  <2>3. /\ stream' \in Seq(StreamRecord) /\ Streams' = Streams
        /\ \A s \in Streams : stream'[s].failed = stream[s].failed
        /\ \A s \in Streams : stream'[s].held => stream[s].held /\ ~(uot[c].pc = "install" /\ uot[c].new = s)
    BY <1>1, GivesUpStream
  <2>4. CallSound(c)'
    BY <1>1, <1>2, <2>1, <2>2, <2>3 DEF CallSound
  <2> QED BY <1>1, <1>2, <1>3, <2>1, <2>2, <2>3, <2>4, CallStepKeeps
<1> QED BY <1>1, <1>4, <1>5 DEF FailReconnect

LEMMA DialedKeeps ==
  ASSUME UotInv, NEW c \in Calls, Dialed(c)
  PROVE  UotInv'
<1> DEFINE n == Len(stream) + 1
           u == [Busy(c, "install") EXCEPT !.new = n]
<1>1. uot \in [Calls -> CallState] /\ uot[c] \in CallState /\ CallSound(c) /\ stream \in Seq(StreamRecord)
      /\ left \in [streams : Nat, replies : Nat, cancels : Nat] /\ current \in Streams \cup {NoStream}
  BY DEF UotInv, UotShape
<1>2. /\ uot[c].pc = "dial" /\ holder = c /\ uot[c].gen = generation
      /\ UNCHANGED <<closed, closing, generation, current, holder>>
  BY <1>1 DEF Dialed, CallSound
<1>3. Fresh \in StreamRecord
  BY DEF Fresh, StreamRecord
<1>4. /\ stream' \in Seq(StreamRecord) /\ Len(stream') = n /\ Streams' = Streams \cup {n} /\ n \notin Streams
      /\ \A s \in Streams : stream'[s] = stream[s]
  BY <1>1, <1>3 DEF Dialed, Streams
<1>5. left' \in [streams : Nat, replies : Nat, cancels : Nat]
  BY <1>1 DEF Dialed
<1>6. u \in CallState /\ u.pc = "install" /\ u.gen = uot[c].gen /\ u.new = n
  <2>1. n \in Nat
    BY <1>1
  <2>2. Busy(c, "install") \in CallState /\ Busy(c, "install").pc = "install" /\ Busy(c, "install").gen = uot[c].gen
    BY <1>1 DEF CallState, Busy
  <2> HIDE DEF n
  <2> QED BY <2>1, <2>2 DEF CallState
<1>7. uot' = [uot EXCEPT ![c] = u] /\ uot'[c] = u
  BY <1>1, <1>4 DEF Dialed
<1> HIDE DEF u, n
<1>8. CallSound(c)'
  BY <1>1, <1>2, <1>4, <1>6, <1>7 DEF CallSound
<1> QED BY <1>2, <1>4, <1>5, <1>6, <1>7, <1>8, CallStepKeeps

(* The new session begins a generation that no call has read: whoever      *)
(* failed on the old one finds it replaced.                                *)
LEMMA InstallKeeps ==
  ASSUME UotInv, NEW c \in Calls, Install(c)
  PROVE  UotInv'
<1>1. /\ uot \in [Calls -> CallState] /\ uot[c] \in CallState /\ CallSound(c) /\ stream \in Seq(StreamRecord)
      /\ left \in [streams : Nat, replies : Nat, cancels : Nat] /\ current \in Streams \cup {NoStream}
      /\ generation \in Nat
  BY DEF UotInv, UotShape
<1>2. /\ uot[c].pc = "install" /\ holder = c /\ uot[c].new \in Streams /\ holder' = Nobody
      /\ UNCHANGED <<closed, closing, left>>
  BY <1>1 DEF Install, CallSound
<1>3. CASE closed
  <2>1. GivesUp(c) /\ End(c, "refused") /\ UNCHANGED <<current, generation>>
    BY <1>2, <1>3 DEF Install, EndClosed, GivesUp
  <2> QED BY <1>1, <1>2, <2>1, EndKeeps
<1>4. CASE ~closed
  <2> DEFINE u == [uot[c] EXCEPT !.pc = "finish"]
  <2>1. /\ current' = uot[c].new /\ generation' = generation + 1 /\ uot' = [uot EXCEPT ![c] = u]
        /\ stream' = IF current = NoStream THEN stream ELSE [stream EXCEPT ![current].held = FALSE]
    BY <1>4 DEF Install, Move
  <2>2. u \in CallState /\ u.pc = "finish" /\ u.gen = uot[c].gen
    BY <1>1 DEF CallState
  <2>8. u.on = uot[c].on
    BY <1>1 DEF CallState
  <2> HIDE DEF u
  <2>3. /\ uot' \in [Calls -> CallState] /\ uot'[c] = u /\ \A d \in Calls : d # c => uot'[d] = uot[d]
    BY <1>1, <2>1, <2>2
  <2>4. /\ stream' \in Seq(StreamRecord) /\ Streams' = Streams
        /\ \A s \in Streams : stream'[s].held => stream[s].held /\ s # current
    <3>1. CASE current = NoStream
      BY <1>1, <2>1, <3>1 DEF Streams, NoStream
    <3>2. CASE current # NoStream
      <4>1. current \in Streams /\ stream[current] \in StreamRecord
        BY <1>1, <3>2, StreamsTyped
      <4>2. [stream[current] EXCEPT !.held = FALSE] \in StreamRecord /\ ~[stream[current] EXCEPT !.held = FALSE].held
        BY <4>1 DEF StreamRecord
      <4>3. stream' = [stream EXCEPT ![current] = [stream[current] EXCEPT !.held = FALSE]]
        BY <2>1, <3>2
      <4> QED BY <4>1, <4>2, <4>3, StreamUpdate
    <3> QED BY <3>1, <3>2
  <2>5. closing = "no" /\ UotShape'
    <3>1. closing = "no" /\ closed = (closing # "no")
      BY <1>4 DEF UotInv, UotShape
    <3>2. generation' \in Nat /\ current' \in Streams' \cup {NoStream}
      BY <1>1, <1>2, <2>1, <2>4
    <3> QED BY <1>1, <1>2, <2>3, <2>4, <3>1, <3>2 DEF UotShape
  <2>6. ASSUME NEW d \in Calls PROVE CallSound(d)'
    <3>1. /\ CallSound(d) /\ uot'[d].gen = uot[d].gen /\ uot[d].gen \in Nat /\ uot'[d].on = uot[d].on
          /\ uot'[d].pc \notin {"dial", "install"} /\ (uot'[d].pc \in {"use", "read"} => uot[d].pc \in {"use", "read"})
      <4>1. CallSound(d) /\ uot[d] \in CallState /\ uot[d].gen \in Nat
        BY <1>1 DEF UotInv, CallState
      <4>2. CASE d = c
        BY <2>2, <2>3, <2>8, <4>1, <4>2
      <4>3. CASE d # c
        BY <1>2, <2>3, <4>1, <4>3 DEF CallSound
      <4> QED BY <4>2, <4>3
    <3>2. uot[d].gen < generation'
      BY <1>1, <2>1, <3>1 DEF CallSound
    <3> QED BY <1>1, <2>1, <2>4, <3>1, <3>2 DEF CallSound
  <2>7. StreamsHeld'
    <3> SUFFICES ASSUME NEW s \in Streams, stream'[s].held PROVE s = current'
      BY <2>4 DEF StreamsHeld
    <3>1. PICK d \in Calls : uot[d].pc = "install" /\ uot[d].new = s
      BY <2>4 DEF UotInv, StreamsHeld
    <3>2. d = c
      BY <1>2, <3>1 DEF UotInv, CallSound
    <3> QED BY <2>1, <3>1, <3>2
  <2> QED BY <1>2, <2>5, <2>6, <2>7 DEF UotInv
<1> QED BY <1>3, <1>4

LEMMA InterruptKeeps ==
  ASSUME UotInv, NEW c \in Calls, Interrupt(c)
  PROVE  UotInv'
<1>1. /\ closed /\ UNCHANGED <<closed, closing, generation, current, left>>
      /\ holder' = holder \/ holder = c
      /\ left \in [streams : Nat, replies : Nat, cancels : Nat]
  BY DEF Interrupt, UotInv, UotShape
<1>2. CASE uot[c].pc \in {"use", "read"}
  <2>1. Move(c, "recover") /\ UNCHANGED stream /\ uot[c].pc # "install"
    BY <1>2 DEF Interrupt
  <2>2. \A d \in Calls \ {c} : uot[d].pc \in {"dial", "install"} => holder' = holder
    BY <1>1 DEF UotInv, CallSound
  <2> QED BY <1>1, <2>1, <2>2, MoveKeeps
<1>3. CASE uot[c].pc \notin {"use", "read"}
  BY <1>1, <1>3, EndKeeps DEF Interrupt, EndClosed, GivesUp
<1> QED BY <1>2, <1>3

(* Of the receiver's steps, the reads change what is left of a stream.     *)
LEMMA FeedUpdate ==
  ASSUME UotInv, NEW s \in Streams, NEW f \in Seq(Half), stream' = [stream EXCEPT ![s].feed = f]
  PROVE  /\ stream' \in Seq(StreamRecord) /\ Streams' = Streams
         /\ \A x \in Streams : stream'[x].failed = stream[x].failed /\ stream'[x].held = stream[x].held
<1> DEFINE r == [stream[s] EXCEPT !.feed = f]
<1>1. stream[s] \in StreamRecord
  BY StreamsTyped
<1>2. r \in StreamRecord /\ r.failed = stream[s].failed /\ r.held = stream[s].held
  BY <1>1 DEF StreamRecord
<1>3. stream' = [stream EXCEPT ![s] = r]
  OBVIOUS
<1> HIDE DEF r
<1>4. /\ stream' \in Seq(StreamRecord) /\ Streams' = Streams /\ stream'[s] = r
      /\ \A x \in Streams : x # s => stream'[x] = stream[x]
  BY <1>2, <1>3, StreamUpdate
<1> QED BY <1>2, <1>4

(* A step of the receiver that reads from its stream, after which it still *)
(* reads or its receive is over.                                           *)
LEMMA ReadKeeps ==
  ASSUME UotInv, uot[Receiver].pc = "read",
         stream[uot[Receiver].on].feed # <<>>,
         stream' = [stream EXCEPT ![uot[Receiver].on].feed = Tail(@)],
         NEW u \in CallState, uot' = [uot EXCEPT ![Receiver] = u],
         NEW over \in BOOLEAN,
         over => u.gen = 0 /\ u.pc \in {"idle", "refused"},
         ~over => u.pc = "read" /\ u.gen = uot[Receiver].gen /\ u.on = uot[Receiver].on,
         UNCHANGED <<closed, closing, generation, current, holder, left>>
  PROVE  UotInv'
<1> DEFINE s == uot[Receiver].on
<1>1. /\ Receiver \in Calls /\ uot \in [Calls -> CallState] /\ generation \in Nat
      /\ left \in [streams : Nat, replies : Nat, cancels : Nat] /\ CallSound(Receiver)
      /\ current \in Streams \cup {NoStream}
  BY DEF UotInv, UotShape, Calls
<1>2. s \in Streams
  BY <1>1 DEF CallSound
<1>3. stream[s].feed \in Seq(Half)
  BY <1>2, StreamsTyped DEF StreamRecord
<1>4. /\ Tail(stream[s].feed) \in Seq(Half)
      /\ stream' = [stream EXCEPT ![s].feed = Tail(stream[s].feed)]
  BY <1>3
<1>5. /\ stream' \in Seq(StreamRecord) /\ Streams' = Streams
      /\ \A x \in Streams : stream'[x].failed = stream[x].failed /\ stream'[x].held = stream[x].held
  BY <1>2, <1>4, FeedUpdate
<1>6. uot'[Receiver] = u
  BY <1>1
<1>7. CallSound(Receiver)'
  BY <1>1, <1>5, <1>6 DEF CallSound
<1> QED BY <1>1, <1>5, <1>7, CallStepKeeps

LEMMA ReceiverKeeps ==
  ASSUME UotInv, BeginReceive \/ Flushed \/ ReadAddress \/ ReadPayload \/ ReadFails \/ CancelReceive
  PROVE  UotInv'
<1> DEFINE R == uot[Receiver]
<1>1. /\ Receiver \in Calls /\ uot \in [Calls -> CallState] /\ R \in CallState /\ generation \in Nat
      /\ left \in [streams : Nat, replies : Nat, cancels : Nat] /\ CallSound(Receiver)
  BY DEF UotInv, UotShape, Calls
<1>2. CASE BeginReceive
  <2> DEFINE u == [Quiet("take") EXCEPT !.gen = generation, !.tries = R.tries]
  <2>1. u \in CallState /\ u.pc = "take" /\ u.gen = generation
    <3>1. Quiet("take") \in CallState /\ Quiet("take").pc = "take" /\ R.tries \in Nat
      BY <1>1, QuietTyped DEF CallState
    <3> QED BY <1>1, <3>1 DEF CallState
  <2>2. /\ uot' = [uot EXCEPT ![Receiver] = u] /\ uot'[Receiver] = u /\ R.pc # "install"
        /\ UNCHANGED <<closed, closing, generation, current, stream, holder, left>>
    BY <1>1, <1>2 DEF BeginReceive
  <2> HIDE DEF u
  <2>3. CallSound(Receiver)'
    BY <1>1, <2>1, <2>2 DEF CallSound
  <2> QED BY <1>1, <2>1, <2>2, <2>3, QuietStepKeeps
<1>3. CASE Flushed
  BY <1>1, <1>3, MoveKeeps DEF Flushed
<1>4. CASE ReadFails
  BY <1>1, <1>4, SeenFailingKeeps DEF ReadFails
<1>5. CASE CancelReceive
  BY <1>1, <1>5, EndKeeps DEF CancelReceive, GivesUp
<1>6. ASSUME R.pc = "read" PROVE stream[R.on].feed \in Seq(Half)
  BY <1>1, <1>6, StreamsTyped DEF CallSound, StreamRecord
<1>7. CASE ReadAddress
  <2> DEFINE u == [R EXCEPT !.part = <<Head(stream[R.on].feed)>>]
  <2>1. /\ R.pc = "read" /\ stream[R.on].feed # <<>> /\ uot' = [uot EXCEPT ![Receiver] = u]
        /\ stream' = [stream EXCEPT ![R.on].feed = Tail(@)]
        /\ UNCHANGED <<closed, closing, generation, current, holder, left>>
    BY <1>7 DEF ReadAddress
  <2>2. <<Head(stream[R.on].feed)>> \in Seq(Half)
    BY <1>6, <2>1
  <2>3. u \in CallState /\ u.pc = R.pc /\ u.gen = R.gen /\ u.on = R.on
    <3> DEFINE p == <<Head(stream[R.on].feed)>>
    <3>1. p \in Seq(Half)
      BY <2>2
    <3> HIDE DEF p
    <3>2. /\ [R EXCEPT !.part = p] \in CallState /\ [R EXCEPT !.part = p].pc = R.pc
          /\ [R EXCEPT !.part = p].gen = R.gen /\ [R EXCEPT !.part = p].on = R.on
      BY <1>1, <3>1 DEF CallState
    <3> QED BY <3>2 DEF p
  <2> HIDE DEF u
  <2>4. ~FALSE => u.pc = "read" /\ u.gen = R.gen /\ u.on = R.on
    BY <2>1, <2>3
  <2> QED BY <2>1, <2>3, <2>4, ReadKeeps
<1>8. CASE ReadPayload
  <2>1. /\ R.pc = "read" /\ stream[R.on].feed # <<>>
        /\ stream' = [stream EXCEPT ![R.on].feed = Tail(@)]
        /\ UNCHANGED <<closed, closing, generation, current, holder, left>>
    BY <1>8 DEF ReadPayload
  <2>2. CASE closed
    <3> DEFINE u == Quiet("refused")
    <3>1. u \in CallState /\ u.gen = 0 /\ u.pc \in {"idle", "refused"}
      BY QuietTyped
    <3>2. uot' = [uot EXCEPT ![Receiver] = u]
      BY <1>8, <2>2 DEF ReadPayload, End
    <3> HIDE DEF u
    <3> QED BY <2>1, <3>1, <3>2, ReadKeeps
  <2>3. CASE ~closed
    <3> DEFINE g == Append(R.part, Head(stream[R.on].feed))
               u == [Quiet("idle") EXCEPT !.got = g]
    <3>1. Head(stream[R.on].feed) \in Half /\ R.part \in Seq(Half)
      BY <1>1, <1>6, <2>1 DEF CallState
    <3>2. g \in Seq(Half)
      BY <3>1
    <3>3. uot' = [uot EXCEPT ![Receiver] = u]
      BY <1>8, <2>3 DEF ReadPayload
    <3> HIDE DEF g
    <3>4. u \in CallState /\ u.gen = 0 /\ u.pc \in {"idle", "refused"}
      <4>1. Quiet("idle") \in CallState /\ Quiet("idle").gen = 0 /\ Quiet("idle").pc = "idle"
        BY QuietTyped
      <4> QED BY <3>2, <4>1 DEF CallState
    <3> HIDE DEF u
    <3> QED BY <2>1, <3>3, <3>4, ReadKeeps
  <2> QED BY <2>2, <2>3
<1> QED BY <1>2, <1>3, <1>4, <1>5, <1>7, <1>8

LEMMA CloseKeeps ==
  ASSUME UotInv, CloseAssociation \/ CloseSession \/ ClearRetry
  PROVE  UotInv'
<1>1. /\ UotShape /\ current \in Streams \cup {NoStream} /\ closed = (closing # "no")
      /\ stream \in Seq(StreamRecord)
  BY DEF UotInv, UotShape
<1>2. CASE CloseAssociation
  <2>1. closed' /\ closing' = "session" /\ UNCHANGED <<generation, current, stream, holder, uot, left>>
    BY <1>2 DEF CloseAssociation
  <2>2. UotShape'
    BY <1>1, <2>1, <1>2 DEF UotShape, CloseAssociation, Streams
  <2>3. \A c \in Calls : CallSound(c)'
    BY <1>1, <2>1 DEF UotInv, CallSound, Streams
  <2>4. StreamsHeld'
    BY <2>1 DEF UotInv, StreamsHeld, Streams
  <2> QED BY <2>1, <2>2, <2>3, <2>4 DEF UotInv
<1>3. CASE CloseSession
  <2>1. /\ closing = "session" /\ closing' = "queue" /\ current' = NoStream /\ closed
        /\ UNCHANGED <<closed, generation, holder, uot, left>>
    BY <1>1, <1>3 DEF CloseSession
  <2>2. /\ stream' \in Seq(StreamRecord) /\ Streams' = Streams
        /\ \A s \in Streams : stream'[s].held => stream[s].held /\ s # current
    <3>1. CASE current = NoStream
      BY <1>1, <1>3, <3>1 DEF CloseSession, Streams, NoStream
    <3>2. CASE current # NoStream
      <4>1. current \in Streams /\ stream[current] \in StreamRecord
        BY <1>1, <3>2, StreamsTyped
      <4>2. [stream[current] EXCEPT !.held = FALSE] \in StreamRecord /\ ~[stream[current] EXCEPT !.held = FALSE].held
        BY <4>1 DEF StreamRecord
      <4>3. stream' = [stream EXCEPT ![current] = [stream[current] EXCEPT !.held = FALSE]]
        BY <1>3, <3>2 DEF CloseSession
      <4> QED BY <4>1, <4>2, <4>3, StreamUpdate
    <3> QED BY <3>1, <3>2
  <2>3. UotShape'
    BY <1>1, <2>1, <2>2 DEF UotShape
  <2>4. \A c \in Calls : CallSound(c)'
    BY <2>1, <2>2 DEF UotInv, CallSound
  <2>5. StreamsHeld'
    BY <2>1, <2>2 DEF UotInv, StreamsHeld
  <2> QED BY <2>1, <2>3, <2>4, <2>5 DEF UotInv
<1>4. CASE ClearRetry
  <2>1. /\ closing = "queue" /\ closing' = "done"
        /\ UNCHANGED <<closed, generation, current, stream, holder, uot, left>>
    BY <1>4 DEF ClearRetry
  <2>2. UotShape'
    BY <1>1, <2>1 DEF UotShape, Streams
  <2>3. \A c \in Calls : CallSound(c)'
    BY <2>1 DEF UotInv, CallSound, Streams
  <2>4. StreamsHeld'
    BY <2>1 DEF UotInv, StreamsHeld, Streams
  <2> QED BY <2>1, <2>2, <2>3, <2>4 DEF UotInv
<1> QED BY <1>2, <1>3, <1>4

LEMMA ServerKeeps ==
  ASSUME UotInv, NEW s \in Streams, Breaks(s) \/ \E c \in Sends : Reply(s, TargetOf[c])
  PROVE  UotInv'
<1>1. /\ Receiver \in Calls /\ uot \in [Calls -> CallState] /\ CallSound(Receiver)
      /\ left \in [streams : Nat, replies : Nat, cancels : Nat] /\ stream[s] \in StreamRecord
      /\ current \in Streams \cup {NoStream}
  BY StreamsTyped DEF UotInv, UotShape, Calls
<1> DEFINE Kept == /\ stream' \in Seq(StreamRecord) /\ Streams' = Streams
                   /\ \A x \in Streams : stream'[x].failed = stream[x].failed /\ stream'[x].held = stream[x].held
                   /\ left' \in [streams : Nat, replies : Nat, cancels : Nat]
<1>2. Kept
  <2>1. ASSUME Breaks(s) PROVE Kept
    <3>1. PICK f \in {<<>>, stream[s].feed} : stream' = [stream EXCEPT ![s].up = FALSE, ![s].feed = f]
      BY <2>1 DEF Breaks
    <3>2. f \in Seq(Half)
      <4>1. <<>> \in Seq(Half) /\ stream[s].feed \in Seq(Half)
        BY <1>1 DEF StreamRecord
      <4> QED BY <4>1
    <3> DEFINE r == [stream[s] EXCEPT !.up = FALSE, !.feed = f]
    <3>3. r \in StreamRecord /\ r.failed = stream[s].failed /\ r.held = stream[s].held
      BY <1>1, <3>2 DEF StreamRecord
    <3>4. stream' = [stream EXCEPT ![s] = r]
      BY <3>1 DEF UotInv, UotShape, Streams
    <3> HIDE DEF r
    <3>5. /\ stream' \in Seq(StreamRecord) /\ Streams' = Streams /\ stream'[s] = r
          /\ \A x \in Streams : x # s => stream'[x] = stream[x]
      BY <3>3, <3>4, StreamUpdate
    <3>6. left' = left
      BY <2>1 DEF Breaks
    <3> QED BY <1>1, <3>3, <3>5, <3>6
  <2>2. ASSUME NEW c \in Sends, Reply(s, TargetOf[c]) PROVE Kept
    <3> DEFINE a == [from |-> TargetOf[c], no |-> left.replies, half |-> "address"]
               b == [from |-> TargetOf[c], no |-> left.replies, half |-> "payload"]
               f == stream[s].feed \o <<a, b>>
    <3>1. a \in Half /\ b \in Half
      BY <1>1 DEF Half
    <3>2. stream' = [stream EXCEPT ![s].feed = f]
      BY <2>2 DEF Reply
    <3> HIDE DEF a, b
    <3>3. f \in Seq(Half)
      BY <1>1, <3>1, ConcatProperties DEF StreamRecord
    <3> HIDE DEF f
    <3>4. left' \in [streams : Nat, replies : Nat, cancels : Nat]
      BY <1>1, <2>2 DEF Reply
    <3> QED BY <3>2, <3>3, <3>4, FeedUpdate
  <2> QED BY <2>1, <2>2
<1>3. uot' = [uot EXCEPT ![Receiver] = uot[Receiver]] /\ UNCHANGED <<closed, closing, generation, current, holder, uot>>
  BY <1>1 DEF Breaks, Reply
<1>4. CallSound(Receiver)' /\ uot[Receiver] \in CallState
  BY <1>1, <1>2, <1>3 DEF CallSound
<1>5. \A x \in Streams' : stream'[x].held =>
           \/ x \in Streams /\ stream[x].held /\ ~(uot[Receiver].pc = "install" /\ uot[Receiver].new = x)
           \/ uot[Receiver].pc = "install" /\ uot[Receiver].new = x
  BY <1>2
<1> QED BY <1>1, <1>2, <1>3, <1>4, <1>5, CallStepKeeps

LEMMA UotNextKeeps == UotInv /\ [UotNext]_uotVars => UotInv'
<1> SUFFICES ASSUME UotInv, [UotNext]_uotVars PROVE UotInv'
  OBVIOUS
<1>0. left \in [streams : Nat, replies : Nat, cancels : Nat]
  BY DEF UotInv, UotShape
<1>1. ASSUME NEW c \in Calls, QueueRetry(c) \/ TakeSession(c) \/ Recover(c) \/ Lock(c) \/ Dialed(c) PROVE UotInv'
  BY <1>1, QueueRetryKeeps, TakeSessionKeeps, RecoverKeeps, LockKeeps, DialedKeeps
<1>2. ASSUME NEW c \in Calls, Written(c) PROVE UotInv'
  BY <1>2, MoveKeeps DEF Written
<1>3. ASSUME NEW c \in Calls, WriteFails(c) PROVE UotInv'
  BY <1>3, SeenFailingKeeps DEF WriteFails
<1>4. ASSUME NEW c \in Calls, SendReturns(c) PROVE UotInv'
  <2>1. (End(c, "refused") \/ End(c, "sent")) /\ GivesUp(c)
    BY <1>4 DEF SendReturns, GivesUp
  <2> QED BY <1>0, <1>4, <2>1, EndKeeps DEF SendReturns
<1>5. ASSUME NEW c \in Calls, DialFails(c) \/ ReplayFails(c) \/ Install(c) \/ Interrupt(c) PROVE UotInv'
  BY <1>5, FailReconnectKeeps, InstallKeeps, InterruptKeeps
<1>6. CASE BeginReceive \/ Flushed \/ ReadAddress \/ ReadPayload \/ ReadFails \/ CancelReceive
  BY <1>6, ReceiverKeeps
<1>7. CASE CloseAssociation \/ CloseSession \/ ClearRetry
  BY <1>7, CloseKeeps
<1>8. ASSUME NEW s \in Streams, Breaks(s) \/ \E c \in Sends : Reply(s, TargetOf[c]) PROVE UotInv'
  BY <1>8, ServerKeeps
<1>9. CASE UNCHANGED uotVars
  BY <1>9 DEF uotVars, UotInv, UotShape, CallSound, StreamsHeld, Streams
<1> QED BY <1>1, <1>2, <1>3, <1>4, <1>5, <1>6, <1>7, <1>8, <1>9 DEF UotNext

LEMMA UotInitHolds == UotInit => UotInv
<1> SUFFICES ASSUME UotInit PROVE UotInv
  OBVIOUS
<1>1. /\ Fresh \in StreamRecord /\ stream = <<Fresh>> /\ Len(stream) = 1 /\ Streams = {1}
  BY DEF UotInit, Fresh, StreamRecord, Streams
<1>2. Quiet("idle") \in CallState /\ Quiet("idle").pc = "idle" /\ Quiet("idle").gen = 0
  BY QuietTyped
<1>3. uot \in [Calls -> CallState] /\ \A c \in Calls : uot[c].pc = "idle" /\ uot[c].gen = 0
  BY <1>2 DEF UotInit
<1>4. UotShape
  <2>1. <<Fresh>> \in Seq(StreamRecord)
    BY <1>1
  <2>2. stream \in Seq(StreamRecord) /\ left \in [streams : Nat, replies : Nat, cancels : Nat]
    BY <1>1, <2>1, UotAssumption DEF UotInit
  <2> QED BY <1>1, <1>3, <2>2 DEF UotInit, UotShape
<1> QED BY <1>1, <1>3, <1>4 DEF UotInit, UotInv, CallSound, StreamsHeld

(* A session is replaced by the call that holds the lock, and that call    *)
(* saw the session fail.                                                   *)
LEMMA ReplacedHasFailed ==
  UotInv /\ [UotNext]_uotVars =>
    (current # NoStream /\ current' \notin {current, NoStream} => stream[current].failed)
<1> SUFFICES ASSUME UotInv, [UotNext]_uotVars, current # NoStream, current' \notin {current, NoStream}
             PROVE  stream[current].failed
  OBVIOUS
<1>1. PICK c \in Calls : Install(c)
  BY DEF UotNext, uotVars, QueueRetry, TakeSession, Written, WriteFails, SendReturns, Recover, Lock, DialFails,
         Dialed, ReplayFails, Interrupt, BeginReceive, Flushed, ReadAddress, ReadPayload, ReadFails,
         CancelReceive, CloseAssociation, CloseSession, ClearRetry, Breaks, Reply
<1>2. uot[c].pc = "install" /\ ~closed
  BY <1>1 DEF Install
<1> QED BY <1>2 DEF UotInv, CallSound

-----------------------------------------------------------------------------
(* ChainDatagram: the frames.                                              *)
(* A set of natural numbers has a least one.                               *)
LEMMA LeastOf ==
  ASSUME NEW I, I \subseteq Nat, I # {}
  PROVE  Min(I) \in I
<1>1. PICK x \in I : \A y \in I : ~(<<y, x>> \in OpToRel(<, Nat))
  BY NatLessThanWellFounded, WFMin
<1>2. ASSUME NEW y \in I PROVE x =< y
  <2>1. <<y, x>> \in Nat \X Nat /\ <<y, x>>[1] = y /\ <<y, x>>[2] = x
    OBVIOUS
  <2>2. ~(y < x)
    BY <1>1, <2>1 DEF OpToRel
  <2> QED BY <2>2
<1>3. \E z \in I : \A y \in I : z =< y
  BY <1>2
<1> QED BY <1>3 DEF Min

(* What is left of a sequence without repetition when a position, or an    *)
(* element, is taken out of it.                                            *)
LEMMA RemoveAtProperties ==
  ASSUME NEW S, NEW q \in Seq(S), NEW i \in 1..Len(q), IsInjective(q)
  PROVE  /\ RemoveAt(q, i) \in Seq(S) /\ IsInjective(RemoveAt(q, i))
         /\ \A j \in DOMAIN RemoveAt(q, i) : \E k \in DOMAIN q : k # i /\ RemoveAt(q, i)[j] = q[k]
<1> DEFINE r == RemoveAt(q, i)
<1>1. /\ SubSeq(q, 1, i - 1) \in Seq(S) /\ Len(SubSeq(q, 1, i - 1)) = i - 1
      /\ \A j \in 1..(i - 1) : SubSeq(q, 1, i - 1)[j] = q[j]
  OBVIOUS
<1>2. /\ SubSeq(q, i + 1, Len(q)) \in Seq(S) /\ Len(SubSeq(q, i + 1, Len(q))) = Len(q) - i
      /\ \A j \in 1..(Len(q) - i) : SubSeq(q, i + 1, Len(q))[j] = q[i + j]
  OBVIOUS
<1> DEFINE a == SubSeq(q, 1, i - 1)
           b == SubSeq(q, i + 1, Len(q))
<1>3. r = a \o b
  BY DEF RemoveAt
<1> HIDE DEF a, b, r
<1>4. /\ r \in Seq(S) /\ Len(r) = Len(q) - 1 /\ DOMAIN r = 1..(Len(q) - 1)
      /\ \A j \in 1..(Len(q) - 1) : r[j] = IF j <= i - 1 THEN a[j] ELSE b[j - (i - 1)]
  <2>1. a \in Seq(S) /\ b \in Seq(S) /\ Len(a) = i - 1 /\ Len(b) = Len(q) - i /\ Len(q) \in Nat
    BY <1>1, <1>2 DEF a, b
  <2>2. r \in Seq(S) /\ Len(r) = Len(a) + Len(b)
    BY <1>3, <2>1, ConcatProperties
  <2>3. \A j \in 1..(Len(a) + Len(b)) : r[j] = IF j <= Len(a) THEN a[j] ELSE b[j - Len(a)]
    BY <1>3, <2>1, ConcatProperties
  <2> QED BY <2>1, <2>2, <2>3
<1>5. \A j \in DOMAIN r : r[j] = IF j < i THEN q[j] ELSE q[j + 1]
  <2> SUFFICES ASSUME NEW j \in 1..(Len(q) - 1) PROVE r[j] = IF j < i THEN q[j] ELSE q[j + 1]
    BY <1>4
  <2>1. CASE j < i
    BY <1>1, <1>4, <2>1 DEF a
  <2>2. CASE ~(j < i)
    <3>1. r[j] = b[j - (i - 1)] /\ j - (i - 1) \in 1..(Len(q) - i) /\ i + (j - (i - 1)) = j + 1
      BY <1>4, <2>2
    <3> QED BY <1>2, <2>2, <3>1 DEF b
  <2> QED BY <2>1, <2>2
<1>6. DOMAIN q = 1..Len(q) /\ Len(q) \in Nat
  OBVIOUS
<1>7. \A j \in DOMAIN r : \E k \in DOMAIN q : k # i /\ r[j] = q[k]
  <2> SUFFICES ASSUME NEW j \in 1..(Len(q) - 1) PROVE \E k \in DOMAIN q : k # i /\ r[j] = q[k]
    BY <1>4
  <2>1. CASE j < i
    BY <1>4, <1>5, <1>6, <2>1
  <2>2. CASE ~(j < i)
    <3>1. j + 1 \in DOMAIN q /\ j + 1 # i /\ r[j] = q[j + 1]
      BY <1>4, <1>5, <1>6, <2>2
    <3> QED BY <3>1
  <2> QED BY <2>1, <2>2
<1>8. ASSUME NEW j \in DOMAIN r, NEW k \in DOMAIN r, r[j] = r[k] PROVE j = k
  <2>1. /\ j \in Int /\ k \in Int
        /\ j < i => j \in DOMAIN q /\ r[j] = q[j]
        /\ k < i => k \in DOMAIN q /\ r[k] = q[k]
        /\ ~(j < i) => j + 1 \in DOMAIN q /\ r[j] = q[j + 1]
        /\ ~(k < i) => k + 1 \in DOMAIN q /\ r[k] = q[k + 1]
    BY <1>4, <1>5, <1>6
  <2> QED BY <1>8, <2>1 DEF IsInjective
<1> QED BY <1>4, <1>7, <1>8 DEF IsInjective, r

LEMMA RemoveFirstProperties ==
  ASSUME NEW S, NEW q \in Seq(S), NEW e, IsInjective(q)
  PROVE  /\ RemoveFirst(q, e) \in Seq(S) /\ IsInjective(RemoveFirst(q, e))
         /\ Range(RemoveFirst(q, e)) \subseteq Range(q) \ {e}
<1> DEFINE I == {j \in 1..Len(q) : q[j] = e}
<1>1. CASE I # {}
  <2>0. I \subseteq Nat
    OBVIOUS
  <2>1. Min(I) \in I
    <3> HIDE DEF I
    <3> QED BY <1>1, <2>0, LeastOf
  <2>2. RemoveFirst(q, e) = RemoveAt(q, Min(I))
    BY <1>1 DEF RemoveFirst, SelectInSeq
  <2>3. Min(I) \in 1..Len(q) /\ q[Min(I)] = e
    BY <2>1
  <2> HIDE DEF I
  <2>4. /\ RemoveAt(q, Min(I)) \in Seq(S) /\ IsInjective(RemoveAt(q, Min(I)))
        /\ \A j \in DOMAIN RemoveAt(q, Min(I)) :
             \E k \in DOMAIN q : k # Min(I) /\ RemoveAt(q, Min(I))[j] = q[k]
    BY <2>3, RemoveAtProperties
  <2>5. Min(I) \in DOMAIN q
    BY <2>3
  <2> QED BY <2>2, <2>3, <2>4, <2>5 DEF Range, IsInjective
<1>2. CASE I = {}
  <2>1. RemoveFirst(q, e) = q /\ \A j \in DOMAIN q : q[j] # e
    BY <1>2 DEF RemoveFirst
  <2> QED BY <2>1 DEF Range
<1> QED BY <1>1, <1>2

LEMMA AcknowledgedProperties ==
  ASSUME retry \in Seq(Sends), IsInjective(retry), NEW t
  PROVE  /\ Acknowledged(t) \in Seq(Sends) /\ IsInjective(Acknowledged(t))
         /\ Range(Acknowledged(t)) \subseteq Range(retry)
<1> DEFINE I == {j \in 1..Len(retry) : TargetOf[retry[j]] = t}
<1>1. CASE I # {}
  <2>0. I \subseteq Nat
    OBVIOUS
  <2>1. Min(I) \in I
    <3> HIDE DEF I
    <3> QED BY <1>1, <2>0, LeastOf
  <2>2. Acknowledged(t) = RemoveAt(retry, Min(I))
    BY <1>1 DEF Acknowledged, RemoveFirstMatch, SelectInSeq
  <2>3. Min(I) \in 1..Len(retry)
    BY <2>1
  <2> HIDE DEF I
  <2>4. /\ RemoveAt(retry, Min(I)) \in Seq(Sends) /\ IsInjective(RemoveAt(retry, Min(I)))
        /\ \A j \in DOMAIN RemoveAt(retry, Min(I)) :
             \E k \in DOMAIN retry : RemoveAt(retry, Min(I))[j] = retry[k]
    BY <2>3, RemoveAtProperties
  <2> QED BY <2>2, <2>4 DEF Range
<1>2. CASE I = {}
  <2>1. Acknowledged(t) = retry
    BY <1>2 DEF Acknowledged, RemoveFirstMatch
  <2> QED BY <2>1
<1> QED BY <1>1, <1>2

(* A frame is queued once.  The frames that a closed association still has *)
(* are of calls that have not looked at the flag yet, and will.            *)
RetryInv ==
  /\ retry \in Seq(Sends) /\ IsInjective(retry)
  /\ \A c \in Sends : uot[c].pc = "idle" => c \notin Range(retry) /\ uot[c].tries = 0
  /\ closing = "done" => \A c \in Range(retry) : uot[c].pc \in {"take", "recover"} /\ uot[c].tries = 0

(* A step of one call that queues nothing, and leaves no frame of a call   *)
(* that has looked at the flag.                                            *)
LEMMA RetryStepKeeps ==
  ASSUME UotInv, RetryInv, NEW c \in Calls, NEW u, uot' = [uot EXCEPT ![c] = u],
         retry' \in Seq(Sends), IsInjective(retry'), Range(retry') \subseteq Range(retry),
         closing' = closing,
         c \in Sends => u.pc # "idle",
         closing = "done" /\ c \in Range(retry') => u.pc \in {"take", "recover"} /\ u.tries = 0
  PROVE  RetryInv'
<1>1. uot'[c] = u /\ \A d \in Calls : d # c => uot'[d] = uot[d]
  BY DEF UotInv, UotShape
<1>2. Range(retry') \subseteq Sends
  BY DEF Range
<1> QED BY <1>1, <1>2 DEF RetryInv, Calls

(* Of those, the steps that take their frame out of the queue, and those   *)
(* that leave the queue alone.                                             *)
LEMMA RetryRemoveKeeps ==
  ASSUME UotInv, RetryInv, NEW c \in Calls, NEW u, uot' = [uot EXCEPT ![c] = u], closing' = closing,
         c \in Sends => u.pc # "idle", retry' = RemoveFirst(retry, c)
  PROVE  RetryInv'
<1>1. /\ retry' \in Seq(Sends) /\ IsInjective(retry') /\ Range(retry') \subseteq Range(retry) \ {c}
  BY RemoveFirstProperties DEF RetryInv
<1> QED BY <1>1, RetryStepKeeps

LEMMA RetryMoveKeeps ==
  ASSUME UotInv, RetryInv, NEW c \in Calls, NEW u, uot' = [uot EXCEPT ![c] = u], closing' = closing,
         c \in Sends => u.pc # "idle", UNCHANGED retry,
         closing = "done" /\ uot[c].pc \in {"take", "recover"} /\ uot[c].tries = 0 =>
           u.pc = "recover" /\ u.tries = 0
  PROVE  RetryInv'
<1>1. retry' \in Seq(Sends) /\ IsInjective(retry') /\ Range(retry') \subseteq Range(retry)
  BY DEF RetryInv
<1>2. closing = "done" /\ c \in Range(retry') => u.pc \in {"take", "recover"} /\ u.tries = 0
  BY DEF RetryInv
<1> QED BY <1>1, <1>2, RetryStepKeeps

LEMMA QueueRetryQueues ==
  ASSUME UotInv, RetryInv, NEW c \in Calls, QueueRetry(c)
  PROVE  RetryInv'
<1>1. /\ uot \in [Calls -> CallState] /\ uot[c] \in CallState /\ uot[c].pc = "idle" /\ c \in Sends
      /\ closing' = closing /\ c \notin Range(retry) /\ uot[c].tries = 0
      /\ retry \in Seq(Sends) /\ IsInjective(retry) /\ generation \in Nat
  BY DEF UotInv, UotShape, QueueRetry, RetryInv
<1>2. CASE Len(retry) >= RetryFrames
  <2>1. uot' = [uot EXCEPT ![c] = Quiet("refused")] /\ UNCHANGED retry /\ Quiet("refused").pc = "refused"
    BY <1>2, QuietTyped DEF QueueRetry, End
  <2> QED BY <1>1, <2>1, RetryMoveKeeps
<1>3. CASE ~(Len(retry) >= RetryFrames)
  <2> DEFINE u == [Busy(c, "take") EXCEPT !.gen = generation]
  <2>1. u.pc = "take" /\ u.tries = 0
    BY <1>1 DEF Busy, CallState
  <2>2. uot' = [uot EXCEPT ![c] = u] /\ retry' = Append(retry, c)
    BY <1>3 DEF QueueRetry
  <2> HIDE DEF u
  <2>3. uot'[c] = u /\ \A d \in Calls : d # c => uot'[d] = uot[d]
    BY <1>1, <2>2
  <2>4. /\ retry' \in Seq(Sends) /\ DOMAIN retry' = DOMAIN retry \cup {Len(retry) + 1}
        /\ retry'[Len(retry) + 1] = c /\ \A i \in DOMAIN retry : retry'[i] = retry[i]
    BY <1>1, <2>2
  <2>5. Range(retry') \subseteq Range(retry) \cup {c} /\ Range(retry) \subseteq Sends
    BY <1>1, <2>4 DEF Range
  <2>6. IsInjective(retry')
    BY <1>1, <2>4 DEF IsInjective, Range
  <2> QED BY <1>1, <2>1, <2>3, <2>4, <2>5, <2>6 DEF RetryInv, Calls
<1> QED BY <1>2, <1>3

LEMMA RecoverDrains ==
  ASSUME UotInv, RetryInv, NEW c \in Calls, TakeSession(c) \/ Recover(c)
  PROVE  RetryInv'
<1>1. /\ uot \in [Calls -> CallState] /\ uot[c] \in CallState /\ uot[c].tries \in Nat
      /\ closing' = closing /\ closed = (closing # "no")
  BY DEF UotInv, UotShape, TakeSession, Recover, CallState
<1>2. CASE TakeSession(c)
  <2>1. CASE closed \/ current = NoStream
    <3> DEFINE u == [uot[c] EXCEPT !.pc = "recover"]
    <3>1. u.pc = "recover" /\ u.tries = uot[c].tries /\ uot' = [uot EXCEPT ![c] = u] /\ UNCHANGED retry
      BY <1>1, <1>2, <2>1 DEF TakeSession, Move, CallState
    <3> HIDE DEF u
    <3> QED BY <1>1, <3>1, RetryMoveKeeps
  <2>2. CASE ~(closed \/ current = NoStream)
    <3> DEFINE u == [Busy(c, "use") EXCEPT !.on = current]
    <3>1. u.pc = "use" /\ uot' = [uot EXCEPT ![c] = u] /\ UNCHANGED retry /\ closing # "done"
      BY <1>1, <1>2, <2>2 DEF TakeSession, Busy, CallState
    <3> HIDE DEF u
    <3> QED BY <1>1, <3>1, RetryMoveKeeps
  <2> QED BY <2>1, <2>2
<1>3. CASE Recover(c)
  <2>1. CASE uot[c].tries >= Attempts
    <3>1. uot' = [uot EXCEPT ![c] = Quiet("refused")] /\ UNCHANGED retry /\ Quiet("refused").pc = "refused"
      BY <1>3, <2>1, QuietTyped DEF Recover, End
    <3>2. uot[c].tries # 0
      BY <1>1, <2>1, UotAssumption
    <3> QED BY <1>1, <3>1, <3>2, RetryMoveKeeps
  <2>2. CASE ~(uot[c].tries >= Attempts) /\ closed
    <3>1. /\ uot' = [uot EXCEPT ![c] = Quiet("refused")] /\ Quiet("refused").pc = "refused"
          /\ retry' = RemoveFirst(retry, c)
      BY <1>3, <2>2, QuietTyped DEF Recover, EndClosed, End
    <3> QED BY <1>1, <3>1, RetryRemoveKeeps
  <2>3. CASE ~(uot[c].tries >= Attempts) /\ ~closed
    <3> DEFINE u == [Busy(c, "lock") EXCEPT !.tries = @ + 1]
    <3>1. u.pc = "lock" /\ uot' = [uot EXCEPT ![c] = u] /\ UNCHANGED retry /\ closing # "done"
      BY <1>1, <1>3, <2>3 DEF Recover, Busy, CallState
    <3> HIDE DEF u
    <3> QED BY <1>1, <3>1, RetryMoveKeeps
  <2> QED BY <2>1, <2>2, <2>3
<1> QED BY <1>2, <1>3

(* The other steps of a call: none is of a frame that a closed association *)
(* still has, unless it takes the frame out.                               *)
LEMMA OthersDrain ==
  ASSUME UotInv, RetryInv, NEW c \in Calls,
         \/ Written(c) \/ WriteFails(c) \/ SendReturns(c) \/ Lock(c) \/ DialFails(c)
         \/ Dialed(c) \/ ReplayFails(c) \/ Install(c) \/ Interrupt(c)
  PROVE  RetryInv'
<1>1. uot \in [Calls -> CallState] /\ uot[c] \in CallState /\ closing' = closing
  BY DEF UotInv, UotShape, Written, WriteFails, SendReturns, Lock, DialFails, Dialed, ReplayFails, Install, Interrupt
<1>2. uot[c].pc \notin {"take", "recover"}
  BY DEF Written, WriteFails, SendReturns, Lock, DialFails, Dialed, ReplayFails, Install, Interrupt
<1>3. retry' = RemoveFirst(retry, c) \/ UNCHANGED retry
  BY DEF Written, WriteFails, SendReturns, Lock, DialFails, Dialed, ReplayFails, Install, Interrupt, EndClosed
<1>4. \/ \E pc \in {"finish", "recover", "dial"} : Move(c, pc)
      \/ \E pc \in {"sent", "refused"} : End(c, pc)
      \/ \E n : uot' = [uot EXCEPT ![c] = [Busy(c, "recover") EXCEPT !.new = n]]
      \/ \E n : uot' = [uot EXCEPT ![c] = [Busy(c, "install") EXCEPT !.new = n]]
  BY DEF Written, WriteFails, SendReturns, Lock, DialFails, Dialed, ReplayFails, Install, Interrupt, EndClosed,
         FailReconnect
<1>5. \E u : uot' = [uot EXCEPT ![c] = u] /\ u.pc # "idle"
  <2>1. ASSUME NEW pc \in {"finish", "recover", "dial"}, Move(c, pc)
        PROVE  \E u : uot' = [uot EXCEPT ![c] = u] /\ u.pc # "idle"
    <3>1. [uot[c] EXCEPT !.pc = pc].pc = pc
      BY <1>1 DEF CallState
    <3> QED BY <2>1, <3>1 DEF Move
  <2>2. ASSUME NEW pc \in {"sent", "refused"}, End(c, pc)
        PROVE  \E u : uot' = [uot EXCEPT ![c] = u] /\ u.pc # "idle"
    <3>1. Quiet(pc).pc = pc
      BY QuietTyped
    <3> QED BY <2>2, <3>1 DEF End
  <2>3. ASSUME NEW n, NEW pc \in {"recover", "install"},
               uot' = [uot EXCEPT ![c] = [Busy(c, pc) EXCEPT !.new = n]]
        PROVE  \E u : uot' = [uot EXCEPT ![c] = u] /\ u.pc # "idle"
    <3>1. [Busy(c, pc) EXCEPT !.new = n].pc = pc
      BY <1>1 DEF CallState, Busy
    <3> QED BY <2>3, <3>1
  <2> QED BY <1>4, <2>1, <2>2, <2>3
<1>6. PICK u : uot' = [uot EXCEPT ![c] = u] /\ u.pc # "idle"
  BY <1>5
<1>7. CASE retry' = RemoveFirst(retry, c)
  BY <1>1, <1>6, <1>7, RetryRemoveKeeps
<1>8. CASE UNCHANGED retry
  BY <1>1, <1>2, <1>6, <1>8, RetryMoveKeeps
<1> QED BY <1>3, <1>7, <1>8

(* The receiver has no frame; an answer takes one out of the queue.        *)
LEMMA ReceiverDrains ==
  ASSUME UotInv, RetryInv, BeginReceive \/ Flushed \/ ReadAddress \/ ReadPayload \/ ReadFails \/ CancelReceive
  PROVE  RetryInv'
<1>1. Receiver \in Calls /\ Receiver \notin Sends /\ closing' = closing
  BY UotAssumption DEF Calls, BeginReceive, Flushed, ReadAddress, ReadPayload, ReadFails, CancelReceive
<1>2. \E u : uot' = [uot EXCEPT ![Receiver] = u]
  BY DEF BeginReceive, Flushed, ReadAddress, ReadPayload, ReadFails, CancelReceive, Move, End
<1>3. UNCHANGED retry \/ \E t : retry' = Acknowledged(t)
  BY DEF BeginReceive, Flushed, ReadAddress, ReadPayload, ReadFails, CancelReceive
<1>4. retry' \in Seq(Sends) /\ IsInjective(retry') /\ Range(retry') \subseteq Range(retry)
  BY <1>3, AcknowledgedProperties DEF RetryInv
<1>5. Range(retry') \subseteq Sends
  BY <1>4 DEF Range
<1> QED BY <1>1, <1>2, <1>4, <1>5, RetryStepKeeps

LEMMA RetryNextKeeps == UotInv /\ RetryInv /\ [UotNext]_uotVars => RetryInv'
<1> SUFFICES ASSUME UotInv, RetryInv, [UotNext]_uotVars PROVE RetryInv'
  OBVIOUS
<1>1. ASSUME NEW c \in Calls,
             \/ QueueRetry(c) \/ TakeSession(c) \/ Written(c) \/ WriteFails(c) \/ SendReturns(c)
             \/ Recover(c) \/ Lock(c) \/ DialFails(c) \/ Dialed(c) \/ ReplayFails(c) \/ Install(c) \/ Interrupt(c)
      PROVE  RetryInv'
  BY <1>1, QueueRetryQueues, RecoverDrains, OthersDrain
<1>2. CASE BeginReceive \/ Flushed \/ ReadAddress \/ ReadPayload \/ ReadFails \/ CancelReceive
  BY <1>2, ReceiverDrains
<1>3. CASE CloseAssociation \/ CloseSession
  BY <1>3 DEF CloseAssociation, CloseSession, RetryInv
<1>4. CASE ClearRetry
  <2>1. retry' = <<>> /\ UNCHANGED uot
    BY <1>4 DEF ClearRetry
  <2>2. retry' \in Seq(Sends) /\ IsInjective(retry') /\ Range(retry') = {}
    BY <2>1 DEF IsInjective, Range
  <2> QED BY <2>1, <2>2 DEF RetryInv
<1>5. ASSUME NEW s \in Streams, Breaks(s) \/ \E c \in Sends : Reply(s, TargetOf[c]) PROVE RetryInv'
  BY <1>5 DEF Breaks, Reply, RetryInv
<1>6. CASE UNCHANGED uotVars
  BY <1>6 DEF uotVars, RetryInv
<1> QED BY <1>1, <1>2, <1>3, <1>4, <1>5, <1>6 DEF UotNext

(* However sends, a receive that is dropped, reconnects, broken streams    *)
(* and the close of a ChainDatagram interleave, close leaves no stream     *)
(* open but one that a reconnect still has to give up, only a session that *)
(* was seen failing is replaced, and no frame of an ended call stays       *)
(* queued.                                                                 *)
THEOREM SessionsAreReleased == UotSpec => SessionsReleased
<1>1. UotInit => UotInv /\ RetryInv
  <2> SUFFICES ASSUME UotInit PROVE RetryInv
    BY UotInitHolds
  <2>1. retry \in Seq(Sends) /\ IsInjective(retry) /\ Range(retry) = {}
    BY DEF UotInit, IsInjective, Range
  <2>2. \A c \in Calls : uot[c].tries = 0
    BY DEF UotInit, Quiet
  <2> QED BY <2>1, <2>2 DEF RetryInv, UotInit, Calls
<1>2. UotInv => ClosedHoldsNoStream
  BY DEF UotInv, ClosedHoldsNoStream, StreamsHeld, UotShape, Streams, NoStream
<1>3. UotInv /\ RetryInv => RetryDrained
  <2> SUFFICES ASSUME RetryInv, closing = "done", \A c \in Sends : uot[c].pc \in {"idle", "sent", "refused"}
               PROVE  retry = <<>>
    BY DEF RetryDrained
  <2>1. \A i \in DOMAIN retry : retry[i] \in Sends /\ retry[i] \in Range(retry)
    BY DEF RetryInv, Range
  <2>2. DOMAIN retry = {}
    BY <2>1 DEF RetryInv
  <2> QED BY <2>2 DEF RetryInv
<1> QED BY <1>1, <1>2, <1>3, UotNextKeeps, RetryNextKeeps, ReplacedHasFailed, PTL
        DEF UotSpec, SessionsReleased, HealthySessionKept

-----------------------------------------------------------------------------
(* The resolver: its cache, its flights and its refreshes.                 *)
QueryRecord ==
  [pc : {"idle", "lookup", "stale", "begin", "ask", "complete", "unmap", "unmapDropped", "wait", "parked",
         "done", "dropped"},
   flight : Nat, result : [at : Int, ttl : Int, born : Int]]

ResolverShape ==
  /\ second \in Int /\ cache.at \in [DOMAIN cache.at -> Int]
  /\ query \in [Queries -> QueryRecord] /\ outcome \in Seq({"pending", "completed", "cancelled"})
  /\ tasks \in [Keys -> [asking : Nat, ending : Nat]]
  /\ \A q \in Queries : query[q].flight <= Len(outcome)

(* Whatever a query holds as its result, served or not.                    *)
ResultsExpire ==
  \A q \in Queries :
    query[q].result.ttl > 0 => query[q].result.at + query[q].result.ttl <= query[q].result.born + Ttl

RefreshesMarked ==
  \A k \in Keys : tasks[k].asking + tasks[k].ending = IF k \in refreshing THEN 1 ELSE 0

IsOwner(q) == query[q].pc \in {"ask", "complete", "unmap", "unmapDropped"}

(* A flight has one owner, and the map the flight of its key that has not  *)
(* come to an outcome.                                                     *)
FlightsOwned ==
  /\ \A k \in DOMAIN inFlight :
       /\ inFlight[k] \in 1..Len(outcome)
       /\ \E q \in Queries : IsOwner(q) /\ KeyOf[q] = k /\ query[q].flight = inFlight[k]
  /\ \A q \in Queries : query[q].pc \in {"ask", "complete"} =>
       KeyOf[q] \in DOMAIN inFlight /\ inFlight[KeyOf[q]] = query[q].flight
  /\ \A p, q \in Queries : IsOwner(p) /\ IsOwner(q) /\ query[p].flight = query[q].flight => p = q

ResolverInv == ResolverShape /\ ResultsExpire /\ RefreshesMarked /\ FlightsOwned

-----------------------------------------------------------------------------
(* The cache keeps a time for each of its keys, whatever is dropped.       *)
LEMMA CacheTyped ==
  ASSUME second \in Int, NEW c, c.at \in [DOMAIN c.at -> Int], NEW K
  PROVE  /\ Without(c, K).at \in [DOMAIN Without(c, K).at -> Int]
         /\ Swept(c).at \in [DOMAIN Swept(c).at -> Int]
<1>1. \A L : Without(c, L).at \in [DOMAIN Without(c, L).at -> Int]
  BY DEF Without, Drop, Restrict
<1> QED BY <1>1 DEF Swept

LEMMA InsertedTyped ==
  ASSUME second \in Int, NEW c, c.at \in [DOMAIN c.at -> Int], NEW k
  PROVE  Inserted(c, k).at \in [DOMAIN Inserted(c, k).at -> Int]
<1> DEFINE d == ToFront([at |-> Put(c.at, k, second), order |-> c.order], k)
           K == {d.order[i] : i \in {j \in DOMAIN d.order : j > CacheSize}}
<1>1. d.at = Put(c.at, k, second)
  BY DEF ToFront
<1>2. Put(c.at, k, second) \in [DOMAIN Put(c.at, k, second) -> Int]
  BY DEF Put
<1>3. Inserted(c, k) = Without(d, K)
  BY DEF Inserted
<1> HIDE DEF d, K
<1>4. d.at \in [DOMAIN d.at -> Int]
  BY <1>1, <1>2
<1> QED BY <1>3, <1>4, CacheTyped

LEMMA InsertPacketTyped ==
  ASSUME second \in Int, cache.at \in [DOMAIN cache.at -> Int], NEW k, NEW reply, InsertPacket(k, reply)
  PROVE  cache'.at \in [DOMAIN cache'.at -> Int]
<1>1. Without(cache, {k}).at \in [DOMAIN Without(cache, {k}).at -> Int]
  BY CacheTyped
<1>2. Inserted(Swept(cache), k).at \in [DOMAIN Inserted(Swept(cache), k).at -> Int]
  BY CacheTyped, InsertedTyped
<1>3. cache' \in {Inserted(Swept(cache), k), Without(cache, {k}), cache}
  BY DEF InsertPacket
<1> QED BY <1>1, <1>2, <1>3

(* A step of one query that begins no flight and ends none.                *)
LEMMA QueryStepKeeps ==
  ASSUME ResolverInv, NEW q \in Queries, NEW u \in QueryRecord, query' = [query EXCEPT ![q] = u],
         second' = second, cache'.at \in [DOMAIN cache'.at -> Int],
         u.result.ttl > 0 => u.result.at + u.result.ttl <= u.result.born + Ttl,
         tasks' \in [Keys -> [asking : Nat, ending : Nat]], RefreshesMarked',
         u.flight <= Len(outcome), UNCHANGED <<inFlight, outcome>>,
         IsOwner(q) <=> u.pc \in {"ask", "complete", "unmap", "unmapDropped"},
         u.pc \in {"ask", "complete"} => query[q].pc \in {"ask", "complete"},
         IsOwner(q) => u.flight = query[q].flight
  PROVE  ResolverInv'
<1>1. /\ query \in [Queries -> QueryRecord] /\ query' \in [Queries -> QueryRecord] /\ query'[q] = u
      /\ \A p \in Queries : p # q => query'[p] = query[p]
  BY DEF ResolverInv, ResolverShape
<1>2. ResolverShape'
  BY <1>1 DEF ResolverInv, ResolverShape
<1>3. ResultsExpire'
  BY <1>1 DEF ResolverInv, ResultsExpire
<1>4. \A p \in Queries : /\ IsOwner(p)' <=> IsOwner(p)
                         /\ IsOwner(p) => query'[p].flight = query[p].flight
                         /\ query'[p].pc \in {"ask", "complete"} => query[p].pc \in {"ask", "complete"}
  BY <1>1 DEF IsOwner
<1>5. FlightsOwned'
  <2>1. \A k \in DOMAIN inFlight :
          /\ inFlight[k] \in 1..Len(outcome)
          /\ \E p \in Queries : IsOwner(p)' /\ KeyOf[p] = k /\ query'[p].flight = inFlight[k]
    <3> SUFFICES ASSUME NEW k \in DOMAIN inFlight
                 PROVE  \E p \in Queries : IsOwner(p)' /\ KeyOf[p] = k /\ query'[p].flight = inFlight[k]
      BY DEF ResolverInv, FlightsOwned
    <3>1. PICK p \in Queries : IsOwner(p) /\ KeyOf[p] = k /\ query[p].flight = inFlight[k]
      BY DEF ResolverInv, FlightsOwned
    <3>2. IsOwner(p)' /\ query'[p].flight = inFlight[k]
      BY <1>4, <3>1 DEF IsOwner
    <3> QED BY <3>1, <3>2
  <2>2. \A p \in Queries : query'[p].pc \in {"ask", "complete"} =>
          KeyOf[p] \in DOMAIN inFlight /\ inFlight[KeyOf[p]] = query'[p].flight
    BY <1>4 DEF ResolverInv, FlightsOwned, IsOwner
  <2>3. \A p, x \in Queries : IsOwner(p)' /\ IsOwner(x)' /\ query'[p].flight = query'[x].flight => p = x
    <3> SUFFICES ASSUME NEW p \in Queries, NEW x \in Queries, IsOwner(p)', IsOwner(x)',
                        query'[p].flight = query'[x].flight
                 PROVE  p = x
      OBVIOUS
    <3>1. IsOwner(p) /\ IsOwner(x) /\ query[p].flight = query[x].flight
      BY <1>4 DEF IsOwner
    <3> QED BY <3>1 DEF ResolverInv, FlightsOwned
  <2> QED BY <2>1, <2>2, <2>3 DEF FlightsOwned
<1> QED BY <1>2, <1>3, <1>5 DEF ResolverInv

(* Of those, the steps that only change where the query is.                *)
LEMMA GotoKeeps ==
  ASSUME ResolverInv, NEW q \in Queries,
         NEW pc \in {"lookup", "begin", "wait", "parked", "done", "dropped"},
         Goto(q, pc), ~IsOwner(q), second' = second, cache'.at \in [DOMAIN cache'.at -> Int],
         tasks' \in [Keys -> [asking : Nat, ending : Nat]], RefreshesMarked',
         UNCHANGED <<inFlight, outcome>>
  PROVE  ResolverInv'
<1> DEFINE u == [query[q] EXCEPT !.pc = pc]
<1>1. query[q] \in QueryRecord /\ query[q].flight <= Len(outcome)
  BY DEF ResolverInv, ResolverShape
<1>2. u \in QueryRecord /\ u.pc = pc /\ u.flight = query[q].flight /\ u.result = query[q].result
  BY <1>1 DEF QueryRecord
<1>3. query' = [query EXCEPT ![q] = u]
  BY DEF Goto
<1> HIDE DEF u
<1>4. /\ u.result.ttl > 0 => u.result.at + u.result.ttl <= u.result.born + Ttl
      /\ u.flight <= Len(outcome)
      /\ ~(u.pc \in {"ask", "complete", "unmap", "unmapDropped"})
  BY <1>1, <1>2 DEF ResolverInv, ResultsExpire
<1> QED BY <1>2, <1>3, <1>4, QueryStepKeeps

LEMMA LookUpKeeps ==
  ASSUME ResolverInv, NEW q \in Queries, LookUp(q)
  PROVE  ResolverInv'
<1> DEFINE k == KeyOf[q]
           s == [at |-> second, ttl |-> Aged(k), born |-> cache.at[k]]
<1>1. /\ query[q] \in QueryRecord /\ query[q].pc = "lookup" /\ ~IsOwner(q) /\ second \in Int
      /\ cache.at \in [DOMAIN cache.at -> Int] /\ query[q].flight <= Len(outcome)
      /\ second' = second /\ UNCHANGED <<inFlight, outcome, refreshing, tasks>>
  BY DEF LookUp, ResolverInv, ResolverShape, IsOwner
<1>2. tasks' \in [Keys -> [asking : Nat, ending : Nat]] /\ RefreshesMarked'
  BY <1>1 DEF ResolverInv, ResolverShape, RefreshesMarked
<1>3. CASE Goto(q, "begin") /\ (cache' = cache \/ cache' = Without(cache, {k}))
  <2>1. cache'.at \in [DOMAIN cache'.at -> Int]
    BY <1>1, <1>3, CacheTyped
  <2> QED BY <1>1, <1>2, <1>3, <2>1, GotoKeeps
<1>4. ASSUME k \in DOMAIN cache.at, cache' = ToFront(cache, k), NEW pc \in {"stale", "done"},
             query' = [query EXCEPT ![q].pc = pc, ![q].result = s]
      PROVE  ResolverInv'
  <2>1. cache'.at \in [DOMAIN cache'.at -> Int]
    BY <1>1, <1>4 DEF ToFront
  <2>2. s \in [at : Int, ttl : Int, born : Int] /\ (s.ttl > 0 => s.at + s.ttl <= s.born + Ttl)
    BY <1>1, <1>4, ResolverAssumption DEF Aged, Expired
  <2> HIDE DEF s
  <2> DEFINE u == [query[q] EXCEPT !.pc = pc, !.result = s]
  <2>3. u \in QueryRecord /\ u.pc = pc /\ u.result = s /\ u.flight = query[q].flight
    BY <1>1, <2>2 DEF QueryRecord
  <2>4. query' = [query EXCEPT ![q] = u]
    BY <1>4 DEF ResolverInv, ResolverShape
  <2> HIDE DEF u
  <2>5. /\ ~(u.pc \in {"ask", "complete", "unmap", "unmapDropped"}) /\ u.flight <= Len(outcome)
        /\ u.result.ttl > 0 => u.result.at + u.result.ttl <= u.result.born + Ttl
    BY <1>1, <2>2, <2>3
  <2> QED BY <1>1, <1>2, <2>1, <2>3, <2>4, <2>5, QueryStepKeeps
<1> QED BY <1>3, <1>4 DEF LookUp, Return

LEMMA StartRefreshKeeps ==
  ASSUME ResolverInv, NEW q \in Queries, StartRefresh(q)
  PROVE  ResolverInv'
<1> DEFINE k == KeyOf[q]
<1>1. /\ k \in Keys /\ ~IsOwner(q) /\ tasks \in [Keys -> [asking : Nat, ending : Nat]]
      /\ cache'.at \in [DOMAIN cache'.at -> Int]
      /\ second' = second /\ UNCHANGED <<inFlight, outcome>> /\ Goto(q, "done")
  BY DEF StartRefresh, ResolverInv, ResolverShape, IsOwner, Keys
<1>2. tasks' \in [Keys -> [asking : Nat, ending : Nat]] /\ RefreshesMarked'
  <2>1. CASE k \in refreshing
    BY <1>1, <2>1 DEF StartRefresh, ResolverInv, RefreshesMarked
  <2>2. CASE k \notin refreshing
    <3>1. tasks' = [tasks EXCEPT ![k].asking = @ + 1] /\ refreshing' = refreshing \cup {k}
      BY <2>2 DEF StartRefresh
    <3>2. tasks[k].asking \in Nat /\ tasks[k].ending \in Nat /\ tasks[k].asking + tasks[k].ending = 0
      BY <1>1, <2>2 DEF ResolverInv, RefreshesMarked
    <3>3. /\ tasks' \in [Keys -> [asking : Nat, ending : Nat]]
          /\ tasks'[k].asking = tasks[k].asking + 1 /\ tasks'[k].ending = tasks[k].ending
          /\ \A x \in Keys : x # k => tasks'[x] = tasks[x]
      BY <1>1, <3>1
    <3> QED BY <1>1, <3>1, <3>2, <3>3 DEF ResolverInv, RefreshesMarked
  <2> QED BY <2>1, <2>2
<1> QED BY <1>1, <1>2, GotoKeeps

(* The steps of a refresh task change no query.                            *)
LEMMA RefreshKeeps ==
  ASSUME ResolverInv, NEW k \in Keys, RefreshEnds(k) \/ \E r \in Replies : RefreshAnswered(k, r)
  PROVE  ResolverInv'
<1>1. /\ tasks \in [Keys -> [asking : Nat, ending : Nat]] /\ second' = second
      /\ UNCHANGED <<inFlight, outcome, query>>
  BY DEF RefreshEnds, RefreshAnswered, ResolverInv, ResolverShape
<1>2. tasks[k].asking \in Nat /\ tasks[k].ending \in Nat
  BY <1>1
<1>3. CASE RefreshEnds(k)
  <2>1. /\ tasks' = [tasks EXCEPT ![k].ending = @ - 1] /\ refreshing' = refreshing \ {k}
        /\ tasks[k].ending > 0 /\ UNCHANGED cache
    BY <1>3 DEF RefreshEnds
  <2>2. tasks[k].asking + tasks[k].ending = 1
    BY <1>2, <2>1 DEF ResolverInv, RefreshesMarked
  <2>3. /\ tasks' \in [Keys -> [asking : Nat, ending : Nat]]
        /\ tasks'[k].asking = tasks[k].asking /\ tasks'[k].ending = tasks[k].ending - 1
        /\ \A x \in Keys : x # k => tasks'[x] = tasks[x]
    BY <1>1, <1>2, <2>1
  <2>4. RefreshesMarked'
    <3> SUFFICES ASSUME NEW x \in Keys
                 PROVE  tasks'[x].asking + tasks'[x].ending = IF x \in refreshing' THEN 1 ELSE 0
      BY DEF RefreshesMarked
    <3>1. CASE x = k
      <4>1. tasks'[k].asking + tasks'[k].ending = 0
        BY <1>2, <2>2, <2>3
      <4> QED BY <2>1, <3>1, <4>1
    <3>2. CASE x # k
      <4>1. tasks'[x] = tasks[x] /\ (x \in refreshing' <=> x \in refreshing)
        BY <2>1, <2>3, <3>2
      <4> QED BY <4>1 DEF ResolverInv, RefreshesMarked
    <3> QED BY <3>1, <3>2
  <2> QED BY <1>1, <2>1, <2>3, <2>4 DEF ResolverInv, ResolverShape, ResultsExpire, FlightsOwned, IsOwner
<1>4. ASSUME NEW r \in Replies, RefreshAnswered(k, r) PROVE ResolverInv'
  <2>1. /\ tasks' = [tasks EXCEPT ![k].asking = @ - 1, ![k].ending = @ + 1] /\ UNCHANGED refreshing
        /\ tasks[k].asking > 0 /\ InsertPacket(k, r)
    BY <1>4 DEF RefreshAnswered
  <2>2. cache'.at \in [DOMAIN cache'.at -> Int]
    BY <2>1, InsertPacketTyped DEF ResolverInv, ResolverShape
  <2>3. /\ tasks' \in [Keys -> [asking : Nat, ending : Nat]]
        /\ tasks'[k].asking = tasks[k].asking - 1 /\ tasks'[k].ending = tasks[k].ending + 1
        /\ \A x \in Keys : x # k => tasks'[x] = tasks[x]
    BY <1>1, <1>2, <2>1
  <2>4. RefreshesMarked'
    BY <1>2, <2>1, <2>3 DEF ResolverInv, RefreshesMarked
  <2> QED BY <1>1, <2>2, <2>3, <2>4 DEF ResolverInv, ResolverShape, ResultsExpire, FlightsOwned, IsOwner
<1> QED BY <1>3, <1>4

LEMMA BeginKeeps ==
  ASSUME ResolverInv, NEW q \in Queries, Begin(q)
  PROVE  ResolverInv'
<1> DEFINE k == KeyOf[q]
           f == Len(outcome) + 1
<1>1. /\ query \in [Queries -> QueryRecord] /\ query[q] \in QueryRecord /\ query[q].pc = "begin"
      /\ ~IsOwner(q) /\ cache' = cache /\ cache.at \in [DOMAIN cache.at -> Int]
      /\ second' = second /\ UNCHANGED <<refreshing, tasks>>
      /\ outcome \in Seq({"pending", "completed", "cancelled"})
  BY DEF Begin, ResolverInv, ResolverShape, IsOwner
<1>2. tasks' \in [Keys -> [asking : Nat, ending : Nat]] /\ RefreshesMarked'
  BY <1>1 DEF ResolverInv, ResolverShape, RefreshesMarked
<1>3. CASE k \in DOMAIN inFlight
  <2> DEFINE u == [query[q] EXCEPT !.pc = "wait", !.flight = inFlight[k]]
  <2>1. inFlight[k] \in Nat /\ inFlight[k] <= Len(outcome)
    BY <1>1, <1>3 DEF ResolverInv, FlightsOwned
  <2>2. u \in QueryRecord /\ u.pc = "wait" /\ u.flight = inFlight[k] /\ u.result = query[q].result
    BY <1>1, <2>1 DEF QueryRecord
  <2>3. query' = [query EXCEPT ![q] = u] /\ UNCHANGED <<inFlight, outcome>>
    BY <1>1, <1>3 DEF Begin
  <2> HIDE DEF u
  <2>4. /\ ~(u.pc \in {"ask", "complete", "unmap", "unmapDropped"}) /\ u.flight <= Len(outcome)
        /\ u.result.ttl > 0 => u.result.at + u.result.ttl <= u.result.born + Ttl
    BY <2>1, <2>2 DEF ResolverInv, ResultsExpire
  <2> QED BY <1>1, <1>2, <2>2, <2>3, <2>4, QueryStepKeeps
<1>4. CASE k \notin DOMAIN inFlight
  <2> DEFINE u == [query[q] EXCEPT !.pc = "ask", !.flight = f]
  <2>1. /\ outcome' = Append(outcome, "pending") /\ inFlight' = Put(inFlight, k, f)
        /\ query' = [query EXCEPT ![q] = u]
    BY <1>1, <1>4 DEF Begin
  <2>2. f \in Nat /\ f > 0 /\ outcome' \in Seq({"pending", "completed", "cancelled"}) /\ Len(outcome') = f
        /\ \A n \in Nat : n <= Len(outcome) => n < f
    BY <1>1, <2>1
  <2> HIDE DEF f
  <2>3. u \in QueryRecord /\ u.pc = "ask" /\ u.flight = f /\ u.result = query[q].result
    BY <1>1, <2>2 DEF QueryRecord
  <2> HIDE DEF u
  <2>4. /\ query' \in [Queries -> QueryRecord] /\ query'[q] = u
        /\ \A p \in Queries : p # q => query'[p] = query[p]
    BY <1>1, <2>1, <2>3
  <2>5. \A p \in Queries : query[p].flight \in Nat /\ query[p].flight < f
    BY <1>1, <2>2 DEF ResolverInv, ResolverShape, QueryRecord
  <2>6. ResolverShape'
    <3>1. \A p \in Queries : query'[p].flight <= Len(outcome')
      BY <2>2, <2>3, <2>4, <2>5
    <3> QED BY <1>1, <1>2, <2>2, <2>4, <3>1 DEF ResolverInv, ResolverShape
  <2>7. ResultsExpire'
    BY <2>3, <2>4 DEF ResolverInv, ResultsExpire
  <2>8. /\ DOMAIN inFlight' = DOMAIN inFlight \cup {k} /\ inFlight'[k] = f
        /\ \A x \in DOMAIN inFlight : inFlight'[x] = inFlight[x]
    BY <1>4, <2>1 DEF Put
  <2>9. FlightsOwned'
    <3>1. ASSUME NEW x \in DOMAIN inFlight'
          PROVE  /\ inFlight'[x] \in 1..Len(outcome')
                 /\ \E p \in Queries : IsOwner(p)' /\ KeyOf[p] = x /\ query'[p].flight = inFlight'[x]
      <4>1. CASE x = k
        BY <2>2, <2>3, <2>4, <2>8, <4>1 DEF IsOwner
      <4>2. CASE x # k
        <5>1. x \in DOMAIN inFlight /\ inFlight'[x] = inFlight[x] /\ inFlight[x] \in 1..Len(outcome)
          BY <2>8, <4>2 DEF ResolverInv, FlightsOwned
        <5>2. PICK p \in Queries : IsOwner(p) /\ KeyOf[p] = x /\ query[p].flight = inFlight[x]
          BY <5>1 DEF ResolverInv, FlightsOwned
        <5>3. p # q /\ query'[p] = query[p]
          BY <1>1, <2>4, <5>2
        <5>4. inFlight[x] \in 1..Len(outcome')
          BY <1>1, <2>1, <5>1
        <5> QED BY <5>1, <5>2, <5>3, <5>4 DEF IsOwner
      <4> QED BY <4>1, <4>2
    <3>2. ASSUME NEW p \in Queries, query'[p].pc \in {"ask", "complete"}
          PROVE  KeyOf[p] \in DOMAIN inFlight' /\ inFlight'[KeyOf[p]] = query'[p].flight
      <4>1. CASE p = q
        BY <2>3, <2>4, <2>8, <4>1
      <4>2. CASE p # q
        BY <2>4, <2>8, <3>2, <4>2 DEF ResolverInv, FlightsOwned
      <4> QED BY <4>1, <4>2
    <3>3. ASSUME NEW p \in Queries, NEW x \in Queries, IsOwner(p)', IsOwner(x)',
                 query'[p].flight = query'[x].flight
          PROVE  p = x
      BY <2>3, <2>4, <2>5, <3>3 DEF ResolverInv, FlightsOwned, IsOwner
    <3> QED BY <3>1, <3>2, <3>3 DEF FlightsOwned
  <2> QED BY <1>2, <2>6, <2>7, <2>9 DEF ResolverInv
<1> QED BY <1>3, <1>4

LEMMA AnsweredKeeps ==
  ASSUME ResolverInv, NEW q \in Queries, NEW r, Answered(q, r)
  PROVE  ResolverInv'
<1> DEFINE s == [at |-> second, ttl |-> IF r = "answer" THEN Ttl ELSE 0, born |-> second]
           u == [query[q] EXCEPT !.pc = "complete", !.result = s]
<1>1. /\ query[q] \in QueryRecord /\ query[q].pc = "ask" /\ IsOwner(q) /\ second \in Int
      /\ query[q].flight <= Len(outcome) /\ second' = second /\ UNCHANGED <<inFlight, outcome, refreshing, tasks>>
  BY DEF Answered, ResolverInv, ResolverShape, IsOwner
<1>2. tasks' \in [Keys -> [asking : Nat, ending : Nat]] /\ RefreshesMarked'
  BY <1>1 DEF ResolverInv, ResolverShape, RefreshesMarked
<1>3. cache'.at \in [DOMAIN cache'.at -> Int]
  BY InsertPacketTyped DEF ResolverInv, ResolverShape, Answered
<1>4. s \in [at : Int, ttl : Int, born : Int] /\ (s.ttl > 0 => s.at + s.ttl <= s.born + Ttl)
  BY <1>1, ResolverAssumption
<1>5. query' = [query EXCEPT ![q] = u]
  BY DEF Answered, ResolverInv, ResolverShape
<1> HIDE DEF s
<1>6. u \in QueryRecord /\ u.pc = "complete" /\ u.result = s /\ u.flight = query[q].flight
  BY <1>1, <1>4 DEF QueryRecord
<1> HIDE DEF u
<1>7. /\ u.pc \in {"ask", "complete", "unmap", "unmapDropped"} /\ u.flight <= Len(outcome)
      /\ u.result.ttl > 0 => u.result.at + u.result.ttl <= u.result.born + Ttl
  BY <1>1, <1>4, <1>6
<1> QED BY <1>1, <1>2, <1>3, <1>5, <1>6, <1>7, QueryStepKeeps

(* The owner of a flight completes it and stays its owner; the queries     *)
(* that are parked on it wake up.                                          *)
LEMMA CompleteKeeps ==
  ASSUME ResolverInv, NEW q \in Queries, NEW out \in {"completed", "cancelled"},
         NEW next \in {"unmap", "unmapDropped"}, query[q].pc \in {"ask", "complete"}, Complete(q, out, next),
         UNCHANGED <<second, cache, inFlight, refreshing, tasks>>
  PROVE  ResolverInv'
<1>1. /\ query \in [Queries -> QueryRecord] /\ outcome \in Seq({"pending", "completed", "cancelled"})
  BY DEF ResolverInv, ResolverShape
<1>2. outcome' \in Seq({"pending", "completed", "cancelled"}) /\ Len(outcome') = Len(outcome)
  <2> DEFINE T == {"pending", "completed", "cancelled"}
             f == query[q].flight
  <2>1. outcome' = [outcome EXCEPT ![f] = out] /\ out \in T /\ f \in 1..Len(outcome)
    BY DEF Complete, ResolverInv, FlightsOwned
  <2> HIDE DEF T, f
  <2>2. outcome \in Seq(T)
    BY <1>1 DEF T
  <2>3. outcome' \in Seq(T) /\ Len(outcome') = Len(outcome)
    BY <2>1, <2>2, ExceptSeq
  <2> QED BY <2>3 DEF T
<1>3. ASSUME NEW p \in Queries
      PROVE  /\ query'[p] \in QueryRecord /\ query'[p].flight = query[p].flight
             /\ query'[p].result = query[p].result
             /\ query'[p].pc = IF p = q THEN next
                               ELSE IF query[p].pc = "parked" /\ query[p].flight = query[q].flight
                               THEN "wait" ELSE query[p].pc
  <2>1. query[p] \in QueryRecord
    BY <1>1
  <2>2. \A pc \in {"wait", "unmap", "unmapDropped"} :
          /\ [query[p] EXCEPT !.pc = pc] \in QueryRecord /\ [query[p] EXCEPT !.pc = pc].pc = pc
          /\ [query[p] EXCEPT !.pc = pc].flight = query[p].flight
          /\ [query[p] EXCEPT !.pc = pc].result = query[p].result
    BY <2>1 DEF QueryRecord
  <2>3. query'[p] = IF p = q THEN [query[p] EXCEPT !.pc = next]
                    ELSE IF query[p].pc = "parked" /\ query[p].flight = query[q].flight
                    THEN [query[p] EXCEPT !.pc = "wait"] ELSE query[p]
    BY DEF Complete
  <2> QED BY <2>1, <2>2, <2>3
<1>4. query' \in [Queries -> QueryRecord]
  BY <1>3 DEF Complete
<1>5. ResolverShape' /\ ResultsExpire' /\ RefreshesMarked'
  BY <1>2, <1>3, <1>4 DEF ResolverInv, ResolverShape, ResultsExpire, RefreshesMarked
<1>6. \A p \in Queries : /\ IsOwner(p)' <=> IsOwner(p)
                         /\ query'[p].pc \in {"ask", "complete"} => query[p].pc \in {"ask", "complete"}
  <2> SUFFICES ASSUME NEW p \in Queries
               PROVE  /\ IsOwner(p)' <=> IsOwner(p)
                      /\ query'[p].pc \in {"ask", "complete"} => query[p].pc \in {"ask", "complete"}
    OBVIOUS
  <2>1. CASE p = q
    <3>1. query'[p].pc = next /\ query[p].pc \in {"ask", "complete"}
      BY <1>3, <2>1
    <3> QED BY <3>1 DEF IsOwner
  <2>2. CASE p # q
    <3>1. query'[p].pc = query[p].pc \/ (query[p].pc = "parked" /\ query'[p].pc = "wait")
      BY <1>3, <2>2
    <3> QED BY <3>1 DEF IsOwner
  <2> QED BY <2>1, <2>2
<1>7. FlightsOwned'
  <2>1. \A k \in DOMAIN inFlight :
          /\ inFlight[k] \in 1..Len(outcome)
          /\ \E p \in Queries : IsOwner(p)' /\ KeyOf[p] = k /\ query'[p].flight = inFlight[k]
    BY <1>3, <1>6 DEF ResolverInv, FlightsOwned, IsOwner
  <2>2. \A p \in Queries : query'[p].pc \in {"ask", "complete"} =>
          KeyOf[p] \in DOMAIN inFlight /\ inFlight[KeyOf[p]] = query'[p].flight
    BY <1>3, <1>6 DEF ResolverInv, FlightsOwned, IsOwner
  <2>3. \A p, x \in Queries : IsOwner(p)' /\ IsOwner(x)' /\ query'[p].flight = query'[x].flight => p = x
    BY <1>3, <1>6 DEF ResolverInv, FlightsOwned, IsOwner
  <2> QED BY <1>2, <2>1, <2>2, <2>3 DEF FlightsOwned
<1> QED BY <1>5, <1>7 DEF ResolverInv

(* The owner removes its own flight, and none that began since.            *)
LEMMA RemoveFlightKeeps ==
  ASSUME ResolverInv, NEW q \in Queries, RemoveFlight(q)
  PROVE  ResolverInv'
<1> DEFINE k == KeyOf[q]
<1>0. PICK pc \in {"done", "dropped"} : Goto(q, pc)
  BY DEF RemoveFlight
<1> DEFINE u == [query[q] EXCEPT !.pc = pc]
<1>1. /\ query \in [Queries -> QueryRecord] /\ query[q] \in QueryRecord /\ query[q].pc \in {"unmap", "unmapDropped"}
      /\ UNCHANGED <<second, cache, outcome, refreshing, tasks>>
  BY DEF RemoveFlight, ResolverInv, ResolverShape
<1>2. u \in QueryRecord /\ u.pc = pc /\ u.flight = query[q].flight /\ u.result = query[q].result
  BY <1>1 DEF QueryRecord
<1>3. query' = [query EXCEPT ![q] = u]
  BY <1>0 DEF Goto
<1> HIDE DEF u
<1>4. /\ query' \in [Queries -> QueryRecord] /\ query'[q] = u
      /\ \A p \in Queries : p # q => query'[p] = query[p]
  BY <1>1, <1>2, <1>3
<1>5. ResolverShape' /\ ResultsExpire' /\ RefreshesMarked'
  BY <1>1, <1>2, <1>4 DEF ResolverInv, ResolverShape, ResultsExpire, RefreshesMarked
<1>6. /\ DOMAIN inFlight' \subseteq DOMAIN inFlight
      /\ \A x \in DOMAIN inFlight' : inFlight'[x] = inFlight[x]
      /\ \A x \in DOMAIN inFlight' : ~(x = k /\ inFlight[x] = query[q].flight)
      /\ \A x \in DOMAIN inFlight : x \notin DOMAIN inFlight' => x = k /\ inFlight[x] = query[q].flight
  BY DEF RemoveFlight, Drop, Restrict
<1>7. FlightsOwned'
  <2>1. ASSUME NEW x \in DOMAIN inFlight'
        PROVE  /\ inFlight'[x] \in 1..Len(outcome')
               /\ \E p \in Queries : IsOwner(p)' /\ KeyOf[p] = x /\ query'[p].flight = inFlight'[x]
    <3>1. PICK p \in Queries : IsOwner(p) /\ KeyOf[p] = x /\ query[p].flight = inFlight[x]
      BY <1>6 DEF ResolverInv, FlightsOwned
    <3>2. p # q
      BY <1>6, <3>1
    <3> QED BY <1>1, <1>4, <1>6, <3>1, <3>2 DEF ResolverInv, FlightsOwned, IsOwner
  <2>2. ASSUME NEW p \in Queries, query'[p].pc \in {"ask", "complete"}
        PROVE  KeyOf[p] \in DOMAIN inFlight' /\ inFlight'[KeyOf[p]] = query'[p].flight
    <3>1. p # q /\ query'[p] = query[p] /\ IsOwner(p) /\ IsOwner(q)
      BY <1>1, <1>2, <1>4, <2>2 DEF IsOwner
    <3>2. KeyOf[p] \in DOMAIN inFlight /\ inFlight[KeyOf[p]] = query[p].flight /\ query[p].flight # query[q].flight
      BY <2>2, <3>1 DEF ResolverInv, FlightsOwned
    <3> QED BY <1>6, <3>1, <3>2
  <2>3. ASSUME NEW p \in Queries, NEW x \in Queries, IsOwner(p)', IsOwner(x)',
               query'[p].flight = query'[x].flight
        PROVE  p = x
    BY <1>2, <1>4, <2>3 DEF ResolverInv, FlightsOwned, IsOwner
  <2> QED BY <2>1, <2>2, <2>3 DEF FlightsOwned
<1> QED BY <1>5, <1>7 DEF ResolverInv

LEMMA ResolverNextKeeps == ResolverInv /\ [ResolverNext]_resolverVars => ResolverInv'
<1> SUFFICES ASSUME ResolverInv, [ResolverNext]_resolverVars PROVE ResolverInv'
  OBVIOUS
<1>1. ASSUME NEW q \in Queries,
             LookUp(q) \/ StartRefresh(q) \/ Begin(q) \/ RemoveFlight(q) \/ \E r \in Replies : Answered(q, r)
      PROVE  ResolverInv'
  BY <1>1, LookUpKeeps, StartRefreshKeeps, BeginKeeps, RemoveFlightKeeps, AnsweredKeeps
<1>2. ASSUME NEW q \in Queries, Finish(q) \/ DropOwner(q) PROVE ResolverInv'
  <2>1. query[q].pc \in {"ask", "complete"}
    BY <1>2 DEF Finish, DropOwner
  <2> QED BY <1>2, <2>1, CompleteKeeps DEF Finish, DropOwner
<1>3. ASSUME NEW q \in Queries, Wait(q) \/ DropFollower(q) \/ Ask(q) PROVE ResolverInv'
  <2>1. /\ ~IsOwner(q) /\ UNCHANGED <<second, cache, inFlight, outcome, refreshing, tasks>>
        /\ \E pc \in {"lookup", "parked", "done", "dropped"} : Goto(q, pc)
    BY <1>3 DEF Wait, DropFollower, Ask, IsOwner
  <2>2. /\ cache'.at \in [DOMAIN cache'.at -> Int] /\ tasks' \in [Keys -> [asking : Nat, ending : Nat]]
        /\ RefreshesMarked'
    BY <2>1 DEF ResolverInv, ResolverShape, RefreshesMarked
  <2> QED BY <2>1, <2>2, GotoKeeps
<1>4. ASSUME NEW k \in Keys, RefreshEnds(k) \/ \E r \in Replies : RefreshAnswered(k, r) PROVE ResolverInv'
  BY <1>4, RefreshKeeps
<1>5. CASE SecondPasses
  BY <1>5 DEF SecondPasses, ResolverInv, ResolverShape, ResultsExpire, RefreshesMarked, FlightsOwned, IsOwner
<1>6. CASE UNCHANGED resolverVars
  BY <1>6 DEF resolverVars, ResolverInv, ResolverShape, ResultsExpire, RefreshesMarked, FlightsOwned, IsOwner
<1> QED BY <1>1, <1>2, <1>3, <1>4, <1>5, <1>6 DEF ResolverNext, ResolverSteps

LEMMA ResolverInitHolds == ResolverInit => ResolverInv
<1> SUFFICES ASSUME ResolverInit PROVE ResolverInv
  OBVIOUS
<1>1. \A q \in Queries : query[q] = [pc |-> "idle", flight |-> 0, result |-> NoResult]
  BY DEF ResolverInit
<1>2. NoResult \in [at : Int, ttl : Int, born : Int] /\ NoResult.ttl = 0
  BY DEF NoResult
<1>3. query \in [Queries -> QueryRecord] /\ \A q \in Queries : ~IsOwner(q) /\ query[q].result = NoResult /\ query[q].flight = 0
  BY <1>1, <1>2 DEF ResolverInit, QueryRecord, IsOwner
<1>4. ResolverShape
  BY <1>3, ResolverAssumption DEF ResolverInit, ResolverShape
<1>5. ResultsExpire /\ RefreshesMarked
  BY <1>2, <1>3 DEF ResolverInit, ResultsExpire, RefreshesMarked
<1>6. FlightsOwned
  BY <1>3 DEF ResolverInit, FlightsOwned, EmptyMap, IsOwner
<1> QED BY <1>4, <1>5, <1>6 DEF ResolverInv

(* Whatever queries AsyncDnsResolver serves at once, and whichever of them *)
(* are dropped: a flight that can be joined has an owner who will end it,  *)
(* a key has one flight and one refresh at the upstream, and no answer     *)
(* taken from the cache outlives the TTL it was cached with.               *)
THEOREM SharingStaysSafe == ResolverSpec => []SharingIsSafe
<1>1. ResolverInv => SharingIsSafe
  <2> SUFFICES ASSUME ResolverInv PROVE SharingIsSafe
    OBVIOUS
  <2>1. FlightsHaveOwner
    BY DEF ResolverInv, FlightsOwned, FlightsHaveOwner, Owners, IsOwner
  <2>2. OneRefreshPerKey
    BY DEF ResolverInv, FlightsOwned, RefreshesMarked, OneRefreshPerKey, IsOwner
  <2>3. AnswersExpire
    BY DEF ResolverInv, ResultsExpire, AnswersExpire
  <2> QED BY <2>1, <2>2, <2>3 DEF SharingIsSafe
<1> QED BY <1>1, ResolverInitHolds, ResolverNextKeeps, PTL DEF ResolverSpec

-----------------------------------------------------------------------------
(* The dialer.  What a pass over a sequence keeps.                         *)
LEMMA OutsideFollows ==
  ASSUME NEW E, NEW q \in Seq(E), NEW S, S = DOMAIN q, NEW G, <<>> \in G, NEW A,
         \A x \in E : \A y \in G : (IF x \in A THEN y ELSE Append(y, x)) \in G,
         NEW P, <<>> \in P[{}],
         \A t \in SUBSET S : \A i \in S \ t : \A y \in P[t] : (IF q[i] \in A THEN y ELSE Append(y, q[i])) \in P[t \cup {i}]
  PROVE  Outside(q, A) \in P[S]
<1> DEFINE F == [p \in S \X G |-> (IF q[p[1]] \in A THEN p[2] ELSE Append(p[2], q[p[1]]))]
           c == [s \in SUBSET S |-> Max(s)]
           Step(h) == h = [s \in SUBSET S |-> IF s = {} THEN <<>>
                                             ELSE (IF q[Max(s)] \in A THEN h[s \ {Max(s)}] ELSE Append(h[s \ {Max(s)}], q[Max(s)]))]
           e == CHOOSE h : Step(h)
<1>0. IsFiniteSet(S) /\ S = 1 .. Len(q) /\ Len(q) \in Nat /\ \A i \in S : q[i] \in E
  BY FS_Interval
<1>1. F \in [S \X G -> G]
  BY <1>0
<1>2. \A s \in SUBSET S : s # {} => Max(s) \in s
  BY <1>0, MaxIsIn
<1>3. \A s \in SUBSET S : c[s] = Max(s)
  OBVIOUS
<1>4. \A s \in SUBSET S : s # {} => c[s] \in s
  BY <1>2, <1>3
<1>5. PICK h \in [SUBSET S -> G] : Folding(F, <<>>, c, SUBSET S, h)
  <2> HIDE DEF F, c
  <2> QED BY <1>0, <1>1, <1>4, FoldingExists
<1>6. Step(h)
  <2>1. ASSUME NEW s \in SUBSET S, s # {}
        PROVE  F[<<c[s], h[s \ {c[s]}]>>] = (IF q[Max(s)] \in A THEN h[s \ {Max(s)}] ELSE Append(h[s \ {Max(s)}], q[Max(s)]))
    <3>1. <<Max(s), h[s \ {Max(s)}]>> \in S \X G /\ c[s] = Max(s)
      BY <1>2, <1>3, <1>5, <2>1
    <3> QED BY <3>1
  <2> QED BY <1>5, <2>1 DEF Folding
<1>7. Step(e)
  BY <1>6
<1>8. Outside(q, A) = e[S]
  BY DEF Outside, FoldLeft, MapThenFoldSet
<1> HIDE DEF e
<1>9. e[{}] \in P[{}]
  BY <1>7
<1>10. ASSUME NEW s \in SUBSET S, s # {}
       PROVE  \E x \in s : e[s \ {x}] \in P[s \ {x}] => e[s] \in P[s]
  <2>1. e[s] = (IF q[Max(s)] \in A THEN e[s \ {Max(s)}] ELSE Append(e[s \ {Max(s)}], q[Max(s)]))
    BY <1>7, <1>10
  <2>2. Max(s) \in s
    BY <1>2, <1>10
  <2>3. SUFFICES ASSUME e[s \ {Max(s)}] \in P[s \ {Max(s)}] PROVE e[s] \in P[s]
    <3> HIDE DEF Step
    <3> QED BY <2>2
  <2> DEFINE t == s \ {Max(s)}
             x == Max(s)
  <2>4. t \in SUBSET S /\ x \in S \ t /\ t \cup {x} = s /\ e[t] \in P[t] /\ e[s] = (IF q[x] \in A THEN e[t] ELSE Append(e[t], q[x]))
    <3> HIDE DEF Step
    <3> QED BY <2>1, <2>2, <2>3
  <2> HIDE DEF Step, t, x
  <2>5. \A y \in P[t] : (IF q[x] \in A THEN y ELSE Append(y, q[x])) \in P[t \cup {x}]
    BY <2>4
  <2>6. (IF q[x] \in A THEN e[t] ELSE Append(e[t], q[x])) \in P[t \cup {x}]
    BY <2>4, <2>5
  <2> QED BY <2>4, <2>6
<1>11. e[S] \in P[S]
  <2> HIDE DEF Step
  <2> QED BY <1>0, <1>9, <1>10, FoldFollows
<1> QED BY <1>8, <1>11


LEMMA OutsideReturns ==
  ASSUME NEW E, NEW q \in Seq(E), NEW A
  PROVE  Outside(q, A) \in Seq(E) /\ Range(Outside(q, A)) = Range(q) \ A
<1> DEFINE K(s) == {q[j] : j \in s} \ A
           P == [s \in SUBSET (DOMAIN q) |-> {y \in Seq(E) : Range(y) = K(s)}]
           S == DOMAIN q
           G == Seq(E)
<1>1. <<>> \in G /\ \A x \in E : \A y \in G : (IF x \in A THEN y ELSE Append(y, x)) \in G
  OBVIOUS
<1>2. <<>> \in P[{}]
  BY DEF Range
<1>3. ASSUME NEW t \in SUBSET S, NEW i \in S \ t, NEW y \in P[t]
      PROVE  (IF q[i] \in A THEN y ELSE Append(y, q[i])) \in P[t \cup {i}]
  <2>1. y \in Seq(E) /\ Range(y) = K(t) /\ q[i] \in E
    BY <1>3
  <2>2. t \cup {i} \in SUBSET S
    BY <1>3
  <2>3. CASE q[i] \in A
    <3>1. K(t \cup {i}) = K(t)
      BY <2>3
    <3> QED BY <2>1, <2>2, <2>3, <3>1
  <2>4. CASE q[i] \notin A
    <3>1. K(t \cup {i}) = K(t) \cup {q[i]}
      BY <2>4
    <3> DEFINE z == Append(y, q[i])
    <3>2. z \in Seq(E) /\ DOMAIN z = DOMAIN y \cup {Len(y) + 1} /\ z[Len(y) + 1] = q[i]
          /\ \A j \in DOMAIN y : z[j] = y[j]
      BY <2>1
    <3> HIDE DEF z
    <3>3. Range(z) = Range(y) \cup {q[i]}
      BY <3>2 DEF Range
    <3> HIDE DEF K
    <3>4. z \in P[t \cup {i}]
      BY <2>1, <2>2, <3>1, <3>2, <3>3
    <3> QED BY <2>4, <3>4 DEF z
  <2> QED BY <2>3, <2>4
<1>4. Outside(q, A) \in P[S]
  <2> HIDE DEF P, G, K
  <2> QED BY <1>1, <1>2, <1>3, OutsideFollows
<1>5. Outside(q, A) \in Seq(E) /\ Range(Outside(q, A)) = K(S)
  BY <1>4
<1> QED BY <1>5 DEF Range

(* A sequence that follows another.                                        *)
LEMMA Joined ==
  ASSUME NEW E, NEW s \in Seq(E), NEW t \in Seq(E)
  PROVE  s \o t \in Seq(E) /\ Len(s \o t) = Len(s) + Len(t) /\ Range(s \o t) = Range(s) \cup Range(t)
<1>1. /\ s \o t \in Seq(E) /\ Len(s \o t) = Len(s) + Len(t)
      /\ DOMAIN (s \o t) = 1 .. Len(s) + Len(t) /\ Len(s) \in Nat /\ Len(t) \in Nat
      /\ \A i \in 1 .. Len(s) : (s \o t)[i] = s[i]
      /\ \A i \in 1 .. Len(t) : (s \o t)[Len(s) + i] = t[i]
      /\ DOMAIN s = 1 .. Len(s) /\ DOMAIN t = 1 .. Len(t)
  OBVIOUS
<1> DEFINE z == s \o t
<1>2. /\ z \in Seq(E) /\ DOMAIN z = 1 .. Len(s) + Len(t)
      /\ \A i \in 1 .. Len(s) : z[i] = s[i] /\ \A j \in 1 .. Len(t) : z[Len(s) + j] = t[j]
  BY <1>1
<1> HIDE DEF z
<1>3. ASSUME NEW i \in DOMAIN z PROVE z[i] \in Range(s) \cup Range(t)
  <2>1. CASE i <= Len(s)
    BY <1>1, <1>2, <2>1 DEF z, Range
  <2>2. CASE i > Len(s)
    <3>1. i - Len(s) \in 1 .. Len(t) /\ i = Len(s) + (i - Len(s))
      BY <1>1, <1>2, <2>2
    <3>2. z[i] = t[i - Len(s)]
      BY <1>1, <3>1 DEF z
    <3> QED BY <1>1, <3>1, <3>2 DEF Range
  <2> QED BY <1>1, <1>2, <2>1, <2>2
<1>4. \A i \in DOMAIN s : i \in DOMAIN z /\ z[i] = s[i]
  BY <1>1, <1>2 DEF z
<1>5. \A i \in DOMAIN t : Len(s) + i \in DOMAIN z /\ z[Len(s) + i] = t[i]
  BY <1>1, <1>2 DEF z
<1>6. Range(z) = Range(s) \cup Range(t)
  BY <1>3, <1>4, <1>5 DEF Range
<1> QED BY <1>1, <1>6 DEF z

LEMMA FirstAndRest ==
  ASSUME NEW E, NEW s \in Seq(E), s # <<>>
  PROVE  /\ Head(s) \in E /\ Tail(s) \in Seq(E) /\ Len(s) = 1 + Len(Tail(s))
         /\ Range(s) = {Head(s)} \cup Range(Tail(s))
<1>1. /\ Head(s) \in E /\ Tail(s) \in Seq(E) /\ Len(s) \in Nat /\ Len(s) > 0 /\ Len(Tail(s)) = Len(s) - 1
      /\ Head(s) = s[1] /\ \A i \in 1 .. Len(s) - 1 : Tail(s)[i] = s[i + 1]
      /\ DOMAIN s = 1 .. Len(s) /\ DOMAIN Tail(s) = 1 .. Len(s) - 1
  OBVIOUS
<1>2. \A i \in DOMAIN s : i = 1 \/ (i - 1 \in 1 .. Len(s) - 1 /\ Tail(s)[i - 1] = s[i])
  BY <1>1
<1>3. \A i \in 1 .. Len(s) - 1 : i + 1 \in DOMAIN s
  BY <1>1
<1> DEFINE r == Tail(s)
           a == Head(s)
<1>4. Range(s) = {a} \cup Range(r)
  <2>1. /\ s[1] = a /\ 1 \in DOMAIN s /\ DOMAIN r = 1 .. Len(s) - 1
        /\ \A i \in DOMAIN s : i = 1 \/ (i - 1 \in DOMAIN r /\ r[i - 1] = s[i])
        /\ \A i \in DOMAIN r : i + 1 \in DOMAIN s /\ r[i] = s[i + 1]
    BY <1>1, <1>2, <1>3
  <2> HIDE DEF r, a
  <2>2. \A i \in DOMAIN s : s[i] \in {a} \cup Range(r)
    BY <2>1 DEF Range
  <2>3. \A i \in DOMAIN r : r[i] \in Range(s)
    BY <2>1 DEF Range
  <2>4. a \in Range(s)
    BY <2>1 DEF Range
  <2> QED BY <2>2, <2>3, <2>4 DEF Range
<1> QED BY <1>1, <1>4

LEMMA RestFrom ==
  ASSUME NEW E, NEW s \in Seq(E), NEW n \in Nat, n <= Len(s)
  PROVE  LET u == SubSeq(s, n + 1, Len(s)) IN
         u \in Seq(E) /\ Len(u) = Len(s) - n /\ Range(u) = {s[j] : j \in n + 1 .. Len(s)}
<1> DEFINE u == SubSeq(s, n + 1, Len(s))
<1>1. /\ u \in Seq(E) /\ Len(u) = Len(s) - n /\ DOMAIN u = 1 .. Len(s) - n /\ Len(s) \in Nat
      /\ \A i \in 1 .. Len(s) - n : u[i] = s[n + i]
  OBVIOUS
<1> HIDE DEF u
<1>2. \A j \in n + 1 .. Len(s) : j - n \in 1 .. Len(s) - n /\ n + (j - n) = j
  BY <1>1
<1>3. \A i \in 1 .. Len(s) - n : n + i \in n + 1 .. Len(s)
  BY <1>1
<1>4. \A j \in n + 1 .. Len(s) : s[j] \in Range(u)
  BY <1>1, <1>2 DEF Range
<1>5. Range(u) = {s[j] : j \in n + 1 .. Len(s)}
  <2>1. \A i \in DOMAIN u : \E j \in n + 1 .. Len(s) : u[i] = s[j]
    BY <1>1, <1>3
  <2>2. \A x \in Range(u) : \E i \in DOMAIN u : x = u[i]
    BY DEF Range
  <2>3. Range(u) \subseteq {s[j] : j \in n + 1 .. Len(s)}
    BY <2>1, <2>2
  <2> QED BY <1>4, <2>3
<1> QED BY <1>1, <1>5 DEF u

(* interleave loses and repeats no address.                                *)
LEMMA InterleavedReturns ==
  ASSUME NEW E, NEW s \in Seq(E), NEW t \in Seq(E)
  PROVE  LET z == Interleaved(s, t) IN
         z \in Seq(E) /\ Len(z) = Len(s) + Len(t) /\ Range(z) = Range(s) \cup Range(t)
<1> DEFINE n == IF Len(s) < Len(t) THEN Len(s) ELSE Len(t)
           z == [i \in 1 .. 2 * n |-> IF i % 2 = 1 THEN s[(i + 1) \div 2] ELSE t[i \div 2]]
           u == SubSeq(s, n + 1, Len(s))
           v == SubSeq(t, n + 1, Len(t))
<1>1. n \in Nat /\ Len(s) \in Nat /\ Len(t) \in Nat /\ n <= Len(s) /\ n <= Len(t)
      /\ DOMAIN s = 1 .. Len(s) /\ DOMAIN t = 1 .. Len(t)
  OBVIOUS
<1> HIDE DEF n
<1>2. ASSUME NEW i \in 1 .. 2 * n
      PROVE  /\ i % 2 = 1 => (i + 1) \div 2 \in 1 .. n
             /\ i % 2 # 1 => i \div 2 \in 1 .. n
  BY <1>1
<1>3. z \in Seq(E) /\ Len(z) = 2 * n /\ DOMAIN z = 1 .. 2 * n
  <2>1. z \in [1 .. 2 * n -> E]
    BY <1>1, <1>2
  <2>2. 2 * n \in Nat
    BY <1>1
  <2> HIDE DEF z
  <2> QED BY <2>1, <2>2
<1>4. ASSUME NEW j \in 1 .. n
      PROVE  /\ 2 * j - 1 \in 1 .. 2 * n /\ z[2 * j - 1] = s[j]
             /\ 2 * j \in 1 .. 2 * n /\ z[2 * j] = t[j]
  <2>1. /\ 2 * j - 1 \in 1 .. 2 * n /\ (2 * j - 1) % 2 = 1 /\ ((2 * j - 1) + 1) \div 2 = j
        /\ 2 * j \in 1 .. 2 * n /\ (2 * j) % 2 = 0 /\ (2 * j) \div 2 = j
    BY <1>1
  <2> QED BY <2>1
<1>5. Range(z) = {s[j] : j \in 1 .. n} \cup {t[j] : j \in 1 .. n}
  <2>1. \A i \in 1 .. 2 * n : z[i] \in {s[j] : j \in 1 .. n} \cup {t[j] : j \in 1 .. n}
    BY <1>2
  <2>2. \A j \in 1 .. n : s[j] \in Range(z) /\ t[j] \in Range(z)
    <3> HIDE DEF z
    <3> QED BY <1>3, <1>4 DEF Range
  <2>3. Range(z) = {z[i] : i \in 1 .. 2 * n}
    <3> HIDE DEF z
    <3> QED BY <1>3 DEF Range
  <2> HIDE DEF z
  <2> QED BY <2>1, <2>2, <2>3
<1>6. u \in Seq(E) /\ Len(u) = Len(s) - n /\ Range(u) = {s[j] : j \in n + 1 .. Len(s)}
  BY <1>1, RestFrom
<1>7. v \in Seq(E) /\ Len(v) = Len(t) - n /\ Range(v) = {t[j] : j \in n + 1 .. Len(t)}
  BY <1>1, RestFrom
<1>8. Interleaved(s, t) = z \o u \o v
  BY DEF Interleaved, n
<1> HIDE DEF z, u, v
<1>9. z \o u \in Seq(E) /\ Len(z \o u) = Len(z) + Len(u) /\ Range(z \o u) = Range(z) \cup Range(u)
  BY <1>3, <1>6, Joined
<1> DEFINE w == z \o u
<1>10. /\ w \o v \in Seq(E) /\ Len(w \o v) = Len(w) + Len(v) /\ Range(w \o v) = Range(w) \cup Range(v)
  <2> HIDE DEF w
  <2>1. w \in Seq(E)
    BY <1>9 DEF w
  <2> QED BY <1>7, <2>1, Joined
<1>11. Len(w \o v) = Len(s) + Len(t)
  <2>1. 2 * n + (Len(s) - n) + (Len(t) - n) = Len(s) + Len(t)
    BY <1>1
  <2> QED BY <1>3, <1>6, <1>7, <1>9, <1>10, <2>1
<1>12. Range(w \o v) = Range(s) \cup Range(t)
  <2>1. \A j \in DOMAIN s : j \in 1 .. n \/ j \in n + 1 .. Len(s)
    BY <1>1
  <2>2. \A j \in DOMAIN t : j \in 1 .. n \/ j \in n + 1 .. Len(t)
    BY <1>1
  <2>3. \A j \in 1 .. n : j \in DOMAIN s /\ j \in DOMAIN t
    BY <1>1
  <2>4. (\A j \in n + 1 .. Len(s) : j \in DOMAIN s) /\ (\A j \in n + 1 .. Len(t) : j \in DOMAIN t)
    BY <1>1
  <2>5. Range(s) = {s[j] : j \in 1 .. n} \cup {s[j] : j \in n + 1 .. Len(s)}
    BY <2>1, <2>3, <2>4 DEF Range
  <2>6. Range(t) = {t[j] : j \in 1 .. n} \cup {t[j] : j \in n + 1 .. Len(t)}
    BY <2>2, <2>3, <2>4 DEF Range
  <2> QED BY <1>5, <1>6, <1>7, <1>9, <1>10, <2>5, <2>6
<1> QED BY <1>8, <1>10, <1>11, <1>12

-----------------------------------------------------------------------------
(* Everything an address of the cache can be.                              *)
AnyAddress == Candidates \cup UNION {Range(m) : m \in Remembered}

(* The coordinator.                                                        *)
ResolvingRecord ==
  [answered : SUBSET Families, got : [Families -> Seq(Candidates)], held : [Families -> Seq(Candidates)],
   released : SUBSET Families, started : BOOLEAN, timer : {"none", "armed"}, out : Seq(Candidates),
   over : BOOLEAN]

DialRecord ==
  [pending : Seq(Candidates), waiting : SUBSET Candidates, connecting : SUBSET Candidates,
   failed : SUBSET Candidates, start : {"none", "armed", "due"}, closed : BOOLEAN,
   result : {"none", "failed", "connected"}]

(* The addresses of both families: how many, and which.                    *)
LenOf(m) == Len(m["v6"]) + Len(m["v4"])
SetOf(m) == Range(m["v6"]) \cup Range(m["v4"])

(* A family has nothing before it is answered.                             *)
Answers(r) ==
  /\ r \in ResolvingRecord /\ r.released \subseteq r.answered
  /\ \A f \in Families \ r.answered : r.got[f] = <<>> /\ r.held[f] = <<>>
  /\ r.started => "v6" \in r.answered

(* What is held waits for the delay.                                       *)
Orderly(r) ==
  /\ Answers(r)
  /\ \A f \in Families : r.held[f] # <<>> => r.timer = "armed" /\ f \notin r.released

(* What is to be sent and what is held, together.                          *)
Tally(r, n, S) == Len(r.out) + LenOf(r.held) = n /\ Range(r.out) \cup SetOf(r.held) = S

(* No family waits.                                                        *)
NothingHeld(r) == \A f \in Families : r.held[f] = <<>>

(* What was offered and what is held make up what was resolved.            *)
CoordinatorInv ==
  /\ Orderly(resolving) /\ resolving.out = <<>> /\ offered \in Seq(Candidates)
  /\ resolving.over => NothingHeld(resolving)
  /\ strategy[1] # "default" => resolving.timer = "none"
  /\ strategy[1] # "list" =>
       /\ Len(offered) + LenOf(resolving.held) = LenOf(resolving.got)
       /\ Range(offered) \cup SetOf(resolving.held) = SetOf(resolving.got)

(* The candidates the dialer knows of.                                     *)
Seen(d) == Range(d.pending) \cup d.waiting \cup d.connecting \cup d.failed
Unoccupied(d) == d.pending = <<>> /\ d.waiting = {} /\ d.connecting = {}

(* Before the deadline each offered candidate is in the channel, pending,  *)
(* attempted or has failed; the dialer sees the end of its source only     *)
(* once the channel is empty.                                              *)
DialerInv ==
  /\ dial \in DialRecord /\ channel \in [queue : Seq(Candidates), closed : BOOLEAN]
  /\ late \in BOOLEAN /\ remembered \in Seq(AnyAddress)
  /\ channel.closed => resolving.over
  /\ ~late =>
       /\ dial.result # "connected" => Range(offered) = Range(channel.queue) \cup Seen(dial)
       /\ dial.closed => channel.queue = <<>> /\ resolving.over
       /\ dial.result = "failed" => dial.closed /\ Unoccupied(dial)

(* The inductive invariant.                                                *)
EyeballsInv == CoordinatorInv /\ DialerInv

(* reorder_candidates gives back the addresses it got.                     *)
LEMMA PrioritizedReturns ==
  ASSUME NEW s \in Seq(Candidates), remembered \in Seq(AnyAddress)
  PROVE  Prioritized(s) \in Seq(Candidates) /\ Range(Prioritized(s)) = Range(s)
<1> DEFINE M == Range(remembered)
           x == Outside(remembered, M \ Range(s))
           y == Outside(s, M)
<1>1. Range(s) \subseteq Candidates
  BY DEF Range
<1>2. x \in Seq(AnyAddress) /\ Range(x) = M \ (M \ Range(s))
  BY OutsideReturns
<1>3. y \in Seq(Candidates) /\ Range(y) = Range(s) \ M
  BY OutsideReturns
<1>4. Prioritized(s) = x \o y
  BY DEF Prioritized
<1> HIDE DEF x, y, M
<1>5. x \in Seq(Candidates)
  <2>1. \A i \in DOMAIN x : x[i] \in Candidates
    BY <1>1, <1>2 DEF Range
  <2> QED BY <1>2, <2>1
<1>6. x \o y \in Seq(Candidates) /\ Range(x \o y) = Range(x) \cup Range(y)
  BY <1>3, <1>5, Joined
<1> QED BY <1>2, <1>3, <1>4, <1>6

(* The address that connected comes first in the cache.                    *)
LEMMA RememberTyped ==
  ASSUME NEW a \in Candidates, remembered \in Seq(AnyAddress)
  PROVE  Remember(a) \in Seq(AnyAddress)
<1>1. Outside(remembered, {a}) \in Seq(AnyAddress)
  BY OutsideReturns
<1>2. <<a>> \in Seq(AnyAddress)
  BY DEF AnyAddress
<1> QED BY <1>1, <1>2, Joined DEF Remember

(* An answer is a prefix of the addresses of its family.                   *)
LEMMA AddressesTyped ==
  ASSUME NEW f \in Families, NEW n \in 0 .. Len(Addresses[f])
  PROVE  SubSeq(Addresses[f], 1, n) \in Seq(Candidates)
<1>1. Addresses[f] \in Seq(Candidates)
  <2>1. Addresses[f] \in Seq(Range(Addresses[f])) /\ Range(Addresses[f]) \subseteq Candidates
    BY DialInputs DEF Families, Candidates
  <2> QED BY <2>1
<1> QED BY <1>1

(* The empty sequence.                                                     *)
LEMMA EmptySequence == \A E : <<>> \in Seq(E) /\ Len(<<>>) = 0 /\ Range(<<>>) = {}
BY DEF Range

(* A release sends all that is held.                                       *)
LEMMA ReleaseSends ==
  ASSUME NEW r, Answers(r), NEW n, NEW S, Tally(r, n, S), NEW s \in Seq(Candidates),
         Len(s) = LenOf(r.held), Range(s) = SetOf(r.held),
         NEW F \in SUBSET Families, F \subseteq r.answered, \A f \in Families \ F : r.held[f] = <<>>
  PROVE  LET a == Release(r, s, F) IN
         /\ Orderly(a) /\ NothingHeld(a) /\ Tally(a, n, S)
         /\ a.got = r.got /\ a.answered = r.answered /\ a.timer = "none"
<1> DEFINE a == Release(r, s, F)
           h == [f \in Families |-> IF f \in F THEN <<>> ELSE r.held[f]]
           o == r.out \o s
<1>1. r \in ResolvingRecord /\ "v6" \in Families /\ "v4" \in Families
  BY DEF Answers, Families
<1>2. h \in [Families -> Seq(Candidates)] /\ \A f \in Families : h[f] = <<>>
  BY <1>1, EmptySequence
<1>3. o \in Seq(Candidates) /\ Len(o) = Len(r.out) + Len(s) /\ Range(o) = Range(r.out) \cup Range(s)
  <2>1. r.out \in Seq(Candidates)
    BY <1>1 DEF ResolvingRecord
  <2> QED BY <2>1, Joined
<1>4. a = [r EXCEPT !.released = r.released \cup F, !.held = h, !.timer = "none", !.out = o]
  BY <1>1 DEF Release, ResolvingRecord
<1> HIDE DEF a, h, o
<1>5. /\ a \in ResolvingRecord /\ a.released = r.released \cup F /\ a.held = h /\ a.timer = "none" /\ a.out = o
      /\ a.got = r.got /\ a.answered = r.answered /\ a.started = r.started
  BY <1>1, <1>2, <1>3, <1>4 DEF ResolvingRecord
<1>6. NothingHeld(a)
  BY <1>2, <1>5 DEF NothingHeld
<1>7. Answers(a)
  BY <1>5, <1>6 DEF Answers, NothingHeld
<1>8. Orderly(a)
  BY <1>6, <1>7 DEF Orderly, NothingHeld
<1>9. LenOf(a.held) = 0 /\ SetOf(a.held) = {}
  BY <1>1, <1>2, <1>5, EmptySequence DEF LenOf, SetOf
<1>10. Tally(a, n, S)
  <2>1. Len(o) \in Nat /\ Len(r.out) \in Nat /\ Len(s) \in Nat
    BY <1>1, <1>3 DEF ResolvingRecord
  <2>2. Len(a.out) + LenOf(a.held) = n
    BY <1>3, <1>5, <1>9, <2>1 DEF Tally
  <2>3. Range(a.out) \cup SetOf(a.held) = S
    BY <1>3, <1>5, <1>9 DEF Tally
  <2> QED BY <2>2, <2>3 DEF Tally
<1> QED BY <1>5, <1>6, <1>8, <1>10 DEF a

(* A family that waited for the one just released is sent too.             *)
LEMMA SettleSends ==
  ASSUME NEW r, Orderly(r), NEW n, NEW S, Tally(r, n, S), NEW f \in Families
  PROVE  LET a == Settle(r, f) IN Orderly(a) /\ Tally(a, n, S) /\ a.got = r.got /\ a.answered = r.answered
<1> DEFINE o == Other(f)
           s == r.held[o]
           a == Settle(r, f)
<1>1. CASE ~(f \in r.released /\ o \notin r.released /\ o \in r.answered)
  BY <1>1 DEF Settle
<1>2. CASE f \in r.released /\ o \notin r.released /\ o \in r.answered
  <2>1. o \in Families /\ Families = {f, o} /\ f # o
    BY DEF Families, Other
  <2>2. r.held[f] = <<>> /\ r \in ResolvingRecord /\ Answers(r)
    BY <1>2 DEF Orderly, Answers
  <2>3. s \in Seq(Candidates) /\ Len(s) \in Nat
    BY <2>1, <2>2 DEF ResolvingRecord
  <2>4. Len(s) = LenOf(r.held) /\ Range(s) = SetOf(r.held)
    <3>1. (f = "v6" /\ o = "v4") \/ (f = "v4" /\ o = "v6")
      BY DEF Families, Other
    <3>2. Len(r.held[f]) = 0 /\ Range(r.held[f]) = {}
      BY <2>2, EmptySequence
    <3>3. LenOf(r.held) = Len(r.held[f]) + Len(s) /\ SetOf(r.held) = Range(r.held[f]) \cup Range(s)
      <4>1. Len(r.held[f]) \in Nat
        BY <3>2
      <4>2. CASE f = "v6" /\ o = "v4"
        BY <4>2 DEF LenOf, SetOf
      <4>3. CASE f = "v4" /\ o = "v6"
        <5>1. LenOf(r.held) = Len(s) + Len(r.held[f]) /\ SetOf(r.held) = Range(s) \cup Range(r.held[f])
          BY <4>3 DEF LenOf, SetOf
        <5> HIDE DEF s
        <5> QED BY <2>3, <4>1, <5>1
      <4> QED BY <3>1, <4>2, <4>3
    <3> HIDE DEF s
    <3> QED BY <2>3, <3>2, <3>3
  <2>5. a = Release(r, s, {o})
    BY <1>2 DEF Settle
  <2>6. {o} \in SUBSET Families /\ {o} \subseteq r.answered /\ \A x \in Families \ {o} : r.held[x] = <<>>
    BY <1>2, <2>1, <2>2
  <2> HIDE DEF s, o, a
  <2>7. Orderly(a) /\ Tally(a, n, S) /\ a.got = r.got /\ a.answered = r.answered
    BY <2>2, <2>3, <2>4, <2>5, <2>6, ReleaseSends
  <2> QED BY <2>7 DEF a
<1> QED BY <1>1, <1>2

(* Sums of lengths.                                                        *)
LEMMA Commutes == \A a \in Nat, b \in Nat : a + b \in Nat /\ a + b = b + a /\ a + 0 = a /\ 0 + a = a
OBVIOUS

(* The two families of a map, in either order.                             *)
LEMMA BothFamilies ==
  ASSUME NEW f \in Families, NEW m \in [Families -> Seq(Candidates)]
  PROVE  /\ Len(m[f]) \in Nat /\ Len(m[Other(f)]) \in Nat /\ LenOf(m) \in Nat
         /\ LenOf(m) = Len(m[f]) + Len(m[Other(f)])
         /\ SetOf(m) = Range(m[f]) \cup Range(m[Other(f)])
<1>1. m["v6"] \in Seq(Candidates) /\ m["v4"] \in Seq(Candidates)
  BY DEF Families
<1>2. Len(m["v6"]) \in Nat /\ Len(m["v4"]) \in Nat
  BY <1>1
<1>3. LenOf(m) \in Nat /\ LenOf(m) = Len(m["v6"]) + Len(m["v4"]) /\ LenOf(m) = Len(m["v4"]) + Len(m["v6"])
  <2>1. LenOf(m) = Len(m["v6"]) + Len(m["v4"])
    BY DEF LenOf
  <2> QED BY <1>2, <2>1, Commutes
<1>4. SetOf(m) = Range(m["v6"]) \cup Range(m["v4"])
  BY DEF SetOf
<1>5. (f = "v6" /\ Other(f) = "v4") \/ (f = "v4" /\ Other(f) = "v6")
  BY DEF Families, Other
<1> QED BY <1>2, <1>3, <1>4, <1>5

(* A family is answered: what it brings is sent or held.                   *)
LEMMA DefaultSends ==
  ASSUME NEW r, Orderly(r), r.out = <<>>, NEW f \in Families, f \notin r.answered,
         NEW s \in Seq(Candidates)
  PROVE  LET d == DefaultResolved([r EXCEPT !.got[f] = s], f, s) IN
         /\ Orderly(d) /\ d.answered = r.answered \cup {f} /\ d.got = [r.got EXCEPT ![f] = s]
         /\ Tally(d, LenOf(r.held) + Len(s), SetOf(r.held) \cup Range(s))
<1> DEFINE g == [r EXCEPT !.got[f] = s]
           x == [g EXCEPT !.answered = @ \cup {f}, !.held[f] = s]
           n == LenOf(r.held) + Len(s)
           S == SetOf(r.held) \cup Range(s)
           G == [r.got EXCEPT ![f] = s]
           H == [r.held EXCEPT ![f] = s]
           o == Other(f)
           both == Interleaved(x.held["v6"], x.held["v4"])
           waits == [x EXCEPT !.timer = "armed"]
           first == [waits EXCEPT !.started = TRUE, !.held["v6"] = Tail(s), !.out = @ \o <<Head(s)>>]
           y == IF s = <<>> THEN [x EXCEPT !.released = @ \cup {f}]
                ELSE IF f = "v6"
                THEN IF x.held["v4"] # <<>> THEN Release(x, both, Families) ELSE first
                ELSE IF x.held["v6"] # <<>> \/ x.started THEN Release(x, both, Families)
                ELSE IF "v6" \in x.answered THEN Release(x, s, {"v4"})
                ELSE waits
<1>1. DefaultResolved(g, f, s) = Settle(y, f)
  BY DEF DefaultResolved
<1>2. /\ r \in ResolvingRecord /\ r.got \in [Families -> Seq(Candidates)] /\ r.held \in [Families -> Seq(Candidates)]
      /\ r.released \subseteq r.answered /\ f \notin r.released /\ r.held[f] = <<>>
      /\ "v6" \in Families /\ "v4" \in Families /\ Families = {f, o} /\ o # f /\ o \in Families
  BY DEF Orderly, Answers, ResolvingRecord, Families, Other
<1>3. /\ x \in ResolvingRecord /\ x.answered = r.answered \cup {f} /\ x.held = H /\ x.got = G
      /\ x.released = r.released /\ x.started = r.started /\ x.timer = r.timer /\ x.out = <<>>
  <2>1. G \in [Families -> Seq(Candidates)] /\ H \in [Families -> Seq(Candidates)]
    BY <1>2
  <2>2. g = [r EXCEPT !.got = G] /\ x = [r EXCEPT !.got = G, !.answered = r.answered \cup {f}, !.held = H]
    BY <1>2 DEF ResolvingRecord
  <2> HIDE DEF x, G, H
  <2> QED BY <1>2, <2>1, <2>2 DEF ResolvingRecord
<1>4. H[f] = s /\ H[o] = r.held[o] /\ G[f] = s /\ G[o] = r.got[o] /\ H \in [Families -> Seq(Candidates)]
  BY <1>2
<1> HIDE DEF g, x, G, H
<1>5. (f = "v6" /\ o = "v4") \/ (f = "v4" /\ o = "v6")
  BY DEF Families, Other
<1>6. LenOf(H) = n /\ SetOf(H) = S /\ n \in Nat
  <2>1. Len(r.held[f]) = 0 /\ Range(r.held[f]) = {} /\ Len(s) \in Nat
    BY <1>2, EmptySequence
  <2>2. Len(r.held[o]) \in Nat /\ LenOf(r.held) = 0 + Len(r.held[o]) /\ SetOf(r.held) = {} \cup Range(r.held[o])
    BY <1>2, <2>1, BothFamilies
  <2>3. LenOf(H) = Len(s) + Len(r.held[o]) /\ SetOf(H) = Range(s) \cup Range(r.held[o]) /\ LenOf(H) \in Nat
    BY <1>4, BothFamilies
  <2>4. LenOf(H) = LenOf(r.held) + Len(s)
    BY <2>1, <2>2, <2>3, Commutes
  <2>5. SetOf(H) = SetOf(r.held) \cup Range(s)
    BY <2>2, <2>3
  <2> QED BY <2>3, <2>4, <2>5
<1>7. Answers(x)
  <2>1. \A h \in Families \ x.answered : h = o /\ h \notin r.answered
    BY <1>2, <1>3
  <2>2. o \notin r.answered => r.got[o] = <<>> /\ r.held[o] = <<>>
    BY <1>2 DEF Orderly, Answers
  <2>3. r.started => "v6" \in r.answered
    BY DEF Orderly, Answers
  <2> QED BY <1>2, <1>3, <1>4, <2>1, <2>2, <2>3 DEF Answers
<1> HIDE DEF n, S
<1>8. Tally(x, n, S)
  <2>1. Len(x.out) = 0 /\ Range(x.out) = {} /\ x.held = H
    BY <1>3, EmptySequence
  <2>2. 0 + LenOf(H) = n
    BY <1>6, Commutes
  <2> QED BY <1>6, <2>1, <2>2 DEF Tally
<1>9. r.held[o] # <<>> => o \in r.answered /\ r.timer = "armed" /\ o \notin r.released
  BY <1>2 DEF Orderly, Answers
<1>16. o \in r.answered => x.answered = Families
  <2>1. r.answered \subseteq Families /\ Families \subseteq {f, o}
    BY <1>2 DEF ResolvingRecord
  <2> DEFINE A == r.answered
  <2>2. A \subseteq Families /\ x.answered = A \cup {f}
    BY <1>3, <2>1
  <2> HIDE DEF A
  <2>3. ASSUME o \in A PROVE A \cup {f} = Families
    BY <2>1, <2>2, <2>3
  <2> QED BY <2>2, <2>3 DEF A
<1>10. ASSUME NEW F \in SUBSET Families, F \subseteq x.answered, \A h \in Families \ F : x.held[h] = <<>>,
              NEW z \in Seq(Candidates), Len(z) = LenOf(x.held), Range(z) = SetOf(x.held)
       PROVE  LET a == Release(x, z, F) IN
              Orderly(a) /\ Tally(a, n, S) /\ a.got = G /\ a.answered = x.answered
  BY <1>3, <1>7, <1>8, <1>10, ReleaseSends
<1>11. both \in Seq(Candidates) /\ Len(both) = LenOf(x.held) /\ Range(both) = SetOf(x.held)
  <2>1. x.held["v6"] \in Seq(Candidates) /\ x.held["v4"] \in Seq(Candidates)
    BY <1>2, <1>3, <1>4
  <2>2. /\ both \in Seq(Candidates) /\ Len(both) = Len(x.held["v6"]) + Len(x.held["v4"])
        /\ Range(both) = Range(x.held["v6"]) \cup Range(x.held["v4"])
    <3> DEFINE p == x.held["v6"]
               q == x.held["v4"]
    <3>1. p \in Seq(Candidates) /\ q \in Seq(Candidates) /\ both = Interleaved(p, q)
      BY <2>1
    <3> HIDE DEF p, q, both
    <3>2. both \in Seq(Candidates) /\ Len(both) = Len(p) + Len(q) /\ Range(both) = Range(p) \cup Range(q)
      BY <3>1, InterleavedReturns
    <3> QED BY <3>2 DEF p, q
  <2> HIDE DEF both
  <2> QED BY <2>2 DEF LenOf, SetOf
<1> HIDE DEF both
<1>12. x.answered = Families =>
         LET a == Release(x, both, Families) IN
         Orderly(a) /\ Tally(a, n, S) /\ a.got = G /\ a.answered = x.answered
  BY <1>10, <1>11
<1>13. Orderly(y) /\ Tally(y, n, S) /\ y.got = G /\ y.answered = x.answered
  <2>1. CASE s = <<>>
    <3> DEFINE a == [x EXCEPT !.released = @ \cup {f}]
    <3>1. /\ a \in ResolvingRecord /\ a.answered = x.answered /\ a.held = H /\ a.got = G /\ a.out = x.out
          /\ a.released = r.released \cup {f} /\ a.started = r.started /\ a.timer = r.timer
      BY <1>2, <1>3 DEF ResolvingRecord
    <3>2. y = a
      BY <2>1
    <3> HIDE DEF a, y
    <3>3. Answers(a)
      BY <1>3, <1>7, <3>1 DEF Answers
    <3>4. \A h \in Families : a.held[h] # <<>> => a.timer = "armed" /\ h \notin a.released
      BY <1>2, <1>4, <1>9, <2>1, <3>1
    <3>5. Tally(a, n, S)
      BY <1>3, <1>8, <3>1 DEF Tally
    <3> QED BY <3>1, <3>2, <3>3, <3>4, <3>5 DEF Orderly
  <2>2. CASE s # <<>> /\ f = "v6" /\ x.held["v4"] # <<>>
    <3>1. x.answered = Families
      <4>1. o = "v4" /\ r.held[o] # <<>>
        BY <1>3, <1>4, <1>5, <2>2
      <4> QED BY <1>9, <1>16, <4>1
    <3>2. y = Release(x, both, Families)
      BY <2>2
    <3> HIDE DEF y
    <3> QED BY <1>12, <3>1, <3>2
  <2>3. CASE s # <<>> /\ f = "v6" /\ x.held["v4"] = <<>>
    <3> DEFINE t == Tail(s)
               z == <<Head(s)>>
               K == [H EXCEPT !["v6"] = t]
    <3>1. /\ t \in Seq(Candidates) /\ z \in Seq(Candidates) /\ Len(s) = 1 + Len(t) /\ Len(z) = 1
          /\ Range(s) = Range(z) \cup Range(t)
      <4>1. /\ Head(s) \in Candidates /\ t \in Seq(Candidates) /\ Len(s) = 1 + Len(t)
            /\ Range(s) = {Head(s)} \cup Range(t)
        BY <2>3, FirstAndRest
      <4>2. Range(z) = {Head(s)} /\ Len(z) = 1 /\ z \in Seq(Candidates)
        BY <4>1 DEF Range
      <4> QED BY <4>1, <4>2
    <3>2. <<>> \o z = z
      BY <3>1
    <3>3. K \in [Families -> Seq(Candidates)] /\ K["v6"] = t /\ K["v4"] = H["v4"]
      BY <1>2, <1>4, <3>1
    <3> HIDE DEF t, z, K
    <3>4. y = [x EXCEPT !.timer = "armed", !.started = TRUE, !.held = K, !.out = z]
      <4>1. y = first
        BY <2>3
      <4>2. first = [x EXCEPT !.timer = "armed", !.started = TRUE, !.held = K, !.out = z]
        <5> HIDE DEF y
        <5> QED BY <1>3, <3>2 DEF ResolvingRecord, t, z, K
      <4> QED BY <4>1, <4>2
    <3> HIDE DEF y
    <3>5. /\ y \in ResolvingRecord /\ y.answered = x.answered /\ y.got = G /\ y.held = K /\ y.out = z
          /\ y.timer = "armed" /\ y.started = TRUE /\ y.released = r.released
      BY <1>3, <3>1, <3>3, <3>4 DEF ResolvingRecord
    <3>6. H["v4"] = <<>> /\ H["v6"] = s
      BY <1>3, <1>4, <2>3
    <3>7. Answers(y)
      BY <1>3, <1>7, <2>3, <3>3, <3>5, <3>6 DEF Answers, Families
    <3>8. \A h \in Families : y.held[h] # <<>> => y.timer = "armed" /\ h \notin y.released
      BY <1>2, <2>3, <3>3, <3>5, <3>6 DEF Families
    <3>9. Tally(y, n, S)
      <4>1. Len(<<>>) = 0 /\ Range(<<>>) = {} /\ Len(t) \in Nat /\ Len(s) \in Nat
        BY <3>1, EmptySequence
      <4>2. n = Len(s) /\ S = Range(s)
        <5>1. LenOf(H) = Len(s) + 0 /\ SetOf(H) = Range(s) \cup {}
          BY <3>6, <4>1 DEF LenOf, SetOf
        <5> QED BY <1>6, <4>1, <5>1, Commutes
      <4>3. LenOf(K) = Len(t) /\ SetOf(K) = Range(t)
        BY <3>3, <3>6, <4>1 DEF LenOf, SetOf
      <4>4. Len(z) + LenOf(K) = n
        BY <3>1, <4>1, <4>2, <4>3
      <4>5. Range(z) \cup SetOf(K) = S
        BY <3>1, <4>2, <4>3
      <4> QED BY <3>5, <4>4, <4>5 DEF Tally
    <3> QED BY <3>5, <3>7, <3>8, <3>9 DEF Orderly
  <2>4. CASE s # <<>> /\ f = "v4" /\ (x.held["v6"] # <<>> \/ x.started)
    <3>1. x.started => "v6" \in x.answered
      BY <1>7 DEF Answers
    <3>2. x.answered = Families
      <4>1. o = "v6" /\ (r.held[o] # <<>> \/ r.started)
        BY <1>3, <1>4, <1>5, <2>4
      <4>2. r.started => "v6" \in r.answered
        BY DEF Orderly, Answers
      <4> QED BY <1>9, <1>16, <4>1, <4>2
    <3>3. y = Release(x, both, Families)
      BY <2>4
    <3> HIDE DEF y
    <3> QED BY <1>12, <3>2, <3>3
  <2>5. CASE s # <<>> /\ f = "v4" /\ ~(x.held["v6"] # <<>> \/ x.started) /\ "v6" \in x.answered
    <3>1. H["v6"] = <<>> /\ H["v4"] = s
      BY <1>3, <1>4, <2>5
    <3>2. Len(s) = LenOf(x.held) /\ Range(s) = SetOf(x.held)
      <4>1. Len(<<>>) = 0 /\ Range(<<>>) = {} /\ Len(s) \in Nat
        BY EmptySequence
      <4> QED BY <1>3, <3>1, <4>1 DEF LenOf, SetOf
    <3>3. {"v4"} \in SUBSET Families /\ {"v4"} \subseteq x.answered /\ \A h \in Families \ {"v4"} : x.held[h] = <<>>
      BY <1>2, <1>3, <2>5, <3>1 DEF Families
    <3>4. y = Release(x, s, {"v4"})
      BY <2>5
    <3> HIDE DEF y
    <3> QED BY <1>10, <3>2, <3>3, <3>4
  <2>6. CASE s # <<>> /\ f = "v4" /\ ~(x.held["v6"] # <<>> \/ x.started) /\ "v6" \notin x.answered
    <3>1. y = waits
      BY <2>6
    <3>2. /\ waits \in ResolvingRecord /\ waits.answered = x.answered /\ waits.held = H /\ waits.got = G
          /\ waits.released = r.released /\ waits.started = r.started /\ waits.timer = "armed"
          /\ waits.out = x.out
      BY <1>3 DEF ResolvingRecord
    <3> HIDE DEF y, waits
    <3>3. Answers(y)
      BY <1>3, <1>7, <3>1, <3>2 DEF Answers
    <3>4. \A h \in Families : y.held[h] # <<>> => y.timer = "armed" /\ h \notin y.released
      BY <1>2, <1>4, <1>9, <2>6, <3>1, <3>2
    <3>5. Tally(y, n, S)
      BY <1>3, <1>8, <3>1, <3>2 DEF Tally
    <3> QED BY <3>1, <3>2, <3>3, <3>4, <3>5 DEF Orderly
  <2> QED BY <1>5, <2>1, <2>2, <2>3, <2>4, <2>5, <2>6
<1> HIDE DEF y
<1> DEFINE d == Settle(y, f)
<1>14. Orderly(d) /\ Tally(d, n, S) /\ d.got = y.got /\ d.answered = y.answered
  BY <1>13, SettleSends
<1> HIDE DEF d
<1>15. d = DefaultResolved(g, f, s)
  BY <1>1 DEF d
<1>17. /\ Orderly(d) /\ d.answered = r.answered \cup {f} /\ d.got = [r.got EXCEPT ![f] = s]
       /\ Tally(d, LenOf(r.held) + Len(s), SetOf(r.held) \cup Range(s))
  BY <1>3, <1>13, <1>14 DEF n, S, G
<1> QED BY <1>15, <1>17 DEF g

(* A family that had nothing is given some.                                *)
LEMMA FamilyFilled ==
  ASSUME NEW f \in Families, NEW m \in [Families -> Seq(Candidates)], m[f] = <<>>,
         NEW h \in [Families -> Seq(Candidates)], h[Other(f)] = m[Other(f)]
  PROVE  LenOf(h) = LenOf(m) + Len(h[f]) /\ SetOf(h) = SetOf(m) \cup Range(h[f])
<1> DEFINE a == m[Other(f)]
           s == h[f]
<1>1. Len(m[f]) = 0 /\ Range(m[f]) = {} /\ Len(s) \in Nat
  BY EmptySequence
<1>2. Len(a) \in Nat /\ LenOf(m) = 0 + Len(a) /\ SetOf(m) = {} \cup Range(a)
  BY <1>1, BothFamilies
<1>3. LenOf(h) = Len(s) + Len(a) /\ SetOf(h) = Range(s) \cup Range(a)
  BY BothFamilies
<1> HIDE DEF a, s
<1>4. LenOf(h) = LenOf(m) + Len(s)
  BY <1>1, <1>2, <1>3, Commutes
<1>5. SetOf(h) = SetOf(m) \cup Range(s)
  BY <1>2, <1>3
<1> QED BY <1>4, <1>5 DEF s

(* The delay sends all that is held.                                       *)
LEMMA DelaySends ==
  ASSUME NEW r, Orderly(r), r.out = <<>>
  PROVE  LET d == DefaultReleased(r) IN
         Orderly(d) /\ NothingHeld(d) /\ Tally(d, LenOf(r.held), SetOf(r.held)) /\ d.got = r.got
<1> DEFINE F == {f \in Families \ r.released : r.held[f] # <<>>}
           s == r.held["v6"] \o r.held["v4"]
           d == Release(r, s, F)
           n == LenOf(r.held)
           S == SetOf(r.held)
<1>1. DefaultReleased(r) = d
  BY DEF DefaultReleased
<1>2. Answers(r) /\ r \in ResolvingRecord /\ r.held \in [Families -> Seq(Candidates)]
  BY DEF Orderly, Answers, ResolvingRecord
<1>3. F \in SUBSET Families /\ F \subseteq r.answered /\ \A f \in Families \ F : r.held[f] = <<>>
  <2>1. \A f \in Families : r.held[f] # <<>> => f \in r.answered /\ f \notin r.released
    BY DEF Orderly, Answers
  <2> QED BY <2>1
<1>4. s \in Seq(Candidates) /\ Len(s) = n /\ Range(s) = S
  <2> DEFINE p == r.held["v6"]
             q == r.held["v4"]
  <2>1. p \in Seq(Candidates) /\ q \in Seq(Candidates)
    BY <1>2 DEF Families
  <2>2. LenOf(r.held) = Len(p) + Len(q) /\ SetOf(r.held) = Range(p) \cup Range(q)
    BY DEF LenOf, SetOf
  <2> HIDE DEF p, q
  <2>3. p \o q \in Seq(Candidates) /\ Len(p \o q) = Len(p) + Len(q) /\ Range(p \o q) = Range(p) \cup Range(q)
    BY <2>1, Joined
  <2> QED BY <2>2, <2>3 DEF p, q
<1>5. Tally(r, n, S)
  <2>1. n \in Nat /\ Len(r.out) = 0 /\ Range(r.out) = {}
    BY <1>2, BothFamilies, EmptySequence DEF Families
  <2>2. 0 + n = n
    BY <2>1, Commutes
  <2> HIDE DEF n, S
  <2>3. LenOf(r.held) = n /\ SetOf(r.held) = S
    BY DEF n, S
  <2> QED BY <2>1, <2>2, <2>3 DEF Tally
<1> HIDE DEF F, s
<1>6. Orderly(d) /\ NothingHeld(d) /\ Tally(d, n, S) /\ d.got = r.got
  BY <1>2, <1>3, <1>4, <1>5, ReleaseSends
<1> QED BY <1>1, <1>6

(* Without a delay nothing is held; what is resolved is sent.              *)
LEMMA SingleSends ==
  ASSUME NEW r, Orderly(r), r.timer = "none", NEW f \in Families, f \notin r.answered,
         NEW d \in ResolvingRecord, d.answered = r.answered \cup {f}, d.held = r.held, d.timer = r.timer,
         d.released = r.released, d.started = r.started, \A h \in Families \ {f} : d.got[h] = r.got[h]
  PROVE  Orderly(d) /\ NothingHeld(d) /\ Tally(d, Len(d.out), Range(d.out))
<1>1. r \in ResolvingRecord /\ Answers(r)
  BY DEF Orderly, Answers
<1>2. \A h \in Families : r.held[h] = <<>>
  BY DEF Orderly
<1>3. Answers(d)
  BY <1>1, <1>2 DEF Answers
<1>4. NothingHeld(d) /\ Orderly(d)
  BY <1>2, <1>3 DEF NothingHeld, Orderly
<1>5. Tally(d, Len(d.out), Range(d.out))
  <2>1. LenOf(r.held) = 0 /\ SetOf(r.held) = {}
    <3>1. r.held["v6"] = <<>> /\ r.held["v4"] = <<>>
      BY <1>2 DEF Families
    <3>2. LenOf(r.held) = 0 + 0 /\ SetOf(r.held) = {} \cup {}
      BY <3>1, EmptySequence DEF LenOf, SetOf
    <3> QED BY <3>2
  <2>2. Len(d.out) \in Nat
    BY DEF ResolvingRecord
  <2>3. Len(d.out) + 0 = Len(d.out)
    BY <2>2, Commutes
  <2> QED BY <2>1, <2>3 DEF Tally
<1> QED BY <1>4, <1>5

(* The task ends with nothing held back.                                   *)
LEMMA OverHoldsNothing ==
  ASSUME NEW d, Orderly(d), DefaultOver(d)
  PROVE  NothingHeld(d)
BY DEF Orderly, DefaultOver, NothingHeld

(* What the task sends is counted once, by the dialer and in the history.  *)
LEMMA SendKeeps ==
  ASSUME EyeballsInv, Resolving, strategy[1] # "list", NEW d, Orderly(d), NEW over \in BOOLEAN,
         over => NothingHeld(d), strategy[1] # "default" => d.timer = "none",
         NEW n \in Nat, NEW S, Tally(d, n, S), Len(offered) + n = LenOf(d.got), Range(offered) \cup S = SetOf(d.got),
         Send(d, over), UNCHANGED <<strategy, fate, dial, late, remembered>>
  PROVE  EyeballsInv'
<1> DEFINE e == [d EXCEPT !.out = <<>>, !.over = over]
           q == channel.queue
<1>1. d \in ResolvingRecord /\ d.out \in Seq(Candidates) /\ Answers(d) /\ d.held \in [Families -> Seq(Candidates)]
  BY DEF Orderly, Answers, ResolvingRecord
<1>2. /\ e \in ResolvingRecord /\ e.answered = d.answered /\ e.got = d.got /\ e.held = d.held
      /\ e.released = d.released /\ e.started = d.started /\ e.timer = d.timer /\ e.out = <<>> /\ e.over = over
  BY <1>1, EmptySequence DEF ResolvingRecord
<1>3. resolving' = e /\ offered' = offered \o d.out /\ channel' = [queue |-> q \o d.out, closed |-> over]
  BY DEF Send
<1> HIDE DEF e, q
<1>4. offered \in Seq(Candidates) /\ q \in Seq(Candidates)
  BY DEF EyeballsInv, CoordinatorInv, DialerInv, q
<1>5. /\ offered' \in Seq(Candidates) /\ Len(offered') = Len(offered) + Len(d.out)
      /\ Range(offered') = Range(offered) \cup Range(d.out)
  BY <1>1, <1>3, <1>4, Joined
<1>6. q \o d.out \in Seq(Candidates) /\ Range(q \o d.out) = Range(q) \cup Range(d.out)
  BY <1>1, <1>4, Joined
<1>7. Orderly(e) /\ (over => NothingHeld(e))
  BY <1>1, <1>2 DEF Orderly, Answers, NothingHeld
<1>8. Len(offered') + LenOf(e.held) = LenOf(e.got) /\ Range(offered') \cup SetOf(e.held) = SetOf(e.got)
  <2>1. Len(d.out) \in Nat /\ Len(offered) \in Nat /\ LenOf(d.held) \in Nat
    <3>1. "v6" \in Families
      BY DEF Families
    <3>2. LenOf(d.held) \in Nat
      BY <1>1, <3>1, BothFamilies
    <3>3. Len(d.out) \in Nat
      BY <1>1
    <3>4. Len(offered) \in Nat
      BY <1>4
    <3> QED BY <3>2, <3>3, <3>4
  <2>2. \A a \in Nat, b \in Nat, c \in Nat : (a + b) + c = a + (b + c)
    OBVIOUS
  <2>3. (Len(offered) + Len(d.out)) + LenOf(d.held) = LenOf(d.got)
    BY <2>1, <2>2 DEF Tally
  <2>4. (Range(offered) \cup Range(d.out)) \cup SetOf(d.held) = SetOf(d.got)
    BY DEF Tally
  <2> QED BY <1>2, <1>5, <2>3, <2>4
<1>9. CoordinatorInv'
  BY <1>2, <1>3, <1>5, <1>7, <1>8 DEF CoordinatorInv
<1>10. channel' \in [queue : Seq(Candidates), closed : BOOLEAN] /\ channel'.queue = q \o d.out /\ channel'.closed = over
  BY <1>3, <1>6
<1>11. DialerInv'
  <2>1. dial \in DialRecord /\ late \in BOOLEAN /\ remembered \in Seq(AnyAddress)
    BY DEF EyeballsInv, DialerInv
  <2>2. ~late => ~dial.closed /\ dial.result = "none"
    BY DEF EyeballsInv, DialerInv, Resolving
  <2>3. ~late => Range(offered') = Range(q \o d.out) \cup Seen(dial)
    <3>1. ~late => Range(offered) = Range(q) \cup Seen(dial)
      BY DEF EyeballsInv, DialerInv, Resolving, q
    <3> QED BY <1>5, <1>6, <3>1
  <2> QED BY <1>2, <1>3, <1>10, <2>1, <2>2, <2>3 DEF DialerInv
<1> QED BY <1>9, <1>11 DEF EyeballsInv

(* A family is resolved, under each strategy.                              *)
LEMMA ResolveKeeps ==
  ASSUME EyeballsInv, NEW f \in Families, NEW k \in 0 .. Len(Addresses[f]), Resolve(f, k)
  PROVE  EyeballsInv'
<1> DEFINE s == Prioritized(SubSeq(Addresses[f], 1, k))
           r == resolving
           G == [r.got EXCEPT ![f] = s]
<1>1. /\ Orderly(r) /\ r.out = <<>> /\ offered \in Seq(Candidates) /\ r \in ResolvingRecord
      /\ r.got \in [Families -> Seq(Candidates)] /\ r.held \in [Families -> Seq(Candidates)]
  BY DEF EyeballsInv, CoordinatorInv, Orderly, Answers, ResolvingRecord
<1>2. f \notin r.answered /\ Resolving /\ r.got[f] = <<>> /\ UNCHANGED <<strategy, fate, dial, late, remembered>>
  BY <1>1 DEF Resolve, Orderly, Answers
<1>3. s \in Seq(Candidates)
  <2>1. remembered \in Seq(AnyAddress)
    BY DEF EyeballsInv, DialerInv
  <2> QED BY <2>1, AddressesTyped, PrioritizedReturns
<1>4. LenOf(G) = LenOf(r.got) + Len(s) /\ SetOf(G) = SetOf(r.got) \cup Range(s)
  <2>1. Other(f) \in Families /\ Other(f) # f
    BY DEF Families, Other
  <2> HIDE DEF s
  <2>2. G \in [Families -> Seq(Candidates)] /\ G[f] = s /\ G[Other(f)] = r.got[Other(f)]
    BY <1>1, <1>3, <2>1
  <2> DEFINE m == r.got
  <2>3. m \in [Families -> Seq(Candidates)] /\ m[f] = <<>> /\ G[Other(f)] = m[Other(f)]
    BY <1>1, <1>2, <2>2
  <2> HIDE DEF G, m
  <2>4. LenOf(G) = LenOf(m) + Len(G[f]) /\ SetOf(G) = SetOf(m) \cup Range(G[f])
    BY <2>2, <2>3, FamilyFilled
  <2> QED BY <2>2, <2>4 DEF m
<1>5. /\ Len(offered) \in Nat /\ Len(s) \in Nat /\ LenOf(r.held) \in Nat
      /\ strategy[1] # "list" => Len(offered) + LenOf(r.held) = LenOf(r.got)
      /\ strategy[1] # "list" => Range(offered) \cup SetOf(r.held) = SetOf(r.got)
  <2>1. "v6" \in Families
    BY DEF Families
  <2>2. LenOf(r.held) \in Nat
    BY <1>1, <2>1, BothFamilies
  <2>3. Len(offered) \in Nat
    BY <1>1
  <2>4. Len(s) \in Nat
    <3> HIDE DEF s
    <3> QED BY <1>3
  <2> QED BY <2>2, <2>3, <2>4 DEF EyeballsInv, CoordinatorInv
<1> DEFINE d == DefaultResolved([r EXCEPT !.got[f] = s], f, s)
           a == [r EXCEPT !.answered = @ \cup {f}, !.got[f] = s]
           e == [a EXCEPT !.out = s]
           last == strategy[1] = "only" \/ s # <<>> \/ f # strategy[2]
<1>6. \/ strategy[1] = "default" /\ Send(d, DefaultOver(d))
      \/ strategy[1] = "only" /\ Send(e, TRUE)
      \/ strategy[1] = "prefer" /\ Send(e, last)
  BY DEF Resolve
<1> HIDE DEF s
<1>7. CASE strategy[1] = "default" /\ Send(d, DefaultOver(d))
  <2> DEFINE n == LenOf(r.held) + Len(s)
             S == SetOf(r.held) \cup Range(s)
  <2>1. Orderly(d) /\ d.got = G /\ Tally(d, n, S)
    BY <1>1, <1>2, <1>3, DefaultSends
  <2> HIDE DEF d
  <2>2. DefaultOver(d) \in BOOLEAN /\ (DefaultOver(d) => NothingHeld(d))
    BY <2>1, OverHoldsNothing DEF DefaultOver
  <2>3. n \in Nat /\ Len(offered) + n = LenOf(G)
    <3>1. \A x \in Nat, y \in Nat, z \in Nat : y + z \in Nat /\ (x + y) + z = x + (y + z)
      OBVIOUS
    <3>2. (Len(offered) + LenOf(r.held)) + Len(s) = LenOf(G)
      BY <1>4, <1>5, <1>7
    <3> HIDE DEF G
    <3> QED BY <1>5, <3>1, <3>2
  <2>4. Range(offered) \cup S = SetOf(G)
    <3> HIDE DEF G
    <3> QED BY <1>4, <1>5, <1>7
  <2>5. strategy[1] # "list" /\ (strategy[1] # "default" => d.timer = "none")
    BY <1>7
  <2> HIDE DEF n, S, G
  <2> QED BY <1>2, <1>7, <2>1, <2>2, <2>3, <2>4, <2>5, SendKeeps
<1>8. ASSUME strategy[1] \in {"only", "prefer"}, NEW over \in BOOLEAN, Send(e, over)
      PROVE  EyeballsInv'
  <2> DEFINE n == Len(s)
             S == Range(s)
  <2>1. r.timer = "none" /\ strategy[1] # "list"
    BY <1>8 DEF EyeballsInv, CoordinatorInv
  <2>2. Orderly(e) /\ NothingHeld(e) /\ Tally(e, n, S) /\ e.timer = "none" /\ e.got = G
    <3> DEFINE A == r.answered \cup {f}
    <3>1. e = [r EXCEPT !.answered = A, !.got = G, !.out = s]
      BY <1>1 DEF ResolvingRecord
    <3>2. A \in SUBSET Families
      BY <1>1 DEF ResolvingRecord
    <3>3. G \in [Families -> Seq(Candidates)] /\ \A h \in Families \ {f} : G[h] = r.got[h]
      BY <1>1, <1>3
    <3> HIDE DEF A, G, e
    <3>4. /\ e \in ResolvingRecord /\ e.answered = A /\ e.got = G /\ e.out = s /\ e.held = r.held
          /\ e.released = r.released /\ e.started = r.started /\ e.timer = r.timer
      BY <1>1, <1>3, <3>1, <3>2, <3>3 DEF ResolvingRecord
    <3>5. e.answered = r.answered \cup {f} /\ \A h \in Families \ {f} : e.got[h] = r.got[h]
      BY <3>3, <3>4 DEF A
    <3>6. Orderly(e) /\ NothingHeld(e) /\ Tally(e, Len(e.out), Range(e.out))
      BY <1>1, <1>2, <2>1, <3>4, <3>5, SingleSends
    <3> QED BY <2>1, <3>4, <3>6
  <2> HIDE DEF e
  <2>3. LenOf(r.held) = 0 /\ SetOf(r.held) = {}
    <3>1. r.held["v6"] = <<>> /\ r.held["v4"] = <<>>
      <4>1. \A h \in Families : r.held[h] # <<>> => r.timer = "armed"
        BY <1>1 DEF Orderly
      <4> QED BY <2>1, <4>1 DEF Families
    <3>2. LenOf(r.held) = 0 + 0 /\ SetOf(r.held) = {} \cup {}
      BY <3>1, EmptySequence DEF LenOf, SetOf
    <3> QED BY <3>2
  <2>4. Len(offered) + n = LenOf(G)
    <3>1. Len(offered) + 0 = Len(offered)
      BY <1>5, Commutes
    <3>2. LenOf(r.got) = Len(offered)
      BY <1>5, <2>1, <2>3, <3>1
    <3> HIDE DEF G
    <3> QED BY <1>4, <3>2
  <2>5. Range(offered) \cup S = SetOf(G)
    <3> HIDE DEF G
    <3> QED BY <1>4, <1>5, <2>1, <2>3
  <2>6. n \in Nat
    BY <1>5
  <2> HIDE DEF n, S, G
  <2> QED BY <1>2, <1>8, <2>1, <2>2, <2>4, <2>5, <2>6, SendKeeps
<1>9. last \in BOOLEAN
  OBVIOUS
<1> HIDE DEF d, e, last
<1> QED BY <1>6, <1>7, <1>8, <1>9

(* The delay for the other family elapses.                                 *)
LEMMA FamilyDelayKeeps ==
  ASSUME EyeballsInv, FamilyDelay
  PROVE  EyeballsInv'
<1> DEFINE r == resolving
           d == DefaultReleased(r)
           n == LenOf(r.held)
           S == SetOf(r.held)
<1>1. /\ Orderly(r) /\ r.out = <<>> /\ r.held \in [Families -> Seq(Candidates)]
  BY DEF EyeballsInv, CoordinatorInv, Orderly, Answers, ResolvingRecord
<1>2. /\ Resolving /\ strategy[1] = "default" /\ Send(d, DefaultOver(d))
      /\ UNCHANGED <<strategy, fate, dial, late, remembered>>
  BY DEF FamilyDelay
<1>3. Orderly(d) /\ NothingHeld(d) /\ Tally(d, n, S) /\ d.got = r.got
  BY <1>1, DelaySends
<1>4. n \in Nat
  <2>1. "v6" \in Families
    BY DEF Families
  <2> QED BY <1>1, <2>1, BothFamilies
<1> HIDE DEF d
<1>5. Len(offered) + n = LenOf(d.got) /\ Range(offered) \cup S = SetOf(d.got)
  BY <1>2, <1>3 DEF EyeballsInv, CoordinatorInv
<1>6. DefaultOver(d) \in BOOLEAN
  BY DEF DefaultOver
<1> HIDE DEF n, S
<1>7. strategy[1] # "list" /\ (strategy[1] # "default" => d.timer = "none") /\ (DefaultOver(d) => NothingHeld(d))
  BY <1>2, <1>3
<1> QED BY <1>2, <1>3, <1>4, <1>5, <1>6, <1>7, SendKeeps

(* A candidate that is started stays known.                                *)
LEMMA StartKeepsSeen ==
  ASSUME NEW d \in DialRecord, d.pending # <<>>
  PROVE  LET e == StartNext(d) IN
         /\ e \in DialRecord /\ Seen(e) = Seen(d) /\ e.closed = d.closed /\ e.result = d.result
         /\ e.pending = Tail(d.pending)
<1> DEFINE p == d.pending
           h == Head(p)
           t == Tail(p)
           w == d.waiting \cup {h}
           e == StartNext(d)
<1>1. p \in Seq(Candidates) /\ p # <<>> /\ d.waiting \subseteq Candidates
  BY DEF DialRecord
<1>2. h \in Candidates /\ t \in Seq(Candidates) /\ Range(p) = {h} \cup Range(t)
  <2> HIDE DEF p
  <2> QED BY <1>1, FirstAndRest
<1>3. e = [d EXCEPT !.waiting = w, !.pending = t, !.start = "armed"]
  BY DEF StartNext, DialRecord
<1>4. w \in SUBSET Candidates
  BY <1>1, <1>2
<1>5. w = d.waiting \cup {h}
  OBVIOUS
<1> HIDE DEF e, w, t, h
<1>6. /\ e \in DialRecord /\ e.waiting = w /\ e.pending = t /\ e.connecting = d.connecting /\ e.failed = d.failed
      /\ e.closed = d.closed /\ e.result = d.result
  BY <1>2, <1>3, <1>4 DEF DialRecord
<1>7. Seen(e) = Seen(d)
  BY <1>2, <1>5, <1>6 DEF Seen
<1> QED BY <1>6, <1>7 DEF e, t

(* From the top of the loop to its select nothing is lost before the       *)
(* deadline, and the loop ends only with nothing left.                     *)
LEMMA LoopKeeps ==
  ASSUME late \in BOOLEAN, NEW d \in DialRecord, d.result = "none"
  PROVE  LET e == LoopTop(d) IN
         /\ e \in DialRecord /\ e.result # "connected"
         /\ ~late => /\ Seen(e) = Seen(d) /\ e.closed = d.closed
                     /\ e.result = "failed" => e.closed /\ Unoccupied(e)
<1> DEFINE l == IF late THEN [d EXCEPT !.pending = <<>>, !.closed = TRUE] ELSE d
           s == IF l.start # "due" THEN l
                ELSE IF l.pending = <<>> THEN [l EXCEPT !.start = "none"] ELSE StartNext(l)
           e == IF s.closed /\ Started(s) = {} /\ s.pending = <<>> THEN [s EXCEPT !.result = "failed"] ELSE s
<1>1. LoopTop(d) = e
  BY DEF LoopTop
<1>2. l \in DialRecord /\ l.result = "none" /\ (~late => l = d)
  <2>1. CASE late
    BY <2>1, EmptySequence DEF DialRecord
  <2>2. CASE ~late
    BY <2>2
  <2> QED BY <2>1, <2>2
<1> HIDE DEF l
<1>3. s \in DialRecord /\ s.result = "none" /\ Seen(s) = Seen(l) /\ s.closed = l.closed
  <2>1. CASE l.start # "due"
    BY <1>2, <2>1
  <2>2. CASE l.start = "due" /\ l.pending = <<>>
    <3> DEFINE a == [l EXCEPT !.start = "none"]
    <3>1. /\ a \in DialRecord /\ a.result = l.result /\ a.closed = l.closed /\ a.pending = l.pending
          /\ a.waiting = l.waiting /\ a.connecting = l.connecting /\ a.failed = l.failed
      BY <1>2 DEF DialRecord
    <3>2. s = a
      BY <2>2
    <3> HIDE DEF s, a
    <3> QED BY <1>2, <3>1, <3>2 DEF Seen
  <2>3. CASE l.start = "due" /\ l.pending # <<>>
    <3>1. s = StartNext(l)
      BY <2>3
    <3> HIDE DEF s
    <3> QED BY <1>2, <2>3, <3>1, StartKeepsSeen
  <2> QED BY <2>1, <2>2, <2>3
<1> HIDE DEF s
<1>4. CASE s.closed /\ Started(s) = {} /\ s.pending = <<>>
  <2>1. /\ e \in DialRecord /\ e.result = "failed" /\ e.closed = s.closed /\ e.pending = s.pending
        /\ e.waiting = s.waiting /\ e.connecting = s.connecting /\ e.failed = s.failed
    BY <1>3, <1>4 DEF DialRecord
  <2> HIDE DEF e
  <2>2. Seen(e) = Seen(s) /\ Unoccupied(e)
    <3>1. s.waiting = {} /\ s.connecting = {}
      BY <1>4 DEF Started
    <3> QED BY <1>4, <2>1, <3>1 DEF Seen, Unoccupied
  <2> QED BY <1>1, <1>2, <1>3, <1>4, <2>1, <2>2
<1>5. CASE ~(s.closed /\ Started(s) = {} /\ s.pending = <<>>)
  <2>1. e = s
    BY <1>5
  <2> HIDE DEF e
  <2> QED BY <1>1, <1>2, <1>3, <2>1
<1> QED BY <1>4, <1>5

(* A step of the dialer that goes back to the top of the loop.             *)
LEMMA LoopStep ==
  ASSUME EyeballsInv, Dialing, Quietly, remembered' = remembered, NEW e \in DialRecord, e.result = "none",
         dial' = LoopTop(e), channel' \in [queue : Seq(Candidates), closed : BOOLEAN],
         channel'.closed = channel.closed,
         ~late => /\ Range(channel'.queue) \cup Seen(e) = Range(channel.queue) \cup Seen(dial)
                  /\ e.closed => channel'.queue = <<>> /\ resolving.over
  PROVE  EyeballsInv'
<1>1. strategy' = strategy /\ resolving' = resolving /\ offered' = offered /\ late' = late
  BY DEF Quietly
<1>2. CoordinatorInv'
  BY <1>1 DEF EyeballsInv, CoordinatorInv
<1>3. late \in BOOLEAN /\ remembered \in Seq(AnyAddress) /\ (channel.closed => resolving.over)
  BY DEF EyeballsInv, DialerInv
<1>4. ~late => Range(offered) = Range(channel.queue) \cup Seen(dial)
  BY DEF EyeballsInv, DialerInv, Dialing
<1>5. /\ dial' \in DialRecord /\ dial'.result # "connected"
      /\ ~late => /\ Seen(dial') = Seen(e) /\ dial'.closed = e.closed
                  /\ dial'.result = "failed" => dial'.closed /\ Unoccupied(dial')
  BY <1>3, LoopKeeps
<1>6. DialerInv'
  BY <1>1, <1>3, <1>4, <1>5 DEF DialerInv
<1> QED BY <1>2, <1>6 DEF EyeballsInv

(* A step of the dialer that does not.                                     *)
LEMMA QuietStep ==
  ASSUME EyeballsInv, Dialing, Quietly, remembered' = remembered, channel' = channel, dial' \in DialRecord,
         Seen(dial') = Seen(dial), dial'.closed = dial.closed, dial'.result = "none"
  PROVE  EyeballsInv'
<1>1. strategy' = strategy /\ resolving' = resolving /\ offered' = offered /\ late' = late
  BY DEF Quietly
<1>2. CoordinatorInv'
  BY <1>1 DEF EyeballsInv, CoordinatorInv
<1>3. DialerInv'
  BY <1>1 DEF EyeballsInv, DialerInv, Dialing
<1> QED BY <1>2, <1>3 DEF EyeballsInv

(* The parts of the invariant that a dialer step starts from.              *)
LEMMA DialTyped ==
  ASSUME EyeballsInv
  PROVE  /\ dial \in DialRecord /\ channel \in [queue : Seq(Candidates), closed : BOOLEAN] /\ late \in BOOLEAN
         /\ channel.queue \in Seq(Candidates) /\ dial.pending \in Seq(Candidates)
         /\ channel.closed => resolving.over
         /\ ~late => (dial.closed => channel.queue = <<>> /\ resolving.over)
BY DEF EyeballsInv, DialerInv, DialRecord

(* A candidate moves from the channel to the queue, or is started.         *)
LEMMA TakeKeeps ==
  ASSUME EyeballsInv, TakeCandidate
  PROVE  EyeballsInv'
<1> DEFINE q == channel.queue
           p == Append(dial.pending, Head(q))
           d == [dial EXCEPT !.pending = p]
           e == IF Started(dial) = {} /\ dial.pending = <<>> THEN StartNext(d) ELSE d
<1>1. /\ Dialing /\ ~dial.closed /\ q # <<>> /\ dial' = LoopTop(e) /\ remembered' = remembered /\ Quietly
      /\ channel' = [channel EXCEPT !.queue = Tail(q)]
  <2>1. d = [dial EXCEPT !.pending = Append(@, Head(channel.queue))]
    OBVIOUS
  <2> QED BY <2>1 DEF TakeCandidate
<1>2. dial \in DialRecord /\ channel \in [queue : Seq(Candidates), closed : BOOLEAN] /\ q \in Seq(Candidates)
  BY DialTyped
<1>3. Head(q) \in Candidates /\ Tail(q) \in Seq(Candidates) /\ Range(q) = {Head(q)} \cup Range(Tail(q))
  <2> HIDE DEF q
  <2> QED BY <1>1, <1>2, FirstAndRest
<1>4. channel' \in [queue : Seq(Candidates), closed : BOOLEAN] /\ channel'.queue = Tail(q) /\ channel'.closed = channel.closed
  <2> DEFINE u == Tail(q)
  <2>1. u \in Seq(Candidates) /\ channel' = [channel EXCEPT !.queue = u]
    BY <1>1, <1>3
  <2> HIDE DEF u
  <2> QED BY <1>2, <2>1 DEF u
<1>5. p \in Seq(Candidates) /\ p # <<>> /\ Range(p) = Range(dial.pending) \cup {Head(q)}
  <2> DEFINE a == dial.pending
             b == <<Head(q)>>
  <2>1. a \in Seq(Candidates) /\ b \in Seq(Candidates) /\ Range(b) = {Head(q)} /\ Len(b) = 1
    BY <1>2, <1>3 DEF DialRecord, Range
  <2>2. p = a \o b
    BY <1>2, <1>3 DEF DialRecord
  <2> HIDE DEF a, b, p
  <2>3. p \in Seq(Candidates) /\ Len(p) = Len(a) + Len(b) /\ Range(p) = Range(a) \cup Range(b)
    BY <2>1, <2>2, Joined
  <2>4. p # <<>>
    <3>1. Len(a) \in Nat
      BY <2>1
    <3>2. Len(p) # 0
      BY <2>1, <2>3, <3>1
    <3> QED BY <3>2, EmptySequence
  <2> QED BY <2>1, <2>3, <2>4 DEF a
<1> HIDE DEF p
<1>6. /\ d \in DialRecord /\ d.pending = p /\ d.waiting = dial.waiting /\ d.connecting = dial.connecting
      /\ d.failed = dial.failed /\ d.closed = dial.closed /\ d.result = dial.result
  BY <1>2, <1>5 DEF DialRecord
<1> HIDE DEF d
<1>7. Seen(d) = Seen(dial) \cup {Head(q)}
  BY <1>5, <1>6 DEF Seen
<1>8. e \in DialRecord /\ Seen(e) = Seen(d) /\ e.closed = d.closed /\ e.result = d.result
  <2>1. CASE Started(dial) = {} /\ dial.pending = <<>>
    <3>1. e = StartNext(d)
      BY <2>1
    <3> HIDE DEF e
    <3> QED BY <1>5, <1>6, <3>1, StartKeepsSeen
  <2>2. CASE ~(Started(dial) = {} /\ dial.pending = <<>>)
    BY <1>6, <2>2
  <2> QED BY <2>1, <2>2
<1> HIDE DEF e
<1>9. Range(channel'.queue) \cup Seen(e) = Range(channel.queue) \cup Seen(dial)
  BY <1>3, <1>4, <1>7, <1>8
<1>10. e.result = "none" /\ ~e.closed
  BY <1>1, <1>6, <1>8 DEF Dialing
<1> QED BY <1>1, <1>4, <1>8, <1>9, <1>10, LoopStep

(* The end of the source is seen only with the channel empty.              *)
LEMMA SourceClosesKeeps ==
  ASSUME EyeballsInv, SourceCloses
  PROVE  EyeballsInv'
<1> DEFINE e == [dial EXCEPT !.closed = TRUE]
<1>1. /\ Dialing /\ channel.queue = <<>> /\ channel.closed /\ dial' = LoopTop(e) /\ channel' = channel
      /\ remembered' = remembered /\ Quietly
  BY DEF SourceCloses
<1>2. dial \in DialRecord /\ channel \in [queue : Seq(Candidates), closed : BOOLEAN] /\ resolving.over
  BY <1>1, DialTyped
<1>3. /\ e \in DialRecord /\ e.pending = dial.pending /\ e.waiting = dial.waiting /\ e.connecting = dial.connecting
      /\ e.failed = dial.failed /\ e.result = dial.result
  BY <1>2 DEF DialRecord
<1> HIDE DEF e
<1>4. Seen(e) = Seen(dial) /\ e.result = "none"
  BY <1>1, <1>3 DEF Seen, Dialing
<1> QED BY <1>1, <1>2, <1>3, <1>4, LoopStep

(* The delay since the last start elapses.                                 *)
LEMMA DelayKeeps ==
  ASSUME EyeballsInv, DelayElapses
  PROVE  EyeballsInv'
<1>1. /\ Dialing /\ dial' = [dial EXCEPT !.start = "due"] /\ channel' = channel /\ remembered' = remembered /\ Quietly
  BY DEF DelayElapses
<1>2. dial \in DialRecord
  BY DialTyped
<1>3. /\ dial' \in DialRecord /\ dial'.pending = dial.pending /\ dial'.waiting = dial.waiting
      /\ dial'.connecting = dial.connecting /\ dial'.failed = dial.failed /\ dial'.result = dial.result
      /\ dial'.closed = dial.closed
  BY <1>1, <1>2 DEF DialRecord
<1>4. Seen(dial') = Seen(dial) /\ dial'.result = "none"
  BY <1>1, <1>3 DEF Seen, Dialing
<1> QED BY <1>1, <1>3, <1>4, QuietStep

(* The sleep ends: the next candidate starts.                              *)
LEMMA SleepKeeps ==
  ASSUME EyeballsInv, SleepEnds
  PROVE  EyeballsInv'
<1> DEFINE e == IF strategy[1] = "list" THEN dial ELSE StartNext(dial)
<1>1. /\ Dialing /\ dial.pending # <<>> /\ dial' = LoopTop(e) /\ channel' = channel /\ remembered' = remembered /\ Quietly
  BY DEF SleepEnds
<1>2. /\ dial \in DialRecord /\ channel \in [queue : Seq(Candidates), closed : BOOLEAN]
      /\ ~late => (dial.closed => channel.queue = <<>> /\ resolving.over)
  BY DialTyped
<1>3. e \in DialRecord /\ Seen(e) = Seen(dial) /\ e.closed = dial.closed /\ e.result = dial.result
  BY <1>1, <1>2, StartKeepsSeen
<1> HIDE DEF e
<1>4. e.result = "none"
  BY <1>1, <1>3 DEF Dialing
<1> QED BY <1>1, <1>2, <1>3, <1>4, LoopStep

(* An attempt gets its permit.                                             *)
LEMMA AcquireKeeps ==
  ASSUME EyeballsInv, NEW a \in Candidates, Acquire(a)
  PROVE  EyeballsInv'
<1> DEFINE w == dial.waiting \ {a}
           c == dial.connecting \cup {a}
<1>1. /\ Dialing /\ a \in dial.waiting /\ channel' = channel /\ remembered' = remembered /\ Quietly
      /\ dial' = [dial EXCEPT !.waiting = w, !.connecting = c]
  BY DEF Acquire
<1>2. dial \in DialRecord
  BY DialTyped
<1>3. w \in SUBSET Candidates /\ c \in SUBSET Candidates
  BY <1>2 DEF DialRecord
<1>4. w \cup c = dial.waiting \cup dial.connecting
  BY <1>1
<1> HIDE DEF w, c
<1>5. /\ dial' \in DialRecord /\ dial'.pending = dial.pending /\ dial'.waiting = w
      /\ dial'.connecting = c /\ dial'.failed = dial.failed /\ dial'.result = dial.result
      /\ dial'.closed = dial.closed
  BY <1>1, <1>2, <1>3 DEF DialRecord
<1>6. Seen(dial') = Seen(dial) /\ dial'.result = "none"
  BY <1>1, <1>4, <1>5 DEF Seen, Dialing
<1> QED BY <1>1, <1>5, <1>6, QuietStep

(* A failed attempt stays known.                                           *)
LEMMA AttemptFailsKeeps ==
  ASSUME EyeballsInv, NEW a \in Candidates, AttemptFails(a)
  PROVE  EyeballsInv'
<1> DEFINE w == dial.waiting \ {a}
           c == dial.connecting \ {a}
           b == dial.failed \cup {a}
           t == IF dial.pending = <<>> THEN "none" ELSE "due"
           e == [dial EXCEPT !.waiting = w, !.connecting = c, !.failed = b, !.start = t]
<1>1. /\ Dialing /\ a \in dial.waiting \cup dial.connecting /\ channel' = channel /\ remembered' = remembered /\ Quietly
      /\ dial' = LoopTop(e)
  BY DEF AttemptFails, Started
<1>2. /\ dial \in DialRecord /\ channel \in [queue : Seq(Candidates), closed : BOOLEAN]
      /\ ~late => (dial.closed => channel.queue = <<>> /\ resolving.over)
  BY DialTyped
<1>3. w \in SUBSET Candidates /\ c \in SUBSET Candidates /\ b \in SUBSET Candidates
  BY <1>2 DEF DialRecord
<1>4. w \cup c \cup b = dial.waiting \cup dial.connecting \cup dial.failed
  BY <1>1
<1>5. t \in {"none", "armed", "due"}
  OBVIOUS
<1> HIDE DEF w, c, b, t
<1>6. /\ e \in DialRecord /\ e.pending = dial.pending /\ e.waiting = w /\ e.connecting = c /\ e.failed = b
      /\ e.result = dial.result /\ e.closed = dial.closed
  BY <1>2, <1>3, <1>5 DEF DialRecord
<1> HIDE DEF e
<1>7. Seen(e) = Seen(dial) /\ e.result = "none"
  BY <1>1, <1>4, <1>6 DEF Seen, Dialing
<1> QED BY <1>1, <1>2, <1>6, <1>7, LoopStep

(* An attempt wins.                                                        *)
LEMMA ConnectsKeeps ==
  ASSUME EyeballsInv, NEW a \in Candidates, Connects(a)
  PROVE  EyeballsInv'
<1>1. /\ Dialing /\ channel' = channel /\ remembered' = Remember(a) /\ Quietly
      /\ dial' = [dial EXCEPT !.waiting = {}, !.connecting = {}, !.pending = <<>>, !.result = "connected"]
  BY DEF Connects
<1>2. strategy' = strategy /\ resolving' = resolving /\ offered' = offered /\ late' = late
  BY <1>1 DEF Quietly
<1>3. CoordinatorInv'
  BY <1>2 DEF EyeballsInv, CoordinatorInv
<1>4. dial \in DialRecord
  BY DialTyped
<1>5. dial' \in DialRecord /\ dial'.result = "connected" /\ dial'.closed = dial.closed
  BY <1>1, <1>4, EmptySequence DEF DialRecord
<1>6. remembered' \in Seq(AnyAddress)
  <2>1. remembered \in Seq(AnyAddress)
    BY DEF EyeballsInv, DialerInv
  <2> QED BY <1>1, <2>1, RememberTyped
<1>7. DialerInv'
  BY <1>1, <1>2, <1>5, <1>6 DEF EyeballsInv, DialerInv
<1> QED BY <1>3, <1>7 DEF EyeballsInv

(* After the deadline only the types are left to keep.                     *)
LEMMA DeadlineKeeps ==
  ASSUME EyeballsInv, DeadlinePasses
  PROVE  EyeballsInv'
<1>1. late' = TRUE /\ UNCHANGED <<strategy, fate, resolving, offered, channel, dial, remembered>>
  BY DEF DeadlinePasses
<1>2. CoordinatorInv'
  BY <1>1 DEF EyeballsInv, CoordinatorInv
<1>3. DialerInv'
  BY <1>1 DEF EyeballsInv, DialerInv
<1> QED BY <1>2, <1>3 DEF EyeballsInv

(* The dialer starts idle, or with the whole list.                         *)
LEMMA EyeballsStart ==
  ASSUME DialInit
  PROVE  EyeballsInv
<1> DEFINE all == Addresses["v6"] \o Addresses["v4"]
           list == Prioritized(all)
           idle == [pending |-> <<>>, waiting |-> {}, connecting |-> {}, failed |-> {},
                    start |-> "none", closed |-> FALSE, result |-> "none"]
           full == [idle EXCEPT !.pending = list, !.closed = TRUE]
           isList == strategy[1] = "list"
<1>1. "v6" \in Families /\ "v4" \in Families
  BY DEF Families
<1>2. NoFamily \in [Families -> Seq(Candidates)] /\ \A f \in Families : NoFamily[f] = <<>>
  BY EmptySequence DEF NoFamily
<1>3. LenOf(NoFamily) = 0 /\ SetOf(NoFamily) = {}
  <2>1. LenOf(NoFamily) = 0 + 0 /\ SetOf(NoFamily) = {} \cup {}
    BY <1>1, <1>2, EmptySequence DEF LenOf, SetOf
  <2> QED BY <2>1
<1>4. isList \in BOOLEAN
  OBVIOUS
<1>5. /\ resolving \in ResolvingRecord /\ resolving.answered = {} /\ resolving.got = NoFamily /\ resolving.held = NoFamily
      /\ resolving.released = {} /\ resolving.started = FALSE /\ resolving.timer = "none" /\ resolving.out = <<>>
      /\ resolving.over = isList
  BY <1>2, EmptySequence DEF DialInit, ResolvingRecord
<1>6. channel \in [queue : Seq(Candidates), closed : BOOLEAN] /\ channel.queue = <<>> /\ channel.closed = isList
  BY EmptySequence DEF DialInit
<1>7. remembered \in Seq(AnyAddress)
  <2>1. remembered \in Remembered /\ remembered \in Seq(Range(remembered))
    BY DialInputs DEF DialInit
  <2>2. Range(remembered) \subseteq AnyAddress
    BY <2>1 DEF AnyAddress
  <2> QED BY <2>1, <2>2
<1>8. all \in Seq(Candidates)
  <2>1. Addresses["v6"] \in Seq(Candidates) /\ Addresses["v4"] \in Seq(Candidates)
    <3>1. Addresses["v6"] \in Seq(Range(Addresses["v6"])) /\ Addresses["v4"] \in Seq(Range(Addresses["v4"]))
      BY <1>1, DialInputs
    <3>2. Range(Addresses["v6"]) \subseteq Candidates /\ Range(Addresses["v4"]) \subseteq Candidates
      BY DEF Candidates
    <3> QED BY <3>1, <3>2
  <2> QED BY <2>1, Joined
<1>9. isList => all # <<>>
  BY DialInputs DEF DialInit
<1> HIDE DEF all
<1>10. list \in Seq(Candidates) /\ Range(list) = Range(all)
  BY <1>7, <1>8, PrioritizedReturns
<1>11. isList => list # <<>>
  <2>1. ASSUME isList PROVE Range(all) # {}
    <3>1. 1 \in DOMAIN all
      BY <1>8, <1>9, <2>1
    <3> QED BY <3>1 DEF Range
  <2> HIDE DEF list
  <2> QED BY <1>10, <2>1, EmptySequence
<1>12. late = FALSE /\ IF isList THEN offered = list /\ dial = StartNext(full) ELSE offered = <<>> /\ dial = idle
  BY DEF DialInit, all
<1> HIDE DEF list, isList
<1>13. idle \in DialRecord /\ Seen(idle) = {} /\ ~idle.closed /\ idle.result = "none"
  BY EmptySequence DEF DialRecord, Seen
<1>14. /\ full \in DialRecord /\ full.pending = list /\ full.waiting = {} /\ full.connecting = {} /\ full.failed = {}
       /\ full.result = "none"
  BY <1>10, <1>13 DEF DialRecord
<1> HIDE DEF full, idle
<1>15. Seen(full) = Range(list)
  BY <1>14 DEF Seen
<1>16. offered \in Seq(Candidates) /\ dial \in DialRecord /\ dial.result = "none" /\ Range(offered) = Seen(dial)
  <2>1. CASE isList
    <3>1. dial = StartNext(full) /\ full.pending # <<>>
      BY <1>11, <1>12, <1>14, <2>1
    <3>2. dial \in DialRecord /\ Seen(dial) = Seen(full) /\ dial.result = "none"
      BY <1>14, <3>1, StartKeepsSeen
    <3> QED BY <1>10, <1>12, <1>15, <2>1, <3>2
  <2>2. CASE ~isList
    BY <1>12, <1>13, <2>2, EmptySequence
  <2> QED BY <2>1, <2>2
<1>17. dial.closed => isList
  BY <1>12, <1>13
<1>18. CoordinatorInv
  <2>1. Orderly(resolving) /\ NothingHeld(resolving)
    BY <1>2, <1>5 DEF Orderly, Answers, NothingHeld
  <2>2. ~isList => Len(offered) + LenOf(resolving.held) = LenOf(resolving.got)
    <3>1. ~isList => Len(offered) = 0
      BY <1>12, EmptySequence
    <3> QED BY <1>3, <1>5, <3>1
  <2>3. ~isList => Range(offered) \cup SetOf(resolving.held) = SetOf(resolving.got)
    <3>1. ~isList => Range(offered) = {}
      BY <1>12, EmptySequence
    <3> QED BY <1>3, <1>5, <3>1
  <2> QED BY <1>5, <1>16, <2>1, <2>2, <2>3 DEF CoordinatorInv, isList
<1>19. DialerInv
  <2>1. Range(channel.queue) = {}
    BY <1>6, EmptySequence
  <2> QED BY <1>5, <1>6, <1>7, <1>12, <1>16, <1>17, <2>1 DEF DialerInv
<1> QED BY <1>18, <1>19 DEF EyeballsInv

(* Every step keeps the invariant.                                         *)
LEMMA EyeballsStep ==
  ASSUME EyeballsInv, [DialSteps]_dialVars
  PROVE  EyeballsInv'
<1>1. CASE \E f \in Families : \E n \in 0 .. Len(Addresses[f]) : Resolve(f, n)
  BY <1>1, ResolveKeeps
<1>2. CASE FamilyDelay
  BY <1>2, FamilyDelayKeeps
<1>3. CASE TakeCandidate
  BY <1>3, TakeKeeps
<1>4. CASE SourceCloses
  BY <1>4, SourceClosesKeeps
<1>5. CASE DelayElapses
  BY <1>5, DelayKeeps
<1>6. CASE SleepEnds
  BY <1>6, SleepKeeps
<1>7. CASE DeadlinePasses
  BY <1>7, DeadlineKeeps
<1>8. CASE \E a \in Candidates : Acquire(a) \/ AttemptFails(a) \/ Connects(a)
  BY <1>8, AcquireKeeps, AttemptFailsKeeps, ConnectsKeeps
<1>9. CASE UNCHANGED dialVars
  <2>1. /\ strategy' = strategy /\ resolving' = resolving /\ offered' = offered /\ late' = late
        /\ channel' = channel /\ dial' = dial /\ remembered' = remembered
    BY <1>9 DEF dialVars
  <2> QED BY <2>1 DEF EyeballsInv, CoordinatorInv, DialerInv
<1> QED BY <1>1, <1>2, <1>3, <1>4, <1>5, <1>6, <1>7, <1>8, <1>9 DEF DialSteps

(* The invariant implies the property.                                     *)
LEMMA InvTriesAll ==
  ASSUME EyeballsInv
  PROVE  EveryAddressTried
<1>1. AllOfferedOnce
  <2> SUFFICES ASSUME resolving.over, strategy[1] # "list"
               PROVE  /\ Len(offered) = LenOf(resolving.got) /\ Range(offered) = SetOf(resolving.got)
    BY DEF AllOfferedOnce, LenOf, SetOf
  <2>1. resolving.held["v6"] = <<>> /\ resolving.held["v4"] = <<>>
    BY DEF EyeballsInv, CoordinatorInv, NothingHeld, Families
  <2>2. LenOf(resolving.held) = 0 + 0 /\ SetOf(resolving.held) = {} \cup {}
    BY <2>1, EmptySequence DEF LenOf, SetOf
  <2>3. LenOf(resolving.held) = 0 /\ SetOf(resolving.held) = {}
    BY <2>2
  <2>4. Len(offered) \in Nat
    BY DEF EyeballsInv, CoordinatorInv
  <2>5. Len(offered) + 0 = Len(offered)
    BY <2>4, Commutes
  <2> QED BY <2>3, <2>5 DEF EyeballsInv, CoordinatorInv
<1>2. FailsOnlyWhenAllTried
  <2> SUFFICES ASSUME dial.result = "failed", ~late
               PROVE  resolving.over /\ channel.queue = <<>> /\ Range(offered) = dial.failed
    BY DEF FailsOnlyWhenAllTried
  <2>1. /\ dial.closed /\ Unoccupied(dial) /\ channel.queue = <<>> /\ resolving.over
        /\ Range(offered) = Range(channel.queue) \cup Seen(dial)
    BY DEF EyeballsInv, DialerInv
  <2>2. Range(channel.queue) = {} /\ Range(dial.pending) = {} /\ dial.waiting = {} /\ dial.connecting = {}
    BY <2>1, EmptySequence DEF Unoccupied
  <2> QED BY <2>1, <2>2 DEF Seen
<1> QED BY <1>1, <1>2 DEF EveryAddressTried

(* The main theorem of the dialer: whichever family answers first, whatever *)
(* is held back and released by the delay, and in whatever order attempts   *)
(* start and fail, the coordinator of plane/happy_eyeballs.rs offers each   *)
(* resolved address once, and a dial of network/happy_eyeballs.rs that      *)
(* fails before its deadline has tried them all.                            *)
THEOREM EveryAddressIsTried == DialSpec => []EveryAddressTried
<1>1. DialInit => EyeballsInv
  BY EyeballsStart
<1>2. EyeballsInv /\ [DialSteps]_dialVars => EyeballsInv'
  BY EyeballsStep
<1>3. EyeballsInv => EveryAddressTried
  BY InvTriesAll
<1> QED BY <1>1, <1>2, <1>3, PTL DEF DialSpec
=============================================================================
