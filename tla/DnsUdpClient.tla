---------------------------- MODULE DnsUdpClient ----------------------------
(***************************************************************************)
(* AsyncUdpDnsClient of doradus-dns (dns_async_udp.rs): one socket shared  *)
(* by all queries, bound by the first, with a receiver task that hands     *)
(* each response to the query that waits under its transaction id, name    *)
(* and type.  A step runs from one await to the next.                      *)
(***************************************************************************)
EXTENDS Integers, FiniteSets, Maps

CONSTANTS
  Lookups,       (* calls of query_packet_once                             *)
  PendingKeyOf,  (* call -> PendingKey                                     *)
  MaxSockets,    (* bound on the sockets bound                             *)
  MaxCancelled   (* bound on the calls dropped by their callers            *)

Unbound == 0
IsPending(r) == r = "none"

VARIABLES
  stored,        (* AsyncUdpDnsClientState::socket                         *)
  receivers,     (* sockets whose receiver task runs                       *)
  pending,       (* PendingKey -> the call whose oneshot sender it holds   *)
  call,          (* call -> where it is and what its oneshot received      *)
  sockets,       (* sockets bound so far                                   *)
  cancels        (* what is left of MaxCancelled                           *)

udpClientVars == <<stored, receivers, pending, call, sockets, cancels>>

At(q, pc) == call[q].pc = pc
Advance(c, q, pc) == [c EXCEPT ![q].pc = pc]

(* A sender that is used, or dropped, decides a call that has no result.   *)
Decide(c, Q, r) ==
  [q \in Lookups |-> IF q \in Q /\ IsPending(c[q].got) THEN [c[q] EXCEPT !.got = r] ELSE c[q]]
HolderOf(k) == IF k \in DOMAIN pending THEN {pending[k]} ELSE {}

(* The sender is inserted, in place of one of the same key, and the packet *)
(* is sent.                                                                *)
Register(q) ==
  LET k == PendingKeyOf[q] IN
  /\ pending' = Put(pending, k, q)
  /\ call' = Advance(Decide(call, HolderOf(k), "closed"), q, "send")

(* query_packet_once, and socket: the stored one, or one to bind.          *)
Start(q) ==
  /\ At(q, "idle")
  /\ IF stored # Unbound THEN Register(q)
     ELSE call' = Advance(call, q, "bind") /\ UNCHANGED pending
  /\ UNCHANGED <<stored, receivers, sockets, cancels>>

(* The bind ends; another call may have stored a socket meanwhile.         *)
Bound(q) ==
  /\ At(q, "bind") /\ sockets < MaxSockets
  /\ IF stored # Unbound THEN UNCHANGED <<stored, receivers, sockets>>
     ELSE /\ sockets' = sockets + 1 /\ stored' = sockets'
          /\ receivers' = receivers \cup {sockets'}
  /\ Register(q)
  /\ UNCHANGED cancels

BindFails(q) ==
  /\ At(q, "bind")
  /\ call' = Advance(call, q, "done")
  /\ UNCHANGED <<stored, receivers, pending, sockets, cancels>>

(* send_to succeeds, or fails and the key is removed whoever holds it.     *)
Sent(q) ==
  /\ At(q, "send")
  /\ call' = Advance(call, q, "wait")
  /\ UNCHANGED <<stored, receivers, pending, sockets, cancels>>

SendFails(q) ==
  /\ At(q, "send")
  /\ pending' = Drop(pending, {PendingKeyOf[q]})
  /\ call' = Advance(Decide(call, HolderOf(PendingKeyOf[q]), "closed"), q, "done")
  /\ UNCHANGED <<stored, receivers, sockets, cancels>>

(* A response from the server whose key a call waits under; others are     *)
(* ignored.                                                                *)
Receive(k) ==
  /\ receivers # {} /\ k \in DOMAIN pending
  /\ call' = Decide(call, {pending[k]}, "response")
  /\ pending' = Drop(pending, {k})
  /\ UNCHANGED <<stored, receivers, sockets, cancels>>

(* Mutants of ReceiverFails: the calls are left to their timeout; or the   *)
(* socket stays stored.                                                    *)
ReceiverFailsAlone(s) ==
  /\ s \in receivers
  /\ receivers' = receivers \ {s}
  /\ stored' = IF stored = s THEN Unbound ELSE stored
  /\ UNCHANGED <<pending, call, sockets, cancels>>

ReceiverFailsStored(s) ==
  /\ s \in receivers
  /\ receivers' = receivers \ {s}
  /\ call' = Decide(call, {pending[k] : k \in DOMAIN pending}, "error")
  /\ pending' = EmptyMap
  /\ UNCHANGED <<stored, sockets, cancels>>

(* recv_from fails: the socket is forgotten, every call told.              *)
ReceiverFails(s) ==
  /\ s \in receivers
  /\ receivers' = receivers \ {s}
  /\ stored' = IF stored = s THEN Unbound ELSE stored
  /\ call' = Decide(call, {pending[k] : k \in DOMAIN pending}, "error")
  /\ pending' = EmptyMap
  /\ UNCHANGED <<sockets, cancels>>

(* The oneshot resolves, or the timeout does and removes the key.          *)
TakeResult(q) ==
  /\ At(q, "wait") /\ ~IsPending(call[q].got)
  /\ call' = Advance(call, q, "done")
  /\ UNCHANGED <<stored, receivers, pending, sockets, cancels>>

(* Mutant of TimesOut: the key stays.                                      *)
TimesOutKeeping(q) ==
  /\ At(q, "wait") /\ IsPending(call[q].got)
  /\ call' = Advance(call, q, "done")
  /\ UNCHANGED <<stored, receivers, pending, sockets, cancels>>

TimesOut(q) ==
  LET k == PendingKeyOf[q] IN
  /\ At(q, "wait") /\ IsPending(call[q].got)
  /\ pending' = Drop(pending, {k})
  /\ call' = Advance(Decide(call, HolderOf(k) \ {q}, "closed"), q, "done")
  /\ UNCHANGED <<stored, receivers, sockets, cancels>>

(* The caller drops the call; its sender stays behind.                     *)
CancelCall(q) ==
  /\ call[q].pc \in {"bind", "send", "wait"} /\ cancels > 0
  /\ cancels' = cancels - 1
  /\ call' = Advance(call, q, "gone")
  /\ UNCHANGED <<stored, receivers, pending, sockets>>

(* The last handle is dropped, after the calls that borrow it: the         *)
(* receiver is notified, its state is gone.                                *)
DropClient ==
  /\ stored # Unbound /\ \A q \in Lookups : call[q].pc \in {"done", "gone"}
  /\ stored' = Unbound /\ receivers' = receivers \ {stored}
  /\ pending' = EmptyMap
  /\ UNCHANGED <<call, sockets, cancels>>

-----------------------------------------------------------------------------
UdpClientInit ==
  /\ stored = Unbound /\ receivers = {} /\ pending = EmptyMap
  /\ call = [q \in Lookups |-> [pc |-> "idle", got |-> "none"]]
  /\ sockets = 0 /\ cancels = MaxCancelled

UdpClientNext ==
  \/ \E q \in Lookups :
       \/ Start(q) \/ Bound(q) \/ BindFails(q) \/ Sent(q) \/ SendFails(q)
       \/ TakeResult(q) \/ TimesOut(q) \/ CancelCall(q) \/ Receive(PendingKeyOf[q])
  \/ \E s \in receivers : ReceiverFails(s)
  \/ DropClient

UdpClientSpec == UdpClientInit /\ [][UdpClientNext]_udpClientVars

-----------------------------------------------------------------------------
(* The socket that new queries are sent on is read by exactly one task,    *)
(* and no other task or socket is left, however binds, receive errors and  *)
(* the last drop interleave.                                               *)
StoredSocketIsRead == receivers = IF stored = Unbound THEN {} ELSE {stored}

(* A query that has no result yet can still get one before its timeout: a  *)
(* receiver runs and finds its sender, which no other query's end took.    *)
WaitersReachable ==
  \A q \in Lookups : call[q].pc \in {"send", "wait"} /\ IsPending(call[q].got)
    => receivers # {} /\ PendingKeyOf[q] \in DOMAIN pending /\ pending[PendingKeyOf[q]] = q

(* Only a query that was dropped leaves its sender behind.                 *)
OnlyDroppedLeaveSenders ==
  \A k \in DOMAIN pending : call[pending[k]].pc \in {"send", "wait", "gone"}

(* A query waits where its answer will come, and leaves nothing behind when *)
(* it ends (query_packet_once).                                            *)
WaitersServed == StoredSocketIsRead /\ WaitersReachable /\ OnlyDroppedLeaveSenders
=============================================================================
