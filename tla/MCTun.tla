------------------------------- MODULE MCTun -------------------------------
(***************************************************************************)
(* The way of a packet through the TUN device, and what its tasks use: TCP *)
(* and UDP of the device share no state but the loop task, and the         *)
(* reassembly of fragments, the NAT table (used directly or by two         *)
(* relays), the UDP client of a DNS server and a UDP association over a    *)
(* stream share none with them.  One of the seven is explored at a time,   *)
(* and of TCP two flows or, with more output, one key that is used again.  *)
(***************************************************************************)
EXTENDS TunTcp, TunUdp, NatRelay, DnsUdpClient, ChainUot, Reassembly

CONSTANTS ta, tb, sx, sy, tx, px, cs, ct, p, x, y, tcp, s1, s2, e1, e2,
          l1, l2, l3, l4, ka, kb, kc, da, db

Budget(c, u, d, r, i) == [conns |-> c, up |-> u, down |-> d, closes |-> r, idle |-> i]
KeyAgain == Budget(2, 0, 2, 1, 0)
MCBudgets ==
  {Budget(2, 1, 0, 0, 0), Budget(2, 0, 1, 1, 0), Budget(1, 2, 0, 0, 0), Budget(1, 0, 2, 1, 1),
   KeyAgain}

MCSourceOf == (sx :> cs) @@ (sy :> cs) @@ (tx :> ct) @@ (px :> p)
MCDestOf == (sx :> x) @@ (sy :> y) @@ (tx :> x)

MCPendingKeyOf == (l1 :> ka) @@ (l2 :> ka) @@ (l3 :> kb) @@ (l4 :> kb)

MCTargetOf == (da :> x) @@ (db :> y)
UotBudget(n, r, c) == [streams |-> n, replies |-> r, cancels |-> c]
MCUotBudgets == {UotBudget(2, 0, 0), UotBudget(0, 1, 1), UotBudget(1, 0, 1)}
MCUotTwoReplies == {UotBudget(1, 2, 1)}

(* A packet of three units in three fragments, with ends elsewhere, an     *)
(* end without payload and a fragment of another header; a packet of two;  *)
(* and the beginning of a third that is too long.                          *)
Fragment(k, h, start, end, more) ==
  [key |-> k, header |-> [id |-> h, len |-> 1], start |-> start, end |-> end, more |-> more]
MCFragments ==
  {Fragment(ka, 0, 0, 1, TRUE), Fragment(ka, 0, 1, 2, TRUE), Fragment(ka, 0, 2, 3, FALSE),
   Fragment(ka, 0, 1, 2, FALSE), Fragment(ka, 0, 2, 2, FALSE), Fragment(ka, 0, 2, 3, TRUE),
   Fragment(ka, 1, 1, 2, TRUE),
   Fragment(kb, 0, 0, 1, TRUE), Fragment(kb, 0, 1, 3, FALSE), Fragment(kc, 0, 0, 2, TRUE),
   Fragment(kc, 0, 2, 4, TRUE)}

(* One relay receives at a time, and its sources use one destination; the  *)
(* table on its own has two.                                               *)
RelayBounds ==
  /\ Cardinality({r \in Endpoints : receiving[r] # Idle}) <= 1
  /\ \A k \in DOMAIN entries : entries[k].destinations \subseteq {x}

(* The echo flow is tracked beside one UDP flow at most.                   *)
UdpBounds == px \in net.tracked => Cardinality(net.tracked) <= 2

VARIABLE focus

(* A part that rests starts in one state.                                  *)
TunInit ==
  /\ TunTcpInit /\ TunUdpInit /\ RelayInit /\ UdpClientInit /\ UotInit /\ ReassemblyInit
  /\ focus \in {"tcp", "again", "udp", "table", "relays", "dns", "uot", "fragments"}
  /\ (focus # "tcp") = (budget = KeyAgain)
  /\ focus \notin {"tcp", "again"} => tun.resolver
  /\ focus # "udp" => net.resolver
  /\ focus # "uot" => left.replies > 0
TunNext ==
  /\ UNCHANGED focus
  /\ \/ /\ focus \in {"tcp", "again"} /\ TunTcpNext
        /\ focus = "again" => tun'.sock[tb] = NoSocket
        /\ UNCHANGED <<tunUdpVars, relayVars, udpClientVars, uotVars, reassemblyVars>>
     \/ /\ focus = "udp" /\ TunUdpNext /\ UdpBounds'
        /\ UNCHANGED <<tunTcpVars, relayVars, udpClientVars, uotVars, reassemblyVars>>
     \/ /\ focus = "table" /\ Next
        /\ UNCHANGED <<mapping, sending, sweeping, receiving, releasing, tunTcpVars, tunUdpVars, udpClientVars, uotVars, reassemblyVars>>
     \/ /\ focus = "relays" /\ RelayNext /\ RelayBounds'
        /\ UNCHANGED <<tunTcpVars, tunUdpVars, udpClientVars, uotVars, reassemblyVars>>
     \/ /\ focus = "dns" /\ UdpClientNext
        /\ UNCHANGED <<tunTcpVars, tunUdpVars, relayVars, uotVars, reassemblyVars>>
     \/ /\ focus = "uot" /\ UotNext
        /\ UNCHANGED <<tunTcpVars, tunUdpVars, relayVars, udpClientVars, reassemblyVars>>
     \/ /\ focus = "fragments" /\ ReassemblyNext
        /\ UNCHANGED <<tunTcpVars, tunUdpVars, relayVars, udpClientVars, uotVars>>
TunSpec ==
  TunInit /\ [][TunNext]_<<tunTcpVars, tunUdpVars, relayVars, udpClientVars, uotVars, reassemblyVars,
                             focus>>

(* Every binding of a relay's endpoint is the one that relay releases when *)
(* it closes: only UdpNatRelay uses the table then, and the mapping of a   *)
(* relay follows what the table does under another lock.                   *)
RelayBindingsOwned == focus = "relays" => BindingsHaveOwner
=============================================================================
