------------------------------- MODULE MCUdp -------------------------------
(***************************************************************************)
(* One client address of one session, two packets and a close request,     *)
(* with queues of one element: every queue overflows, and a worker can be  *)
(* replaced while its predecessor is still closing.  The manager, the      *)
(* workers and the session are scheduled fairly; clients, the network and  *)
(* the dashboard are not.                                                  *)
(***************************************************************************)
EXTENDS UdpInbound

CONSTANTS ca, tcp, x

MCSessionOf == [src \in Sources |-> tcp]
FairUdp == UdpSpec /\ UdpFairness
=============================================================================
