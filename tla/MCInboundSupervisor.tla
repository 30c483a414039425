------------------------ MODULE MCInboundSupervisor ------------------------
(* An inbound on TCP, one on UDP, which reports itself ready only through  *)
(* owner_started, and one on both.  In the run Reload the first is transparent.*)
EXTENDS InboundSupervisor

CONSTANTS web, game, proxy

MCTransports ==
  [i \in Inbounds |-> IF i = proxy THEN Ports ELSE IF i = web THEN {"tcp"} ELSE {"udp"}]

(* The service starts with its inbounds enabled.                           *)
EnabledInit == InboundInit /\ \A i \in Inbounds : config[i].state = "enabled"

EnabledSpec == EnabledInit /\ [][InboundNext]_inboundVars
=============================================================================
