--------------------------- MODULE MCInjectedTun ---------------------------
(* The injected TUN owner through three changes of its inbound.            *)
EXTENDS InjectedTun
=============================================================================
