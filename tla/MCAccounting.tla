---------------------------- MODULE MCAccounting ----------------------------
(* The monitor with two flows in two shards and relays of two inbounds,    *)
(* from an empty database, from one with rows of an earlier hour, and from *)
(* two upgrades: of a blob with telemetry buckets, and of one with a sum   *)
(* beside tables that are ahead of it.                                     *)
EXTENDS Accounting, TLC

CONSTANTS fa, fb

MCShardOf == (fa :> 0) @@ (fb :> 1)

Tables(total, first, blob) ==
  [total |-> total, traffic |-> [NoBytes EXCEPT ![0] = first],
   hourly |-> [NoBytes EXCEPT ![0] = first], daily |-> [d \in Days |-> 0],
   events |-> 0, known |-> {}, flows |-> Nothing, bytes |-> Nothing, blob |-> blob]

Blob(total, first, telemetry, undated) ==
  [present |-> TRUE, total |-> total, traffic |-> [NoBytes EXCEPT ![0] = first],
   telemetry |-> [NoBytes EXCEPT ![0] = telemetry], undated |-> undated]

From(tables, b, r, i, s, c, h) ==
  [tables |-> tables,
   budget |-> [bytes |-> b, relays |-> r, inbounds |-> i, reads |-> s, crashes |-> c, hours |-> h]]

Empty == Tables(0, 0, NoBlob)
Used == Tables(2, 1, NoBlob)
Upgrade == Tables(2, 2, Blob(3, 1, 3, 0))
Overtaken == Tables(3, 1, Blob(2, 2, 0, 2))

OpenedAgain == From(Empty, 0, 3, {"i1"}, 0, 0, 0)
MCStarts ==
  {OpenedAgain, From(Empty, 1, 2, Inbounds, 0, 0, 0), From(Empty, 1, 2, {"i1"}, 0, 1, 0),
   From(Used, 2, 2, {"i1"}, 0, 0, 0), From(Used, 1, 2, {"i1"}, 1, 0, 0),
   From(Upgrade, 1, 1, {"i1"}, 0, 1, 1), From(Overtaken, 2, 1, {"i1"}, 0, 1, 1),
   From(Overtaken, 1, 1, {"i1"}, 1, 0, 0)}
=============================================================================
