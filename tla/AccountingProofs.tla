-------------------------- MODULE AccountingProofs --------------------------
(***************************************************************************)
(* What the connection monitor keeps, for every set of flows, every number *)
(* of shards, hours and days, every retention, and any number of bytes,    *)
(* relays, readers, failed checkpoints and crashes: every byte is counted  *)
(* once, nothing in memory is forgotten, and the monitor and its tables    *)
(* implement a ledger.                                                     *)
(***************************************************************************)
EXTENDS Accounting, SumProofs

PerInbound == [Inbounds -> Nat]
Shard == [total : Nat, traffic : Counts, telemetry : Counts, inbound : PerInbound]
Memory == [total : Nat, events : Nat, shards : [Shards -> Shard]]
Listing == [Flows -> Inbounds \cup {Absent}]
Live ==
  [connections : Listing, entries : Listing, opening : {<<>>} \cup (Flows \X Inbounds),
   known : SUBSET Inbounds, active : PerInbound, flows : PerInbound, bytes : PerInbound]
History == [unlisted : Int, ahead : Int, attributed : Nat, moved : SUBSET Inbounds]
Delta ==
  [pc : {"take", "apply"}, shard : Nat, total : Nat, traffic : Counts, telemetry : Counts, events : Nat]
Snapshot == [pc : {"shards"}, shard : Nat, total : Nat, traffic : Counts, telemetry : Nat]

(* Where a checkpoint is, and what it holds.                               *)
AccountingShape ==
  /\ hour \in Hours /\ db \in Database /\ mem \in Memory /\ live \in Live
  /\ relays \in [Flows -> Nat] /\ dirty \in BOOLEAN /\ run \in {"down", "load", "up"}
  /\ past \in History
  /\ pass \in Delta \/ pass \in [pc : {"idle", "lock", "inbound", "done", "failed"}]
  /\ pass.pc = "take" => pass.shard \in Shards
  /\ pass.pc = "apply" => pass.shard = NumShards
  /\ \/ reader \in Snapshot /\ reader.shard <= NumShards
     \/ reader \in [pc : {"state"}, traffic : Counts, telemetry : Nat]
     \/ reader \in [pc : {"idle"}]

-----------------------------------------------------------------------------
(* What the steps do to the memory of the monitor.                         *)
LEMMA AddBytesEffect ==
  ASSUME AccountingShape, NEW f \in Flows, AddBytes(f)
  PROVE  LET s == ShardOf[f] IN
         /\ s \in Shards /\ mem' \in Memory
         /\ mem' = [mem EXCEPT !.shards = mem'.shards]
         /\ mem'.shards[s].total = mem.shards[s].total + 1
         /\ mem'.shards[s].traffic = [mem.shards[s].traffic EXCEPT ![hour] = @ + 1]
         /\ mem'.shards[s].telemetry = IF live.entries[f] # Absent
              THEN [mem.shards[s].telemetry EXCEPT ![hour] = @ + 1] ELSE mem.shards[s].telemetry
         /\ \A i \in Shards : i # s => mem'.shards[i] = mem.shards[i]
<1> DEFINE s == ShardOf[f]
           o == mem.shards[s]
           e == live.entries[f]
           n == Credited(o, e)
<1>1. s \in Shards /\ o \in Shard /\ hour \in Hours /\ mem \in Memory /\ mem.shards \in [Shards -> Shard]
      /\ e \in Inbounds \cup {Absent}
  BY AccountingAssumption DEF AccountingShape, Memory, Live, Listing
<1>2. mem' = [mem EXCEPT !.shards[s] = n]
  BY DEF AddBytes
<1> HIDE DEF e
<1>3. /\ n.total = o.total + 1 /\ n.traffic = [o.traffic EXCEPT ![hour] = @ + 1]
      /\ n.telemetry = IF e # Absent THEN [o.telemetry EXCEPT ![hour] = @ + 1] ELSE o.telemetry
  BY DEF Credited
<1>4. o.traffic \in Counts /\ o.telemetry \in Counts /\ o.total \in Nat /\ o.inbound \in PerInbound
  BY <1>1 DEF Shard
<1>5. /\ [o.traffic EXCEPT ![hour] = @ + 1] \in Counts
      /\ [o.telemetry EXCEPT ![hour] = @ + 1] \in Counts
      /\ e # Absent => [o.inbound EXCEPT ![e] = @ + 1] \in PerInbound
  BY <1>1, <1>4 DEF Counts, PerInbound
<1>6. n \in Shard
  BY <1>4, <1>5 DEF Shard, Credited
<1> HIDE DEF o, n
<1>7. /\ mem'.shards = [mem.shards EXCEPT ![s] = n] /\ mem'.shards \in [Shards -> Shard]
      /\ mem' = [mem EXCEPT !.shards = mem'.shards] /\ mem' \in Memory
  BY <1>1, <1>2, <1>6 DEF Memory
<1> QED BY <1>1, <1>3, <1>7 DEF o, e

LEMMA OpenRelayEffect ==
  ASSUME AccountingShape, NEW f \in Flows, NEW i \in Inbounds, OpenRelay(f, i)
  PROVE  /\ live' \in Live /\ live.connections[f] = Absent
         /\ live'.connections = [live.connections EXCEPT ![f] = i]
         /\ live'.active = [live.active EXCEPT ![i] = @ + 1]
<1> DEFINE c == [live.connections EXCEPT ![f] = i]
           o == <<f, i>>
           k == live.known \cup {i}
           a == [live.active EXCEPT ![i] = @ + 1]
           n == [live.flows EXCEPT ![i] = @ + 1]
<1>1. live \in Live
  BY DEF AccountingShape
<1>2. live' = [live EXCEPT !.connections = c, !.opening = o, !.known = k, !.active = a, !.flows = n]
  <2>1. live' = [live EXCEPT !.connections[f] = i, !.opening = <<f, i>>, !.known = @ \cup {i},
                             !.active[i] = @ + 1, !.flows[i] = @ + 1]
    BY DEF OpenRelay
  <2> QED BY <1>1, <2>1 DEF Live
<1>3. c \in Listing /\ k \in SUBSET Inbounds /\ a \in PerInbound /\ n \in PerInbound
  BY <1>1 DEF Live, Listing, PerInbound
<1>4. o \in {<<>>} \cup (Flows \X Inbounds)
  OBVIOUS
<1> HIDE DEF c, o, k, a, n
<1>5. live' \in Live /\ live'.connections = c /\ live'.active = a
  BY <1>1, <1>2, <1>3, <1>4 DEF Live
<1> QED BY <1>5 DEF c, a, OpenRelay

LEMMA OpenEndsEffect ==
  ASSUME AccountingShape, NEW f \in Flows, NEW i \in Inbounds, OpenEnds(f, i)
  PROVE  live' \in Live /\ live'.connections = live.connections /\ live'.active = live.active
<1> DEFINE e == [live.entries EXCEPT ![f] = i]
<1>1. live \in Live
  BY DEF AccountingShape
<1>2. live' = [live EXCEPT !.entries = e, !.opening = <<>>]
  BY <1>1 DEF OpenEnds, Live
<1>3. e \in Listing /\ <<>> \in {<<>>} \cup (Flows \X Inbounds)
  BY <1>1 DEF Live, Listing
<1> HIDE DEF e
<1> QED BY <1>1, <1>2, <1>3 DEF Live

LEMMA RefreshRelayEffect ==
  ASSUME AccountingShape, NEW f \in Flows, NEW i \in Inbounds, RefreshRelay(f, i)
  PROVE  /\ live' \in Live /\ live'.connections = [live.connections EXCEPT ![f] = i]
         /\ live'.active = live.active /\ live.connections[f] \in Inbounds
         /\ (live' = live /\ dirty' = dirty) \/ dirty'
<1> DEFINE c == [live.connections EXCEPT ![f] = i]
           x == IF live.entries[f] = Absent THEN live.entries[f] ELSE i
           e == [live.entries EXCEPT ![f] = x]
<1>1. live \in Live /\ live.connections \in Listing /\ live.entries \in Listing
  BY DEF AccountingShape, Live
<1>2. live.connections[f] \in Inbounds
  BY <1>1 DEF RefreshRelay, Listing
<1>3. CASE live.connections[f] = i /\ UNCHANGED <<live, dirty>>
  BY <1>1, <1>2, <1>3 DEF Listing
<1>4. CASE live' = [live EXCEPT !.connections[f] = i, !.entries[f] = IF @ = Absent THEN @ ELSE i] /\ dirty' = TRUE
  <2>1. live' = [live EXCEPT !.connections = c, !.entries = e]
    BY <1>1, <1>4 DEF Live
  <2>2. x \in Inbounds \cup {Absent}
    BY <1>1 DEF Listing
  <2> HIDE DEF x
  <2>3. c \in Listing /\ e \in Listing
    BY <1>1, <2>2 DEF Listing
  <2> HIDE DEF c, e
  <2>4. live' \in Live /\ live'.connections = c /\ live'.active = live.active
    BY <1>1, <2>1, <2>3 DEF Live
  <2> QED BY <1>2, <1>4, <2>4 DEF c
<1> QED BY <1>3, <1>4 DEF RefreshRelay

LEMMA CloseRelayEffect ==
  ASSUME AccountingShape, NEW f \in Flows, CloseRelay(f)
  PROVE  LET i == live.connections[f] IN
         /\ mem' \in Memory /\ mem'.shards = mem.shards /\ mem'.total = mem.total
         /\ live' \in Live
         /\ \/ UNCHANGED <<mem, live, dirty>>
            \/ /\ i \in Inbounds /\ live'.connections = [live.connections EXCEPT ![f] = Absent] /\ dirty'
               /\ live'.active = [live.active EXCEPT ![i] = Greater(@ - 1, 0)]
<1> DEFINE i == live.connections[f]
           c == [live.connections EXCEPT ![f] = Absent]
           e == [live.entries EXCEPT ![f] = Absent]
           k == live.known \cup {i}
           a == [live.active EXCEPT ![i] = Greater(@ - 1, 0)]
<1>1. live \in Live /\ mem \in Memory /\ live.connections \in Listing /\ live.entries \in Listing
  BY DEF AccountingShape, Live
<1>2. i \in Inbounds \cup {Absent}
  BY <1>1 DEF Listing
<1>3. CASE i = Absent /\ UNCHANGED <<mem, live, dirty>>
  BY <1>1, <1>3
<1>4. CASE /\ i # Absent
           /\ live' = [live EXCEPT !.connections[f] = Absent, !.entries[f] = Absent,
                                   !.known = @ \cup {i}, !.active[i] = Greater(@ - 1, 0)]
           /\ mem' = [mem EXCEPT !.events = @ + 1]
           /\ dirty' = TRUE
  <2>1. i \in Inbounds
    BY <1>2, <1>4
  <2> HIDE DEF i
  <2>2. live' = [live EXCEPT !.connections = c, !.entries = e, !.known = k, !.active = a]
    BY <1>1, <1>4 DEF Live
  <2>3. live.active[i] \in Nat /\ Greater(live.active[i] - 1, 0) \in Nat
    BY <1>1, <2>1 DEF Live, PerInbound, Greater
  <2>4. c \in Listing /\ e \in Listing /\ k \in SUBSET Inbounds /\ a \in PerInbound
    BY <1>1, <2>1, <2>3 DEF Live, Listing, PerInbound
  <2>5. mem' \in Memory /\ mem'.shards = mem.shards /\ mem'.total = mem.total
    BY <1>1, <1>4 DEF Memory
  <2> HIDE DEF c, e, k, a
  <2>6. live' \in Live /\ live'.connections = c /\ live'.active = a
    BY <1>1, <2>2, <2>4 DEF Live
  <2> QED BY <1>4, <2>1, <2>5, <2>6 DEF c, a, i
<1> QED BY <1>3, <1>4 DEF CloseRelay

LEMMA PlusCounts ==
  ASSUME NEW a \in Counts, NEW b \in Counts
  PROVE  Plus(a, b) \in Counts /\ \A h \in Hours : Plus(a, b)[h] = a[h] + b[h]
BY DEF Counts, Plus

LEMMA NoBytesCounts == NoBytes \in Counts /\ \A h \in Hours : NoBytes[h] = 0
BY DEF NoBytes, Counts

LEMMA BeginTakeEffect ==
  ASSUME AccountingShape, BeginTake
  PROVE  /\ mem' \in Memory /\ mem' = [mem EXCEPT !.events = 0]
         /\ pass' \in Delta /\ pass'.pc = "take" /\ pass'.shard = 0 /\ pass'.total = mem.total
         /\ pass'.traffic = NoBytes /\ pass'.telemetry = NoBytes
<1>1. mem \in Memory
  BY DEF AccountingShape
<1>2. mem' \in Memory /\ mem' = [mem EXCEPT !.events = 0]
  BY <1>1 DEF BeginTake, Memory
<1>3. mem.total \in Nat /\ mem.events \in Nat
  BY <1>1 DEF Memory
<1> QED BY <1>2, <1>3, NoBytesCounts DEF BeginTake, Delta

LEMMA TakeShardEffect ==
  ASSUME AccountingShape, TakeShard
  PROVE  LET s == pass.shard
             o == mem.shards[s] IN
         /\ s \in Shards /\ o \in Shard /\ mem' \in Memory /\ mem' = [mem EXCEPT !.shards = mem'.shards]
         /\ mem'.shards[s].total = o.total /\ mem'.shards[s].traffic = NoBytes
         /\ mem'.shards[s].telemetry = NoBytes
         /\ \A i \in Shards : i # s => mem'.shards[i] = mem.shards[i]
         /\ pass \in Delta /\ pass' \in Delta /\ pass'.shard = s + 1 /\ pass'.total = pass.total + o.total
         /\ pass'.pc = (IF s = NumShards - 1 THEN "apply" ELSE "take")
         /\ pass'.traffic = Plus(pass.traffic, o.traffic)
         /\ pass'.telemetry = Plus(pass.telemetry, o.telemetry)
<1> DEFINE s == pass.shard
           o == mem.shards[s]
           n == [o EXCEPT !.traffic = NoBytes, !.telemetry = NoBytes]
<1>1. s \in Shards /\ s \in Nat /\ mem \in Memory /\ mem.shards \in [Shards -> Shard] /\ o \in Shard /\ pass \in Delta
  BY AccountingAssumption DEF AccountingShape, Memory, TakeShard, Shards
<1>2. n \in Shard /\ n.total = o.total /\ n.traffic = NoBytes /\ n.telemetry = NoBytes
  BY <1>1, NoBytesCounts DEF Shard
<1>3. mem' = [mem EXCEPT !.shards[s] = n]
  <2>1. mem' = [mem EXCEPT !.shards[s].traffic = NoBytes, !.shards[s].telemetry = NoBytes]
    BY DEF TakeShard
  <2> HIDE DEF s
  <2> QED BY <1>1, <2>1 DEF Memory
<1>4. /\ Plus(pass.traffic, o.traffic) \in Counts /\ Plus(pass.telemetry, o.telemetry) \in Counts
      /\ pass.total + o.total \in Nat
  BY <1>1, PlusCounts DEF Delta, Shard
<1>5. /\ pass' \in Delta /\ pass'.shard = s + 1 /\ pass'.total = pass.total + o.total
      /\ pass'.pc = (IF s = NumShards - 1 THEN "apply" ELSE "take")
      /\ pass'.traffic = Plus(pass.traffic, o.traffic)
      /\ pass'.telemetry = Plus(pass.telemetry, o.telemetry)
  <2> DEFINE pc == IF s = NumShards - 1 THEN "apply" ELSE "take"
             tr == Plus(pass.traffic, o.traffic)
             te == Plus(pass.telemetry, o.telemetry)
  <2>1. pass' = [pass EXCEPT !.pc = pc, !.shard = s + 1, !.total = pass.total + o.total,
                             !.traffic = tr, !.telemetry = te]
    BY <1>1 DEF TakeShard, Delta
  <2>2. pc \in {"take", "apply"} /\ s + 1 \in Nat
    BY <1>1
  <2> HIDE DEF pc, tr, te, s, o
  <2>3. /\ pass'.pc = pc /\ pass'.shard = s + 1 /\ pass'.total = pass.total + o.total
        /\ pass'.traffic = tr /\ pass'.telemetry = te
    BY <1>1, <2>1 DEF Delta
  <2>4. pass' \in Delta
    BY <1>1, <1>4, <2>1, <2>2 DEF Delta, tr, te
  <2> QED BY <2>3, <2>4 DEF pc, tr, te
<1> HIDE DEF s, o, n
<1>6. /\ mem'.shards = [mem.shards EXCEPT ![s] = n] /\ mem'.shards \in [Shards -> Shard]
      /\ mem' = [mem EXCEPT !.shards = mem'.shards] /\ mem' \in Memory
  BY <1>1, <1>2, <1>3 DEF Memory
<1> QED BY <1>1, <1>2, <1>5, <1>6 DEF s, o

LEMMA ApplyFailsEffect ==
  ASSUME AccountingShape, ApplyFails
  PROVE  LET o == mem.shards[0] IN
         /\ 0 \in Shards /\ o \in Shard /\ pass \in Delta /\ mem' \in Memory
         /\ mem'.total = mem.total
         /\ mem'.shards[0].total = o.total /\ mem'.shards[0].traffic = Plus(o.traffic, pass.traffic)
         /\ mem'.shards[0].telemetry = Plus(o.telemetry, pass.telemetry)
         /\ \A i \in Shards : i # 0 => mem'.shards[i] = mem.shards[i]
<1> DEFINE o == mem.shards[0]
           n == [o EXCEPT !.traffic = Plus(@, pass.traffic), !.telemetry = Plus(@, pass.telemetry)]
           m == [mem EXCEPT !.events = @ + pass.events]
<1>1. 0 \in Shards /\ mem \in Memory /\ mem.shards \in [Shards -> Shard] /\ o \in Shard /\ pass \in Delta
  BY AccountingAssumption DEF AccountingShape, Memory, ApplyFails, Shards
<1>2. /\ Plus(o.traffic, pass.traffic) \in Counts /\ Plus(o.telemetry, pass.telemetry) \in Counts
  BY <1>1, PlusCounts DEF Delta, Shard
<1>3. /\ n \in Shard /\ n.total = o.total /\ n.traffic = Plus(o.traffic, pass.traffic)
      /\ n.telemetry = Plus(o.telemetry, pass.telemetry)
  BY <1>1, <1>2 DEF Shard
<1>4. m \in Memory /\ m.shards = mem.shards /\ m.total = mem.total
  BY <1>1 DEF Memory, Delta
<1>5. mem' = [m EXCEPT !.shards[0] = n]
  <2>1. mem' = [mem EXCEPT !.events = @ + pass.events,
                        !.shards[0].traffic = Plus(@, pass.traffic),
                        !.shards[0].telemetry = Plus(@, pass.telemetry)]
    BY DEF ApplyFails
  <2> QED BY <1>1, <2>1 DEF Memory, Shard
<1> HIDE DEF o, n, m
<1>6. mem'.shards = [mem.shards EXCEPT ![0] = n] /\ mem' \in Memory /\ mem'.total = mem.total
  BY <1>1, <1>3, <1>4, <1>5 DEF Memory
<1> QED BY <1>1, <1>3, <1>6 DEF o

LEMMA EmptyMemoryTyped ==
  /\ EmptyMemory \in Memory /\ EmptyMemory.total = 0 /\ EmptyMemory.events = 0
  /\ \A s \in Shards : /\ EmptyMemory.shards[s].total = 0 /\ EmptyMemory.shards[s].traffic = NoBytes
                       /\ EmptyMemory.shards[s].telemetry = NoBytes
<1>1. EmptyShard \in Shard
  BY NoBytesCounts DEF EmptyShard, Shard, Nothing, PerInbound
<1> QED BY <1>1 DEF EmptyMemory, Memory, EmptyShard

(* No flow is listed.                                                      *)
Unlisted(l) == \A f \in Flows : l.connections[f] = Absent
Still(l) == \A i \in Inbounds : l.active[i] = 0

LEMMA EmptyLiveTyped ==
  EmptyLive \in Live /\ EmptyLive.opening = <<>> /\ Unlisted(EmptyLive) /\ Still(EmptyLive)
<1>1. Nothing \in PerInbound /\ [f \in Flows |-> Absent] \in Listing
      /\ <<>> \in {<<>>} \cup (Flows \X Inbounds) /\ {} \in SUBSET Inbounds
  BY DEF Nothing, PerInbound, Listing
<1>2. EmptyLive \in Live
  BY <1>1 DEF EmptyLive, Live
<1> QED BY <1>2 DEF EmptyLive, Unlisted, Still, Nothing

LEMMA RestoreEffect ==
  ASSUME NEW total \in Nat, db \in Database, past \in History, Restore(total)
  PROVE  /\ mem' \in Memory /\ mem'.total = total /\ mem'.events = 0
         /\ mem'.shards = EmptyMemory.shards
         /\ live' \in Live /\ live'.opening = <<>> /\ Unlisted(live') /\ Still(live')
         /\ past'.unlisted = total - SumFunction(db.traffic) /\ past'.ahead = db.total - total
         /\ past'.attributed = past.attributed /\ past'.moved = past.moved
         /\ past' = [past EXCEPT !.unlisted = total - SumFunction(db.traffic), !.ahead = db.total - total]
<1>1. mem' = [EmptyMemory EXCEPT !.total = total]
  BY DEF Restore
<1>2. live' = [EmptyLive EXCEPT !.known = db.known, !.flows = db.flows, !.bytes = db.bytes]
  BY DEF Restore
<1>3. db.flows \in PerInbound /\ db.bytes \in PerInbound /\ db.known \in SUBSET Inbounds
  BY DEF Database, PerInbound
<1>4. /\ mem' \in Memory /\ mem'.total = total /\ mem'.events = 0
      /\ mem'.shards = EmptyMemory.shards
  BY <1>1, EmptyMemoryTyped DEF Memory
<1>5. EmptyLive \in Live
  BY EmptyLiveTyped
<1>6. /\ live' \in Live /\ live'.opening = EmptyLive.opening
      /\ live'.connections = EmptyLive.connections /\ live'.active = EmptyLive.active
  BY <1>2, <1>3, <1>5 DEF Live
<1>7. /\ past'.unlisted = total - SumFunction(db.traffic) /\ past'.ahead = db.total - total
      /\ past'.attributed = past.attributed /\ past'.moved = past.moved
      /\ past' = [past EXCEPT !.unlisted = total - SumFunction(db.traffic), !.ahead = db.total - total]
  BY DEF Restore, History
<1> QED BY <1>4, <1>6, <1>7, EmptyLiveTyped DEF Unlisted, Still
-----------------------------------------------------------------------------
(* What of the total of each shard was taken out of its buckets.           *)
Taken(shards) == [s \in Shards |-> shards[s].total - SumFunction(shards[s].traffic)]
Settled(shards, n) == SumFunctionOnSet(Taken(shards), 0 .. n - 1)
PendingIn(shards, field) == SumFunction([s \in Shards |-> SumFunction(shards[s][field])])

LEMMA FiniteDomains ==
  /\ IsFiniteSet(Shards) /\ IsFiniteSet(Hours) /\ IsFiniteSet(Days)
  /\ \A n \in Nat : IsFiniteSet(0 .. n - 1)
<1>1. \A a, b \in Int : IsFiniteSet(a .. b)
  BY FS_Interval
<1>2. IsFiniteSet(Hours) /\ IsFiniteSet(Shards) /\ \A n \in Nat : IsFiniteSet(0 .. n - 1)
  BY <1>1, AccountingAssumption DEF Hours, Shards
<1>3. IsFiniteSet({h \div DayHours : h \in Hours})
  <2> DEFINE day == [h \in Hours |-> h \div DayHours]
  <2>1. {day[h] : h \in Hours} = {h \div DayHours : h \in Hours}
    OBVIOUS
  <2>2. day \in [Hours -> {day[h] : h \in Hours}]
    OBVIOUS
  <2>3. day \in Surjection(Hours, {day[h] : h \in Hours})
    BY <2>2 DEF Surjection
  <2> HIDE DEF day
  <2>4. IsFiniteSet({day[h] : h \in Hours})
    BY <1>2, <2>3, FS_Surjection
  <2> QED BY <2>1, <2>4
<1> QED BY <1>2, <1>3 DEF Days

LEMMA SumCounts ==
  ASSUME NEW c \in Counts
  PROVE  /\ SumFunction(c) = SumFunctionOnSet(c, Hours) /\ SumFunction(c) \in Nat
         /\ \A h \in Hours : c[h] <= SumFunction(c)
<1>1. DOMAIN c = Hours /\ \A h \in Hours : c[h] \in Nat
  BY DEF Counts
<1>2. SumFunction(c) = SumFunctionOnSet(c, Hours)
  BY <1>1 DEF SumFunction
<1>3. SumFunctionOnSet(c, Hours) \in Nat
  BY <1>1, FiniteDomains, SumNatural
<1>4. \A h \in Hours : c[h] <= SumFunctionOnSet(c, Hours)
  BY <1>1, FiniteDomains, SumPositive
<1> QED BY <1>2, <1>3, <1>4

LEMMA SumNoBytes == SumFunction(NoBytes) = 0
BY NoBytesCounts, SumCounts, SumZero, FiniteDomains

LEMMA SumNone ==
  ASSUME NEW c \in Counts, SumFunction(c) = 0
  PROVE  c = NoBytes
<1>1. \A h \in Hours : c[h] = 0
  BY SumCounts DEF Counts
<1> QED BY <1>1 DEF Counts, NoBytes

LEMMA SumOfPlus ==
  ASSUME NEW a \in Counts, NEW b \in Counts
  PROVE  SumFunction(Plus(a, b)) = SumFunction(a) + SumFunction(b)
<1>1. \A h \in Hours : a[h] \in Int /\ b[h] \in Int /\ Plus(a, b)[h] = a[h] + b[h]
  BY PlusCounts DEF Counts
<1>2. SumFunctionOnSet(Plus(a, b), Hours) = SumFunctionOnSet(a, Hours) + SumFunctionOnSet(b, Hours)
  BY <1>1, FiniteDomains, SumPlus
<1> QED BY <1>2, SumCounts, PlusCounts

LEMMA SumOfByte ==
  ASSUME NEW c \in Counts, NEW h \in Hours
  PROVE  SumFunction([c EXCEPT ![h] = @ + 1]) = SumFunction(c) + 1
<1> DEFINE d == [c EXCEPT ![h] = @ + 1]
<1>1. d \in Counts /\ d[h] = c[h] + 1 /\ c[h] \in Nat
      /\ \A x \in Hours : c[x] \in Int /\ d[x] \in Int /\ (x # h => c[x] = d[x])
  BY DEF Counts
<1> HIDE DEF d
<1>2. SumFunctionOnSet(d, Hours) = SumFunctionOnSet(c, Hours) + (d[h] - c[h])
  BY <1>1, FiniteDomains, SumChange
<1>3. SumFunctionOnSet(d, Hours) = SumFunctionOnSet(c, Hours) + 1
  BY <1>1, <1>2, SumCounts
<1> QED BY <1>1, <1>3, SumCounts DEF d

LEMMA ShardSums ==
  ASSUME NEW shards \in [Shards -> Shard], NEW field \in {"traffic", "telemetry"}
  PROVE  \A s \in Shards : /\ shards[s][field] \in Counts /\ shards[s].total \in Nat
                           /\ SumFunction(shards[s][field]) \in Nat
                           /\ Taken(shards)[s] = shards[s].total - SumFunction(shards[s].traffic)
                           /\ Taken(shards)[s] \in Int
<1>1. \A s \in Shards : /\ shards[s].traffic \in Counts /\ shards[s].telemetry \in Counts
                        /\ shards[s].total \in Nat
  BY DEF Shard
<1> SUFFICES ASSUME NEW s \in Shards
             PROVE  /\ shards[s][field] \in Counts /\ shards[s].total \in Nat
                    /\ SumFunction(shards[s][field]) \in Nat
                    /\ Taken(shards)[s] = shards[s].total - SumFunction(shards[s].traffic)
                    /\ Taken(shards)[s] \in Int
  OBVIOUS
<1>2. shards[s][field] \in Counts
  BY <1>1
<1>3. SumFunction(shards[s][field]) \in Nat /\ SumFunction(shards[s].traffic) \in Nat
  BY <1>1, <1>2, SumCounts
<1>4. Taken(shards)[s] = shards[s].total - SumFunction(shards[s].traffic)
  BY DEF Taken
<1> QED BY <1>1, <1>2, <1>3, <1>4

LEMMA PendingSum ==
  ASSUME NEW shards \in [Shards -> Shard], NEW field \in {"traffic", "telemetry"}
  PROVE  /\ PendingIn(shards, field) \in Nat
         /\ \A s \in Shards : SumFunction(shards[s][field]) <= PendingIn(shards, field)
<1> DEFINE f == [s \in Shards |-> SumFunction(shards[s][field])]
<1>1. \A s \in Shards : f[s] \in Nat /\ f[s] = SumFunction(shards[s][field])
  BY ShardSums
<1>2. PendingIn(shards, field) = SumFunctionOnSet(f, Shards)
  BY DEF PendingIn, SumFunction
<1> HIDE DEF f
<1>3. SumFunctionOnSet(f, Shards) \in Nat
  BY <1>1, FiniteDomains, SumNatural
<1>4. \A s \in Shards : f[s] <= SumFunctionOnSet(f, Shards)
  BY <1>1, FiniteDomains, SumPositive
<1> QED BY <1>1, <1>2, <1>3, <1>4

LEMMA SettledInt ==
  ASSUME NEW shards \in [Shards -> Shard], NEW n \in 0 .. NumShards
  PROVE  Settled(shards, n) \in Int
<1>1. \A s \in 0 .. n - 1 : Taken(shards)[s] \in Int
  BY ShardSums, AccountingAssumption DEF Shards
<1>2. IsFiniteSet(0 .. n - 1)
  BY FiniteDomains, AccountingAssumption
<1> QED BY <1>1, <1>2, SumType DEF Settled

LEMMA SettledStart ==
  ASSUME NEW shards \in [Shards -> Shard]
  PROVE  Settled(shards, 0) = 0
BY SumEmpty DEF Settled

LEMMA SettledNext ==
  ASSUME NEW shards \in [Shards -> Shard], NEW n \in Shards
  PROVE  Settled(shards, n + 1) = Settled(shards, n) + Taken(shards)[n]
<1>1. n \in Nat /\ n + 1 \in Nat /\ 0 .. (n + 1) - 1 = 0 .. n /\ 0 .. n \subseteq Shards
      /\ (0 .. n) \ {n} = 0 .. n - 1 /\ n \in 0 .. n /\ n \in 0 .. NumShards
  BY AccountingAssumption DEF Shards
<1>2. IsFiniteSet(0 .. n)
  BY <1>1, FS_Interval
<1>3. \A s \in 0 .. n : Taken(shards)[s] \in Int
  BY <1>1, ShardSums
<1>4. SumFunctionOnSet(Taken(shards), 0 .. n)
        = Taken(shards)[n] + SumFunctionOnSet(Taken(shards), 0 .. n - 1)
  BY <1>1, <1>2, <1>3, SumRemove
<1>5. Settled(shards, n) \in Int
  BY <1>1, SettledInt
<1> QED BY <1>1, <1>3, <1>4, <1>5 DEF Settled

(* Everything a shard counted is pending or was taken.                     *)
LEMMA TotalsSplit ==
  ASSUME NEW shards \in [Shards -> Shard]
  PROVE  ShardTotals(shards) = Settled(shards, NumShards) + PendingIn(shards, "traffic")
<1> DEFINE t == [s \in Shards |-> shards[s].total]
           p == [s \in Shards |-> SumFunction(shards[s].traffic)]
           k == Taken(shards)
<1>1. \A s \in Shards : k[s] \in Int /\ p[s] \in Int /\ t[s] = k[s] + p[s]
  BY ShardSums
<1>2. ShardTotals(shards) = SumFunctionOnSet(t, Shards)
  BY DEF ShardTotals, SumFunction
<1>3. PendingIn(shards, "traffic") = SumFunctionOnSet(p, Shards)
  BY DEF PendingIn, SumFunction
<1>4. Settled(shards, NumShards) = SumFunctionOnSet(k, Shards)
  BY DEF Settled, Shards
<1> HIDE DEF t, p, k
<1>5. SumFunctionOnSet(t, Shards) = SumFunctionOnSet(k, Shards) + SumFunctionOnSet(p, Shards)
  BY <1>1, FiniteDomains, SumPlus
<1> QED BY <1>2, <1>3, <1>4, <1>5

(* A step that changes one shard.                                          *)
LEMMA ShardChangePending ==
  ASSUME NEW a \in [Shards -> Shard], NEW b \in [Shards -> Shard], NEW s \in Shards,
         \A i \in Shards : i # s => b[i] = a[i], NEW field \in {"traffic", "telemetry"}
  PROVE  PendingIn(b, field) = PendingIn(a, field) + (SumFunction(b[s][field]) - SumFunction(a[s][field]))
<1> DEFINE f == [i \in Shards |-> SumFunction(a[i][field])]
           g == [i \in Shards |-> SumFunction(b[i][field])]
<1>1. \A i \in Shards : f[i] \in Int /\ g[i] \in Int /\ (i # s => f[i] = g[i])
  BY ShardSums
<1>2. PendingIn(a, field) = SumFunctionOnSet(f, Shards) /\ PendingIn(b, field) = SumFunctionOnSet(g, Shards)
  BY DEF PendingIn, SumFunction
<1>3. f[s] = SumFunction(a[s][field]) /\ g[s] = SumFunction(b[s][field])
  OBVIOUS
<1> HIDE DEF f, g
<1>4. SumFunctionOnSet(g, Shards) = SumFunctionOnSet(f, Shards) + (g[s] - f[s])
  BY <1>1, FiniteDomains, SumChange
<1> QED BY <1>2, <1>3, <1>4

LEMMA ShardChangeSettled ==
  ASSUME NEW a \in [Shards -> Shard], NEW b \in [Shards -> Shard], NEW s \in Shards,
         \A i \in Shards : i # s => b[i] = a[i], NEW n \in 0 .. NumShards
  PROVE  /\ s < n => Settled(b, n) = Settled(a, n) + (Taken(b)[s] - Taken(a)[s])
         /\ s >= n => Settled(b, n) = Settled(a, n)
<1>1. \A i \in Shards : /\ Taken(a)[i] \in Int /\ Taken(b)[i] \in Int
                        /\ i # s => Taken(a)[i] = Taken(b)[i]
  <2>1. \A i \in Shards : Taken(a)[i] \in Int /\ Taken(b)[i] \in Int
    BY ShardSums
  <2> QED BY <2>1 DEF Taken
<1>2. n \in Nat /\ IsFiniteSet(0 .. n - 1) /\ 0 .. n - 1 \subseteq Shards
  BY FiniteDomains, AccountingAssumption DEF Shards
<1>3. CASE s < n
  <2>1. s \in 0 .. n - 1
    BY <1>2, <1>3, AccountingAssumption DEF Shards
  <2> QED BY <1>1, <1>2, <1>3, <2>1, SumChange DEF Settled
<1>4. CASE s >= n
  <2>1. \A i \in 0 .. n - 1 : i \in Shards /\ i # s
    BY <1>2, <1>4, AccountingAssumption DEF Shards
  <2>2. ~(s < n)
    BY <1>2, <1>4, AccountingAssumption DEF Shards
  <2>3. SumFunctionOnSet(Taken(b), 0 .. n - 1) = SumFunctionOnSet(Taken(a), 0 .. n - 1)
    BY <1>1, <1>2, <2>1, SumSame
  <2> QED BY <2>2, <2>3 DEF Settled
<1>5. s < n \/ s >= n
  BY AccountingAssumption DEF Shards
<1> QED BY <1>3, <1>4, <1>5
-----------------------------------------------------------------------------
(* Who holds the gate, and where the process, the task and a shutdown are. *)
GateHeld ==
  /\ lock \in {"free", "writer", "reader"}
  /\ lock = "writer" <=> pass.pc \in {"take", "apply", "inbound"}
  /\ lock = "reader" <=> reader.pc \in {"state", "shards"}
  /\ run # "up" => /\ pass = Idle /\ reader = Idle /\ mem = EmptyMemory /\ stop = "no"
                   /\ \A f \in Flows : relays[f] = 0
  /\ worker = "wait" => pass = Idle
  /\ stop \in {"flushing", "flushed", "failed"} => worker = "gone"
  /\ stop \in {"flushed", "failed"} => pass = Idle
  /\ stop # "no" => \A f \in Flows : relays[f] = 0
  /\ run # "up" \/ stop # "no" => live.opening = <<>>

(* An import has reached the tables before the blob is deleted.            *)
ImportFirst ==
  /\ run = "up" => ~db.blob.present
  /\ run = "load" => /\ db.blob.present
                     /\ \A h \in Hours : /\ db.blob.traffic[h] <= db.traffic[h]
                                         /\ db.blob.telemetry[h] <= db.hourly[h]

(* The totals without what is pending: in memory they are those of the     *)
(* tables and the delta; a checkpoint and a reader have read the settled   *)
(* part of the shards they passed.                                         *)
MemorySettled ==
  run = "up" =>
    /\ db.total = past.ahead + past.unlisted + SumFunction(db.traffic)
    /\ mem.total + Settled(mem.shards, NumShards)
         = past.unlisted + SumFunction(db.traffic) + InDelta("traffic")

DeltaSettled ==
  pass.pc \in {"take", "apply"} => Settled(mem.shards, pass.shard) = pass.total - mem.total

ReaderSettled ==
  /\ reader.pc = "state" => reader.traffic = db.traffic
  /\ reader.pc = "shards" =>
       Settled(mem.shards, reader.shard) + SumFunction(reader.traffic)
         = (reader.total - mem.total) + SumFunction(db.traffic)

TotalsSettled == MemorySettled /\ DeltaSettled /\ ReaderSettled

(* A checkpoint that reached the tables has lowered them to the totals.    *)
CaughtUp == pass.pc \in {"inbound", "done"} \/ stop = "flushed" => past.ahead = 0

(* The shards a checkpoint has emptied, unless something came since.       *)
Reach == IF pass.pc = "take" THEN pass.shard ELSE NumShards
Drained(shards, n) == \A s \in Shards : s < n => shards[s].traffic = NoBytes

DirtyMarked ==
  /\ ~dirty /\ pass.pc # "lock" => mem.events = 0 /\ Drained(mem.shards, Reach)
  /\ stop = "flushing" /\ pass.pc \in {"take", "apply", "inbound", "done"} =>
       mem.events = 0 /\ Drained(mem.shards, Reach)
  /\ stop = "flushed" => mem.events = 0 /\ Drained(mem.shards, NumShards)

Of(connections, i) == {f \in Flows : connections[f] = i}
GaugeFollows ==
  /\ \A i \in Inbounds : IsFiniteSet(Of(live.connections, i))
  /\ \A i \in Inbounds \ past.moved : live.active[i] = Cardinality(Of(live.connections, i))

AccountingInv ==
  /\ AccountingShape /\ GateHeld /\ ImportFirst /\ TotalsSettled /\ TelemetryConserved
  /\ DirtyMarked /\ CaughtUp /\ GaugeFollows
-----------------------------------------------------------------------------
LEMMA WhereTheyAre ==
  ASSUME AccountingShape
  PROVE  /\ pass.pc \in {"take", "apply"} => pass \in Delta
         /\ pass.pc \in {"idle", "lock", "take", "apply", "inbound", "done", "failed"}
         /\ reader.pc = "shards" => reader \in Snapshot /\ reader.shard <= NumShards
         /\ reader.pc = "state" => reader \in [pc : {"state"}, traffic : Counts, telemetry : Nat]
         /\ reader.pc \in {"idle", "state", "shards"}
BY DEF AccountingShape, Delta, Snapshot

(* Telemetry that moves into the rows of the days is neither lost nor      *)
(* repeated.                                                               *)
LEMMA CompactConserves ==
  ASSUME hour \in Hours, NEW hourly \in Counts, NEW daily \in [Days -> Nat]
  PROVE  LET c == Compact(hourly, daily) IN
         /\ c.hourly \in Counts /\ c.daily \in [Days -> Nat]
         /\ SumFunction(c.hourly) + SumFunction(c.daily) = SumFunction(hourly) + SumFunction(daily)
<1> DEFINE K == {h \in Hours : Old(h)}
           m == [h \in Hours |-> h \div DayHours]
           c == Compact(hourly, daily)
           G == Group(hourly, m, K, Days)
           ch == c.hourly
           cd == c.daily
<1>1. /\ K \in SUBSET Hours /\ IsFiniteSet(Hours) /\ IsFiniteSet(K) /\ IsFiniteSet(Days) /\ IsFiniteSet(Hours \ K)
  BY FiniteDomains, FS_Subset
<1>2. \A h \in Hours : hourly[h] \in Nat /\ hourly[h] \in Int
  BY DEF Counts
<1>3. \A h \in Hours : m[h] \in Days /\ m[h] = h \div DayHours
  BY DEF Days
<1>4. /\ ch \in Counts /\ \A h \in K : ch[h] = 0
      /\ \A h \in Hours \ K : ch[h] = hourly[h]
  BY <1>2 DEF Compact, Counts
<1>5. \A d \in Days : {h \in Hours : Old(h) /\ h \div DayHours = d} = {h \in K : m[h] = d}
  BY <1>3
<1>6. \A d \in Days : cd[d] = daily[d] + G[d]
  BY <1>5 DEF Compact, Group
<1>7. \A d \in Days : G[d] \in Nat
  <2> SUFFICES ASSUME NEW d \in Days PROVE G[d] \in Nat
    OBVIOUS
  <2> DEFINE M == {h \in K : m[h] = d}
  <2>1. IsFiniteSet(M) /\ \A h \in M : hourly[h] \in Nat
    BY <1>1, <1>2, FS_Subset
  <2>2. SumFunctionOnSet(hourly, M) \in Nat
    <3> HIDE DEF M
    <3> QED BY <2>1, SumNatural
  <2> QED BY <2>2 DEF Group
<1>8. DOMAIN cd = Days
  BY DEF Compact
<1>9. cd = [d \in Days |-> cd[d]]
  BY <1>8 DEF Compact
<1> HIDE DEF K, m, c, G, ch, cd
<1>10. \A d \in Days : daily[d] \in Nat /\ daily[d] \in Int /\ G[d] \in Int /\ cd[d] \in Nat
  BY <1>6, <1>7
<1>11. cd \in [Days -> Nat]
  BY <1>9, <1>10
<1>12. SumFunctionOnSet(cd, Days) = SumFunctionOnSet(daily, Days) + SumFunctionOnSet(G, Days)
  BY <1>1, <1>6, <1>10, SumPlus
<1>13. SumFunctionOnSet(G, Days) = SumFunctionOnSet(hourly, K)
  BY <1>1, <1>2, <1>3, SumGrouped DEF G
<1>14. SumFunctionOnSet(hourly, Hours) = SumFunctionOnSet(hourly, K) + SumFunctionOnSet(hourly, Hours \ K)
  BY <1>1, <1>2, SumSplit
<1>15. SumFunctionOnSet(ch, Hours) = SumFunctionOnSet(ch, K) + SumFunctionOnSet(ch, Hours \ K)
  <2>1. \A h \in Hours : ch[h] \in Int
    BY <1>4 DEF Counts
  <2> QED BY <1>1, <2>1, SumSplit
<1>16. SumFunctionOnSet(ch, K) = 0
  BY <1>1, <1>4, SumZero
<1>17. SumFunctionOnSet(ch, Hours \ K) = SumFunctionOnSet(hourly, Hours \ K)
  BY <1>1, <1>4, SumSame
<1>18. /\ SumFunctionOnSet(hourly, K) \in Int /\ SumFunctionOnSet(hourly, Hours \ K) \in Int
       /\ SumFunctionOnSet(daily, Days) \in Int
  BY <1>1, <1>2, <1>10, SumType
<1>19. SumFunctionOnSet(ch, Hours) + SumFunctionOnSet(cd, Days)
         = SumFunctionOnSet(hourly, Hours) + SumFunctionOnSet(daily, Days)
  BY <1>12, <1>13, <1>14, <1>15, <1>16, <1>17, <1>18
<1>20. /\ SumFunction(ch) = SumFunctionOnSet(ch, Hours) /\ SumFunction(hourly) = SumFunctionOnSet(hourly, Hours)
       /\ SumFunction(cd) = SumFunctionOnSet(cd, Days) /\ SumFunction(daily) = SumFunctionOnSet(daily, Days)
  BY <1>4, <1>8, SumCounts DEF SumFunction
<1> QED BY <1>4, <1>11, <1>19, <1>20 DEF ch, cd, c

LEMMA ApplyDeltaEffect ==
  ASSUME AccountingShape, ApplyDelta
  PROVE  /\ pass \in Delta /\ db' \in Database /\ db'.total = pass.total /\ db'.blob = db.blob
         /\ db'.traffic = Plus(db.traffic, pass.traffic)
         /\ SumFunction(db'.hourly) + SumFunction(db'.daily)
              = (SumFunction(db.hourly) + SumFunction(db.daily)) + SumFunction(pass.telemetry)
<1> DEFINE both == Plus(db.hourly, pass.telemetry)
           c == Compact(both, db.daily)
           tr == Plus(db.traffic, pass.traffic)
           ev == db.events + pass.events
<1>1. db \in Database /\ pass \in Delta /\ hour \in Hours
  BY WhereTheyAre DEF ApplyDelta, AccountingShape
<1>2. /\ db.hourly \in Counts /\ db.daily \in [Days -> Nat] /\ db.traffic \in Counts /\ db.events \in Nat
      /\ pass.traffic \in Counts /\ pass.telemetry \in Counts /\ pass.total \in Nat /\ pass.events \in Nat
  BY <1>1 DEF Database, Delta
<1>3. both \in Counts /\ tr \in Counts /\ ev \in Nat
      /\ SumFunction(both) = SumFunction(db.hourly) + SumFunction(pass.telemetry)
  <2>1. both \in Counts /\ tr \in Counts
    BY <1>2, PlusCounts
  <2>2. SumFunction(both) = SumFunction(db.hourly) + SumFunction(pass.telemetry)
    BY <1>2, SumOfPlus
  <2> QED BY <1>2, <2>1, <2>2
<1>4. db' = [db EXCEPT !.total = pass.total, !.traffic = tr, !.hourly = c.hourly, !.daily = c.daily,
                       !.events = ev]
  BY <1>1 DEF ApplyDelta, Database
<1>5. /\ c.hourly \in Counts /\ c.daily \in [Days -> Nat]
      /\ SumFunction(c.hourly) + SumFunction(c.daily) = SumFunction(both) + SumFunction(db.daily)
  <2> HIDE DEF both
  <2> QED BY <1>1, <1>2, <1>3, CompactConserves
<1>6. SumFunction(db.hourly) \in Int /\ SumFunction(pass.telemetry) \in Int /\ SumFunction(db.daily) \in Int
  <2>1. SumFunction(db.daily) = SumFunctionOnSet(db.daily, Days) /\ \A d \in Days : db.daily[d] \in Int
    BY <1>2 DEF SumFunction
  <2> QED BY <1>2, <2>1, SumCounts, SumType, FiniteDomains
<1> HIDE DEF both, c, tr, ev
<1>7. /\ db' \in Database /\ db'.total = pass.total /\ db'.blob = db.blob /\ db'.traffic = tr
      /\ db'.hourly = c.hourly /\ db'.daily = c.daily
  BY <1>1, <1>2, <1>3, <1>4, <1>5 DEF Database
<1> QED BY <1>1, <1>3, <1>5, <1>6, <1>7 DEF tr

LEMMA WriteInboundEffect ==
  ASSUME AccountingShape, WriteInbound
  PROVE  /\ db' \in Database /\ db'.total = db.total /\ db'.blob = db.blob /\ db'.traffic = db.traffic
         /\ db'.hourly = db.hourly /\ db'.daily = db.daily
<1> DEFINE k == db.known \cup live.known
           n == InboundFlows
           b == InboundBytes
<1>1. db \in Database /\ mem \in Memory /\ live \in Live
  BY DEF AccountingShape
<1>2. db.known \in SUBSET Inbounds /\ live.known \in SUBSET Inbounds
      /\ \A i \in Inbounds : live.flows[i] \in Nat /\ live.bytes[i] \in Nat /\ db.flows[i] \in Nat /\ db.bytes[i] \in Nat
  BY <1>1 DEF Live, Database, PerInbound
<1>3. ASSUME NEW i \in Inbounds PROVE SumFunction([s \in Shards |-> mem.shards[s].inbound[i]]) \in Nat
  <2> DEFINE f == [s \in Shards |-> mem.shards[s].inbound[i]]
  <2>1. \A s \in Shards : f[s] \in Nat
    BY <1>1 DEF Memory, Shard, PerInbound
  <2>2. SumFunction(f) = SumFunctionOnSet(f, Shards)
    BY DEF SumFunction
  <2> HIDE DEF f
  <2>3. SumFunctionOnSet(f, Shards) \in Nat
    BY <2>1, SumNatural, FiniteDomains
  <2> QED BY <2>2, <2>3 DEF f
<1>4. k \in SUBSET Inbounds /\ n \in [Inbounds -> Nat]
  BY <1>2 DEF InboundFlows
<1>5. b \in [Inbounds -> Nat]
  BY <1>2, <1>3 DEF InboundBytes
<1>6. db' = db \/ db' = [db EXCEPT !.known = k, !.flows = n, !.bytes = b]
  BY <1>1 DEF WriteInbound, Database
<1> HIDE DEF k, n, b
<1> QED BY <1>1, <1>4, <1>5, <1>6 DEF Database

LEMMA ReadShardEffect ==
  ASSUME AccountingShape, ReadShard
  PROVE  LET o == mem.shards[reader.shard] IN
         /\ reader \in Snapshot /\ reader.shard \in Shards /\ o \in Shard
         /\ reader' \in Snapshot /\ reader'.pc = "shards" /\ reader'.shard = reader.shard + 1
         /\ reader'.total = reader.total + o.total /\ reader'.traffic = Plus(reader.traffic, o.traffic)
<1> DEFINE o == mem.shards[reader.shard]
           tr == Plus(reader.traffic, o.traffic)
           te == reader.telemetry + SumFunction(o.telemetry)
           n == reader.shard + 1
           t == reader.total + o.total
<1>1. reader \in Snapshot /\ reader.shard \in Shards
  BY WhereTheyAre, AccountingAssumption DEF ReadShard, Snapshot, Shards
<1>2. o \in Shard
  BY <1>1 DEF AccountingShape, Memory
<1>3. o.traffic \in Counts /\ o.telemetry \in Counts /\ o.total \in Nat /\ reader.traffic \in Counts
      /\ reader.telemetry \in Nat /\ reader.total \in Nat /\ reader.shard \in Nat
  BY <1>1, <1>2 DEF Shard, Snapshot
<1>4. tr \in Counts /\ te \in Nat /\ n \in Nat /\ t \in Nat
  BY <1>3, PlusCounts, SumCounts
<1>5. reader' = [reader EXCEPT !.shard = n, !.total = t, !.traffic = tr, !.telemetry = te]
  BY <1>1 DEF ReadShard, Snapshot
<1> HIDE DEF tr, te, n, t
<1>6. /\ reader' \in Snapshot /\ reader'.pc = "shards" /\ reader'.shard = n /\ reader'.total = t
      /\ reader'.traffic = tr
  BY <1>1, <1>4, <1>5 DEF Snapshot
<1> QED BY <1>1, <1>2, <1>6 DEF n, t, tr

LEMMA MergeCounts ==
  ASSUME NEW c \in Counts, NEW d \in Counts
  PROVE  /\ Merge(c, d) \in Counts /\ \A h \in Hours : Merge(c, d)[h] = Greater(c[h], d[h])
         /\ \A h \in Hours : c[h] <= Merge(c, d)[h] /\ d[h] <= Merge(c, d)[h]
BY DEF Merge, Counts, Greater

(* What is not smaller is not changed by a merge.                          *)
LEMMA MergeAbsorbs ==
  ASSUME NEW c \in Counts, NEW d \in Counts, \A h \in Hours : d[h] <= c[h]
  PROVE  Merge(c, d) = c
<1>1. \A h \in Hours : Greater(c[h], d[h]) = c[h]
  BY DEF Greater, Counts
<1> QED BY <1>1 DEF Merge, Counts

LEMMA BlobTyped ==
  ASSUME AccountingShape
  PROVE  /\ db.blob.traffic \in Counts /\ db.blob.telemetry \in Counts /\ db.blob.total \in Nat
         /\ db.blob.undated \in Nat /\ BlobTelemetry \in Counts
         /\ db.traffic \in Counts /\ db.hourly \in Counts /\ db.daily \in [Days -> Nat] /\ db.total \in Nat
<1>1. db \in Database /\ db.blob \in Blobs /\ hour \in Hours
  BY DEF AccountingShape, Database
<1>2. /\ db.blob.traffic \in Counts /\ db.blob.telemetry \in Counts /\ db.blob.total \in Nat
      /\ db.blob.undated \in Nat
  BY <1>1 DEF Blobs
<1>3. [NoBytes EXCEPT ![hour] = db.blob.undated] \in Counts
  BY <1>1, <1>2, NoBytesCounts DEF Counts
<1>4. BlobTelemetry \in Counts
  BY <1>2, <1>3 DEF BlobTelemetry
<1> QED BY <1>1, <1>2, <1>4 DEF Database

LEMMA ImportEffect ==
  ASSUME AccountingShape, ImportBlob
  PROVE  /\ db' \in Database /\ db'.total = Greater(db.total, db.blob.total) /\ db'.blob = db.blob
         /\ db'.traffic = Merge(db.traffic, db.blob.traffic)
         /\ db'.hourly = Merge(db.hourly, BlobTelemetry) /\ db'.daily = db.daily
<1> DEFINE t == Greater(db.total, db.blob.total)
           tr == Merge(db.traffic, db.blob.traffic)
           te == Merge(db.hourly, BlobTelemetry)
<1>1. db \in Database
  BY DEF AccountingShape
<1>2. t \in Nat /\ tr \in Counts /\ te \in Counts
  BY BlobTyped, MergeCounts DEF Greater
<1>3. db' = [db EXCEPT !.total = t, !.traffic = tr, !.hourly = te]
  BY <1>1 DEF ImportBlob, Database
<1> HIDE DEF t, tr, te
<1>4. db' \in Database /\ db'.total = t /\ db'.blob = db.blob /\ db'.traffic = tr
      /\ db'.hourly = te /\ db'.daily = db.daily
  BY <1>1, <1>2, <1>3 DEF Database
<1> QED BY <1>4 DEF t, tr, te

LEMMA FinishEffect ==
  ASSUME AccountingShape, FinishImport
  PROVE  /\ db' \in Database /\ db'.total = db.total /\ db'.blob = NoBlob /\ db'.traffic = db.traffic
         /\ db'.hourly = db.hourly /\ db'.daily = db.daily /\ ~db'.blob.present
<1>1. db \in Database /\ NoBlob \in Blobs /\ ~NoBlob.present
  BY NoBytesCounts DEF AccountingShape, NoBlob, Blobs
<1>2. db' = [db EXCEPT !.blob = NoBlob]
  BY DEF FinishImport
<1> QED BY <1>1, <1>2 DEF Database

(* The telemetry a process starts from.                                    *)
Base(d) == IF d.blob.present THEN Merge(d.hourly, d.blob.telemetry) ELSE d.hourly

LEMMA TelemetryOf ==
  ASSUME NEW d \in Database
  PROVE  /\ Telemetry(d) = SumFunction(Base(d)) + SumFunction(d.daily) /\ Telemetry(d) \in Nat
         /\ SumFunction(d.hourly) \in Nat /\ SumFunction(d.daily) \in Nat
         /\ ~d.blob.present => Telemetry(d) = SumFunction(d.hourly) + SumFunction(d.daily)
<1>0. d.hourly \in Counts /\ d.daily \in [Days -> Nat] /\ d.blob.telemetry \in Counts
  BY DEF Database, Blobs
<1>1. Telemetry(d) = SumFunction(Base(d)) + SumFunction(d.daily)
  BY DEF Telemetry, Base
<1>2. Base(d) \in Counts /\ (~d.blob.present => Base(d) = d.hourly)
  BY <1>0, MergeCounts DEF Base
<1>3. SumFunction(d.daily) = SumFunctionOnSet(d.daily, Days) /\ \A e \in Days : d.daily[e] \in Nat
  BY <1>0 DEF SumFunction
<1>4. SumFunction(d.daily) \in Nat
  BY <1>3, SumNatural, FiniteDomains
<1>5. SumFunction(Base(d)) \in Nat /\ SumFunction(d.hourly) \in Nat
  BY <1>0, <1>2, SumCounts
<1> QED BY <1>1, <1>2, <1>4, <1>5

LEMMA TelemetryNatural ==
  ASSUME AccountingShape
  PROVE  /\ Telemetry(db) \in Nat
         /\ SumFunction(db.hourly) \in Nat /\ SumFunction(db.daily) \in Nat
         /\ ~db.blob.present => Telemetry(db) = SumFunction(db.hourly) + SumFunction(db.daily)
BY TelemetryOf DEF AccountingShape

LEMMA RedatedNatural ==
  ASSUME AccountingShape
  PROVE  Redated \in Nat
<1>1. hour \in Hours /\ db.hourly[hour] \in Nat /\ db.blob.undated \in Nat
  BY BlobTyped DEF AccountingShape, Counts
<1> QED BY <1>1 DEF Redated, Greater
-----------------------------------------------------------------------------
LEMMA ShapeKept ==
  ASSUME AccountingShape, AccountingNext
  PROVE  AccountingShape'
<1> USE DEF AccountingShape
<1>1. ASSUME NEW f \in Flows, AddBytes(f) PROVE AccountingShape'
  <2>1. past' \in History
    BY <1>1 DEF AddBytes, History
  <2>2. mem' \in Memory
    BY <1>1, AddBytesEffect
  <2> QED BY <1>1, <2>1, <2>2 DEF AddBytes
<1>2. ASSUME NEW f \in Flows, NEW i \in Inbounds, OpenRelay(f, i) PROVE AccountingShape'
  <2>1. live' \in Live
    BY <1>2, OpenRelayEffect
  <2> QED BY <1>2, <2>1 DEF OpenRelay
<1>22. ASSUME NEW f \in Flows, NEW i \in Inbounds, OpenEnds(f, i) PROVE AccountingShape'
  <2>1. live' \in Live
    BY <1>22, OpenEndsEffect
  <2>2. relays' \in [Flows -> Nat] /\ dirty' \in BOOLEAN
    BY <1>22 DEF OpenEnds
  <2> QED BY <1>22, <2>1, <2>2 DEF OpenEnds
<1>23. ASSUME NEW f \in Flows, NEW i \in Inbounds, RefreshRelay(f, i) PROVE AccountingShape'
  <2>1. live' \in Live /\ live.connections[f] \in Inbounds /\ dirty' \in BOOLEAN
    BY <1>23, RefreshRelayEffect
  <2>2. relays' \in [Flows -> Nat]
    BY <1>23 DEF RefreshRelay
  <2>3. past' \in History
    BY <1>23, <2>1 DEF RefreshRelay, History, Moved
  <2> QED BY <1>23, <2>1, <2>2, <2>3 DEF RefreshRelay
<1>3. ASSUME NEW f \in Flows, CloseRelay(f) PROVE AccountingShape'
  <2>1. mem' \in Memory /\ live' \in Live
    BY <1>3, CloseRelayEffect
  <2>2. relays[f] \in Nat /\ relays[f] > 0 /\ relays' = [relays EXCEPT ![f] = @ - 1]
    BY <1>3 DEF CloseRelay
  <2>3. relays' \in [Flows -> Nat]
    BY <2>2
  <2>4. dirty' \in BOOLEAN
    BY <1>3 DEF CloseRelay
  <2> QED BY <1>3, <2>1, <2>3, <2>4 DEF CloseRelay
<1>4. CASE WorkerTick
  BY <1>4 DEF WorkerTick
<1>5. CASE BeginTake
  <2>1. mem' \in Memory /\ pass' \in Delta /\ pass'.pc = "take" /\ pass'.shard = 0
    BY <1>5, BeginTakeEffect
  <2>2. 0 \in Shards
    BY AccountingAssumption DEF Shards
  <2> QED BY <1>5, <2>1, <2>2 DEF BeginTake
<1>6. CASE TakeShard
  <2>1. /\ pass.shard \in Shards /\ mem' \in Memory /\ pass' \in Delta /\ pass'.shard = pass.shard + 1
        /\ pass'.pc = (IF pass.shard = NumShards - 1 THEN "apply" ELSE "take")
    BY <1>6, TakeShardEffect
  <2>2. /\ pass'.pc = "take" => pass'.shard \in Shards
        /\ pass'.pc = "apply" => pass'.shard = NumShards
    BY <2>1, AccountingAssumption DEF Shards
  <2> QED BY <1>6, <2>1, <2>2 DEF TakeShard
<1>7. CASE ApplyDelta
  <2>1. past' \in History
    BY <1>7 DEF ApplyDelta, History
  <2> QED BY <1>7, <2>1, ApplyDeltaEffect DEF ApplyDelta
<1>8. CASE ApplyFails
  BY <1>8, ApplyFailsEffect DEF ApplyFails
<1>9. CASE WriteInbound
  BY <1>9, WriteInboundEffect DEF WriteInbound
<1>10. CASE PersistReturns
  BY <1>10 DEF PersistReturns, Idle
<1>11. CASE Stop
  BY <1>11 DEF Stop, Shutdown, WorkerStops, ShutdownEnds, Idle
<1>12. CASE ReadRows
  <2>1. db.traffic \in Counts /\ SumFunction(db.hourly) \in Nat /\ SumFunction(db.daily) \in Nat
    <3>1. db.hourly \in Counts /\ db.daily \in [Days -> Nat] /\ db.traffic \in Counts
      BY DEF Database
    <3>2. SumFunction(db.daily) = SumFunctionOnSet(db.daily, Days) /\ \A d \in Days : db.daily[d] \in Nat
      BY <3>1 DEF SumFunction
    <3> QED BY <3>1, <3>2, SumCounts, SumNatural, FiniteDomains
  <2>2. reader' \in [pc : {"state"}, traffic : Counts, telemetry : Nat]
    BY <1>12, <2>1 DEF ReadRows
  <2> QED BY <1>12, <2>2 DEF ReadRows
<1>13. CASE ReadState
  <2>1. reader \in [pc : {"state"}, traffic : Counts, telemetry : Nat] /\ mem.total \in Nat
    BY <1>13, WhereTheyAre DEF ReadState, Memory
  <2>2. reader' \in Snapshot /\ reader'.shard = 0 /\ 0 <= NumShards
    BY <1>13, <2>1, AccountingAssumption DEF ReadState, Snapshot
  <2> QED BY <1>13, <2>2 DEF ReadState
<1>14. CASE ReadShard
  <2>1. /\ reader.shard \in Shards /\ reader' \in Snapshot /\ reader'.shard = reader.shard + 1
    BY <1>14, ReadShardEffect
  <2>2. reader'.shard <= NumShards
    BY <2>1, AccountingAssumption DEF Shards
  <2> QED BY <1>14, <2>1, <2>2 DEF ReadShard
<1>15. CASE ReadEnds
  BY <1>15 DEF ReadEnds, Idle
<1>16. CASE Crash
  <2>1. past' \in History
    BY <1>16, TelemetryNatural DEF Crash, History
  <2> QED BY <1>16, <2>1, EmptyMemoryTyped, EmptyLiveTyped DEF Crash, Idle
<1>17. ASSUME NEW total \in Nat, Restore(total), db' \in Database PROVE AccountingShape'
  <2> DEFINE u == total - SumFunction(db.traffic)
             a == db.total - total
  <2>1. mem' \in Memory /\ live' \in Live /\ past' = [past EXCEPT !.unlisted = u, !.ahead = a]
    BY <1>17, RestoreEffect
  <2>2. u \in Int /\ a \in Int
    BY <1>17, BlobTyped, SumCounts
  <2> HIDE DEF u, a
  <2>3. past' \in History
    BY <2>1, <2>2 DEF History
  <2> QED BY <1>17, <2>1, <2>3 DEF Restore
<1>18. CASE Load
  BY <1>17, <1>18 DEF Load, Database
<1>19. CASE ImportBlob
  <2>1. past' \in History
    BY <1>19, RedatedNatural DEF ImportBlob, History
  <2> QED BY <1>19, <2>1, ImportEffect DEF ImportBlob
<1>20. CASE FinishImport
  <2>1. db.blob.total \in Nat
    BY BlobTyped
  <2> QED BY <1>17, <1>20, <2>1, FinishEffect DEF FinishImport
<1>21. CASE HourPasses
  <2>1. hour' \in Hours
    BY <1>21, AccountingAssumption DEF HourPasses, Hours
  <2> QED BY <1>21, <2>1 DEF HourPasses
<1> QED
  BY <1>1, <1>2, <1>3, <1>4, <1>5, <1>6, <1>7, <1>8, <1>9, <1>10, <1>11, <1>12, <1>13, <1>14, <1>15,
     <1>16, <1>18, <1>19, <1>20, <1>21, <1>22, <1>23
     DEF AccountingNext, Traffic, Checkpoint, Read, Start
LEMMA GateKept ==
  ASSUME AccountingShape, GateHeld, AccountingNext
  PROVE  GateHeld'
<1> USE DEF GateHeld, Idle
<1>0. /\ pass.pc \in {"idle", "lock", "take", "apply", "inbound", "done", "failed"}
      /\ reader.pc \in {"idle", "state", "shards"} /\ relays \in [Flows -> Nat]
  BY WhereTheyAre DEF AccountingShape
<1>1. ASSUME NEW f \in Flows, AddBytes(f) PROVE GateHeld'
  BY <1>1 DEF AddBytes, Running
<1>2. ASSUME NEW f \in Flows, NEW i \in Inbounds, OpenRelay(f, i) PROVE GateHeld'
  BY <1>2 DEF OpenRelay, Running
<1>23. ASSUME NEW f \in Flows, NEW i \in Inbounds, OpenEnds(f, i) PROVE GateHeld'
  <2>1. live.opening # <<>>
    BY <1>23 DEF OpenEnds
  <2>2. run = "up" /\ stop = "no"
    BY <2>1
  <2> QED BY <1>23, <2>2 DEF OpenEnds
<1>24. ASSUME NEW f \in Flows, NEW i \in Inbounds, RefreshRelay(f, i) PROVE GateHeld'
  BY <1>24 DEF RefreshRelay, Running
<1>3. ASSUME NEW f \in Flows, CloseRelay(f) PROVE GateHeld'
  <2>1. run = "up" /\ stop = "no"
    BY <1>0, <1>3 DEF CloseRelay
  <2> QED BY <1>3, <2>1 DEF CloseRelay
<1>4. CASE WorkerTick
  BY <1>4 DEF WorkerTick
<1>5. CASE BeginTake
  BY <1>5 DEF BeginTake, Gate
<1>6. CASE TakeShard
  <2>1. pass'.pc \in {"take", "apply"}
    BY <1>6, TakeShardEffect
  <2> QED BY <1>6, <2>1 DEF TakeShard
<1>7. CASE ApplyDelta
  BY <1>7 DEF ApplyDelta
<1>8. CASE ApplyFails
  BY <1>8 DEF ApplyFails
<1>9. CASE WriteInbound
  BY <1>9 DEF WriteInbound
<1>10. CASE PersistReturns
  BY <1>10 DEF PersistReturns
<1>11. CASE Shutdown
  BY <1>11 DEF Shutdown
<1>12. CASE WorkerStops
  BY <1>12 DEF WorkerStops
<1>13. CASE ShutdownEnds
  BY <1>13 DEF ShutdownEnds
<1>14. CASE ReadRows
  BY <1>14 DEF ReadRows, Gate
<1>15. CASE ReadState
  BY <1>15 DEF ReadState
<1>16. CASE ReadShard
  <2>1. reader'.pc = reader.pc
    <3>1. reader \in Snapshot
      BY <1>16, WhereTheyAre DEF ReadShard
    <3> QED BY <1>16, <3>1 DEF ReadShard, Snapshot
  <2> QED BY <1>16, <2>1 DEF ReadShard
<1>17. CASE ReadEnds
  BY <1>17 DEF ReadEnds, SnapshotComplete
<1>18. CASE Crash
  BY <1>18, EmptyLiveTyped DEF Crash
<1>25. ASSUME NEW total \in Nat, Restore(total), run # "up" PROVE GateHeld'
  BY <1>25 DEF Restore
<1>19. CASE Load
  BY <1>19, <1>25, BlobTyped DEF Load
<1>20. CASE ImportBlob
  BY <1>20 DEF ImportBlob
<1>21. CASE FinishImport
  BY <1>21, <1>25, BlobTyped DEF FinishImport
<1>22. CASE HourPasses
  BY <1>22 DEF HourPasses
<1> QED
  BY <1>1, <1>2, <1>3, <1>4, <1>5, <1>6, <1>7, <1>8, <1>9, <1>10, <1>11, <1>12, <1>13, <1>14, <1>15,
     <1>16, <1>17, <1>18, <1>19, <1>20, <1>21, <1>22, <1>23, <1>24
     DEF AccountingNext, Traffic, Checkpoint, Stop, Read, Start

LEMMA TrafficLeaves ==
  ASSUME AccountingShape, Traffic
  PROVE  UNCHANGED <<db, run, pass, stop>> /\ past'.ahead = past.ahead
<1>0. past \in History
  BY DEF AccountingShape
<1>1. ASSUME NEW f \in Flows, AddBytes(f)
      PROVE  UNCHANGED <<db, run, pass, stop>> /\ past'.ahead = past.ahead
  BY <1>0, <1>1 DEF AddBytes, History
<1>2. ASSUME NEW f \in Flows, CloseRelay(f)
      PROVE  UNCHANGED <<db, run, pass, stop>> /\ past'.ahead = past.ahead
  BY <1>2 DEF CloseRelay
<1>3. ASSUME NEW f \in Flows, NEW i \in Inbounds, OpenRelay(f, i) \/ OpenEnds(f, i)
      PROVE  UNCHANGED <<db, run, pass, stop>> /\ past'.ahead = past.ahead
  BY <1>3 DEF OpenRelay, OpenEnds
<1>4. ASSUME NEW f \in Flows, NEW i \in Inbounds, RefreshRelay(f, i)
      PROVE  UNCHANGED <<db, run, pass, stop>> /\ past'.ahead = past.ahead
  BY <1>0, <1>4 DEF RefreshRelay, History
<1> QED BY <1>1, <1>2, <1>3, <1>4 DEF Traffic

LEMMA ImportKept ==
  ASSUME AccountingShape, GateHeld, ImportFirst, AccountingNext
  PROVE  ImportFirst'
<1> USE DEF ImportFirst
<1>1. CASE ApplyDelta
  <2>1. run = "up" /\ run' = run
    BY <1>1 DEF ApplyDelta, GateHeld, Idle
  <2>2. db'.blob = db.blob
    BY <1>1, ApplyDeltaEffect
  <2> QED BY <2>1, <2>2
<1>2. CASE WriteInbound
  <2>1. run = "up" /\ run' = run
    BY <1>2 DEF WriteInbound, GateHeld, Idle
  <2>2. db'.blob = db.blob
    BY <1>2, WriteInboundEffect
  <2> QED BY <2>1, <2>2
<1>3. CASE ImportBlob
  <2>1. /\ db'.blob = db.blob /\ db'.traffic = Merge(db.traffic, db.blob.traffic)
        /\ db'.hourly = Merge(db.hourly, BlobTelemetry)
    BY <1>3, ImportEffect
  <2>2. \A h \in Hours : db.blob.traffic[h] <= db'.traffic[h] /\ BlobTelemetry[h] <= db'.hourly[h]
    BY <2>1, BlobTyped, MergeCounts
  <2>3. \A h \in Hours : db.blob.telemetry[h] <= BlobTelemetry[h] /\ BlobTelemetry[h] \in Nat /\ db.blob.telemetry[h] \in Nat
    <3>1. CASE Dated(db.blob)
      BY <3>1, BlobTyped DEF BlobTelemetry, Counts
    <3>2. CASE ~Dated(db.blob)
      <4>1. \A h \in Hours : db.blob.telemetry[h] = 0
        BY <3>2, NoBytesCounts DEF Dated
      <4> QED BY <4>1, BlobTyped DEF Counts
    <3> QED BY <3>1, <3>2
  <2>4. run' = "load" /\ db.blob.present
    BY <1>3 DEF ImportBlob
  <2>5. \A h \in Hours : db'.hourly[h] \in Nat
    BY <2>1, BlobTyped, MergeCounts DEF Counts
  <2>6. \A h \in Hours : db.blob.telemetry[h] <= db'.hourly[h]
    BY <2>2, <2>3, <2>5
  <2> QED BY <2>1, <2>2, <2>4, <2>6
<1>4. CASE FinishImport
  <2>1. ~db'.blob.present /\ run' = "up"
    BY <1>4, FinishEffect DEF FinishImport, Restore
  <2> QED BY <2>1
<1>5. CASE Load
  BY <1>5 DEF Load, Restore
<1>6. CASE Crash
  BY <1>6 DEF Crash
<1>7. ASSUME UNCHANGED <<db, run>> PROVE ImportFirst'
  BY <1>7
<1>8. CASE Traffic
  BY <1>7, <1>8, TrafficLeaves
<1>9. CASE WorkerTick \/ BeginTake \/ TakeShard \/ ApplyFails \/ PersistReturns
  BY <1>7, <1>9 DEF WorkerTick, BeginTake, TakeShard, ApplyFails, PersistReturns
<1>10. CASE Stop
  BY <1>7, <1>10 DEF Stop, Shutdown, WorkerStops, ShutdownEnds
<1>11. CASE Read
  BY <1>7, <1>11 DEF Read, ReadRows, ReadState, ReadShard, ReadEnds
<1>12. CASE HourPasses
  BY <1>7, <1>12 DEF HourPasses
<1> QED
  BY <1>1, <1>2, <1>3, <1>4, <1>5, <1>6, <1>8, <1>9, <1>10, <1>11, <1>12
     DEF AccountingNext, Checkpoint, Start

(* A flow comes to an inbound, or leaves it.                                *)
LEMMA OfOther ==
  ASSUME NEW c \in Listing, NEW f \in Flows, NEW x \in Inbounds \cup {Absent}, NEW j \in Inbounds,
         j # c[f], j # x
  PROVE  Of([c EXCEPT ![f] = x], j) = Of(c, j)
BY DEF Of, Listing

LEMMA OfAdded ==
  ASSUME NEW c \in Listing, NEW f \in Flows, NEW i \in Inbounds
  PROVE  Of([c EXCEPT ![f] = i], i) = Of(c, i) \cup {f}
BY DEF Of, Listing

LEMMA OfRemoved ==
  ASSUME NEW c \in Listing, NEW f \in Flows, NEW x \in Inbounds \cup {Absent}, x # c[f]
  PROVE  Of([c EXCEPT ![f] = x], c[f]) = Of(c, c[f]) \ {f} /\ f \in Of(c, c[f])
BY DEF Of, Listing

LEMMA GaugeKept ==
  ASSUME AccountingShape, GaugeFollows, AccountingNext
  PROVE  GaugeFollows'
<1>1. \A i \in Inbounds : /\ IsFiniteSet(Of(live.connections, i)) /\ Cardinality(Of(live.connections, i)) \in Nat
                          /\ i \notin past.moved => live.active[i] = Cardinality(Of(live.connections, i))
  BY FS_CardinalityType DEF GaugeFollows
<1>0. live \in Live /\ live.connections \in Listing /\ live.active \in PerInbound /\ past \in History
      /\ Absent \notin Inbounds
  BY AccountingAssumption DEF AccountingShape, Live
<1>2. ASSUME live'.connections = live.connections, live'.active = live.active, past'.moved = past.moved
      PROVE  GaugeFollows'
  BY <1>2 DEF GaugeFollows
<1>3. ASSUME Unlisted(live'), Still(live') PROVE GaugeFollows'
  <2>1. \A i \in Inbounds : Of(live'.connections, i) = {} /\ live'.active[i] = 0
    BY <1>0, <1>3 DEF Unlisted, Still, Of
  <2> QED BY <2>1, FS_EmptySet DEF GaugeFollows
<1>4. ASSUME NEW f \in Flows, AddBytes(f) PROVE GaugeFollows'
  BY <1>0, <1>2, <1>4 DEF AddBytes, History
<1>5. ASSUME NEW f \in Flows, NEW i \in Inbounds, OpenRelay(f, i) PROVE GaugeFollows'
  <2> DEFINE c == live.connections
             d == live'.connections
  <2>1. /\ c[f] = Absent /\ d = [c EXCEPT ![f] = i]
        /\ live'.active = [live.active EXCEPT ![i] = @ + 1]
    BY <1>5, OpenRelayEffect
  <2>2. Of(d, i) = Of(c, i) \cup {f} /\ f \notin Of(c, i)
    BY <1>0, <2>1, OfAdded DEF Of
  <2>3. \A j \in Inbounds : j # i => Of(d, j) = Of(c, j) /\ live'.active[j] = live.active[j]
    BY <1>0, <2>1, OfOther DEF PerInbound
  <2>4. live'.active[i] = live.active[i] + 1
    BY <1>0, <2>1 DEF PerInbound
  <2>5. past' = past
    BY <1>5 DEF OpenRelay
  <2> HIDE DEF c, d
  <2>6. IsFiniteSet(Of(d, i)) /\ Cardinality(Of(d, i)) = Cardinality(Of(c, i)) + 1
    BY <1>1, <2>2, FS_AddElement DEF c
  <2>7. \A j \in Inbounds : IsFiniteSet(Of(d, j))
    BY <1>1, <2>3, <2>6 DEF c
  <2>8. \A j \in Inbounds \ past.moved : live'.active[j] = Cardinality(Of(d, j))
    BY <1>1, <2>3, <2>4, <2>6 DEF c
  <2> QED BY <2>5, <2>7, <2>8 DEF GaugeFollows, d
<1>17. ASSUME NEW f \in Flows, NEW i \in Inbounds, OpenEnds(f, i) PROVE GaugeFollows'
  BY <1>2, <1>17, OpenEndsEffect DEF OpenEnds
<1>18. ASSUME NEW f \in Flows, NEW i \in Inbounds, RefreshRelay(f, i) PROVE GaugeFollows'
  <2> DEFINE c == live.connections
             d == live'.connections
             o == c[f]
  <2>1. o \in Inbounds /\ d = [c EXCEPT ![f] = i] /\ live'.active = live.active
    BY <1>18, RefreshRelayEffect
  <2>2. past'.moved = past.moved \cup Moved(o, i)
    BY <1>0, <1>18 DEF RefreshRelay, History
  <2>3. \A j \in Inbounds : j # i /\ j # o => Of(d, j) = Of(c, j)
    BY <1>0, <2>1, OfOther
  <2>4. CASE o = i
    <3>1. d = c
      BY <1>0, <2>1, <2>4 DEF Listing
    <3>2. past'.moved = past.moved
      BY <2>2, <2>4 DEF Moved
    <3> QED BY <1>2, <2>1, <3>1, <3>2
  <2>5. CASE o # i
    <3>1. Of(d, i) = Of(c, i) \cup {f} /\ Of(d, o) = Of(c, o) \ {f} /\ f \in Of(c, o)
      BY <1>0, <2>1, <2>5, OfAdded, OfRemoved
    <3>2. past'.moved = past.moved \cup {o, i}
      BY <2>2, <2>5 DEF Moved
    <3> HIDE DEF c, d, o
    <3>3. IsFiniteSet(Of(d, i)) /\ IsFiniteSet(Of(d, o))
      <4>1. IsFiniteSet(Of(c, i) \cup {f})
        BY <1>1, FS_AddElement DEF c
      <4>2. IsFiniteSet(Of(c, o) \ {f})
        BY <1>1, <2>1, <3>1, PickSmaller DEF c
      <4> QED BY <3>1, <4>1, <4>2
    <3>4. \A j \in Inbounds : IsFiniteSet(Of(d, j))
      BY <1>1, <2>3, <3>3 DEF c
    <3>5. \A j \in Inbounds \ past'.moved : live'.active[j] = Cardinality(Of(d, j))
      BY <1>1, <2>1, <2>3, <3>2 DEF c
    <3> QED BY <3>4, <3>5 DEF GaugeFollows, d
  <2> QED BY <2>4, <2>5
<1>6. ASSUME NEW f \in Flows, CloseRelay(f) PROVE GaugeFollows'
  <2> DEFINE c == live.connections
             d == live'.connections
             i == c[f]
  <2>1. \/ live' = live
        \/ /\ i \in Inbounds /\ d = [c EXCEPT ![f] = Absent]
           /\ live'.active = [live.active EXCEPT ![i] = Greater(@ - 1, 0)]
    BY <1>6, CloseRelayEffect
  <2>2. past' = past
    BY <1>6 DEF CloseRelay
  <2>3. CASE live' = live
    BY <1>2, <2>2, <2>3
  <2>4. CASE /\ i \in Inbounds /\ d = [c EXCEPT ![f] = Absent]
             /\ live'.active = [live.active EXCEPT ![i] = Greater(@ - 1, 0)]
    <3>1. Of(d, i) = Of(c, i) \ {f} /\ f \in Of(c, i)
      <4>1. c \in Listing /\ Absent \in Inbounds \cup {Absent} /\ Absent # c[f]
        BY <1>0, <2>4
      <4> HIDE DEF c, d
      <4>2. Of([c EXCEPT ![f] = Absent], c[f]) = Of(c, c[f]) \ {f} /\ f \in Of(c, c[f])
        BY <4>1, OfRemoved
      <4> QED BY <2>4, <4>2
    <3>2. \A j \in Inbounds : j # i => Of(d, j) = Of(c, j) /\ live'.active[j] = live.active[j]
      BY <1>0, <2>4, OfOther DEF PerInbound
    <3>3. live'.active[i] = Greater(live.active[i] - 1, 0)
      BY <1>0, <2>4 DEF PerInbound
    <3> HIDE DEF c, d, i
    <3>4. /\ IsFiniteSet(Of(d, i)) /\ Cardinality(Of(d, i)) = Cardinality(Of(c, i)) - 1
          /\ Cardinality(Of(d, i)) \in Nat
      BY <1>1, <2>4, <3>1, PickSmaller, FS_CardinalityType DEF c
    <3>5. \A j \in Inbounds : IsFiniteSet(Of(d, j))
      BY <1>1, <3>2, <3>4 DEF c
    <3>6. i \notin past.moved => live'.active[i] = Cardinality(Of(d, i))
      BY <1>1, <2>4, <3>3, <3>4 DEF c, Greater
    <3>7. \A j \in Inbounds \ past.moved : live'.active[j] = Cardinality(Of(d, j))
      BY <1>1, <3>2, <3>6 DEF c
    <3> QED BY <2>2, <3>5, <3>7 DEF GaugeFollows, d
  <2> QED BY <2>1, <2>3, <2>4
<1>7. CASE BeginTake \/ TakeShard \/ ApplyFails
  BY <1>2, <1>7 DEF BeginTake, TakeShard, ApplyFails
<1>8. CASE ApplyDelta
  BY <1>0, <1>2, <1>8 DEF ApplyDelta, History
<1>10. CASE Crash
  BY <1>3, <1>10, EmptyLiveTyped DEF Crash
<1>11. CASE Load
  BY <1>3, <1>11, BlobTyped, RestoreEffect DEF Load, AccountingShape
<1>12. CASE FinishImport
  BY <1>3, <1>12, BlobTyped, RestoreEffect DEF FinishImport, AccountingShape
<1>13. CASE WorkerTick \/ WriteInbound \/ PersistReturns
  BY <1>2, <1>13 DEF WorkerTick, WriteInbound, PersistReturns
<1>14. CASE Stop
  BY <1>2, <1>14 DEF Stop, Shutdown, WorkerStops, ShutdownEnds
<1>15. CASE Read
  BY <1>2, <1>15 DEF Read, ReadRows, ReadState, ReadShard, ReadEnds
<1>16. CASE ImportBlob \/ HourPasses
  BY <1>0, <1>2, <1>16 DEF ImportBlob, HourPasses, History
<1> QED
  BY <1>4, <1>5, <1>6, <1>7, <1>8, <1>10, <1>11, <1>12, <1>13, <1>14, <1>15, <1>16, <1>17, <1>18
     DEF AccountingNext, Traffic, Checkpoint, Start

LEMMA CaughtUpKept ==
  ASSUME AccountingShape, GateHeld, CaughtUp, AccountingNext
  PROVE  CaughtUp'
<1>0. past \in History
  BY DEF AccountingShape
<1>1. ASSUME past'.ahead = past.ahead, UNCHANGED <<pass, stop>> PROVE CaughtUp'
  BY <1>1 DEF CaughtUp
<1>2. CASE Traffic
  BY <1>1, <1>2, TrafficLeaves
<1>3. CASE ApplyDelta
  BY <1>0, <1>3 DEF ApplyDelta, History, CaughtUp
<1>4. CASE WorkerTick \/ BeginTake \/ ApplyFails \/ WriteInbound \/ PersistReturns
  BY <1>4 DEF WorkerTick, BeginTake, ApplyFails, WriteInbound, PersistReturns, Idle, CaughtUp, GateHeld
<1>5. CASE TakeShard
  <2>1. pass'.pc \in {"take", "apply"} /\ UNCHANGED <<stop, past>>
    BY <1>5, TakeShardEffect DEF TakeShard
  <2> QED BY <2>1 DEF CaughtUp
<1>6. CASE Stop
  BY <1>6 DEF Stop, Shutdown, WorkerStops, ShutdownEnds, Idle, CaughtUp
<1>7. CASE Read
  BY <1>1, <1>7 DEF Read, ReadRows, ReadState, ReadShard, ReadEnds
<1>8. CASE Crash
  BY <1>8 DEF Crash, Idle, CaughtUp
<1>9. ASSUME pass' = pass, run # "up", stop' = "no" PROVE CaughtUp'
  BY <1>9 DEF GateHeld, Idle, CaughtUp
<1>10. CASE Load \/ FinishImport
  BY <1>9, <1>10 DEF Load, FinishImport, Restore
<1>11. CASE ImportBlob
  BY <1>0, <1>1, <1>11 DEF ImportBlob, History
<1>12. CASE HourPasses
  BY <1>1, <1>12 DEF HourPasses
<1> QED
  BY <1>2, <1>3, <1>4, <1>5, <1>6, <1>7, <1>8, <1>10, <1>11, <1>12
     DEF AccountingNext, Checkpoint, Start
-----------------------------------------------------------------------------
LEMMA Passed ==
  ASSUME AccountingShape
  PROVE  /\ NumShards \in 0 .. NumShards /\ mem.shards \in [Shards -> Shard] /\ mem.total \in Nat
         /\ pass.pc \in {"take", "apply"} => pass.shard \in 0 .. NumShards
         /\ reader.pc = "shards" => reader.shard \in 0 .. NumShards
         /\ SumFunction(db.traffic) \in Nat /\ past.unlisted \in Int /\ past.ahead \in Int /\ db.total \in Nat
<1>1. NumShards \in Nat /\ mem \in Memory /\ db \in Database /\ past \in History
  BY AccountingAssumption DEF AccountingShape
<1>2. pass.pc \in {"take", "apply"} => pass.shard \in 0 .. NumShards
  BY <1>1 DEF AccountingShape, Shards
<1>3. reader.pc = "shards" => reader.shard \in 0 .. NumShards
  BY <1>1, WhereTheyAre DEF Snapshot
<1>4. db.traffic \in Counts /\ db.total \in Nat /\ mem.shards \in [Shards -> Shard] /\ mem.total \in Nat
      /\ past.unlisted \in Int /\ past.ahead \in Int
  BY <1>1 DEF Database, Memory, History
<1> QED BY <1>1, <1>2, <1>3, <1>4, SumCounts

(* A step that settles nothing.                                            *)
LEMMA NothingSettled ==
  ASSUME AccountingShape, TotalsSettled, mem'.total = mem.total,
         \A n \in 0 .. NumShards : Settled(mem'.shards, n) = Settled(mem.shards, n),
         past'.unlisted = past.unlisted, past'.ahead = past.ahead, UNCHANGED <<db, run, pass, reader>>
  PROVE  TotalsSettled'
<1>1. MemorySettled'
  BY Passed DEF TotalsSettled, MemorySettled, InDelta
<1>2. DeltaSettled'
  BY Passed DEF TotalsSettled, DeltaSettled
<1>3. ReaderSettled'
  BY Passed DEF TotalsSettled, ReaderSettled
<1> QED BY <1>1, <1>2, <1>3 DEF TotalsSettled

(* A step of a checkpoint that holds no delta, nor comes to hold one.      *)
LEMMA NoDeltaSettled ==
  ASSUME TotalsSettled, UNCHANGED <<mem, past, run, reader>>, db'.total = db.total, db'.traffic = db.traffic,
         pass.pc \notin {"take", "apply"}, pass'.pc \notin {"take", "apply"}
  PROVE  TotalsSettled'
BY DEF TotalsSettled, MemorySettled, DeltaSettled, ReaderSettled, InDelta

LEMMA AddBytesSettles ==
  ASSUME AccountingShape, TotalsSettled, NEW f \in Flows, AddBytes(f)
  PROVE  TotalsSettled'
<1> DEFINE s == ShardOf[f]
           a == mem.shards
           b == mem'.shards
<1>1. /\ s \in Shards /\ mem' \in Memory /\ mem' = [mem EXCEPT !.shards = b]
      /\ b[s].total = a[s].total + 1 /\ b[s].traffic = [a[s].traffic EXCEPT ![hour] = @ + 1]
      /\ \A i \in Shards : i # s => b[i] = a[i]
  BY AddBytesEffect
<1>2. mem \in Memory /\ a \in [Shards -> Shard] /\ b \in [Shards -> Shard] /\ hour \in Hours
  BY <1>1 DEF AccountingShape, Memory
<1>3. mem'.total = mem.total
  BY <1>1, <1>2 DEF Memory
<1>4. a[s].traffic \in Counts /\ a[s].total \in Nat
  BY <1>1, <1>2 DEF Shard
<1>5. SumFunction(b[s].traffic) = SumFunction(a[s].traffic) + 1 /\ SumFunction(a[s].traffic) \in Nat
  BY <1>1, <1>2, <1>4, SumOfByte, SumCounts
<1> HIDE DEF a, b, s
<1>6. Taken(b)[s] = Taken(a)[s] /\ Taken(a)[s] \in Int
  <2>1. /\ Taken(b)[s] = b[s].total - SumFunction(b[s].traffic)
        /\ Taken(a)[s] = a[s].total - SumFunction(a[s].traffic)
    BY <1>1 DEF Taken
  <2> QED BY <1>1, <1>4, <1>5, <2>1
<1>7. \A n \in 0 .. NumShards : Settled(b, n) = Settled(a, n)
  <2> SUFFICES ASSUME NEW n \in 0 .. NumShards PROVE Settled(b, n) = Settled(a, n)
    OBVIOUS
  <2>1. /\ s < n => Settled(b, n) = Settled(a, n) + (Taken(b)[s] - Taken(a)[s])
        /\ s >= n => Settled(b, n) = Settled(a, n)
    BY <1>1, <1>2, ShardChangeSettled
  <2>2. (s < n \/ s >= n) /\ Settled(a, n) \in Int
    BY <1>1, <1>2, SettledInt, AccountingAssumption DEF Shards
  <2> QED BY <1>6, <2>1, <2>2
<1>8. past'.unlisted = past.unlisted /\ past'.ahead = past.ahead /\ UNCHANGED <<db, run, pass, reader>>
  BY DEF AddBytes, AccountingShape, History
<1> QED BY <1>3, <1>7, <1>8, NothingSettled DEF a, b

LEMMA TakeShardSettles ==
  ASSUME AccountingShape, GateHeld, TotalsSettled, TakeShard
  PROVE  TotalsSettled'
<1> DEFINE s == pass.shard
           a == mem.shards
           b == mem'.shards
           o == mem.shards[s]
<1>1. /\ s \in Shards /\ o \in Shard /\ mem' \in Memory /\ mem' = [mem EXCEPT !.shards = b]
      /\ b[s].total = o.total /\ b[s].traffic = NoBytes
      /\ \A i \in Shards : i # s => b[i] = a[i]
      /\ pass \in Delta /\ pass' \in Delta /\ pass'.shard = s + 1 /\ pass'.total = pass.total + o.total
      /\ pass'.traffic = Plus(pass.traffic, o.traffic)
  BY TakeShardEffect
<1>2. mem \in Memory /\ a \in [Shards -> Shard] /\ b \in [Shards -> Shard]
  BY <1>1 DEF AccountingShape, Memory
<1>3. mem'.total = mem.total /\ mem.total \in Nat
  BY <1>1, <1>2 DEF Memory
<1>4. o.traffic \in Counts /\ o.total \in Nat /\ pass.traffic \in Counts /\ pass.total \in Nat
  BY <1>1 DEF Shard, Delta
<1>5. /\ SumFunction(b[s].traffic) = 0 /\ SumFunction(o.traffic) \in Nat /\ SumFunction(pass.traffic) \in Nat
      /\ SumFunction(pass'.traffic) = SumFunction(pass.traffic) + SumFunction(o.traffic)
  BY <1>1, <1>4, SumNoBytes, SumCounts, SumOfPlus
<1>6. Taken(b)[s] = o.total /\ Taken(a)[s] = o.total - SumFunction(o.traffic)
  BY <1>1, <1>4, <1>5 DEF Taken
<1>7. pass.pc = "take" /\ pass'.pc \in {"take", "apply"} /\ UNCHANGED <<db, run, past, reader>>
  BY <1>1 DEF TakeShard, Delta
<1>8. reader.pc \notin {"state", "shards"}
  BY <1>7 DEF GateHeld
<1> HIDE DEF a, b, s, o
<1>9. s \in 0 .. NumShards /\ NumShards \in 0 .. NumShards /\ s < NumShards /\ s >= s
  BY <1>1, AccountingAssumption DEF Shards
<1>10. Settled(b, s) = Settled(a, s) /\ Settled(a, s) \in Int
       /\ Settled(b, NumShards) = Settled(a, NumShards) + (Taken(b)[s] - Taken(a)[s])
       /\ Settled(a, NumShards) \in Int
  <2>1. /\ s >= s => Settled(b, s) = Settled(a, s)
    BY <1>1, <1>2, <1>9, ShardChangeSettled
  <2>2. s < NumShards => Settled(b, NumShards) = Settled(a, NumShards) + (Taken(b)[s] - Taken(a)[s])
    BY <1>1, <1>2, <1>9, ShardChangeSettled
  <2> QED BY <1>2, <1>9, <2>1, <2>2, SettledInt
<1>11. Settled(b, s + 1) = Settled(b, s) + Taken(b)[s]
  BY <1>1, <1>2, SettledNext
<1>12. DeltaSettled'
  <2>1. Settled(a, s) = pass.total - mem.total
    BY <1>7 DEF TotalsSettled, DeltaSettled, a, s
  <2>2. Settled(b, s + 1) = pass'.total - mem'.total
    BY <1>1, <1>3, <1>4, <1>6, <1>10, <1>11, <2>1
  <2> QED BY <1>1, <2>2 DEF DeltaSettled, b
<1>13. MemorySettled'
  <2>1. InDelta("traffic") = SumFunction(pass.traffic) /\ InDelta("traffic")' = SumFunction(pass'.traffic)
    BY <1>7 DEF InDelta
  <2>2. run = "up" => /\ db.total = past.ahead + past.unlisted + SumFunction(db.traffic)
                      /\ mem.total + Settled(a, NumShards)
                           = past.unlisted + SumFunction(db.traffic) + SumFunction(pass.traffic)
    BY <2>1 DEF TotalsSettled, MemorySettled, a
  <2>3. SumFunction(db.traffic) \in Nat /\ past.unlisted \in Int
    BY Passed
  <2>4. run = "up" => mem'.total + Settled(b, NumShards)
                        = past.unlisted + SumFunction(db.traffic) + SumFunction(pass'.traffic)
    BY <1>3, <1>4, <1>5, <1>6, <1>10, <2>2, <2>3
  <2> QED BY <1>7, <2>1, <2>2, <2>4 DEF MemorySettled, b
<1>14. ReaderSettled'
  BY <1>7, <1>8 DEF ReaderSettled
<1> QED BY <1>12, <1>13, <1>14 DEF TotalsSettled

LEMMA ApplyFailsSettles ==
  ASSUME AccountingShape, GateHeld, TotalsSettled, ApplyFails
  PROVE  TotalsSettled'
<1> DEFINE a == mem.shards
           b == mem'.shards
           o == mem.shards[0]
<1>1. /\ 0 \in Shards /\ o \in Shard /\ pass \in Delta /\ mem' \in Memory /\ mem'.total = mem.total
      /\ b[0].total = o.total /\ b[0].traffic = Plus(o.traffic, pass.traffic)
      /\ \A i \in Shards : i # 0 => b[i] = a[i]
  BY ApplyFailsEffect
<1>2. a \in [Shards -> Shard] /\ b \in [Shards -> Shard] /\ mem.total \in Nat
  BY <1>1 DEF AccountingShape, Memory
<1>3. o.traffic \in Counts /\ o.total \in Nat /\ pass.traffic \in Counts
  BY <1>1 DEF Shard, Delta
<1>4. /\ SumFunction(o.traffic) \in Nat /\ SumFunction(pass.traffic) \in Nat
      /\ SumFunction(b[0].traffic) = SumFunction(o.traffic) + SumFunction(pass.traffic)
  BY <1>1, <1>3, SumCounts, SumOfPlus
<1>5. /\ Taken(b)[0] = o.total - (SumFunction(o.traffic) + SumFunction(pass.traffic))
      /\ Taken(a)[0] = o.total - SumFunction(o.traffic)
  BY <1>1, <1>4 DEF Taken
<1>6. pass.pc = "apply" /\ pass'.pc = "failed" /\ UNCHANGED <<db, run, past, reader>>
  BY DEF ApplyFails
<1>7. reader.pc \notin {"state", "shards"}
  BY <1>6 DEF GateHeld
<1> HIDE DEF a, b, o
<1>8. Settled(b, NumShards) = Settled(a, NumShards) + (Taken(b)[0] - Taken(a)[0])
      /\ Settled(a, NumShards) \in Int
  <2>1. NumShards \in 0 .. NumShards /\ 0 < NumShards
    BY AccountingAssumption
  <2> QED BY <1>1, <1>2, <2>1, ShardChangeSettled, SettledInt
<1>9. MemorySettled'
  <2>1. InDelta("traffic") = SumFunction(pass.traffic) /\ InDelta("traffic")' = 0
    BY <1>6 DEF InDelta
  <2>2. run = "up" => /\ db.total = past.ahead + past.unlisted + SumFunction(db.traffic)
                      /\ mem.total + Settled(a, NumShards)
                           = past.unlisted + SumFunction(db.traffic) + SumFunction(pass.traffic)
    BY <2>1 DEF TotalsSettled, MemorySettled, a
  <2>3. SumFunction(db.traffic) \in Nat /\ past.unlisted \in Int
    BY Passed
  <2>4. run = "up" => mem'.total + Settled(b, NumShards) = past.unlisted + SumFunction(db.traffic) + 0
    BY <1>1, <1>2, <1>3, <1>4, <1>5, <1>8, <2>2, <2>3
  <2> QED BY <1>6, <2>1, <2>2, <2>4 DEF MemorySettled, b
<1> QED BY <1>6, <1>7, <1>9 DEF TotalsSettled, DeltaSettled, ReaderSettled

LEMMA ApplyDeltaSettles ==
  ASSUME AccountingShape, GateHeld, TotalsSettled, ApplyDelta
  PROVE  TotalsSettled'
<1>1. /\ pass \in Delta /\ db' \in Database /\ db'.total = pass.total
      /\ db'.traffic = Plus(db.traffic, pass.traffic)
  BY ApplyDeltaEffect
<1>2. /\ pass.pc = "apply" /\ pass'.pc = "inbound" /\ UNCHANGED <<mem, run, reader>>
      /\ past'.unlisted = past.unlisted /\ past'.ahead = 0
  BY DEF ApplyDelta, AccountingShape, History
<1>3. reader.pc \notin {"state", "shards"} /\ run = "up" /\ pass.shard = NumShards
  BY <1>2 DEF GateHeld, Idle, AccountingShape
<1>4. pass.traffic \in Counts /\ pass.total \in Nat /\ db.traffic \in Counts
  BY <1>1 DEF Delta, AccountingShape, Database
<1>5. /\ SumFunction(db'.traffic) = SumFunction(db.traffic) + SumFunction(pass.traffic)
      /\ SumFunction(db.traffic) \in Nat /\ SumFunction(pass.traffic) \in Nat
  BY <1>1, <1>4, SumCounts, SumOfPlus
<1>6. InDelta("traffic") = SumFunction(pass.traffic) /\ InDelta("traffic")' = 0
  BY <1>2 DEF InDelta
<1>7. /\ mem.total + Settled(mem.shards, NumShards)
           = past.unlisted + SumFunction(db.traffic) + SumFunction(pass.traffic)
      /\ Settled(mem.shards, NumShards) = pass.total - mem.total
  BY <1>2, <1>3, <1>6 DEF TotalsSettled, MemorySettled, DeltaSettled
<1>8. mem.total \in Nat /\ past.unlisted \in Int /\ Settled(mem.shards, NumShards) \in Int
  BY Passed, SettledInt
<1>9. /\ db'.total = 0 + past.unlisted + SumFunction(db'.traffic)
      /\ mem.total + Settled(mem.shards, NumShards) = past.unlisted + SumFunction(db'.traffic) + 0
  BY <1>1, <1>4, <1>5, <1>7, <1>8
<1>10. MemorySettled'
  BY <1>2, <1>6, <1>9 DEF MemorySettled
<1> QED BY <1>2, <1>3, <1>10 DEF TotalsSettled, DeltaSettled, ReaderSettled

LEMMA RestoreSettles ==
  ASSUME AccountingShape, GateHeld, run # "up", NEW total \in Nat, Restore(total),
         db'.total = db.total, db'.traffic = db.traffic
  PROVE  TotalsSettled'
<1>1. /\ mem'.total = total /\ mem'.shards = EmptyMemory.shards
      /\ past'.unlisted = total - SumFunction(db.traffic) /\ past'.ahead = db.total - total
  BY RestoreEffect DEF AccountingShape
<1>2. pass' = pass /\ pass = Idle /\ reader' = reader /\ reader = Idle
  BY DEF Restore, GateHeld
<1>3. pass'.pc = "idle" /\ reader'.pc = "idle" /\ InDelta("traffic")' = 0
  BY <1>2 DEF Idle, InDelta
<1>4. Settled(EmptyMemory.shards, NumShards) = 0
  <2>1. \A s \in Shards : Taken(EmptyMemory.shards)[s] = 0
    BY EmptyMemoryTyped, SumNoBytes DEF Taken
  <2>2. 0 .. NumShards - 1 = Shards
    BY DEF Shards
  <2> QED BY <2>1, <2>2, SumZero, FiniteDomains DEF Settled
<1>5. SumFunction(db.traffic) \in Nat /\ db.total \in Nat
  BY Passed
<1>6. MemorySettled'
  <2>1. /\ db'.total = past'.ahead + past'.unlisted + SumFunction(db'.traffic)
        /\ mem'.total + Settled(mem'.shards, NumShards)
             = past'.unlisted + SumFunction(db'.traffic) + 0
    BY <1>1, <1>4, <1>5
  <2> QED BY <1>3, <2>1 DEF MemorySettled
<1> QED BY <1>3, <1>6 DEF TotalsSettled, DeltaSettled, ReaderSettled
LEMMA TotalsKept ==
  ASSUME AccountingShape, GateHeld, ImportFirst, TotalsSettled, AccountingNext
  PROVE  TotalsSettled'
<1>1. ASSUME NEW f \in Flows, AddBytes(f) PROVE TotalsSettled'
  BY <1>1, AddBytesSettles
<1>2. ASSUME NEW f \in Flows, NEW i \in Inbounds, OpenRelay(f, i) PROVE TotalsSettled'
  BY <1>2, NothingSettled DEF OpenRelay
<1>20. ASSUME NEW f \in Flows, NEW i \in Inbounds, OpenEnds(f, i) PROVE TotalsSettled'
  BY <1>20, NothingSettled DEF OpenEnds
<1>21. ASSUME NEW f \in Flows, NEW i \in Inbounds, RefreshRelay(f, i) PROVE TotalsSettled'
  <2>1. UNCHANGED <<mem, db, run, pass, reader>>
    BY <1>21 DEF RefreshRelay
  <2>2. past'.unlisted = past.unlisted /\ past'.ahead = past.ahead
    BY <1>21 DEF RefreshRelay, AccountingShape, History
  <2> QED BY <2>1, <2>2, NothingSettled
<1>3. ASSUME NEW f \in Flows, CloseRelay(f) PROVE TotalsSettled'
  BY <1>3, CloseRelayEffect, NothingSettled DEF CloseRelay
<1>4. CASE WorkerTick
  <2>1. pass.pc = "idle" /\ pass'.pc = "lock" /\ UNCHANGED <<mem, past, run, reader, db>>
    BY <1>4 DEF WorkerTick, Idle
  <2> QED BY <2>1, NoDeltaSettled
<1>5. CASE BeginTake
  <2>1. /\ mem' = [mem EXCEPT !.events = 0] /\ mem \in Memory /\ pass'.pc = "take" /\ pass'.shard = 0
        /\ pass'.total = mem.total /\ pass'.traffic = NoBytes
    BY <1>5, BeginTakeEffect DEF AccountingShape
  <2>2. mem'.total = mem.total /\ mem'.shards = mem.shards
    BY <2>1 DEF Memory
  <2>3. pass.pc = "lock" /\ UNCHANGED <<db, run, past, reader>>
    BY <1>5 DEF BeginTake
  <2>4. InDelta("traffic") = 0 /\ InDelta("traffic")' = 0
    BY <2>1, <2>3, SumNoBytes DEF InDelta
  <2>5. Settled(mem'.shards, 0) = 0 /\ mem.total \in Nat
    BY <2>2, Passed, SettledStart
  <2>6. MemorySettled'
    BY <2>2, <2>3, <2>4 DEF TotalsSettled, MemorySettled
  <2>7. DeltaSettled'
    BY <2>1, <2>2, <2>5 DEF DeltaSettled
  <2>8. ReaderSettled'
    BY <2>2, <2>3 DEF TotalsSettled, ReaderSettled
  <2> QED BY <2>6, <2>7, <2>8 DEF TotalsSettled
<1>6. CASE TakeShard
  BY <1>6, TakeShardSettles
<1>7. CASE ApplyDelta
  BY <1>7, ApplyDeltaSettles
<1>8. CASE ApplyFails
  BY <1>8, ApplyFailsSettles
<1>9. CASE WriteInbound
  <2>1. pass.pc = "inbound" /\ pass'.pc \in {"done", "failed"} /\ UNCHANGED <<mem, past, run, reader>>
    BY <1>9 DEF WriteInbound
  <2> QED BY <1>9, <2>1, WriteInboundEffect, NoDeltaSettled
<1>10. CASE PersistReturns
  <2>1. pass.pc \in {"done", "failed"} /\ pass'.pc = "idle" /\ UNCHANGED <<mem, past, run, reader, db>>
    BY <1>10 DEF PersistReturns, Idle
  <2> QED BY <2>1, NoDeltaSettled
<1>11. CASE Shutdown
  BY <1>11, NothingSettled DEF Shutdown
<1>12. CASE WorkerStops
  <2>1. pass.pc = "idle" /\ pass'.pc = "lock" /\ UNCHANGED <<mem, past, run, reader, db>>
    BY <1>12 DEF WorkerStops, GateHeld, Idle
  <2> QED BY <2>1, NoDeltaSettled
<1>13. CASE ShutdownEnds
  <2>1. pass.pc \in {"done", "failed"} /\ pass'.pc = "idle" /\ UNCHANGED <<mem, past, run, reader, db>>
    BY <1>13 DEF ShutdownEnds, Idle
  <2> QED BY <2>1, NoDeltaSettled
<1>14. CASE Read
  <2>1. UNCHANGED <<mem, db, past, run, pass>>
    BY <1>14 DEF Read, ReadRows, ReadState, ReadShard, ReadEnds
  <2>2. MemorySettled' /\ DeltaSettled'
    BY <2>1 DEF TotalsSettled, MemorySettled, DeltaSettled, InDelta
  <2> SUFFICES ReaderSettled'
    BY <2>2 DEF TotalsSettled
  <2>3. CASE ReadRows
    BY <2>3 DEF ReadRows, ReaderSettled
  <2>4. CASE ReadState
    <3>1. /\ reader.traffic = db.traffic /\ reader'.pc = "shards" /\ reader'.shard = 0
          /\ reader'.total = mem.total /\ reader'.traffic = reader.traffic
      BY <2>4 DEF ReadState, TotalsSettled, ReaderSettled
    <3>2. Settled(mem.shards, 0) = 0 /\ mem.total \in Nat /\ SumFunction(db.traffic) \in Nat
      BY Passed, SettledStart
    <3> QED BY <2>1, <3>1, <3>2 DEF ReaderSettled
  <2>5. CASE ReadShard
    <3> DEFINE n == reader.shard
               o == mem.shards[n]
    <3>1. /\ reader \in Snapshot /\ n \in Shards /\ o \in Shard
          /\ reader'.pc = "shards" /\ reader'.shard = n + 1
          /\ reader'.total = reader.total + o.total /\ reader'.traffic = Plus(reader.traffic, o.traffic)
      BY <2>5, ReadShardEffect
    <3>2. /\ reader.pc = "shards" /\ reader.traffic \in Counts /\ reader.total \in Nat
          /\ o.traffic \in Counts /\ o.total \in Nat /\ mem.total \in Nat
          /\ SumFunction(db.traffic) \in Nat
      BY <3>1, Passed DEF Snapshot, Shard
    <3>3. /\ SumFunction(reader.traffic) \in Nat /\ SumFunction(o.traffic) \in Nat
          /\ SumFunction(reader'.traffic) = SumFunction(reader.traffic) + SumFunction(o.traffic)
      BY <3>1, <3>2, SumCounts, SumOfPlus
    <3>4. Settled(mem.shards, n + 1) = Settled(mem.shards, n) + Taken(mem.shards)[n]
      BY <3>1, Passed, SettledNext
    <3>5. Taken(mem.shards)[n] = o.total - SumFunction(o.traffic)
      BY <3>1 DEF Taken
    <3>6. /\ Settled(mem.shards, n) + SumFunction(reader.traffic)
               = (reader.total - mem.total) + SumFunction(db.traffic)
          /\ Settled(mem.shards, n) \in Int
      BY <3>2, Passed, SettledInt DEF TotalsSettled, ReaderSettled
    <3> HIDE DEF o, n
    <3>7. Settled(mem.shards, n + 1) + SumFunction(reader'.traffic)
            = (reader'.total - mem.total) + SumFunction(db.traffic)
      BY <3>1, <3>2, <3>3, <3>4, <3>5, <3>6
    <3> QED BY <2>1, <3>1, <3>7 DEF ReaderSettled
  <2>6. CASE ReadEnds
    BY <2>6 DEF ReadEnds, ReaderSettled, Idle
  <2> QED BY <1>14, <2>3, <2>4, <2>5, <2>6 DEF Read
<1>15. CASE Crash
  BY <1>15 DEF Crash, Idle, TotalsSettled, MemorySettled, DeltaSettled, ReaderSettled
<1>16. CASE Load
  <2>1. db.total \in Nat
    BY Passed
  <2> QED BY <1>16, <2>1, RestoreSettles DEF Load
<1>17. CASE ImportBlob
  BY <1>17 DEF ImportBlob, GateHeld, Idle, TotalsSettled, MemorySettled, DeltaSettled, ReaderSettled
<1>18. CASE FinishImport
  <2>1. db.blob.total \in Nat
    BY BlobTyped
  <2> QED BY <1>18, <2>1, RestoreSettles, FinishEffect DEF FinishImport
<1>19. CASE HourPasses
  BY <1>19, NothingSettled DEF HourPasses
<1> QED
  BY <1>1, <1>2, <1>3, <1>4, <1>5, <1>6, <1>7, <1>8, <1>9, <1>10, <1>11, <1>12, <1>13, <1>14, <1>15,
     <1>16, <1>17, <1>18, <1>19, <1>20, <1>21
     DEF AccountingNext, Traffic, Checkpoint, Stop, Start

-----------------------------------------------------------------------------
LEMMA DirtyKept ==
  ASSUME AccountingShape, GateHeld, DirtyMarked, AccountingNext
  PROVE  DirtyMarked'
<1>0. dirty \in BOOLEAN
  BY DEF AccountingShape
<1>1. ASSUME NEW f \in Flows, AddBytes(f) PROVE DirtyMarked'
  BY <1>1 DEF AddBytes, Running, DirtyMarked
<1>2. ASSUME UNCHANGED <<mem, pass, stop>>, ~dirty' => ~dirty PROVE DirtyMarked'
  BY <1>2 DEF DirtyMarked, Reach, Drained
<1>20. ASSUME NEW f \in Flows, NEW i \in Inbounds, OpenRelay(f, i) \/ OpenEnds(f, i) PROVE DirtyMarked'
  BY <1>2, <1>20 DEF OpenRelay, OpenEnds
<1>21. ASSUME NEW f \in Flows, NEW i \in Inbounds, RefreshRelay(f, i) PROVE DirtyMarked'
  <2>1. UNCHANGED <<mem, pass, stop>>
    BY <1>21 DEF RefreshRelay
  <2>2. ~dirty' => ~dirty
    BY <1>0, <1>21, RefreshRelayEffect
  <2> QED BY <1>2, <2>1, <2>2
<1>3. ASSUME NEW f \in Flows, CloseRelay(f) PROVE DirtyMarked'
  <2>1. stop = "no" /\ UNCHANGED <<pass, stop>>
    BY <1>3 DEF CloseRelay, GateHeld, AccountingShape
  <2>2. (mem' = mem /\ dirty' = dirty) \/ dirty'
    BY <1>3 DEF CloseRelay
  <2> QED BY <2>1, <2>2 DEF DirtyMarked, Reach, Drained
<1>4. CASE WorkerTick
  BY <1>4 DEF WorkerTick, DirtyMarked
<1>5. CASE BeginTake
  <2>1. mem' = [mem EXCEPT !.events = 0] /\ mem \in Memory /\ pass'.pc = "take" /\ pass'.shard = 0
    BY <1>5, BeginTakeEffect DEF AccountingShape
  <2>2. mem'.events = 0
    BY <2>1 DEF Memory
  <2>3. Reach' = 0
    BY <2>1 DEF Reach
  <2>4. \A s \in Shards : ~(s < 0)
    BY AccountingAssumption DEF Shards
  <2>5. stop' # "flushed"
    BY <1>5 DEF BeginTake, GateHeld, Idle
  <2> QED BY <2>2, <2>3, <2>4, <2>5 DEF DirtyMarked, Drained
<1>6. CASE TakeShard
  <2> DEFINE s == pass.shard
  <2>1. /\ s \in Shards /\ mem' = [mem EXCEPT !.shards = mem'.shards] /\ mem'.shards[s].traffic = NoBytes
        /\ \A i \in Shards : i # s => mem'.shards[i] = mem.shards[i]
        /\ pass'.shard = s + 1 /\ pass'.pc = (IF s = NumShards - 1 THEN "apply" ELSE "take")
    BY <1>6, TakeShardEffect
  <2>2. pass.pc = "take" /\ UNCHANGED <<dirty, stop>> /\ mem \in Memory
    BY <1>6 DEF TakeShard, AccountingShape
  <2>3. mem'.events = mem.events
    BY <2>1, <2>2 DEF Memory
  <2>4. Reach = s /\ Reach' = s + 1
    BY <2>1, <2>2, AccountingAssumption DEF Reach
  <2>5. Drained(mem.shards, s) => Drained(mem'.shards, s + 1)
    <3>1. \A i \in Shards : i < s + 1 => i < s \/ i = s
      BY <2>1, AccountingAssumption DEF Shards
    <3> QED BY <2>1, <3>1 DEF Drained
  <2>6. stop # "flushed"
    BY <2>2 DEF GateHeld, Idle
  <2> HIDE DEF s
  <2> QED BY <2>2, <2>3, <2>4, <2>5, <2>6 DEF DirtyMarked
<1>7. CASE ApplyDelta
  <2>1. pass.pc = "apply" /\ pass'.pc = "inbound" /\ UNCHANGED <<mem, dirty, stop>>
    BY <1>7 DEF ApplyDelta
  <2> QED BY <2>1 DEF DirtyMarked, Reach, Drained
<1>8. CASE ApplyFails
  <2>1. pass.pc = "apply" /\ pass'.pc = "failed" /\ dirty' /\ stop' = stop
    BY <1>8 DEF ApplyFails
  <2> QED BY <2>1 DEF DirtyMarked, GateHeld, Idle
<1>9. CASE WriteInbound
  <2>1. pass.pc = "inbound" /\ pass'.pc \in {"done", "failed"} /\ UNCHANGED <<mem, dirty, stop>>
    BY <1>9 DEF WriteInbound
  <2> QED BY <2>1 DEF DirtyMarked, Reach, Drained
<1>10. CASE PersistReturns
  <2>1. pass.pc \in {"done", "failed"} /\ pass'.pc = "idle" /\ UNCHANGED <<mem, stop>> /\ (~dirty' => ~dirty)
    BY <1>0, <1>10 DEF PersistReturns, Idle
  <2> QED BY <2>1 DEF DirtyMarked, Reach, Drained
<1>11. CASE Shutdown
  BY <1>11 DEF Shutdown, DirtyMarked, Reach, Drained
<1>12. CASE WorkerStops
  BY <1>12 DEF WorkerStops, DirtyMarked
<1>13. CASE ShutdownEnds
  <2>1. /\ pass.pc \in {"done", "failed"} /\ pass'.pc = "idle" /\ UNCHANGED <<mem, dirty>>
        /\ stop = "flushing" /\ stop' \in {"flushed", "failed"} /\ (stop' = "flushed" => pass.pc = "done")
    BY <1>13 DEF ShutdownEnds, Idle
  <2> QED BY <2>1 DEF DirtyMarked, Reach, Drained
<1>14. CASE Read
  <2>1. UNCHANGED <<mem, dirty, stop, pass>>
    BY <1>14 DEF Read, ReadRows, ReadState, ReadShard, ReadEnds
  <2> QED BY <2>1 DEF DirtyMarked, Reach, Drained
<1>15. ASSUME mem'.shards = EmptyMemory.shards, mem'.events = 0 PROVE DirtyMarked'
  BY <1>15, EmptyMemoryTyped DEF DirtyMarked, Drained
<1>16. CASE Crash
  BY <1>15, <1>16, EmptyMemoryTyped DEF Crash
<1>17. CASE Load
  BY <1>15, <1>17, BlobTyped, RestoreEffect DEF Load, AccountingShape
<1>18. CASE FinishImport
  BY <1>15, <1>18, BlobTyped, RestoreEffect DEF FinishImport, AccountingShape
<1>19. CASE ImportBlob \/ HourPasses
  <2>1. UNCHANGED <<mem, dirty, stop, pass>>
    BY <1>19 DEF ImportBlob, HourPasses
  <2> QED BY <2>1 DEF DirtyMarked, Reach, Drained
<1> QED
  BY <1>1, <1>2, <1>3, <1>4, <1>5, <1>6, <1>7, <1>8, <1>9, <1>10, <1>11, <1>12, <1>13, <1>14,
     <1>16, <1>17, <1>18, <1>19, <1>20, <1>21
     DEF AccountingNext, Traffic, Checkpoint, Stop, Start
-----------------------------------------------------------------------------
(* What the listed flows counted, wherever it is.                          *)
LEMMA TelemetryTyped ==
  ASSUME AccountingShape
  PROVE  /\ past.attributed \in Nat
         /\ Pending("telemetry") = PendingIn(mem.shards, "telemetry") /\ Pending("telemetry") \in Nat
         /\ InDelta("telemetry") \in Nat
<1>1. past.attributed \in Nat /\ mem.shards \in [Shards -> Shard]
  BY DEF AccountingShape, Memory, History
<1>2. Pending("telemetry") = PendingIn(mem.shards, "telemetry")
  BY DEF Pending, PendingIn
<1>3. PendingIn(mem.shards, "telemetry") \in Nat
  BY <1>1, PendingSum
<1>4. pass.pc \in {"take", "apply"} => SumFunction(pass.telemetry) \in Nat
  BY WhereTheyAre, SumCounts DEF Delta
<1>5. InDelta("telemetry") \in Nat
  BY <1>4 DEF InDelta
<1> QED BY <1>1, <1>2, <1>3, <1>5

LEMMA TelemetrySame ==
  ASSUME TelemetryConserved, mem'.shards = mem.shards, Telemetry(db') = Telemetry(db),
         past'.attributed = past.attributed, InDelta("telemetry")' = InDelta("telemetry")
  PROVE  TelemetryConserved'
BY DEF TelemetryConserved, Pending

LEMMA NothingPending == PendingIn(EmptyMemory.shards, "telemetry") = 0
<1> DEFINE z == [i \in Shards |-> SumFunction(EmptyMemory.shards[i].telemetry)]
<1>1. \A i \in Shards : z[i] = 0
  BY EmptyMemoryTyped, SumNoBytes
<1>2. PendingIn(EmptyMemory.shards, "telemetry") = SumFunctionOnSet(z, Shards)
  BY DEF PendingIn, SumFunction
<1> HIDE DEF z
<1> QED BY <1>1, <1>2, SumZero, FiniteDomains

(* An import adds what is newly dated, and a repeated one nothing else.    *)
LEMMA ImportTelemetry ==
  ASSUME AccountingShape, ImportBlob
  PROVE  Telemetry(db') = Telemetry(db) + Redated
<1> DEFINE h0 == db.hourly
           te == db.blob.telemetry
           x == BlobTelemetry
           m == Merge(h0, x)
<1>1. h0 \in Counts /\ te \in Counts /\ x \in Counts /\ db.blob.undated \in Nat /\ hour \in Hours
  BY BlobTyped DEF AccountingShape
<1>2. db'.hourly = m /\ db'.daily = db.daily /\ db'.blob = db.blob /\ db.blob.present
  BY ImportEffect DEF ImportBlob
<1>3. /\ Telemetry(db) = SumFunction(Merge(h0, te)) + SumFunction(db.daily)
      /\ Telemetry(db') = SumFunction(Merge(m, te)) + SumFunction(db.daily)
  BY <1>2 DEF Telemetry
<1>4. SumFunction(db.daily) \in Nat
  BY TelemetryNatural
<1>5. CASE Dated(db.blob)
  <2>1. x = te /\ Redated = 0
    BY <1>5 DEF BlobTelemetry, Redated
  <2> HIDE DEF h0, te
  <2>2. m = Merge(h0, te) /\ m \in Counts /\ \A h \in Hours : te[h] <= m[h]
    BY <1>1, <2>1, MergeCounts
  <2> HIDE DEF m, x
  <2>3. Merge(m, te) = m
    BY <1>1, <2>2, MergeAbsorbs
  <2>4. SumFunction(m) \in Nat
    BY <2>2, SumCounts
  <2>5. Telemetry(db') = Telemetry(db)
    BY <1>3, <2>2, <2>3
  <2>6. Telemetry(db) \in Nat
    BY TelemetryNatural
  <2> QED BY <2>1, <2>5, <2>6
<1>6. CASE ~Dated(db.blob)
  <2>1. te = NoBytes /\ x = [NoBytes EXCEPT ![hour] = db.blob.undated]
    BY <1>6 DEF BlobTelemetry, Dated
  <2>2. /\ Redated = Greater(h0[hour], db.blob.undated) - h0[hour]
    BY <1>6 DEF Redated
  <2>3. x[hour] = db.blob.undated /\ \A h \in Hours : h # hour => x[h] = 0
    BY <1>1, <2>1, NoBytesCounts DEF Counts
  <2> HIDE DEF h0, te, x
  <2>4. m \in Counts /\ \A h \in Hours : m[h] = Greater(h0[h], x[h])
    BY <1>1, MergeCounts
  <2> HIDE DEF m
  <2>5. \A h \in Hours : h0[h] \in Nat /\ m[h] \in Nat /\ te[h] = 0
    BY <1>1, <2>1, <2>4, NoBytesCounts DEF Counts
  <2>6. Merge(h0, te) = h0
    BY <1>1, <2>5, MergeAbsorbs
  <2>7. Merge(m, te) = m
    BY <1>1, <2>4, <2>5, MergeAbsorbs
  <2>8. \A h \in Hours : h # hour => m[h] = h0[h]
    BY <2>3, <2>4, <2>5 DEF Greater
  <2>9. SumFunctionOnSet(m, Hours) = SumFunctionOnSet(h0, Hours) + (m[hour] - h0[hour])
    BY <1>1, <2>5, <2>8, SumChange, FiniteDomains
  <2>10. /\ SumFunction(m) = SumFunctionOnSet(m, Hours) /\ SumFunction(h0) = SumFunctionOnSet(h0, Hours)
         /\ SumFunction(m) \in Nat /\ SumFunction(h0) \in Nat
    BY <1>1, <2>4, SumCounts
  <2>11. m[hour] - h0[hour] = Redated
    BY <1>1, <2>2, <2>3, <2>4
  <2>12. m[hour] - h0[hour] \in Int
    BY <1>1, <2>5
  <2> QED BY <1>3, <1>4, <2>6, <2>7, <2>9, <2>10, <2>11, <2>12
<1> QED BY <1>5, <1>6

LEMMA TelemetryKept ==
  ASSUME AccountingShape, GateHeld, ImportFirst, TelemetryConserved, AccountingNext
  PROVE  TelemetryConserved'
<1> DEFINE a == mem.shards
           b == mem'.shards
           rows == Telemetry(db)
<1>0. /\ a \in [Shards -> Shard] /\ hour \in Hours /\ rows \in Nat /\ past.attributed \in Nat
      /\ PendingIn(a, "telemetry") \in Nat
      /\ rows + PendingIn(a, "telemetry") + InDelta("telemetry") = past.attributed
  BY TelemetryTyped, TelemetryNatural DEF TelemetryConserved, AccountingShape, Memory
<1>P. Pending("telemetry")' = PendingIn(b, "telemetry")
  BY DEF Pending, PendingIn
<1>1. ASSUME NEW f \in Flows, AddBytes(f) PROVE TelemetryConserved'
  <2> DEFINE s == ShardOf[f]
  <2>1. /\ s \in Shards /\ mem' \in Memory /\ \A i \in Shards : i # s => b[i] = a[i]
        /\ b[s].telemetry = IF live.entries[f] # Absent
             THEN [a[s].telemetry EXCEPT ![hour] = @ + 1] ELSE a[s].telemetry
    BY <1>1, AddBytesEffect
  <2>2. b \in [Shards -> Shard] /\ a[s].telemetry \in Counts
    BY <1>0, <2>1 DEF Memory, Shard
  <2>3. UNCHANGED <<db, run, pass>>
    BY <1>1 DEF AddBytes
  <2>4. InDelta("telemetry")' = InDelta("telemetry") /\ InDelta("telemetry") \in Nat
    BY <2>3, TelemetryTyped DEF InDelta
  <2>5. PendingIn(b, "telemetry") = PendingIn(a, "telemetry")
          + (SumFunction(b[s].telemetry) - SumFunction(a[s].telemetry))
    BY <1>0, <2>1, <2>2, ShardChangePending
  <2>6. past'.attributed = IF live.entries[f] # Absent THEN past.attributed + 1 ELSE past.attributed
    BY <1>1 DEF AddBytes, AccountingShape, History
  <2>7. SumFunction(b[s].telemetry) = IF live.entries[f] # Absent
          THEN SumFunction(a[s].telemetry) + 1 ELSE SumFunction(a[s].telemetry)
    BY <1>0, <2>1, <2>2, SumOfByte
  <2>8. SumFunction(a[s].telemetry) \in Nat
    BY <2>2, SumCounts
  <2> HIDE DEF a, b, s, rows
  <2>9. rows + PendingIn(b, "telemetry") + InDelta("telemetry") = past'.attributed
    BY <1>0, <2>4, <2>5, <2>6, <2>7, <2>8
  <2> QED BY <1>P, <2>3, <2>4, <2>9 DEF TelemetryConserved, rows
<1>2. ASSUME NEW f \in Flows, NEW i \in Inbounds, OpenRelay(f, i) \/ OpenEnds(f, i) PROVE TelemetryConserved'
  BY <1>2, TelemetrySame DEF OpenRelay, OpenEnds, InDelta
<1>17. ASSUME NEW f \in Flows, NEW i \in Inbounds, RefreshRelay(f, i) PROVE TelemetryConserved'
  <2>1. past'.attributed = past.attributed /\ UNCHANGED <<mem, db, pass>>
    BY <1>17 DEF RefreshRelay, AccountingShape, History
  <2> QED BY <2>1, TelemetrySame DEF InDelta
<1>3. ASSUME NEW f \in Flows, CloseRelay(f) PROVE TelemetryConserved'
  BY <1>3, CloseRelayEffect, TelemetrySame DEF CloseRelay, InDelta
<1>4. CASE BeginTake
  <2>1. mem' = [mem EXCEPT !.events = 0] /\ mem \in Memory /\ pass'.pc = "take" /\ pass'.telemetry = NoBytes
    BY <1>4, BeginTakeEffect DEF AccountingShape
  <2>2. mem'.shards = mem.shards
    BY <2>1 DEF Memory
  <2>3. pass.pc = "lock" /\ UNCHANGED <<db, run, past>>
    BY <1>4 DEF BeginTake
  <2>4. InDelta("telemetry") = 0 /\ InDelta("telemetry")' = 0
    BY <2>1, <2>3, SumNoBytes DEF InDelta
  <2> QED BY <2>2, <2>3, <2>4, TelemetrySame
<1>5. CASE TakeShard
  <2> DEFINE s == pass.shard
  <2>1. /\ s \in Shards /\ mem' \in Memory /\ \A i \in Shards : i # s => b[i] = a[i]
        /\ b[s].telemetry = NoBytes /\ pass \in Delta /\ pass' \in Delta
        /\ pass'.telemetry = Plus(pass.telemetry, a[s].telemetry)
    BY <1>5, TakeShardEffect
  <2>2. b \in [Shards -> Shard] /\ a[s].telemetry \in Counts /\ pass.telemetry \in Counts
    BY <1>0, <2>1 DEF Memory, Shard, Delta
  <2>3. UNCHANGED <<db, run, past>>
    BY <1>5 DEF TakeShard
  <2>4. /\ SumFunction(a[s].telemetry) \in Nat /\ SumFunction(pass.telemetry) \in Nat
        /\ SumFunction(b[s].telemetry) = 0
        /\ SumFunction(pass'.telemetry) = SumFunction(pass.telemetry) + SumFunction(a[s].telemetry)
    BY <2>1, <2>2, SumCounts, SumOfPlus, SumNoBytes
  <2>5. PendingIn(b, "telemetry") = PendingIn(a, "telemetry")
          + (SumFunction(b[s].telemetry) - SumFunction(a[s].telemetry))
    BY <1>0, <2>1, <2>2, ShardChangePending
  <2>6. /\ InDelta("telemetry") = SumFunction(pass.telemetry)
        /\ InDelta("telemetry")' = SumFunction(pass'.telemetry)
    BY <2>1 DEF InDelta, Delta
  <2> HIDE DEF a, b, s, rows
  <2>7. rows + PendingIn(b, "telemetry") + SumFunction(pass'.telemetry) = past.attributed
    BY <1>0, <2>4, <2>5, <2>6
  <2> QED BY <1>P, <2>3, <2>6, <2>7 DEF TelemetryConserved, rows
<1>6. CASE ApplyDelta
  <2>1. /\ pass \in Delta /\ db'.blob = db.blob
        /\ SumFunction(db'.hourly) + SumFunction(db'.daily)
             = (SumFunction(db.hourly) + SumFunction(db.daily)) + SumFunction(pass.telemetry)
    BY <1>6, ApplyDeltaEffect
  <2>2. /\ pass.pc = "apply" /\ pass'.pc = "inbound" /\ mem' = mem /\ past'.attributed = past.attributed
    BY <1>6 DEF ApplyDelta, AccountingShape, History
  <2>3. InDelta("telemetry") = SumFunction(pass.telemetry) /\ InDelta("telemetry")' = 0
        /\ InDelta("telemetry") \in Nat
    BY <2>2, TelemetryTyped DEF InDelta
  <2>4. b = a
    BY <2>2
  <2>5. ~db.blob.present
    BY <2>2 DEF GateHeld, Idle, ImportFirst
  <2>6. rows = SumFunction(db.hourly) + SumFunction(db.daily)
    BY <2>5, TelemetryNatural
  <2>7. Telemetry(db') = SumFunction(db'.hourly) + SumFunction(db'.daily)
    BY <2>1, <2>5 DEF Telemetry
  <2> HIDE DEF a, b, rows
  <2>8. Telemetry(db') + PendingIn(b, "telemetry") + 0 = past.attributed
    BY <1>0, <2>1, <2>3, <2>4, <2>6, <2>7
  <2> QED BY <1>P, <2>2, <2>3, <2>8 DEF TelemetryConserved
<1>7. CASE ApplyFails
  <2>1. /\ 0 \in Shards /\ mem' \in Memory /\ \A i \in Shards : i # 0 => b[i] = a[i] /\ pass \in Delta
        /\ b[0].telemetry = Plus(a[0].telemetry, pass.telemetry)
    BY <1>7, ApplyFailsEffect
  <2>2. b \in [Shards -> Shard] /\ a[0].telemetry \in Counts /\ pass.telemetry \in Counts
    BY <1>0, <1>7, <2>1, ApplyFailsEffect DEF Memory, Shard, Delta
  <2>3. pass.pc = "apply" /\ pass'.pc = "failed" /\ UNCHANGED <<db, run, past>>
    BY <1>7 DEF ApplyFails
  <2>4. /\ SumFunction(a[0].telemetry) \in Nat /\ SumFunction(pass.telemetry) \in Nat
        /\ SumFunction(b[0].telemetry) = SumFunction(a[0].telemetry) + SumFunction(pass.telemetry)
    BY <2>1, <2>2, SumCounts, SumOfPlus
  <2>5. PendingIn(b, "telemetry") = PendingIn(a, "telemetry")
          + (SumFunction(b[0].telemetry) - SumFunction(a[0].telemetry))
    BY <1>0, <2>1, <2>2, ShardChangePending
  <2>6. InDelta("telemetry") = SumFunction(pass.telemetry) /\ InDelta("telemetry")' = 0
    BY <2>3 DEF InDelta
  <2> HIDE DEF a, b, rows
  <2>7. rows + PendingIn(b, "telemetry") + 0 = past.attributed
    BY <1>0, <2>4, <2>5, <2>6
  <2> QED BY <1>P, <2>3, <2>6, <2>7 DEF TelemetryConserved, rows
<1>8. CASE WriteInbound
  <2>1. InDelta("telemetry") = 0 /\ InDelta("telemetry")' = 0 /\ UNCHANGED <<mem, run, past>>
    BY <1>8 DEF WriteInbound, InDelta
  <2>2. Telemetry(db') = Telemetry(db)
    BY <1>8, WriteInboundEffect DEF Telemetry
  <2> QED BY <2>1, <2>2, TelemetrySame
<1>9. CASE WorkerTick \/ PersistReturns
  <2>1. InDelta("telemetry") = 0 /\ InDelta("telemetry")' = 0 /\ UNCHANGED <<mem, run, past, db>>
    BY <1>9 DEF WorkerTick, PersistReturns, InDelta, Idle
  <2> QED BY <2>1, TelemetrySame
<1>10. CASE Stop
  <2>1. InDelta("telemetry")' = InDelta("telemetry") /\ UNCHANGED <<mem, run, past, db>>
    BY <1>10 DEF Stop, Shutdown, WorkerStops, ShutdownEnds, InDelta, Idle, GateHeld
  <2> QED BY <2>1, TelemetrySame
<1>11. CASE Read
  <2>1. UNCHANGED <<mem, run, past, db, pass>>
    BY <1>11 DEF Read, ReadRows, ReadState, ReadShard, ReadEnds
  <2> QED BY <2>1, TelemetrySame DEF InDelta
<1>12. CASE Crash
  <2>1. mem' = EmptyMemory /\ db' = db /\ past'.attributed = rows
    BY <1>12 DEF Crash, AccountingShape, History
  <2>2. InDelta("telemetry")' = 0
    BY <1>12 DEF Crash, InDelta, Idle
  <2>3. PendingIn(b, "telemetry") = 0
    BY <2>1, NothingPending
  <2> HIDE DEF b, rows
  <2>4. rows + PendingIn(b, "telemetry") + 0 = past'.attributed
    BY <1>0, <2>1, <2>3
  <2> QED BY <1>P, <2>1, <2>2, <2>4 DEF TelemetryConserved, rows
<1>13. ASSUME NEW total \in Nat, Restore(total), run # "up", Telemetry(db') = Telemetry(db)
       PROVE  TelemetryConserved'
  <2>1. mem'.shards = EmptyMemory.shards /\ past'.attributed = past.attributed
    BY <1>13, RestoreEffect DEF AccountingShape
  <2>2. mem.shards = EmptyMemory.shards /\ InDelta("telemetry")' = InDelta("telemetry")
    BY <1>13 DEF Restore, GateHeld, Idle, InDelta
  <2> QED BY <1>13, <2>1, <2>2, TelemetrySame
<1>14. CASE Load
  BY <1>13, <1>14, BlobTyped DEF Load
<1>15. CASE FinishImport
  <2>1. /\ db'.hourly = db.hourly /\ db'.daily = db.daily /\ ~db'.blob.present /\ db.blob.present
        /\ \A h \in Hours : db.blob.telemetry[h] <= db.hourly[h]
    BY <1>15, FinishEffect DEF FinishImport, ImportFirst
  <2>2. Merge(db.hourly, db.blob.telemetry) = db.hourly
    BY <2>1, BlobTyped, MergeAbsorbs
  <2>3. Telemetry(db') = Telemetry(db)
    BY <2>1, <2>2 DEF Telemetry
  <2> QED BY <1>13, <1>15, <2>3, BlobTyped DEF FinishImport
<1>18. CASE ImportBlob
  <2>1. Telemetry(db') = rows + Redated /\ Redated \in Nat
    BY <1>18, ImportTelemetry, RedatedNatural
  <2>2. past'.attributed = past.attributed + Redated /\ UNCHANGED <<mem, pass>>
    BY <1>18 DEF ImportBlob, AccountingShape, History
  <2>3. InDelta("telemetry")' = InDelta("telemetry") /\ InDelta("telemetry") \in Nat /\ b = a
    BY <2>2, TelemetryTyped DEF InDelta
  <2> HIDE DEF a, b, rows
  <2>4. Telemetry(db') + PendingIn(b, "telemetry") + InDelta("telemetry") = past'.attributed
    BY <1>0, <2>1, <2>2, <2>3
  <2> QED BY <1>P, <2>3, <2>4 DEF TelemetryConserved
<1>16. CASE HourPasses
  BY <1>16, TelemetrySame DEF HourPasses, InDelta
<1> QED
  BY <1>1, <1>2, <1>3, <1>4, <1>5, <1>6, <1>7, <1>8, <1>9, <1>10, <1>11, <1>12, <1>14, <1>15, <1>16,
     <1>17, <1>18
     DEF AccountingNext, Traffic, Checkpoint, Start
-----------------------------------------------------------------------------
LEMMA AccountingStarts ==
  ASSUME AccountingInit
  PROVE  AccountingInv
<1>1. db \in Database
  BY AccountingAssumption DEF AccountingInit
<1>2. /\ mem = EmptyMemory /\ mem \in Memory /\ pass.pc = "idle" /\ reader.pc = "idle" /\ run = "down"
      /\ stop = "no" /\ lock = "free" /\ worker = "gone" /\ hour = 0 /\ live = EmptyLive /\ live \in Live
  BY EmptyMemoryTyped, EmptyLiveTyped DEF AccountingInit, Idle
<1>3. AccountingShape
  <2>1. hour \in Hours
    BY <1>2, AccountingAssumption DEF Hours
  <2>2. relays = [f \in Flows |-> 0] /\ dirty = FALSE
        /\ past = [unlisted |-> 0, ahead |-> 0, attributed |-> Telemetry(db), moved |-> {}]
    BY DEF AccountingInit
  <2>4. relays \in [Flows -> Nat]
    BY <2>2
  <2>5. Telemetry(db) \in Nat
    BY <1>1, TelemetryOf
  <2>6. past \in History
    BY <2>2, <2>5 DEF History
  <2>3. pass \in [pc : {"idle", "lock", "inbound", "done", "failed"}] /\ reader \in [pc : {"idle"}]
    BY DEF AccountingInit, Idle
  <2> QED BY <1>1, <1>2, <2>1, <2>2, <2>3, <2>4, <2>6 DEF AccountingShape
<1>4. GateHeld
  BY <1>2, EmptyLiveTyped DEF GateHeld, AccountingInit
<1>5. ImportFirst
  BY <1>1, <1>2 DEF ImportFirst
<1>6. TotalsSettled /\ CaughtUp
  BY <1>2 DEF TotalsSettled, MemorySettled, DeltaSettled, ReaderSettled, CaughtUp
<1>9. TelemetryConserved
  <2>1. past.attributed = Telemetry(db) /\ InDelta("telemetry") = 0
    BY <1>2 DEF AccountingInit, InDelta
  <2>2. Pending("telemetry") = 0
    BY <1>2, NothingPending DEF Pending, PendingIn
  <2>3. Telemetry(db) \in Nat
    BY <1>3, TelemetryNatural
  <2> QED BY <2>1, <2>2, <2>3 DEF TelemetryConserved
<1>7. DirtyMarked
  BY <1>2, EmptyMemoryTyped DEF DirtyMarked, Drained
<1>8. GaugeFollows
  <2>1. \A i \in Inbounds : Of(live.connections, i) = {} /\ live.active[i] = 0
    BY <1>2, EmptyLiveTyped, AccountingAssumption DEF Unlisted, Still, Of
  <2> QED BY <2>1, FS_EmptySet DEF GaugeFollows
<1> QED BY <1>3, <1>4, <1>5, <1>6, <1>7, <1>8, <1>9 DEF AccountingInv

(* The invariant of the monitor, its tables and its checkpoints.           *)
THEOREM AccountingInvariant == AccountingSpec => []AccountingInv
<1>1. AccountingInit => AccountingInv
  BY AccountingStarts
<1>2. AccountingInv /\ [AccountingNext]_accountingVars => AccountingInv'
  <2>1. ASSUME AccountingInv, AccountingNext PROVE AccountingInv'
    BY <2>1, ShapeKept, GateKept, ImportKept, TotalsKept, TelemetryKept, DirtyKept, CaughtUpKept, GaugeKept
       DEF AccountingInv
  <2>2. ASSUME AccountingInv, UNCHANGED accountingVars PROVE AccountingInv'
    <3>1. AccountingShape'
      BY <2>2 DEF AccountingInv, accountingVars, AccountingShape
    <3>2. GateHeld' /\ ImportFirst' /\ GaugeFollows' /\ CaughtUp'
      BY <2>2 DEF AccountingInv, accountingVars, GateHeld, ImportFirst, GaugeFollows, CaughtUp
    <3>3. TotalsSettled'
      BY <2>2 DEF AccountingInv, accountingVars, TotalsSettled, MemorySettled, DeltaSettled, ReaderSettled,
                  InDelta
    <3>4. TelemetryConserved'
      BY <2>2 DEF AccountingInv, accountingVars, TelemetryConserved, Pending, InDelta
    <3>5. DirtyMarked'
      BY <2>2 DEF AccountingInv, accountingVars, DirtyMarked, Drained, Reach
    <3> QED BY <3>1, <3>2, <3>3, <3>4, <3>5 DEF AccountingInv
  <2> QED BY <2>1, <2>2
<1> QED BY <1>1, <1>2, PTL DEF AccountingSpec

(* What a reader adds up, the totals and the telemetry count every byte    *)
(* once, from tables behind or ahead of the blob that is imported: see     *)
(* Accounting.BytesCountedOnce.                                            *)
THEOREM BytesAreCountedOnce == AccountingSpec => []BytesCountedOnce
<1>1. ASSUME AccountingInv PROVE BytesCountedOnce
  <2> USE <1>1 DEF AccountingInv
  <2>1. TotalsAddUp
    <3>1. ShardTotals(mem.shards) = Settled(mem.shards, NumShards) + PendingIn(mem.shards, "traffic")
      BY Passed, TotalsSplit
    <3>2. Pending("traffic") = PendingIn(mem.shards, "traffic")
      BY DEF Pending, PendingIn
    <3>3. /\ Settled(mem.shards, NumShards) \in Int /\ PendingIn(mem.shards, "traffic") \in Int
          /\ mem.total \in Int /\ past.unlisted \in Int /\ SumFunction(db.traffic) \in Int
      BY Passed, SettledInt, PendingSum
    <3>4. InDelta("traffic") \in Int
      BY WhereTheyAre, SumCounts DEF InDelta, Delta
    <3>5. run = "up" => mem.total + Settled(mem.shards, NumShards)
                          = past.unlisted + SumFunction(db.traffic) + InDelta("traffic")
      BY DEF TotalsSettled, MemorySettled
    <3>6. run = "up" => mem.total + ShardTotals(mem.shards)
            = past.unlisted + SumFunction(db.traffic) + Pending("traffic") + InDelta("traffic")
      BY <3>1, <3>2, <3>3, <3>4, <3>5
    <3> QED BY <3>6 DEF TotalsAddUp, LiveTotal, TotalsSettled, MemorySettled
  <2>2. ReaderAddsUp
    <3> SUFFICES ASSUME SnapshotComplete PROVE reader.total = past.unlisted + SumFunction(reader.traffic)
      BY DEF ReaderAddsUp
    <3>1. reader.pc = "shards" /\ reader.shard = NumShards
      BY DEF SnapshotComplete
    <3>2. run = "up" /\ pass.pc \notin {"take", "apply"}
      BY <3>1 DEF GateHeld, Idle
    <3>3. InDelta("traffic") = 0
      BY <3>2 DEF InDelta
    <3>4. /\ mem.total + Settled(mem.shards, NumShards) = past.unlisted + SumFunction(db.traffic) + 0
          /\ Settled(mem.shards, NumShards) + SumFunction(reader.traffic)
               = (reader.total - mem.total) + SumFunction(db.traffic)
      BY <3>1, <3>2, <3>3 DEF TotalsSettled, MemorySettled, ReaderSettled
    <3>5. /\ Settled(mem.shards, NumShards) \in Int /\ mem.total \in Int /\ past.unlisted \in Int
          /\ SumFunction(db.traffic) \in Int
      BY Passed, SettledInt
    <3>6. SumFunction(reader.traffic) \in Int /\ reader.total \in Int
      BY <3>1, WhereTheyAre, SumCounts DEF Snapshot
    <3> DEFINE m == mem.total
               k == Settled(mem.shards, NumShards)
               u == past.unlisted
               d == SumFunction(db.traffic)
               t == reader.total
               r == SumFunction(reader.traffic)
    <3>7. /\ m \in Int /\ k \in Int /\ u \in Int /\ d \in Int /\ t \in Int /\ r \in Int
          /\ m + k = u + d + 0 /\ k + r = (t - m) + d
      BY <3>4, <3>5, <3>6
    <3> HIDE DEF m, k, u, d, t, r
    <3>8. t = u + r
      BY <3>7
    <3> QED BY <3>8 DEF t, u, r
  <2> QED BY <2>1, <2>2 DEF BytesCountedOnce
<1> QED BY <1>1, AccountingInvariant, PTL

LEMMA DrainedPending ==
  ASSUME NEW shards \in [Shards -> Shard], Drained(shards, NumShards)
  PROVE  PendingIn(shards, "traffic") = 0
<1> DEFINE z == [s \in Shards |-> SumFunction(shards[s].traffic)]
<1>1. \A s \in Shards : s < NumShards
  BY AccountingAssumption DEF Shards
<1>2. \A s \in Shards : z[s] = 0
  BY <1>1, SumNoBytes DEF Drained
<1>3. PendingIn(shards, "traffic") = SumFunctionOnSet(z, Shards)
  BY DEF PendingIn, SumFunction
<1> HIDE DEF z
<1> QED BY <1>2, <1>3, SumZero, FiniteDomains

(* Counts in memory wait for a checkpoint, the last one leaves none, and   *)
(* the gauge of an inbound follows its listed flows, as long as none of    *)
(* them was opened again by another: see Accounting.NothingForgotten.      *)
THEOREM NothingIsForgotten == AccountingSpec => []NothingForgotten
<1>1. ASSUME AccountingInv, BytesCountedOnce PROVE NothingForgotten
  <2> USE <1>1 DEF AccountingInv
  <2>1. Pending("traffic") = PendingIn(mem.shards, "traffic") /\ mem.shards \in [Shards -> Shard]
    BY Passed DEF Pending, PendingIn
  <2>2. Drained(mem.shards, NumShards) => Pending("traffic") = 0
    BY <2>1, DrainedPending
  <2>3. PendingIsScheduled
    <3> SUFFICES ASSUME ~dirty, pass = Idle PROVE Pending("traffic") = 0 /\ mem.events = 0
      BY DEF PendingIsScheduled
    <3>1. Reach = NumShards /\ pass.pc # "lock"
      BY DEF Reach, Idle
    <3> QED BY <2>2, <3>1 DEF DirtyMarked
  <2>4. ShutdownFlushes
    <3> SUFFICES ASSUME stop = "flushed"
                 PROVE  Pending("traffic") = 0 /\ mem.events = 0 /\ db.total = LiveTotal
      BY DEF ShutdownFlushes
    <3>1. Pending("traffic") = 0 /\ mem.events = 0
      BY <2>2 DEF DirtyMarked
    <3>2. run = "up" /\ pass = Idle /\ past.ahead = 0
      BY DEF GateHeld, CaughtUp
    <3>3. InDelta("traffic") = 0
      BY <3>2 DEF InDelta, Idle
    <3>4. /\ db.total = 0 + past.unlisted + SumFunction(db.traffic)
          /\ LiveTotal = past.unlisted + SumFunction(db.traffic) + 0 + 0
      BY <1>1, <3>1, <3>2, <3>3 DEF BytesCountedOnce, TotalsAddUp
    <3>5. SumFunction(db.traffic) \in Int /\ past.unlisted \in Int
      BY Passed
    <3> QED BY <3>1, <3>4, <3>5
  <2>5. ActiveMatchesListed
    BY DEF ActiveMatchesListed, GaugeFollows, Of
  <2> QED BY <2>3, <2>4, <2>5 DEF NothingForgotten
<1> QED BY <1>1, AccountingInvariant, BytesAreCountedOnce, PTL
-----------------------------------------------------------------------------
(* The ledger: what is known of one hour, in the tables or a blob, in the  *)
(* delta of a checkpoint and in the shards.                                *)
Rows(d, h) == IF d.blob.present THEN Greater(d.traffic[h], d.blob.traffic[h]) ELSE d.traffic[h]
Held(p, h) == IF p.pc \in {"take", "apply"} THEN p.traffic[h] ELSE 0
Waiting(shards, h) == SumFunction([s \in Shards |-> shards[s].traffic[h]])
Total(d, p, shards, h) == Rows(d, h) + Held(p, h) + Waiting(shards, h)

LEMMA KnownIsTotal ==
  /\ Known = [h \in Hours |-> Total(db, pass, mem.shards, h)]
  /\ Known' = [h \in Hours |-> Total(db', pass', mem'.shards, h)]
BY DEF Known, Total, Rows, Held, Waiting

LEMMA WaitingNat ==
  ASSUME NEW shards \in [Shards -> Shard], NEW h \in Hours
  PROVE  Waiting(shards, h) \in Nat
<1> DEFINE f == [s \in Shards |-> shards[s].traffic[h]]
<1>1. \A s \in Shards : f[s] \in Nat
  BY DEF Shard, Counts
<1>2. Waiting(shards, h) = SumFunctionOnSet(f, Shards)
  BY DEF Waiting, SumFunction
<1> HIDE DEF f
<1> QED BY <1>1, <1>2, SumNatural, FiniteDomains

LEMMA WaitingChange ==
  ASSUME NEW a \in [Shards -> Shard], NEW b \in [Shards -> Shard], NEW s \in Shards,
         \A i \in Shards : i # s => b[i] = a[i], NEW h \in Hours
  PROVE  Waiting(b, h) = Waiting(a, h) + (b[s].traffic[h] - a[s].traffic[h])
<1> DEFINE f == [i \in Shards |-> a[i].traffic[h]]
           g == [i \in Shards |-> b[i].traffic[h]]
<1>1. \A i \in Shards : f[i] \in Int /\ g[i] \in Int /\ (i # s => f[i] = g[i])
  BY DEF Shard, Counts
<1>2. Waiting(a, h) = SumFunctionOnSet(f, Shards) /\ Waiting(b, h) = SumFunctionOnSet(g, Shards)
  BY DEF Waiting, SumFunction
<1>3. f[s] = a[s].traffic[h] /\ g[s] = b[s].traffic[h]
  OBVIOUS
<1> HIDE DEF f, g
<1>4. SumFunctionOnSet(g, Shards) = SumFunctionOnSet(f, Shards) + (g[s] - f[s])
  BY <1>1, FiniteDomains, SumChange
<1> QED BY <1>2, <1>3, <1>4

LEMMA NothingWaiting ==
  ASSUME NEW h \in Hours
  PROVE  Waiting(EmptyMemory.shards, h) = 0
<1> DEFINE f == [s \in Shards |-> EmptyMemory.shards[s].traffic[h]]
<1>1. \A s \in Shards : f[s] = 0
  BY EmptyMemoryTyped, NoBytesCounts
<1>2. Waiting(EmptyMemory.shards, h) = SumFunctionOnSet(f, Shards)
  BY DEF Waiting, SumFunction
<1> HIDE DEF f
<1> QED BY <1>1, <1>2, SumZero, FiniteDomains

LEMMA LedgerTyped ==
  ASSUME AccountingShape, NEW h \in Hours
  PROVE  /\ mem.shards \in [Shards -> Shard] /\ Waiting(mem.shards, h) \in Nat
         /\ db.traffic \in Counts /\ db.traffic[h] \in Nat /\ db.blob.traffic[h] \in Nat
         /\ Rows(db, h) \in Nat /\ db.traffic[h] <= Rows(db, h) /\ Held(pass, h) \in Nat
<1>1. mem.shards \in [Shards -> Shard] /\ db.traffic \in Counts /\ db.blob.traffic \in Counts
  BY BlobTyped DEF AccountingShape, Memory
<1>2. db.traffic[h] \in Nat /\ db.blob.traffic[h] \in Nat
  BY <1>1 DEF Counts
<1>3. Rows(db, h) \in Nat /\ db.traffic[h] <= Rows(db, h)
  BY <1>2 DEF Rows, Greater
<1>4. Held(pass, h) \in Nat
  BY WhereTheyAre DEF Held, Delta, Counts
<1> QED BY <1>1, <1>2, <1>3, <1>4, WaitingNat

(* The five kinds of steps, hour by hour: a byte is counted, counts move   *)
(* on their way to the tables, they arrive there, or a crash forgets.      *)
LEMMA AddBytesCounts ==
  ASSUME AccountingInv, NEW f \in Flows, AddBytes(f), NEW h \in Hours
  PROVE  Total(db', pass', mem'.shards, h) = Total(db, pass, mem.shards, h) + (IF h = hour THEN 1 ELSE 0)
<1> DEFINE s == ShardOf[f]
           a == mem.shards
           b == mem'.shards
<1>0. s \in Shards /\ mem' \in Memory /\ \A i \in Shards : i # s => b[i] = a[i]
  BY AddBytesEffect DEF AccountingInv
<1>1. b[s].traffic = [a[s].traffic EXCEPT ![hour] = @ + 1]
  BY AddBytesEffect DEF AccountingInv
<1>2. b \in [Shards -> Shard] /\ a \in [Shards -> Shard] /\ a[s].traffic \in Counts /\ hour \in Hours
  BY <1>0 DEF Memory, AccountingInv, AccountingShape, Shard
<1>3. b[s].traffic[h] = a[s].traffic[h] + (IF h = hour THEN 1 ELSE 0) /\ a[s].traffic[h] \in Nat
  BY <1>1, <1>2 DEF Counts
<1>4. db' = db /\ pass' = pass
  BY DEF AddBytes
<1> HIDE DEF a, b, s
<1>5. Waiting(b, h) = Waiting(a, h) + (b[s].traffic[h] - a[s].traffic[h])
  BY <1>0, <1>2, WaitingChange
<1>6. Waiting(a, h) \in Nat /\ Rows(db, h) \in Nat /\ Held(pass, h) \in Nat
  BY LedgerTyped DEF a, AccountingInv
<1>7. Rows(db, h) + Held(pass, h) + Waiting(b, h)
        = Rows(db, h) + Held(pass, h) + Waiting(a, h) + (IF h = hour THEN 1 ELSE 0)
  BY <1>3, <1>5, <1>6
<1> QED BY <1>4, <1>7 DEF Total, a, b

LEMMA TakeShardMoves ==
  ASSUME AccountingInv, TakeShard, NEW h \in Hours
  PROVE  Total(db', pass', mem'.shards, h) = Total(db, pass, mem.shards, h)
<1> DEFINE s == pass.shard
           a == mem.shards
           b == mem'.shards
<1>1. /\ s \in Shards /\ mem' \in Memory /\ \A i \in Shards : i # s => b[i] = a[i]
      /\ b[s].traffic = NoBytes /\ pass \in Delta /\ pass' \in Delta
      /\ pass'.traffic = Plus(pass.traffic, a[s].traffic)
  BY TakeShardEffect DEF AccountingInv
<1>2. b \in [Shards -> Shard] /\ a \in [Shards -> Shard] /\ a[s].traffic \in Counts /\ pass.traffic \in Counts
  BY <1>1 DEF Memory, AccountingInv, AccountingShape, Shard, Delta
<1>3. /\ b[s].traffic[h] = 0 /\ a[s].traffic[h] \in Nat /\ pass.traffic[h] \in Nat
      /\ pass'.traffic[h] = pass.traffic[h] + a[s].traffic[h]
  <2>1. b[s].traffic[h] = 0 /\ a[s].traffic[h] \in Nat /\ pass.traffic[h] \in Nat
    BY <1>1, <1>2, NoBytesCounts DEF Counts
  <2>2. Plus(pass.traffic, a[s].traffic)[h] = pass.traffic[h] + a[s].traffic[h]
    BY <1>2, PlusCounts
  <2> QED BY <1>1, <2>1, <2>2
<1>4. Held(pass, h) = pass.traffic[h] /\ Held(pass', h) = pass'.traffic[h] /\ db' = db
  BY <1>1 DEF Held, TakeShard, Delta
<1> HIDE DEF a, b, s
<1>5. Waiting(b, h) = Waiting(a, h) + (b[s].traffic[h] - a[s].traffic[h])
  BY <1>1, <1>2, WaitingChange
<1>6. Waiting(a, h) \in Nat /\ Rows(db, h) \in Nat
  BY LedgerTyped DEF a, AccountingInv
<1>7. Rows(db, h) + Held(pass', h) + Waiting(b, h) = Rows(db, h) + Held(pass, h) + Waiting(a, h)
  BY <1>3, <1>4, <1>5, <1>6
<1> QED BY <1>4, <1>7 DEF Total, a, b

LEMMA ApplyFailsMoves ==
  ASSUME AccountingInv, ApplyFails, NEW h \in Hours
  PROVE  Total(db', pass', mem'.shards, h) = Total(db, pass, mem.shards, h)
<1> DEFINE a == mem.shards
           b == mem'.shards
<1>1. /\ 0 \in Shards /\ mem' \in Memory /\ \A i \in Shards : i # 0 => b[i] = a[i]
      /\ pass \in Delta /\ b[0].traffic = Plus(a[0].traffic, pass.traffic)
  BY ApplyFailsEffect DEF AccountingInv
<1>2. b \in [Shards -> Shard] /\ a \in [Shards -> Shard] /\ a[0].traffic \in Counts /\ pass.traffic \in Counts
  BY <1>1 DEF Memory, AccountingInv, AccountingShape, Shard, Delta
<1>3. /\ a[0].traffic[h] \in Nat /\ pass.traffic[h] \in Nat
      /\ b[0].traffic[h] = a[0].traffic[h] + pass.traffic[h]
  BY <1>1, <1>2, PlusCounts DEF Counts
<1>4. Held(pass, h) = pass.traffic[h] /\ Held(pass', h) = 0 /\ db' = db
  BY <1>1 DEF Held, ApplyFails
<1> HIDE DEF a, b
<1>5. Waiting(b, h) = Waiting(a, h) + (b[0].traffic[h] - a[0].traffic[h])
  BY <1>1, <1>2, WaitingChange
<1>6. Waiting(a, h) \in Nat /\ Rows(db, h) \in Nat
  BY LedgerTyped DEF a, AccountingInv
<1>7. Rows(db, h) + Held(pass', h) + Waiting(b, h) = Rows(db, h) + Held(pass, h) + Waiting(a, h)
  BY <1>3, <1>4, <1>5, <1>6
<1> QED BY <1>4, <1>7 DEF Total, a, b

LEMMA ApplyDeltaArrives ==
  ASSUME AccountingInv, ApplyDelta, NEW h \in Hours
  PROVE  /\ Total(db', pass', mem'.shards, h) = Total(db, pass, mem.shards, h)
         /\ db'.traffic[h] \in db.traffic[h] .. Total(db, pass, mem.shards, h)
<1>1. pass \in Delta /\ db'.traffic = Plus(db.traffic, pass.traffic) /\ db'.blob = db.blob
  BY ApplyDeltaEffect DEF AccountingInv
<1>2. db.traffic \in Counts /\ pass.traffic \in Counts
  BY <1>1, LedgerTyped DEF AccountingInv, Delta
<1>3. db'.traffic[h] = db.traffic[h] + pass.traffic[h] /\ db.traffic[h] \in Nat /\ pass.traffic[h] \in Nat
  BY <1>1, <1>2, PlusCounts DEF Counts
<1>4. pass.pc = "apply" /\ pass'.pc = "inbound" /\ mem' = mem
  BY DEF ApplyDelta
<1>5. ~db.blob.present
  BY <1>4 DEF AccountingInv, GateHeld, ImportFirst, Idle
<1>6. Rows(db, h) = db.traffic[h] /\ Rows(db', h) = db'.traffic[h]
      /\ Held(pass, h) = pass.traffic[h] /\ Held(pass', h) = 0
  BY <1>1, <1>4, <1>5 DEF Rows, Held
<1>7. Waiting(mem.shards, h) \in Nat
  BY LedgerTyped DEF AccountingInv
<1> QED BY <1>3, <1>4, <1>6, <1>7 DEF Total

LEMMA ImportArrives ==
  ASSUME AccountingInv, ImportBlob, NEW h \in Hours
  PROVE  /\ Total(db', pass', mem'.shards, h) = Total(db, pass, mem.shards, h)
         /\ db'.traffic[h] \in db.traffic[h] .. Total(db, pass, mem.shards, h)
<1>1. db'.traffic[h] = Greater(db.traffic[h], db.blob.traffic[h]) /\ db'.blob = db.blob
  BY ImportEffect, BlobTyped, MergeCounts DEF AccountingInv
<1>2. db.traffic[h] \in Nat /\ db.blob.traffic[h] \in Nat /\ Waiting(mem.shards, h) \in Nat
      /\ Held(pass, h) \in Nat
  BY LedgerTyped DEF AccountingInv
<1>3. db.blob.present /\ UNCHANGED <<mem, pass>>
  BY DEF ImportBlob
<1>4. Rows(db, h) = db'.traffic[h] /\ Rows(db', h) = db'.traffic[h] /\ db'.traffic[h] \in Nat
      /\ db.traffic[h] <= db'.traffic[h]
  BY <1>1, <1>2, <1>3 DEF Rows, Greater
<1> QED BY <1>2, <1>3, <1>4 DEF Total

LEMMA CrashForgets ==
  ASSUME AccountingInv, Crash, NEW h \in Hours
  PROVE  Total(db', pass', mem'.shards, h) = db.traffic[h]
<1>1. db' = db /\ pass'.pc = "idle" /\ mem' = EmptyMemory
  BY DEF Crash, Idle
<1>2. Held(pass', h) = 0 /\ Waiting(mem'.shards, h) = 0
  BY <1>1, NothingWaiting DEF Held
<1>3. db.traffic[h] \in Nat /\ db.blob.traffic[h] \in Nat
  BY LedgerTyped DEF AccountingInv
<1>4. db.blob.present => db.blob.traffic[h] <= db.traffic[h]
  <2>1. run \in {"up", "load"}
    BY DEF Crash, AccountingInv, AccountingShape
  <2> QED BY <2>1 DEF AccountingInv, ImportFirst
<1>5. Rows(db, h) = db.traffic[h]
  BY <1>3, <1>4 DEF Rows, Greater
<1> QED BY <1>1, <1>2, <1>3, <1>5 DEF Total
(* What the monitor and the tables hold together is a ledger: see          *)
(* Accounting.ImplementsLedger.                                            *)
THEOREM MonitorImplementsLedger == AccountingSpec => ImplementsLedger
<1>1. ASSUME AccountingInit PROVE Implements!LedgerInit
  <2>1. AccountingShape
    BY <1>1, AccountingStarts DEF AccountingInv
  <2>2. db.traffic \in [Hours -> Nat]
    BY <2>1 DEF AccountingShape, Database, Counts
  <2>3. \A h \in Hours : /\ Total(db, pass, mem.shards, h) \in Nat
                         /\ db.traffic[h] <= Total(db, pass, mem.shards, h)
    BY <2>1, LedgerTyped DEF Total
  <2>4. Known \in [Hours -> Nat] /\ \A h \in Hours : db.traffic[h] <= Known[h]
    BY <2>3, KnownIsTotal
  <2> QED BY <2>2, <2>4 DEF Implements!LedgerInit
<1>2. ASSUME AccountingInv, [AccountingNext]_accountingVars
      PROVE  [Implements!LedgerNext]_<<Known, db.traffic>>
  <2> DEFINE old(h) == Total(db, pass, mem.shards, h)
             new(h) == Total(db', pass', mem'.shards, h)
  <2>1. /\ Known = [h \in Hours |-> old(h)] /\ Known' = [h \in Hours |-> new(h)]
        /\ db.traffic \in [Hours -> Nat]
    BY <1>2, KnownIsTotal DEF AccountingInv, AccountingShape, Database, Counts
  <2>2. ASSUME \A h \in Hours : new(h) = old(h), db'.traffic = db.traffic
        PROVE  [Implements!LedgerNext]_<<Known, db.traffic>>
    BY <2>1, <2>2
  <2>3. ASSUME mem'.shards = mem.shards, UNCHANGED <<db, pass>>
        PROVE  [Implements!LedgerNext]_<<Known, db.traffic>>
    BY <2>2, <2>3
  <2>4. ASSUME \A h \in Hours : new(h) = old(h) /\ db'.traffic[h] \in db.traffic[h] .. old(h)
        PROVE  Implements!Checkpoint
    <3>1. Known' = Known /\ \A h \in Hours : db'.traffic[h] \in db.traffic[h] .. Known[h]
      BY <2>1, <2>4
    <3> QED BY <3>1 DEF Implements!Checkpoint
  <2>5. ASSUME UNCHANGED <<mem, db>>, pass.pc \notin {"take", "apply"}, pass'.pc \notin {"take", "apply"}
        PROVE  [Implements!LedgerNext]_<<Known, db.traffic>>
    <3>1. \A h \in Hours : new(h) = old(h)
      BY <2>5 DEF Total, Held
    <3> QED BY <2>2, <2>5, <3>1
  <2>6. ASSUME NEW f \in Flows, AddBytes(f) PROVE Implements!Count(hour) /\ hour \in Hours
    <3>1. \A h \in Hours : new(h) = old(h) + (IF h = hour THEN 1 ELSE 0)
      BY <1>2, <2>6, AddBytesCounts
    <3>2. db' = db /\ hour \in Hours
      BY <1>2, <2>6 DEF AddBytes, AccountingInv, AccountingShape
    <3>3. \A h \in Hours : old(h) \in Nat
      BY <1>2, LedgerTyped DEF AccountingInv, Total
    <3> HIDE DEF old, new
    <3>4. Known' = [Known EXCEPT ![hour] = @ + 1]
      BY <2>1, <3>1, <3>2, <3>3
    <3> QED BY <3>2, <3>4 DEF Implements!Count
  <2>7. ASSUME NEW f \in Flows, NEW i \in Inbounds, OpenRelay(f, i) \/ OpenEnds(f, i) \/ RefreshRelay(f, i)
        PROVE  [Implements!LedgerNext]_<<Known, db.traffic>>
    BY <2>3, <2>7 DEF OpenRelay, OpenEnds, RefreshRelay
  <2>8. ASSUME NEW f \in Flows, CloseRelay(f) PROVE [Implements!LedgerNext]_<<Known, db.traffic>>
    BY <1>2, <2>3, <2>8, CloseRelayEffect DEF CloseRelay, AccountingInv
  <2>9. CASE WorkerTick \/ PersistReturns \/ Stop
    <3>1. UNCHANGED <<mem, db>>
      BY <2>9 DEF WorkerTick, PersistReturns, Stop, Shutdown, WorkerStops, ShutdownEnds
    <3>2. CASE Shutdown
      BY <2>3, <3>2 DEF Shutdown
    <3>3. CASE WorkerTick \/ PersistReturns \/ WorkerStops \/ ShutdownEnds
      <4>1. pass.pc \notin {"take", "apply"} /\ pass'.pc \notin {"take", "apply"}
        BY <1>2, <3>3 DEF WorkerTick, PersistReturns, WorkerStops, ShutdownEnds, Idle, AccountingInv, GateHeld
      <4> QED BY <2>5, <3>1, <4>1
    <3> QED BY <2>9, <3>2, <3>3 DEF Stop
  <2>10. CASE BeginTake
    <3>1. mem' = [mem EXCEPT !.events = 0] /\ mem \in Memory /\ pass'.pc = "take" /\ pass'.traffic = NoBytes
      BY <1>2, <2>10, BeginTakeEffect DEF AccountingShape, AccountingInv
    <3>2. mem'.shards = mem.shards /\ pass.pc = "lock" /\ db' = db
      BY <2>10, <3>1 DEF Memory, BeginTake
    <3>3. \A h \in Hours : Held(pass, h) = 0 /\ Held(pass', h) = 0
      BY <3>1, <3>2, NoBytesCounts DEF Held
    <3>4. \A h \in Hours : new(h) = old(h)
      BY <3>2, <3>3 DEF Total
    <3> QED BY <2>2, <3>2, <3>4
  <2>11. CASE TakeShard
    <3>1. \A h \in Hours : new(h) = old(h)
      BY <1>2, <2>11, TakeShardMoves
    <3> QED BY <2>2, <2>11, <3>1 DEF TakeShard
  <2>12. CASE ApplyFails
    <3>1. \A h \in Hours : new(h) = old(h)
      BY <1>2, <2>12, ApplyFailsMoves
    <3> QED BY <2>2, <2>12, <3>1 DEF ApplyFails
  <2>13. CASE ApplyDelta
    <3>1. \A h \in Hours : new(h) = old(h) /\ db'.traffic[h] \in db.traffic[h] .. old(h)
      BY <1>2, <2>13, ApplyDeltaArrives
    <3> QED BY <2>4, <3>1 DEF Implements!LedgerNext
  <2>14. CASE ImportBlob
    <3>1. \A h \in Hours : new(h) = old(h) /\ db'.traffic[h] \in db.traffic[h] .. old(h)
      BY <1>2, <2>14, ImportArrives
    <3> QED BY <2>4, <3>1 DEF Implements!LedgerNext
  <2>15. CASE WriteInbound
    <3>1. db'.traffic = db.traffic /\ db'.blob = db.blob /\ mem' = mem
      BY <1>2, <2>15, WriteInboundEffect DEF WriteInbound, AccountingInv
    <3>2. \A h \in Hours : Held(pass, h) = 0 /\ Held(pass', h) = 0 /\ Rows(db', h) = Rows(db, h)
      BY <2>15, <3>1 DEF Held, WriteInbound, Rows
    <3>3. \A h \in Hours : new(h) = old(h)
      BY <3>1, <3>2 DEF Total
    <3> QED BY <2>2, <3>1, <3>3
  <2>16. CASE Read
    BY <2>3, <2>16 DEF Read, ReadRows, ReadState, ReadShard, ReadEnds
  <2>17. CASE Load
    <3>1. mem'.shards = EmptyMemory.shards /\ UNCHANGED <<db, pass>> /\ mem = EmptyMemory
      BY <1>2, <2>17, RestoreEffect, BlobTyped DEF Load, Restore, AccountingInv, AccountingShape, GateHeld
    <3> QED BY <2>3, <3>1
  <2>18. CASE FinishImport
    <3>1. /\ mem'.shards = EmptyMemory.shards /\ pass' = pass /\ mem = EmptyMemory
          /\ db.blob.present /\ \A h \in Hours : db.blob.traffic[h] <= db.traffic[h]
      BY <1>2, <2>18, RestoreEffect, BlobTyped
         DEF FinishImport, Restore, AccountingInv, AccountingShape, GateHeld, ImportFirst
    <3>2. db'.traffic = db.traffic /\ ~db'.blob.present
      BY <1>2, <2>18, FinishEffect DEF AccountingInv
    <3>3. \A h \in Hours : db.traffic[h] \in Nat /\ db.blob.traffic[h] \in Nat
      BY <1>2, LedgerTyped DEF AccountingInv
    <3>4. \A h \in Hours : Rows(db', h) = Rows(db, h)
      BY <3>1, <3>2, <3>3 DEF Rows, Greater
    <3>5. \A h \in Hours : new(h) = old(h)
      BY <3>1, <3>4 DEF Total
    <3> QED BY <2>2, <3>2, <3>5
  <2>19. CASE Crash
    <3>1. \A h \in Hours : new(h) = db.traffic[h]
      BY <1>2, <2>19, CrashForgets
    <3> HIDE DEF new, old
    <3>2. Known' = db.traffic /\ db' = db
      BY <2>1, <2>19, <3>1 DEF Crash
    <3> QED BY <3>2 DEF Implements!LedgerNext, Implements!Restart
  <2>20. CASE HourPasses
    BY <2>3, <2>20 DEF HourPasses
  <2>21. CASE UNCHANGED accountingVars
    BY <2>3, <2>21 DEF accountingVars
  <2> HIDE DEF old, new
  <2>22. ASSUME NEW f \in Flows, AddBytes(f) PROVE Implements!LedgerNext
    BY <2>6, <2>22 DEF Implements!LedgerNext
  <2> QED
    BY <1>2, <2>7, <2>8, <2>9, <2>10, <2>11, <2>12, <2>13, <2>14, <2>15, <2>16, <2>17, <2>18, <2>19,
       <2>20, <2>21, <2>22
       DEF AccountingNext, Traffic, Checkpoint, Start
<1> QED
  BY <1>1, <1>2, AccountingInvariant, PTL DEF AccountingSpec, ImplementsLedger, Implements!LedgerSpec
=============================================================================
