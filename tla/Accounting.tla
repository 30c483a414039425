----------------------------- MODULE Accounting -----------------------------
(***************************************************************************)
(* The connection monitor of doradus-runtime (control/monitor_*.rs) and    *)
(* the statistics tables it checkpoints to.  Relays count bytes into       *)
(* shards under one lock each; flows and failures are under the state      *)
(* lock; a checkpoint runs on a blocking thread, takes the state lock and  *)
(* every shard in turn, and writes the delta in one transaction; a reader  *)
(* on any thread adds the pending counts to the rows.  Upload and download *)
(* are handled alike and are one count here, as are the pending history    *)
(* and failure records.                                                    *)
(***************************************************************************)
EXTENDS Integers, FiniteSets, Functions

CONSTANTS
  Flows,        (* flow keys: network, source and destination              *)
  Inbounds,     (* ids of inbounds: the context of a relay names its own   *)
  ShardOf,      (* traffic_shard_index: flow -> shard                      *)
  NumShards,    (* TRAFFIC_SHARD_COUNT                                     *)
  LastHour,     (* bound on the clock, in hours                            *)
  Retention,    (* TELEMETRY_HOURLY_RETENTION_SECONDS, in hours            *)
  DayHours,     (* TELEMETRY_SECONDS_PER_DAY, in hours                     *)
  Starts        (* database contents an earlier run can have left, each    *)
                (* with bounds on one behaviour from it: bytes counted,    *)
                (* relays opened and their inbounds, snapshots read,       *)
                (* crashes and hours passed                                *)

Hours == 0 .. LastHour
Shards == 0 .. NumShards - 1
Days == {h \div DayHours : h \in Hours}
NoBytes == [h \in Hours |-> 0]
Counts == [Hours -> Nat]

(* PersistedMonitor, the blob an earlier version wrote: its telemetry is   *)
(* in buckets, or a sum without a date.                                    *)
Blobs ==
  [present : BOOLEAN, total : Nat, traffic : Counts, telemetry : Counts, undated : Nat]

(* The tables; inbound_statistics has rows for the inbounds known.         *)
Database ==
  [total : Nat, traffic : Counts, hourly : Counts, daily : [Days -> Nat], events : Nat,
   known : SUBSET Inbounds, flows : [Inbounds -> Nat], bytes : [Inbounds -> Nat], blob : Blobs]

Absent == "absent"

ASSUME AccountingAssumption ==
  /\ NumShards \in Nat \ {0} /\ ShardOf \in [Flows -> Shards]
  /\ LastHour \in Nat /\ Retention \in Nat /\ DayHours \in Nat \ {0}
  /\ Absent \notin Inbounds /\ \A x \in Starts : x.tables \in Database

VARIABLES
  hour,     (* unix_seconds() in hours                                     *)
  db,       (* the SQLite tables and the blob of an earlier version        *)
  mem,      (* the totals and pending rows of MonitorState and the shards  *)
  live,     (* the listed flows and the counters of the inbounds           *)
  relays,   (* flow -> FlowObserverGuards alive                            *)
  dirty,    (* PersistenceState::dirty                                     *)
  lock,     (* holder of snapshot_lock                                     *)
  worker,   (* the persistence task                                        *)
  stop,     (* ConnectionMonitor::shutdown                                 *)
  pass,     (* the checkpoint under way                                    *)
  reader,   (* durable_snapshot_for under way                              *)
  run,      (* "load" while the monitor is restored, "up", or "down"       *)
  past,     (* history: the bytes of the totals that were in no bucket at  *)
            (* the start, what the tables were ahead of them, the          *)
            (* telemetry counted, and the inbounds a listed flow left for  *)
            (* another, or came to                                         *)
  budget    (* what is left of the bounds                                  *)

accountingVars ==
  <<hour, db, mem, live, relays, dirty, lock, worker, stop, pass, reader, run, past, budget>>

Plus(f, g) == [x \in DOMAIN f |-> f[x] + g[x]]
Greater(a, b) == IF a > b THEN a ELSE b
Merge(f, g) == [h \in Hours |-> Greater(f[h], g[h])]

(* The telemetry a process starts from, that of a blob with buckets        *)
(* included.                                                               *)
Telemetry(d) ==
  SumFunction(IF d.blob.present THEN Merge(d.hourly, d.blob.telemetry) ELSE d.hourly)
  + SumFunction(d.daily)

NoBlob ==
  [present |-> FALSE, total |-> 0, traffic |-> NoBytes, telemetry |-> NoBytes, undated |-> 0]
Idle == [pc |-> "idle"]

Nothing == [i \in Inbounds |-> 0]

(* MonitorTrafficState: totals, pending rows and bytes per inbound.        *)
EmptyShard == [total |-> 0, traffic |-> NoBytes, telemetry |-> NoBytes, inbound |-> Nothing]
EmptyMemory == [total |-> 0, events |-> 0, shards |-> [s \in Shards |-> EmptyShard]]

(* connections: flow -> inbound_id of its record; entries: the same in the *)
(* flow's shard; opening: the open that has yet to insert its entry; and   *)
(* inbound_statistics, for the inbounds it knows.                          *)
EmptyLive ==
  [connections |-> [f \in Flows |-> Absent], entries |-> [f \in Flows |-> Absent],
   opening |-> <<>>, known |-> {}, active |-> Nothing, flows |-> Nothing, bytes |-> Nothing]

ShardTotals(shards) == SumFunction([s \in Shards |-> shards[s].total])
LiveTotal == mem.total + ShardTotals(mem.shards)

-----------------------------------------------------------------------------
(* The state lock: a checkpoint and a reader hold it over all shards.      *)
StateFree == pass.pc # "take" /\ reader.pc # "shards"

Running == run = "up" /\ stop = "no"

(* add_bytes, under the lock of the flow's shard only; bytes of a flow     *)
(* without an entry there count in the totals and the buckets alone.       *)
Credited(shard, inbound) ==
  LET listed == inbound # Absent IN
  [total |-> shard.total + 1, traffic |-> [shard.traffic EXCEPT ![hour] = @ + 1],
   telemetry |-> IF listed THEN [shard.telemetry EXCEPT ![hour] = @ + 1] ELSE shard.telemetry,
   inbound |-> IF listed THEN [shard.inbound EXCEPT ![inbound] = @ + 1] ELSE shard.inbound]

AddBytes(f) ==
  LET s == ShardOf[f] IN
  /\ Running /\ relays[f] > 0 /\ budget.bytes > 0
  /\ mem' = [mem EXCEPT !.shards[s] = Credited(@, live.entries[f])]
  /\ dirty' = TRUE
  /\ budget' = [budget EXCEPT !.bytes = @ - 1]
  /\ past' = [past EXCEPT !.attributed = IF live.entries[f] # Absent THEN @ + 1 ELSE @]
  /\ UNCHANGED <<hour, db, live, relays, lock, worker, stop, pass, reader, run>>

(* FlowObserverGuard::open of a flow that is not listed, under the state   *)
(* lock, ...                                                               *)
OpenRelay(f, i) ==
  /\ Running /\ StateFree /\ budget.relays > 0 /\ i \in budget.inbounds
  /\ live.connections[f] = Absent /\ live.opening = <<>>
  /\ budget' = [budget EXCEPT !.relays = @ - 1]
  /\ live' = [live EXCEPT !.connections[f] = i, !.opening = <<f, i>>, !.known = @ \cup {i},
                          !.active[i] = @ + 1, !.flows[i] = @ + 1]
  /\ UNCHANGED <<hour, db, mem, relays, dirty, lock, worker, stop, pass, reader, run, past>>

(* ... and then under the lock of its shard.                               *)
OpenEnds(f, i) ==
  /\ live.opening = <<f, i>>
  /\ live' = [live EXCEPT !.entries[f] = i, !.opening = <<>>]
  /\ relays' = [relays EXCEPT ![f] = @ + 1]
  /\ dirty' = TRUE
  /\ UNCHANGED <<hour, db, mem, lock, worker, stop, pass, reader, run, past, budget>>

Moved(from, to) == IF from = to THEN {} ELSE {from, to}

(* Mutant of RefreshRelay: a flow opened again is one more of its inbound. *)
RefreshRelayCounting(f, i) ==
  /\ Running /\ StateFree /\ budget.relays > 0 /\ i \in budget.inbounds
  /\ live.connections[f] # Absent
  /\ budget' = [budget EXCEPT !.relays = @ - 1]
  /\ relays' = [relays EXCEPT ![f] = @ + 1]
  /\ live' = [live EXCEPT !.connections[f] = i, !.active[i] = @ + 1,
                          !.entries[f] = IF @ = Absent THEN @ ELSE i]
  /\ dirty' = TRUE
  /\ past' = [past EXCEPT !.moved = @ \cup Moved(live.connections[f], i)]
  /\ UNCHANGED <<hour, db, mem, lock, worker, stop, pass, reader, run>>

(* The flow is listed: new metadata replaces the record, its inbound_id    *)
(* and that of the entry included, and no gauge moves with it.             *)
RefreshRelay(f, i) ==
  /\ Running /\ StateFree /\ budget.relays > 0 /\ i \in budget.inbounds
  /\ live.connections[f] # Absent
  /\ budget' = [budget EXCEPT !.relays = @ - 1]
  /\ relays' = [relays EXCEPT ![f] = @ + 1]
  /\ \/ /\ live' = [live EXCEPT !.connections[f] = i,
                                !.entries[f] = IF @ = Absent THEN @ ELSE i]
        /\ dirty' = TRUE
     \/ live.connections[f] = i /\ UNCHANGED <<live, dirty>>
  /\ past' = [past EXCEPT !.moved = @ \cup Moved(live.connections[f], i)]
  /\ UNCHANGED <<hour, db, mem, lock, worker, stop, pass, reader, run>>

(* The guard is dropped: close, which does nothing for an unlisted flow    *)
(* and otherwise lowers the gauge of the inbound now in the record.        *)
CloseRelay(f) ==
  LET i == live.connections[f] IN
  /\ run = "up" /\ StateFree /\ relays[f] > 0
  /\ relays' = [relays EXCEPT ![f] = @ - 1]
  /\ \/ i = Absent /\ UNCHANGED <<mem, live, dirty>>
     \/ /\ i # Absent
        /\ live' = [live EXCEPT !.connections[f] = Absent, !.entries[f] = Absent,
                                !.known = @ \cup {i}, !.active[i] = Greater(@ - 1, 0)]
        /\ mem' = [mem EXCEPT !.events = @ + 1]
        /\ dirty' = TRUE
  /\ UNCHANGED <<hour, db, lock, worker, stop, pass, reader, run, past, budget>>

-----------------------------------------------------------------------------
Gate(holder) == lock = "free" /\ lock' = holder

(* The persistence task: an interval tick with something to write.         *)
WorkerTick ==
  /\ run = "up" /\ worker = "wait" /\ stop = "no" /\ dirty /\ pass = Idle
  /\ dirty' = FALSE
  /\ worker' = "persist"
  /\ pass' = [pc |-> "lock"]
  /\ UNCHANGED <<hour, db, mem, live, relays, lock, stop, reader, run, past, budget>>

(* persist_statistics_blocking: the gate, then the state lock.             *)
BeginTake ==
  /\ pass.pc = "lock" /\ Gate("writer") /\ StateFree
  /\ pass' = [pc |-> "take", shard |-> 0, total |-> mem.total, traffic |-> NoBytes,
              telemetry |-> NoBytes, events |-> mem.events]
  /\ mem' = [mem EXCEPT !.events = 0]
  /\ UNCHANGED <<hour, db, live, relays, dirty, worker, stop, reader, run, past, budget>>

(* Mutant of TakeShard: the pending buckets are copied, not taken.         *)
CopyShard ==
  /\ pass.pc = "take"
  /\ LET s == pass.shard IN
     pass' = [pass EXCEPT !.pc = IF s = NumShards - 1 THEN "apply" ELSE "take",
                          !.shard = @ + 1,
                          !.total = @ + mem.shards[s].total,
                          !.traffic = Plus(@, mem.shards[s].traffic),
                          !.telemetry = Plus(@, mem.shards[s].telemetry)]
  /\ UNCHANGED <<hour, db, mem, live, relays, dirty, lock, worker, stop, reader, run, past, budget>>

(* take_statistics_delta: one shard under its lock; totals are absolute,   *)
(* the pending buckets are taken.                                          *)
TakeShard ==
  /\ pass.pc = "take"
  /\ LET s == pass.shard IN
     /\ pass' = [pass EXCEPT !.pc = IF s = NumShards - 1 THEN "apply" ELSE "take",
                             !.shard = @ + 1,
                             !.total = @ + mem.shards[s].total,
                             !.traffic = Plus(@, mem.shards[s].traffic),
                             !.telemetry = Plus(@, mem.shards[s].telemetry)]
     /\ mem' = [mem EXCEPT !.shards[s].traffic = NoBytes, !.shards[s].telemetry = NoBytes]
  /\ UNCHANGED <<hour, db, live, relays, dirty, lock, worker, stop, reader, run, past, budget>>

Old(h) == h < hour - Retention

(* Mutant of Compact: the daily rows are replaced by the new sums.         *)
CompactReplacing(hourly, daily) ==
  [hourly |-> [h \in Hours |-> IF Old(h) THEN 0 ELSE hourly[h]],
   daily |-> [d \in DOMAIN daily |->
     LET moved == {h \in Hours : Old(h) /\ h \div DayHours = d /\ hourly[h] > 0}
     IN IF moved = {} THEN daily[d] ELSE SumFunctionOnSet(hourly, moved)]]

(* Hourly telemetry past the retention moves into the row of its day.      *)
Compact(hourly, daily) ==
  [hourly |-> [h \in Hours |-> IF Old(h) THEN 0 ELSE hourly[h]],
   daily |-> [d \in DOMAIN daily |-> daily[d] +
     SumFunctionOnSet(hourly, {h \in Hours : Old(h) /\ h \div DayHours = d})]]

(* apply_delta_in_transaction                                              *)
ApplyDelta ==
  /\ pass.pc = "apply"
  /\ LET c == Compact(Plus(db.hourly, pass.telemetry), db.daily) IN
     db' = [db EXCEPT !.total = pass.total, !.traffic = Plus(@, pass.traffic),
                      !.hourly = c.hourly, !.daily = c.daily, !.events = @ + pass.events]
  /\ pass' = [pc |-> "inbound"]
  /\ past' = [past EXCEPT !.ahead = 0]
  /\ UNCHANGED <<hour, mem, live, relays, dirty, lock, worker, stop, reader, run, budget>>

(* Mutant of ApplyFails: the error is returned, the delta forgotten.       *)
ApplyLoses ==
  /\ pass.pc = "apply"
  /\ dirty' = TRUE /\ lock' = "free"
  /\ pass' = [pc |-> "failed"]
  /\ UNCHANGED <<hour, db, mem, live, relays, worker, stop, reader, run, past, budget>>

(* The transaction fails, the lock of the repository being held by another *)
(* process included: the delta goes back into the first shard.             *)
ApplyFails ==
  /\ pass.pc = "apply" /\ StateFree
  /\ mem' = [mem EXCEPT !.events = @ + pass.events,
                        !.shards[0].traffic = Plus(@, pass.traffic),
                        !.shards[0].telemetry = Plus(@, pass.telemetry)]
  /\ dirty' = TRUE /\ lock' = "free"
  /\ pass' = [pc |-> "failed"]
  /\ UNCHANGED <<hour, db, live, relays, worker, stop, reader, run, past, budget>>

(* inbound_statistics: the inbounds known, with the bytes in the shards.   *)
InboundFlows ==
  [i \in Inbounds |-> IF i \in live.known THEN live.flows[i] ELSE db.flows[i]]
InboundBytes ==
  [i \in Inbounds |-> IF i \in live.known
     THEN live.bytes[i] + SumFunction([s \in Shards |-> mem.shards[s].inbound[i]])
     ELSE db.bytes[i]]

(* replace_inbound_statistics, a transaction of its own; when it fails the *)
(* delta stays committed.                                                  *)
WriteInbound ==
  /\ pass.pc = "inbound" /\ StateFree
  /\ \/ /\ db' = [db EXCEPT !.known = @ \cup live.known, !.flows = InboundFlows,
                            !.bytes = InboundBytes]
        /\ pass' = [pc |-> "done"]
     \/ UNCHANGED db /\ pass' = [pc |-> "failed"]
  /\ lock' = "free"
  /\ UNCHANGED <<hour, mem, live, relays, dirty, worker, stop, reader, run, past, budget>>

(* Mutant of PersistReturns: the flag is cleared after the checkpoint.     *)
PersistReturnsClearing ==
  /\ worker = "persist" /\ pass.pc \in {"done", "failed"}
  /\ dirty' = (pass.pc = "failed")
  /\ pass' = Idle /\ worker' = "wait"
  /\ UNCHANGED <<hour, db, mem, live, relays, lock, stop, reader, run, past, budget>>

(* Back in the persistence task, which marks the state after an error.     *)
PersistReturns ==
  /\ worker = "persist" /\ pass.pc \in {"done", "failed"}
  /\ dirty' = (dirty \/ pass.pc = "failed")
  /\ pass' = Idle /\ worker' = "wait"
  /\ UNCHANGED <<hour, db, mem, live, relays, lock, stop, reader, run, past, budget>>

-----------------------------------------------------------------------------
(* shutdown, called once the owners of all relays are joined: the task is  *)
(* signalled and joined, what it was writing included.                     *)
Shutdown ==
  /\ run = "up" /\ stop = "no" /\ live.opening = <<>> /\ \A f \in Flows : relays[f] = 0
  /\ stop' = "joining"
  /\ UNCHANGED <<hour, db, mem, live, relays, dirty, lock, worker, pass, reader, run, past, budget>>

(* The task sees the signal at its select; shutdown writes what is left.   *)
WorkerStops ==
  /\ run = "up" /\ stop = "joining" /\ worker = "wait"
  /\ worker' = "gone"
  /\ stop' = "flushing"
  /\ pass' = [pc |-> "lock"]
  /\ UNCHANGED <<hour, db, mem, live, relays, dirty, lock, reader, run, past, budget>>

(* Mutant of ShutdownEnds: the result of the last checkpoint is ignored.   *)
ShutdownEndsRegardless ==
  /\ stop = "flushing" /\ pass.pc \in {"done", "failed"}
  /\ stop' = "flushed"
  /\ pass' = Idle
  /\ UNCHANGED <<hour, db, mem, live, relays, dirty, lock, worker, reader, run, past, budget>>

ShutdownEnds ==
  /\ stop = "flushing" /\ pass.pc \in {"done", "failed"}
  /\ stop' = IF pass.pc = "done" THEN "flushed" ELSE "failed"
  /\ pass' = Idle
  /\ UNCHANGED <<hour, db, mem, live, relays, dirty, lock, worker, reader, run, past, budget>>

-----------------------------------------------------------------------------
(* durable_snapshot_for: the gate and the rows, ...                        *)
ReadRows ==
  /\ run = "up" /\ reader = Idle /\ Gate("reader") /\ budget.reads > 0
  /\ budget' = [budget EXCEPT !.reads = @ - 1]
  /\ reader' = [pc |-> "state", traffic |-> db.traffic, telemetry |-> SumFunction(db.hourly) + SumFunction(db.daily)]
  /\ UNCHANGED <<hour, db, mem, live, relays, dirty, worker, stop, pass, run, past>>

(* ... the state lock, ...                                                 *)
ReadState ==
  /\ reader.pc = "state" /\ StateFree
  /\ reader' = [pc |-> "shards", shard |-> 0, total |-> mem.total,
                traffic |-> reader.traffic, telemetry |-> reader.telemetry]
  /\ UNCHANGED <<hour, db, mem, live, relays, dirty, lock, worker, stop, pass, run, past, budget>>

(* ... and each shard under its lock, added to the rows.                   *)
ReadShard ==
  /\ reader.pc = "shards" /\ reader.shard < NumShards
  /\ LET s == mem.shards[reader.shard] IN
     reader' = [reader EXCEPT !.shard = @ + 1, !.total = @ + s.total,
                              !.traffic = Plus(@, s.traffic),
                              !.telemetry = @ + SumFunction(s.telemetry)]
  /\ UNCHANGED <<hour, db, mem, live, relays, dirty, lock, worker, stop, pass, run, past, budget>>

SnapshotComplete == reader.pc = "shards" /\ reader.shard = NumShards

ReadEnds ==
  /\ SnapshotComplete
  /\ reader' = Idle /\ lock' = "free"
  /\ UNCHANGED <<hour, db, mem, live, relays, dirty, worker, stop, pass, run, past, budget>>

-----------------------------------------------------------------------------
(* The process dies; the tables and the blob stay.                         *)
Crash ==
  /\ run # "down" /\ budget.crashes > 0
  /\ run' = "down"
  /\ budget' = [budget EXCEPT !.crashes = @ - 1]
  /\ mem' = EmptyMemory /\ live' = EmptyLive /\ relays' = [f \in Flows |-> 0]
  /\ dirty' = FALSE /\ lock' = "free" /\ worker' = "gone" /\ stop' = "no"
  /\ pass' = Idle /\ reader' = Idle
  /\ past' = [past EXCEPT !.attributed = Telemetry(db), !.moved = {}]
  /\ UNCHANGED <<hour, db>>

(* load_with_store: the totals and the counters of the inbounds come from  *)
(* the tables, or the totals from the blob of an earlier version.          *)
Restore(total) ==
  /\ run' = "up"
  /\ mem' = [EmptyMemory EXCEPT !.total = total]
  /\ live' = [EmptyLive EXCEPT !.known = db.known, !.flows = db.flows, !.bytes = db.bytes]
  /\ past' = [past EXCEPT !.unlisted = total - SumFunction(db.traffic),
                          !.ahead = db.total - total]
  /\ worker' = "wait" /\ stop' = "no" /\ dirty' = FALSE
  /\ UNCHANGED <<hour, relays, lock, pass, reader, budget>>

Load ==
  /\ run = "down" /\ ~db.blob.present
  /\ Restore(db.total)
  /\ UNCHANGED db

(* persisted_snapshot: telemetry without buckets is put into this hour.    *)
Dated(blob) == blob.telemetry # NoBytes
BlobTelemetry ==
  IF Dated(db.blob) THEN db.blob.telemetry ELSE [NoBytes EXCEPT ![hour] = db.blob.undated]

(* What an import in this hour adds to the telemetry, when it has no date. *)
Redated ==
  IF Dated(db.blob) THEN 0 ELSE Greater(db.hourly[hour], db.blob.undated) - db.hourly[hour]

(* Mutant of ImportBlob: the counts of the blob are added to the rows.     *)
ImportBlobAdding ==
  /\ run = "down" /\ db.blob.present
  /\ run' = "load"
  /\ db' = [db EXCEPT !.total = Greater(@, db.blob.total),
                      !.traffic = Plus(@, db.blob.traffic),
                      !.hourly = Plus(@, BlobTelemetry)]
  /\ past' = [past EXCEPT !.attributed = @ + Redated]
  /\ UNCHANGED <<hour, mem, live, relays, dirty, lock, worker, stop, pass, reader, budget>>

(* merge_statistics_snapshots and replace_go_statistics: the greater of    *)
(* each pair of counts, so that an import cut short can be repeated.       *)
ImportBlob ==
  /\ run = "down" /\ db.blob.present
  /\ run' = "load"
  /\ db' = [db EXCEPT !.total = Greater(@, db.blob.total),
                      !.traffic = Merge(@, db.blob.traffic),
                      !.hourly = Merge(@, BlobTelemetry)]
  /\ past' = [past EXCEPT !.attributed = @ + Redated]
  /\ UNCHANGED <<hour, mem, live, relays, dirty, lock, worker, stop, pass, reader, budget>>

(* restore_persisted_runtime takes the totals of the blob, not the greater *)
(* ones, and the blob is deleted.                                          *)
FinishImport ==
  /\ run = "load"
  /\ Restore(db.blob.total)
  /\ db' = [db EXCEPT !.blob = NoBlob]

HourPasses ==
  /\ hour < LastHour /\ hour' = hour + 1 /\ budget.hours > 0
  /\ budget' = [budget EXCEPT !.hours = @ - 1]
  /\ UNCHANGED <<db, mem, live, relays, dirty, lock, worker, stop, pass, reader, run, past>>

-----------------------------------------------------------------------------
AccountingInit ==
  /\ hour = 0
  /\ \E x \in Starts : db = x.tables /\ budget = x.budget
  /\ run = "down"
  /\ mem = EmptyMemory /\ live = EmptyLive
  /\ relays = [f \in Flows |-> 0]
  /\ dirty = FALSE /\ lock = "free" /\ worker = "gone" /\ stop = "no"
  /\ pass = Idle /\ reader = Idle
  /\ past = [unlisted |-> 0, ahead |-> 0, attributed |-> Telemetry(db), moved |-> {}]

Traffic ==
  \E f \in Flows :
    \/ AddBytes(f) \/ CloseRelay(f)
    \/ \E i \in Inbounds : OpenRelay(f, i) \/ OpenEnds(f, i) \/ RefreshRelay(f, i)
Checkpoint ==
  \/ WorkerTick \/ BeginTake \/ TakeShard \/ ApplyDelta \/ ApplyFails
  \/ WriteInbound \/ PersistReturns
Stop == Shutdown \/ WorkerStops \/ ShutdownEnds
Read == ReadRows \/ ReadState \/ ReadShard \/ ReadEnds
Start == Load \/ ImportBlob \/ FinishImport

AccountingNext == Traffic \/ Checkpoint \/ Stop \/ Read \/ Start \/ Crash \/ HourPasses

(* Blocking threads and the runtime make progress, the gate is handed on,  *)
(* and a checkpoint that is repeated is not refused for ever.              *)
AccountingFairness ==
  /\ WF_accountingVars(Checkpoint)
  /\ SF_accountingVars(BeginTake) /\ SF_accountingVars(ApplyDelta)
  /\ WF_accountingVars(ReadState \/ ReadShard \/ ReadEnds)
  /\ WF_accountingVars(WorkerStops \/ ShutdownEnds)

AccountingSpec ==
  AccountingInit /\ [][AccountingNext]_accountingVars /\ AccountingFairness

-----------------------------------------------------------------------------
Pending(field) == SumFunction([s \in Shards |-> SumFunction(mem.shards[s][field])])
InDelta(field) == IF pass.pc \in {"take", "apply"} THEN SumFunction(pass[field]) ELSE 0

(* "Readers must see either the pending delta or its committed rows": the  *)
(* total a reader returns is the sum of the buckets it returns, whatever   *)
(* the relays and a checkpoint do while it reads.                          *)
ReaderAddsUp ==
  SnapshotComplete => reader.total = past.unlisted + SumFunction(reader.traffic)

(* "totals are absolute values from the live monitor", the buckets are     *)
(* additive: the two ways of counting agree in the tables, and in memory,  *)
(* through failed checkpoints, crashes, restarts and repeated imports.     *)
(* Tables with a greater total than the imported blob are ahead of the     *)
(* live total, until the first checkpoint lowers them to it: no other step *)
(* lowers the total of the tables.                                         *)
TotalsAddUp ==
  run = "up" =>
    /\ db.total = past.ahead + past.unlisted + SumFunction(db.traffic)
    /\ LiveTotal = past.unlisted + SumFunction(db.traffic) + Pending("traffic") + InDelta("traffic")

(* Moving hours into days and importing buckets, again after a crash too,  *)
(* neither loses nor repeats telemetry: what the listed flows counted is   *)
(* in the tables, in the delta or pending.  A sum without a date is added  *)
(* to the hour of each import of it, as the code does: it counts twice     *)
(* when the import is repeated in a later hour.                            *)
TelemetryConserved ==
  Telemetry(db) + Pending("telemetry") + InDelta("telemetry") = past.attributed

(* However the bytes are summed, by a reader, in the totals or over hours  *)
(* and days, each is counted once.                                         *)
BytesCountedOnce == ReaderAddsUp /\ TotalsAddUp /\ TelemetryConserved

(* Nothing pending is forgotten: as long as counts wait in memory, the     *)
(* flag is set or a checkpoint that will take or restore them is under     *)
(* way.                                                                    *)
PendingIsScheduled ==
  run = "up" /\ stop = "no" /\ (Pending("traffic") > 0 \/ mem.events > 0)
    => dirty \/ pass # Idle

(* "This closes the low-traffic window where the old periodic-only writer  *)
(* could lose the final flow": a shutdown that reports no error has left   *)
(* nothing in memory.                                                      *)
ShutdownFlushes ==
  stop = "flushed" => Pending("traffic") = 0 /\ mem.events = 0 /\ db.total = LiveTotal

(* The gauge of an inbound is the number of its listed flows, also when    *)
(* several relays share a flow key, as long as no listed flow was opened   *)
(* again by another inbound: such a flow stays in the gauge of the one it  *)
(* left, and its close lowers the gauge of the one it came to.             *)
ActiveMatchesListed ==
  \A i \in Inbounds \ past.moved :
    live.active[i] = Cardinality({f \in Flows : live.connections[f] = i})

(* Nothing in memory is forgotten: counts wait for a checkpoint, the last  *)
(* one leaves none, and the gauges follow the listed flows.                *)
NothingForgotten == PendingIsScheduled /\ ShutdownFlushes /\ ActiveMatchesListed

(* "publish exactly one effective close event": as long as a relay holds   *)
(* its guard the flow is listed, so the guard still has a flow to close.   *)
GuardedFlowsListed == \A f \in Flows : relays[f] > 0 => live.connections[f] # Absent

(* What is counted reaches the tables, through failed transactions and     *)
(* counts that come during a checkpoint, unless the process dies or its    *)
(* last checkpoint is refused: the rows come to hold all that the live     *)
(* totals count.  (The bytes of a behaviour are bounded: they catch up.)   *)
CountsReachTables ==
  run = "up"
    ~> LiveTotal = past.unlisted + SumFunction(db.traffic) \/ run # "up" \/ stop = "failed"

(* What the process and the tables know of, those of a blob to be imported *)
(* included.                                                               *)
Known ==
  [h \in Hours |->
     (IF db.blob.present THEN Greater(db.traffic[h], db.blob.traffic[h]) ELSE db.traffic[h])
     + (IF pass.pc \in {"take", "apply"} THEN pass.traffic[h] ELSE 0)
     + SumFunction([s \in Shards |-> mem.shards[s].traffic[h]])]

Implements == INSTANCE Ledger WITH counted <- Known, durable <- db.traffic

(* Refinement: what the monitor and the tables hold together, hour by      *)
(* hour, is a ledger: each byte is counted once, checkpoints only make     *)
(* durable what was counted, and only a crash forgets.                     *)
ImplementsLedger == Implements!LedgerSpec
=============================================================================
