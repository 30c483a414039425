---------------------------- MODULE FakeIpImport ----------------------------
(***************************************************************************)
(* import_legacy of fakeip_pool_v4.rs: an export of the Go store is loaded *)
(* into an open pool.  Each entry is validated under its own acquisitions  *)
(* of the pool's mutex, the rows are then written in one transaction with  *)
(* a marker, and memory is updated under a last acquisition; other         *)
(* operations of the pool may run between any two of these steps.          *)
(***************************************************************************)
EXTENDS FakeIpPool

CONSTANTS
  Export,      (* the exported mappings, domain -> address                 *)
  ExportNext   (* the exported cursor                                      *)

(* The loop of import_legacy refuses any other export before it writes.    *)
ExportIsValid ==
  /\ DOMAIN Export \subseteq Domains /\ Export \in [DOMAIN Export -> Addresses]
  /\ \A d, e \in DOMAIN Export : Export[d] = Export[e] => d = e
  /\ ExportNext \in Addresses

VARIABLES
  stage,      (* where import_legacy is                                    *)
  unchecked,  (* checks still to make: <<domain, index looked up>>         *)
  marked,     (* the marker key is in the database                         *)
  overlapped  (* history: since the last start another operation ran       *)
              (* during an import                                          *)

importVars == <<stage, unchecked, marked, overlapped>>
poolImportVars == <<vars, importVars>>

ImportInit ==
  /\ Init
  /\ stage = "idle"
  /\ unchecked = {}
  /\ marked = FALSE
  /\ overlapped = FALSE

BeginImport ==
  /\ up /\ stage = "idle"
  /\ stage' = "validate"
  /\ unchecked' = (DOMAIN Export) \X {"reverse", "forward"}
  /\ UNCHANGED <<vars, marked, overlapped>>

(* Mutants of Conflict: only one of the two indexes is looked up.          *)
ReverseConflict(d, index) ==
  index = "reverse" /\ Export[d] \in DOMAIN reverse /\ reverse[Export[d]] # d
ForwardConflict(d, index) ==
  index = "forward" /\ d \in DOMAIN forward /\ forward[d].address # Export[d]

(* One look at one index; the forward index is looked up second.           *)
Conflict(d, index) ==
  \/ /\ index = "reverse"
     /\ Export[d] \in DOMAIN reverse
     /\ reverse[Export[d]] # d
  \/ /\ index = "forward"
     /\ d \in DOMAIN forward
     /\ forward[d].address # Export[d]

ValidateEntry(d, index) ==
  /\ up /\ stage = "validate"
  /\ <<d, index>> \in unchecked
  /\ index = "forward" => <<d, "reverse">> \notin unchecked
  /\ IF Conflict(d, index)
     THEN stage' = "idle" /\ unchecked' = {}
     ELSE stage' = stage /\ unchecked' = unchecked \ {<<d, index>>}
  /\ UNCHANGED <<vars, marked, overlapped>>

(* import_fakeip_state_if_unmarked: INSERT OR REPLACE of every entry (which *)
(* also deletes another row of the same address), the cursor and the       *)
(* marker in one transaction; a marked database is left alone.             *)
CommitImport ==
  /\ up /\ stage = "validate" /\ unchecked = {}
  /\ IF marked
     THEN /\ stage' = "idle"
          /\ UNCHANGED <<rows, cursor, marked>>
     ELSE /\ stage' = "apply"
          /\ marked' = TRUE
          /\ cursor' = ExportNext
          /\ rows' = LET kept == {d \in DOMAIN rows : \A e \in DOMAIN Export :
                                    rows[d].address # Export[e]}
                     IN [d \in kept \cup DOMAIN Export |->
                           IF d \in DOMAIN Export
                           THEN [address |-> Export[d], last_used_at |-> now]
                           ELSE rows[d]]
  /\ UNCHANGED <<now, memory, foreign, legacy, legacyNext, answered, unchecked,
                 overlapped>>

(* The transaction fails: nothing was written and the caller may retry.    *)
CommitFails ==
  /\ up /\ stage = "validate" /\ unchecked = {}
  /\ stage' = "idle"
  /\ UNCHANGED <<vars, unchecked, marked, overlapped>>

(* One reading of the clock stands for the several the code takes.         *)
ApplyImport ==
  /\ up /\ stage = "apply"
  /\ stage' = "idle"
  /\ next' = ExportNext
  /\ reverse' = [a \in DOMAIN reverse \cup {Export[d] : d \in DOMAIN Export} |->
                   IF \E d \in DOMAIN Export : Export[d] = a
                   THEN CHOOSE d \in DOMAIN Export : Export[d] = a
                   ELSE reverse[a]]
  /\ forward' = [d \in DOMAIN forward \cup DOMAIN Export |->
                   IF d \in DOMAIN Export
                   THEN [address |-> Export[d], last_used_at |-> now,
                         persisted_last_used_at |-> now]
                   ELSE forward[d]]
  /\ UNCHANGED <<now, up, reserved, durable, answered, unchecked, marked,
                 overlapped>>

CrashDuringImport ==
  /\ Crash
  /\ stage' = "idle"
  /\ unchecked' = {}
  /\ overlapped' = FALSE
  /\ UNCHANGED marked

Import ==
  \/ BeginImport
  \/ \E d \in Domains, index \in {"reverse", "forward"} : ValidateEntry(d, index)
  \/ CommitImport
  \/ CommitFails
  \/ ApplyImport

PoolOperation ==
  /\ \/ \E d \in Domains : Allocate(d) \/ Release(d)
     \/ FlushTouches
  /\ overlapped' = (overlapped \/ stage # "idle")
  /\ UNCHANGED <<stage, unchecked, marked>>

(* The clock stands still while the import runs, see ApplyImport.          *)
Environment ==
  \/ Open /\ UNCHANGED importVars
  \/ CrashDuringImport
  \/ Tick /\ stage = "idle" /\ UNCHANGED importVars

ImportNext == Import \/ PoolOperation \/ Environment

ImportSpec == ImportInit /\ [][ImportNext]_poolImportVars

-----------------------------------------------------------------------------
(* "this method validates and imports that export atomically": outside the *)
(* import the indexes of the pool are inverse to each other, unless an     *)
(* operation ran between its validation and its update of memory; then     *)
(* they are again once the pool is reopened, whatever those operations and *)
(* the later ones wrote.                                                   *)
ImportIsAtomic == stage = "idle" /\ ~overlapped => IndexesAgree

(* "A marker makes retries safe after interruption": once the import is    *)
(* over or was cut by a crash, what memory serves is what the rows hold,   *)
(* and a retry neither repeats nor half repeats it.                        *)
ImportLeavesMemoryDurable == stage # "apply" /\ ~overlapped => MemoryIsDurable

(* An import is all or nothing and its retry safe, through crashes between *)
(* its three acquisitions of the mutex (import_legacy).                    *)
ImportRecovers == ImportIsAtomic /\ ImportLeavesMemoryDurable
=============================================================================
