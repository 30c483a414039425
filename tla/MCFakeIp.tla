------------------------------ MODULE MCFakeIp ------------------------------
(***************************************************************************)
(* The IPv4 pool from two kinds of database: a fresh one, and one an       *)
(* earlier run left behind, with the small contents of the typed rows, the *)
(* legacy keys and an overlapping prefix, more rows than the capacity      *)
(* included.  Either the pool's own operations run, or queries through the *)
(* resolver on a fresh database, with a TTL of time left, or an import of a  *)
(* legacy export into a second pool, on a fresh database of its own.       *)
(***************************************************************************)
EXTENDS FakeIpView, TLC

CONSTANTS e1, e2, e3   (* the domains of the second pool                   *)

VARIABLES focus, impNow, impUp, impNext, impForward, impReverse, impReserved,
          impRows, impCursor, impForeign, impLegacy, impLegacyNext, impAnswered,
          stage, unchecked, marked, overlapped

Imported == INSTANCE FakeIpImport
  WITH Domains <- {e1, e2, e3}, Size <- 3, MaxEntries <- 3, TtlSeconds <- 2,
       TouchInterval <- 1, MaxTime <- 2,
       Export <- [d \in {e1, e2} |-> IF d = e1 THEN 0 ELSE 2], ExportNext <- 2,
       now <- impNow, up <- impUp, next <- impNext, forward <- impForward,
       reverse <- impReverse, reserved <- impReserved, rows <- impRows,
       cursor <- impCursor, foreign <- impForeign, legacy <- impLegacy,
       legacyNext <- impLegacyNext, answered <- impAnswered

ASSUME ValidExport == Imported!ExportIsValid

poolVars == allVars
importVars == <<impNow, impUp, impNext, impForward, impReverse, impReserved, impRows,
                impCursor, impForeign, impLegacy, impLegacyNext, impAnswered, stage,
                unchecked, marked, overlapped>>

Fresh ==
  /\ now = IF focus = "pool" THEN 0 ELSE 2
  /\ rows = EmptyMap /\ legacy = EmptyMap
  /\ cursor = NoCursor /\ legacyNext = NoCursor
  /\ foreign \in {EmptyMap, [a \in {0} |-> 0]}
  /\ focus # "pool" => foreign = EmptyMap

LeftBehind ==
  /\ focus = "pool"
  /\ now = 2
  /\ cursor \in {1, Outside, NoCursor}
  /\ foreign \in {EmptyMap, [a \in {1} |-> 0], [a \in {1} |-> 2]}
  /\ \/ /\ legacy = EmptyMap /\ legacyNext = NoCursor
        /\ rows \in PartialMaps(Domains, [address: Addresses, last_used_at: {0, 2}])
     \/ rows = EmptyMap /\ cursor = NoCursor /\ legacyNext \in {NoCursor, 1}

FreshImport ==
  /\ impNow = 0
  /\ impRows = EmptyMap /\ impLegacy = EmptyMap
  /\ impCursor = Imported!NoCursor /\ impLegacyNext = Imported!NoCursor
  /\ impForeign = EmptyMap
  /\ Imported!ImportInit

FakeIpInit ==
  /\ focus \in {"pool", "queries", "import"}
  /\ (Fresh \/ LeftBehind) /\ ViewInit
  /\ FreshImport

FakeIpNext ==
  /\ UNCHANGED focus
  /\ \/ focus = "pool" /\ Next /\ UNCHANGED <<viewVars, importVars>>
     \/ focus = "queries" /\ ViewNext /\ UNCHANGED importVars
     \/ focus = "import" /\ Imported!ImportNext /\ UNCHANGED poolVars

FakeIpSpec == FakeIpInit /\ [][FakeIpNext]_<<poolVars, importVars, focus>>

(* The reverse view, while queries publish it.                             *)
ViewServesQueries == focus = "queries" => ViewServesAnswers

(* An import is all or nothing and its retry safe, through crashes between *)
(* its three acquisitions of the mutex (import_legacy).                    *)
ImportRecovers == Imported!ImportRecovers

Symmetric == Permutations(Domains) \cup Permutations(Tasks)
=============================================================================
