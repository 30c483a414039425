----------------------------- MODULE FakeIpView -----------------------------
(***************************************************************************)
(* The resolver layer over the pool (doradus-store resolver.rs) and the    *)
(* reverse view the packet plane reads (doradus-dns fakeip.rs).  A resolve *)
(* allocates under the pool's mutex, copies the reverse index under a      *)
(* second acquisition of it, and stores the copy in the shared view with   *)
(* no lock across the three steps, so resolves interleave between them.    *)
(* restore_fakeip_destination looks only at the view: an address missing   *)
(* there is blocked as "fakeip_unmapped".                                  *)
(***************************************************************************)
EXTENDS FakeIpPool

CONSTANT Tasks   (* concurrent DNS queries                                 *)

VARIABLES
  view,   (* FakeIpViewStore: the published copy of the reverse index      *)
  pc,     (* where each query is                                           *)
  copy,   (* the copy a query read and has not published                   *)
  behind, (* history: queries with a copy older than the published view    *)
  stale   (* history: the last publication was such a copy                 *)

viewVars == <<view, pc, copy, behind, stale>>
allVars == <<vars, viewVars>>

ViewInit ==
  /\ Init
  /\ view = EmptyMap
  /\ pc = [t \in Tasks |-> "idle"]
  /\ copy = [t \in Tasks |-> EmptyMap]
  /\ behind = {} /\ stale = FALSE

(* Mutant of QueryAddress: the answer is sent without a new view.          *)
QueryWithoutSnapshot(t, d) ==
  /\ pc[t] = "idle"
  /\ AllocateHit(d) \/ AllocateMiss(d)
  /\ UNCHANGED viewVars

(* resolve, or query of an A record: the address is allocated.             *)
QueryAddress(t, d) ==
  /\ pc[t] = "idle"
  /\ AllocateHit(d) \/ AllocateMiss(d)
  /\ pc' = [pc EXCEPT ![t] = "snapshot"]
  /\ UNCHANGED <<view, copy, behind, stale>>

(* The allocation fails: the query returns the error and no snapshot.      *)
QueryFails(t, d) ==
  /\ pc[t] = "idle"
  /\ AllocateFirstTransactionFails(d) \/ AllocateFails(d) \/ AllocateSweepFails(d)
  /\ UNCHANGED viewVars

(* lookup_ptr_domain refreshes the view before it answers.                 *)
QueryPtr(t) ==
  /\ up /\ pc[t] = "idle"
  /\ pc' = [pc EXCEPT ![t] = "snapshot"]
  /\ UNCHANGED <<vars, view, copy, behind, stale>>

(* FakeIpPools::snapshot, first half: the pool's mutex is held for a copy. *)
ReadSnapshot(t) ==
  /\ up /\ pc[t] = "snapshot"
  /\ pc' = [pc EXCEPT ![t] = "publish"]
  /\ copy' = [copy EXCEPT ![t] = reverse]
  /\ UNCHANGED <<vars, view, behind, stale>>

(* FakeIpPools::snapshot, second half: FakeIpViewStore::replace.           *)
PublishView(t) ==
  /\ up /\ pc[t] = "publish"
  /\ pc' = [pc EXCEPT ![t] = "idle"]
  /\ view' = copy[t]
  /\ copy' = [copy EXCEPT ![t] = EmptyMap]
  /\ behind' = {u \in Tasks \ {t} : pc[u] = "publish"}
  /\ stale' = (t \in behind)
  /\ UNCHANGED vars

(* The selector is built after the pools are open and publishes their      *)
(* first view before it serves a flow (selector_metadata.rs).              *)
OpenWithSelector ==
  /\ Open
  /\ view' = reverse'
  /\ UNCHANGED <<pc, copy, behind, stale>>

CrashWithQueries ==
  /\ Crash
  /\ view' = EmptyMap
  /\ pc' = [t \in Tasks |-> "idle"]
  /\ copy' = [t \in Tasks |-> EmptyMap]
  /\ behind' = {} /\ stale' = FALSE

ViewNext ==
  \/ \E t \in Tasks, d \in Domains : QueryAddress(t, d) \/ QueryFails(t, d)
  \/ \E t \in Tasks : QueryPtr(t) \/ ReadSnapshot(t) \/ PublishView(t)
  \/ OpenWithSelector
  \/ CrashWithQueries
  \/ Tick /\ UNCHANGED viewVars

ViewSpec == ViewInit /\ [][ViewNext]_allVars

-----------------------------------------------------------------------------
(* "Synchronous holder for the latest immutable reverse-lookup snapshot":  *)
(* once every query has returned, the view maps each address a client was  *)
(* given and the pool still holds to the domain the pool holds it for.     *)
(* The exception is a query that was overtaken between its copy and its    *)
(* publication and published last; the next publication repairs the view.  *)
ViewServesAnswers ==
  up /\ ~stale /\ (\A t \in Tasks : pc[t] = "idle") =>
    \A a \in DOMAIN answered \cap DOMAIN reverse :
      answered[a].domain = reverse[a] => a \in DOMAIN view /\ view[a] = reverse[a]
=============================================================================
