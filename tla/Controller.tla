----------------------------- MODULE Controller -----------------------------
(***************************************************************************)
(* RuntimeController of doradus-runtime: how a change of the persisted     *)
(* configuration becomes the running one.  A management request takes the  *)
(* reload lock, commits to the store, builds a snapshot of it, prepares    *)
(* every live proxy selector for the snapshot, publishes the snapshot if   *)
(* nobody published meanwhile, and only then swaps the selectors and the   *)
(* DNS handlers.  Requests fail or are dropped by their HTTP connection at *)
(* the awaits in between; the inbound supervisor builds and drops          *)
(* selectors, and reads the selected node, at any time.                    *)
(*                                                                         *)
(* A configuration is its enabled nodes, the selected node and a version   *)
(* that every commit increases; a selector is the node it was built for    *)
(* and the version it was built from.                                      *)
(***************************************************************************)
EXTENDS Naturals, FiniteSets, Maps

CONSTANTS
  Nodes,        (* ids of proxy nodes                                      *)
  Selectors,    (* identities of RuntimeProxySelector instances            *)
  Requests,     (* concurrent management requests                          *)
  Operations,   (* kinds of mutation the requests make, see Kinds          *)
  Faults,       (* steps that may fail, see FaultKinds                     *)
  Cancels,      (* whether a client may drop its request                   *)
  MaxCommits,   (* bound on the mutations                                  *)
  MaxRevision   (* bound on the published snapshots                        *)

(* put a node; select one; delete one (the API deletes in two steps); drop *)
(* nodes without touching the selectors (a subscription deleted with its   *)
(* nodes, a node saved disabled); any other change.                        *)
Kinds == {"put", "select", "delete", "drop", "other"}

FaultKinds == {"commit", "build", "handler", "prepare"}

Direct == "direct"   (* the built-in node                                   *)
NoOne  == "none"     (* nobody holds the lock, nothing is wanted            *)

ASSUME ControllerOptions ==
  /\ Direct \notin Nodes /\ NoOne \notin Requests
  /\ Operations \subseteq Kinds
  /\ Faults \subseteq FaultKinds
  /\ Cancels \in BOOLEAN
  /\ MaxCommits \in Nat
  /\ MaxRevision \in Nat

VARIABLES
  store,        (* the persisted configuration                             *)
  snapshot,     (* RuntimeHandle: the published configuration              *)
  revision,     (* RuntimeHandle: its revision                             *)
  dns,          (* version behind the DNS handlers                         *)
  reload_error, (* last_reload_error() is Some                             *)
  selectors,    (* live registered selectors                               *)
  lock,         (* holder of reload_lock                                   *)
  pc,           (* where each request is                                   *)
  work,         (* locals of each request                                  *)
  orphans,      (* blocking mutations whose request was dropped            *)
  wanted,       (* node the supervisor read and has not built a selector for *)
  silent        (* history: a request ended, after its commit, unreported  *)

vars == <<store, snapshot, revision, dns, reload_error, selectors,
          lock, pc, work, orphans, wanted, silent>>
runtime == <<snapshot, revision, dns>>

Targets == Nodes \cup {Direct}
Config == [nodes: SUBSET Nodes, selected: Targets, version: Nat]
Selector == [node: Targets, version: Nat, closed: BOOLEAN]
Mutations == Operations \X Nodes

NoMutation == <<"other", Direct>>
Work == [op: (Kinds \X Nodes) \cup {NoMutation}, next: Config, expected: Nat,
         todo: SUBSET Selectors, prepared: SUBSET Selectors]
Idle == [op |-> NoMutation, next |-> [nodes |-> {}, selected |-> Direct, version |-> 0],
         expected |-> 0, todo |-> {}, prepared |-> {}]

-----------------------------------------------------------------------------
(* What the operation given to mutate_and_reload* writes.                  *)
Committed(st, o) ==
  [version  |-> st.version + 1,
   nodes    |-> IF o[1] = "put" THEN st.nodes \cup {o[2]}
                ELSE IF o[1] \in {"delete", "drop"} THEN st.nodes \ {o[2]}
                ELSE st.nodes,
   selected |-> IF o[1] = "select" THEN o[2]
                ELSE IF o[1] = "delete" /\ st.selected = o[2] THEN Direct
                ELSE st.selected]

(* Its writes are separate statements: a failure may leave the first ones. *)
HalfCommitted(st, o) ==
  [st EXCEPT !.version = @ + 1, !.selected = Committed(st, o).selected]

(* Mutant of EffectiveSelection: no built-in node to fall back to.         *)
SelectionOrNothing(st) ==
  IF st.selected \in st.nodes THEN {st.selected}
  ELSE IF st.nodes # {} THEN st.nodes ELSE {""}

(* selected_proxy_ids: the selected node if enabled, else some enabled one. *)
EffectiveSelection(st) ==
  IF st.selected \in st.nodes THEN {st.selected}
  ELSE IF st.nodes # {} THEN st.nodes ELSE {Direct}

(* SelectorBuild finds the node in the snapshot, or the slot is built in.  *)
Buildable(node, conf) == node \in conf.nodes \cup {Direct}

Release(r) ==
  /\ lock' = NoOne
  /\ pc' = [pc EXCEPT ![r] = "idle"]
  /\ work' = [work EXCEPT ![r] = Idle]

Goto(r, label) == pc' = [pc EXCEPT ![r] = label]

(* set_reload_error and the early return of the error.                     *)
Fail(r) ==
  /\ reload_error' = TRUE
  /\ Release(r)

-----------------------------------------------------------------------------
(* delete_node_value, first half: the live selectors leave the node, under *)
(* an acquisition of the lock of its own.                                  *)
RetargetNode(r, n) ==
  /\ pc[r] = "idle" /\ lock = NoOne
  /\ "delete" \in Operations /\ n \in store.nodes
  /\ selectors' = [s \in DOMAIN selectors |->
                     IF selectors[s].node = n
                     THEN [selectors[s] EXCEPT !.node = Direct, !.closed = TRUE]
                     ELSE selectors[s]]
  /\ Goto(r, "retargeted")
  /\ work' = [work EXCEPT ![r].op = <<"delete", n>>]
  /\ UNCHANGED <<store, runtime, reload_error, lock, orphans, wanted, silent>>

(* A request enters mutate_and_reload_with_plan; select_node_value has     *)
(* looked the node up, delete_node_value has retargeted it.                *)
BeginMutation(r, o) ==
  /\ lock = NoOne
  /\ store.version + Cardinality(orphans) < MaxCommits /\ revision < MaxRevision
  /\ IF o[1] = "delete" THEN pc[r] = "retargeted" /\ work[r].op = o
                        ELSE pc[r] = "idle"
  /\ o[1] = "select" => o[2] \in store.nodes
  /\ lock' = r
  /\ Goto(r, "commit")
  /\ work' = [work EXCEPT ![r].op = o]
  /\ UNCHANGED <<store, runtime, reload_error, selectors, orphans, wanted, silent>>

(* reload *)
BeginReload(r) ==
  /\ pc[r] = "idle" /\ lock = NoOne /\ revision < MaxRevision
  /\ lock' = r
  /\ Goto(r, "build")
  /\ UNCHANGED <<store, runtime, reload_error, selectors, work, orphans, wanted, silent>>

Commit(r) ==
  /\ pc[r] = "commit"
  /\ work[r].op[1] = "delete" => work[r].op[2] \in store.nodes
  /\ store' = Committed(store, work[r].op)
  /\ Goto(r, "build")
  /\ UNCHANGED <<runtime, reload_error, selectors, lock, work, orphans, wanted, silent>>

(* The mutation returns an error: storage, or the node is gone already.    *)
CommitFails(r) ==
  /\ pc[r] = "commit"
  /\ \/ "commit" \in Faults
     \/ work[r].op[1] = "delete" /\ work[r].op[2] \notin store.nodes
  /\ store' \in {store, HalfCommitted(store, work[r].op)}
  /\ Fail(r)
  /\ UNCHANGED <<runtime, selectors, orphans, wanted, silent>>

(* rebuild_locked: the revision is read, the snapshot is built from the    *)
(* store and its DNS handler made, and the live selectors are collected.   *)
Build(r) ==
  /\ pc[r] = "build"
  /\ Goto(r, "prepare")
  /\ work' = [work EXCEPT ![r].expected = revision, ![r].next = store,
                          ![r].todo = DOMAIN selectors]
  /\ UNCHANGED <<store, runtime, reload_error, selectors, lock, orphans, wanted, silent>>

(* Mutant of BuildFails: the error is returned and not recorded.           *)
BuildFailsSilently(r) ==
  /\ pc[r] = "build" /\ "build" \in Faults
  /\ Release(r)
  /\ UNCHANGED <<store, runtime, reload_error, selectors, orphans, wanted, silent>>

BuildFails(r) ==
  /\ pc[r] = "build" /\ "build" \in Faults
  /\ Fail(r)
  /\ UNCHANGED <<store, runtime, selectors, orphans, wanted, silent>>

(* inbound_dns_handler(&next)?: the error is returned and not recorded.    *)
DnsHandlerFails(r) ==
  /\ pc[r] = "build" /\ "handler" \in Faults
  /\ Release(r)
  /\ silent' = (silent \/ work[r].op # NoMutation)
  /\ UNCHANGED <<store, runtime, reload_error, selectors, orphans, wanted>>

(* Mutant of Prepare: a selector whose node is gone is prepared anyway.    *)
PrepareAnything(r, s) ==
  /\ pc[r] = "prepare" /\ s \in work[r].todo
  /\ work' = [work EXCEPT ![r].todo = @ \ {s}, ![r].prepared = @ \cup {s}]
  /\ UNCHANGED <<store, runtime, reload_error, selectors, lock, pc, orphans, wanted, silent>>

(* selector.prepare for one selector; an Arc keeps a selector the          *)
(* listeners drop meanwhile.                                               *)
Prepare(r, s) ==
  /\ pc[r] = "prepare" /\ s \in work[r].todo
  /\ s \in DOMAIN selectors => Buildable(selectors[s].node, work[r].next)
  /\ work' = [work EXCEPT ![r].todo = @ \ {s}, ![r].prepared = @ \cup {s}]
  /\ UNCHANGED <<store, runtime, reload_error, selectors, lock, pc, orphans, wanted, silent>>

PrepareFails(r, s) ==
  /\ pc[r] = "prepare" /\ s \in work[r].todo
  /\ \/ "prepare" \in Faults
     \/ s \in DOMAIN selectors /\ ~Buildable(selectors[s].node, work[r].next)
  /\ Fail(r)
  /\ UNCHANGED <<store, runtime, selectors, orphans, wanted, silent>>

(* publish_arc_if_revision *)
Publish(r) ==
  /\ pc[r] = "prepare" /\ work[r].todo = {}
  /\ IF revision = work[r].expected
     THEN /\ snapshot' = work[r].next
          /\ revision' = revision + 1
          /\ Goto(r, "replace")
          /\ work' = [work EXCEPT ![r].todo = work[r].prepared]
          /\ UNCHANGED <<reload_error, lock>>
     ELSE /\ Fail(r)
          /\ UNCHANGED <<snapshot, revision>>
  /\ UNCHANGED <<store, dns, selectors, orphans, wanted, silent>>

(* selector.replace: new flows see the new slots one selector at a time.   *)
Replace(r, s) ==
  /\ pc[r] = "replace" /\ s \in work[r].todo
  /\ work' = [work EXCEPT ![r].todo = @ \ {s}]
  /\ selectors' = IF s \in DOMAIN selectors
                  THEN [selectors EXCEPT ![s].version = work[r].next.version,
                                         ![s].closed = FALSE]
                  ELSE selectors
  /\ UNCHANGED <<store, runtime, reload_error, lock, pc, orphans, wanted, silent>>

(* The DNS handlers are swapped, the events are sent and the error of an   *)
(* earlier attempt is cleared.                                             *)
Finish(r) ==
  /\ pc[r] = "replace" /\ work[r].todo = {}
  /\ dns' = work[r].next.version
  /\ reload_error' = FALSE
  /\ Release(r)
  /\ UNCHANGED <<store, snapshot, revision, selectors, orphans, wanted, silent>>

-----------------------------------------------------------------------------
(* The HTTP connection of the request closes and the server drops its      *)
(* future at an await: the lock is released, and a blocking mutation that  *)
(* was spawned runs on.                                                    *)
Cancel(r) ==
  /\ Cancels
  /\ pc[r] \in {"retargeted", "commit", "build", "prepare"}
  /\ orphans' = IF pc[r] = "commit" THEN orphans \cup {work[r].op} ELSE orphans
  /\ lock' = IF lock = r THEN NoOne ELSE lock
  /\ pc' = [pc EXCEPT ![r] = "idle"]
  /\ work' = [work EXCEPT ![r] = Idle]
  /\ silent' = (silent \/ (pc[r] # "retargeted" /\ work[r].op # NoMutation))
  /\ UNCHANGED <<store, runtime, reload_error, selectors, wanted>>

OrphanCommits(o) ==
  /\ o \in orphans
  /\ orphans' = orphans \ {o}
  /\ store' \in {Committed(store, o), HalfCommitted(store, o)}
  /\ UNCHANGED <<runtime, reload_error, selectors, lock, pc, work, wanted, silent>>

-----------------------------------------------------------------------------
(* start_inbounds_inner reads the selected node from the store ...         *)
ReadSelection ==
  /\ wanted = NoOne
  /\ wanted' \in EffectiveSelection(store)
  /\ UNCHANGED <<store, runtime, reload_error, selectors, lock, pc, work, orphans, silent>>

(* Mutant of BuildSelector: the lock is not taken.                         *)
BuildSelectorUnlocked(s) ==
  /\ wanted # NoOne /\ s \notin DOMAIN selectors
  /\ Buildable(wanted, snapshot)
  /\ selectors' = Put(selectors, s, [node |-> wanted, version |-> snapshot.version,
                                     closed |-> FALSE])
  /\ wanted' = NoOne
  /\ UNCHANGED <<store, runtime, reload_error, lock, pc, work, orphans, silent>>

(* ... and build_proxy_selector_with_udp builds and registers a selector   *)
(* from the published snapshot, under the lock.                            *)
BuildSelector(s) ==
  /\ wanted # NoOne /\ lock = NoOne /\ s \notin DOMAIN selectors
  /\ Buildable(wanted, snapshot)
  /\ selectors' = Put(selectors, s, [node |-> wanted, version |-> snapshot.version,
                                     closed |-> FALSE])
  /\ wanted' = NoOne
  /\ UNCHANGED <<store, runtime, reload_error, lock, pc, work, orphans, silent>>

BuildSelectorFails ==
  /\ wanted # NoOne /\ lock = NoOne
  /\ ~Buildable(wanted, snapshot)
  /\ wanted' = NoOne
  /\ UNCHANGED <<store, runtime, reload_error, selectors, lock, pc, work, orphans, silent>>

(* The listeners that own the selector are gone; the registry is weak.     *)
DropSelector(s) ==
  /\ s \in DOMAIN selectors
  /\ selectors' = Drop(selectors, {s})
  /\ UNCHANGED <<store, runtime, reload_error, lock, pc, work, orphans, wanted, silent>>

(* Mutant of CloseNode: the lock is not taken.                             *)
CloseNodeUnlocked(n) ==
  /\ selectors' = [s \in DOMAIN selectors |->
                     IF selectors[s].node = n
                     THEN [selectors[s] EXCEPT !.closed = TRUE] ELSE selectors[s]]
  /\ UNCHANGED <<store, runtime, reload_error, lock, pc, work, orphans, wanted, silent>>

(* close_node: the slots of the node fail closed until the next reload.    *)
CloseNode(n) ==
  /\ lock = NoOne
  /\ \E s \in DOMAIN selectors : selectors[s].node = n
  /\ selectors' = [s \in DOMAIN selectors |->
                     IF selectors[s].node = n
                     THEN [selectors[s] EXCEPT !.closed = TRUE] ELSE selectors[s]]
  /\ UNCHANGED <<store, runtime, reload_error, lock, pc, work, orphans, wanted, silent>>

-----------------------------------------------------------------------------
(* from_builder: the first snapshot is built before anything is exposed.   *)
Init ==
  /\ store \in {[nodes |-> N, selected |-> d, version |-> 0] :
                  N \in SUBSET Nodes, d \in Targets}
  /\ snapshot = store
  /\ revision = 0
  /\ dns = 0
  /\ reload_error = FALSE
  /\ selectors = EmptyMap
  /\ lock = NoOne
  /\ pc = [r \in Requests |-> "idle"]
  /\ work = [r \in Requests |-> Idle]
  /\ orphans = {}
  /\ wanted = NoOne
  /\ silent = FALSE

Request(r) ==
  \/ \E n \in Nodes : RetargetNode(r, n)
  \/ \E o \in Mutations : BeginMutation(r, o)
  \/ BeginReload(r)
  \/ Commit(r) \/ CommitFails(r)
  \/ Build(r) \/ BuildFails(r) \/ DnsHandlerFails(r)
  \/ \E s \in Selectors : Prepare(r, s) \/ PrepareFails(r, s) \/ Replace(r, s)
  \/ Publish(r)
  \/ Finish(r)
  \/ Cancel(r)

Next ==
  \/ \E r \in Requests : Request(r)
  \/ \E o \in Mutations : OrphanCommits(o)
  \/ ReadSelection
  \/ \E s \in Selectors : BuildSelector(s) \/ DropSelector(s)
  \/ BuildSelectorFails
  \/ \E n \in Nodes : CloseNode(n)

Spec == Init /\ [][Next]_vars
-----------------------------------------------------------------------------
Swapping == \E r \in Requests : pc[r] = "replace"

TypeOK ==
  /\ store \in Config /\ snapshot \in Config
  /\ revision \in Nat /\ dns \in Nat /\ reload_error \in BOOLEAN
  /\ DOMAIN selectors \subseteq Selectors
  /\ selectors \in [DOMAIN selectors -> Selector]
  /\ lock \in Requests \cup {NoOne}
  /\ pc \in [Requests -> {"idle", "retargeted", "commit", "build", "prepare", "replace"}]
  /\ work \in [Requests -> Work]
  /\ orphans \subseteq Mutations
  /\ wanted \in Targets \cup {NoOne}
  /\ silent \in BOOLEAN

(* Between reloads every live selector and the DNS handlers carry the      *)
(* published configuration, whenever they were built: "a configuration     *)
(* reload cannot expose a new route table with old proxy instances".       *)
PlanesAgree ==
  ~Swapping => /\ dns = snapshot.version
               /\ \A s \in DOMAIN selectors : selectors[s].version = snapshot.version

(* The node of a live selector is one the published snapshot can build,    *)
(* whichever nodes were deleted from the store since.                      *)
SelectorsResolve ==
  \A s \in DOMAIN selectors : Buildable(selectors[s].node, snapshot)

(* What the data plane uses is the published snapshot: its version, and    *)
(* nodes it can build, between any two reloads (rebuild_locked).           *)
SelectorsCurrent == PlanesAgree /\ SelectorsResolve

(* A node is never closed in a selector whose replacement a reload has     *)
(* prepared: the reload would silently reopen it.                          *)
ClosesUnprepared ==
  \A s \in DOMAIN selectors \cap DOMAIN selectors' :
    ~selectors[s].closed /\ selectors'[s].closed
      => \A r \in Requests : s \notin work[r].prepared

CloseNotLost == [][ClosesUnprepared]_vars

(* last_reload_error is the "Last mutation/reload error", and "a           *)
(* successful reload clears it": the service runs the persisted            *)
(* configuration, or last_reload_error() is set.  Two endings escape: the  *)
(* client drops a request after its commit, and the error of               *)
(* inbound_dns_handler, which is returned and not recorded.                *)
RunningIsPersisted ==
  lock = NoOne /\ ~silent => snapshot = store \/ reload_error

(* retarget_node_to_direct: "so the following store mutation can reload    *)
(* the runtime without referring to a row that no longer exists".  Between *)
(* requests no live selector is for a node the store no longer has, else   *)
(* every later reload fails in prepare.                                    *)
DeletedNodesUnreferenced ==
  lock = NoOne =>
    \A s \in DOMAIN selectors : Buildable(selectors[s].node, store)
=============================================================================
