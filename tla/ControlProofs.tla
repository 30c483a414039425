--------------------------- MODULE ControlProofs ---------------------------
(***************************************************************************)
(* The properties of the runtime controller for any number of requests,    *)
(* selectors and nodes, and the safety of the inbound supervisor for any   *)
(* number of inbounds and changes and any capacity of the reload channel.  *)
(*                                                                         *)
(* The argument for the controller is the reload lock: whoever holds it is *)
(* the only one to build, retarget or close selectors and to commit, so    *)
(* what rebuild_locked collected and prepared still covers every live      *)
(* selector when the snapshot is published.                                *)
(***************************************************************************)
EXTENDS Controller, InboundSupervisor, TLAPS

(* The stages of a request that run under the reload lock.                 *)
Holding == {"commit", "build", "prepare", "replace"}

LockHeld == \A r \in Requests : pc[r] \in Holding <=> lock = r

Locals ==
  \A r \in Requests :
    /\ pc[r] = "idle" => work[r] = Idle
    /\ pc[r] \in {"retargeted", "commit", "build"} => work[r].prepared = {}
    /\ pc[r] \in {"retargeted", "commit"} => work[r].op \in Mutations

(* Outside the swap every plane has the published version; before it the   *)
(* selectors left to prepare and the prepared ones cover the live ones,    *)
(* during it the ones left to replace cover the ones of an older version.  *)
Covered ==
  \A r \in Requests :
    /\ pc[r] = "prepare" =>
         /\ DOMAIN selectors \subseteq work[r].todo \cup work[r].prepared
         /\ \A s \in DOMAIN selectors \cap work[r].prepared :
              Buildable(selectors[s].node, work[r].next)
    /\ pc[r] = "replace" =>
         /\ snapshot = work[r].next
         /\ \A s \in DOMAIN selectors \ work[r].todo :
              selectors[s].version = snapshot.version

(* A difference between store and snapshot that is not under way was       *)
(* recorded.                                                               *)
Accounted == snapshot = store \/ reload_error

Reported ==
  ~silent =>
    /\ orphans = {}
    /\ lock = NoOne => Accounted
    /\ \A r \in Requests :
         /\ pc[r] = "commit" => Accounted
         /\ pc[r] \in {"build", "prepare"} /\ work[r].op = NoMutation => Accounted
         /\ pc[r] = "prepare" => work[r].next = store
         /\ pc[r] = "replace" => snapshot = store

Inv ==
  /\ TypeOK
  /\ LockHeld
  /\ Locals
  /\ PlanesAgree
  /\ SelectorsResolve
  /\ Covered
  /\ Reported

(* A request that is not under way has well-formed locals.                 *)
LEMMA IdleIsWork == Idle \in Work /\ Idle.prepared = {} /\ Idle.op = NoMutation
BY DEF Idle, Work, Config, Targets

(* A mutation is told apart from a plain reload.                           *)
LEMMA MutationsAreReal ==
  Mutations \subseteq Kinds \X Nodes /\ NoMutation \notin Mutations
BY ControllerOptions DEF Mutations, NoMutation

(* What a mutation writes, whole or in half, is a configuration.           *)
LEMMA CommitIsConfig ==
  ASSUME NEW c \in Config, NEW m \in Kinds \X Nodes
  PROVE  Committed(c, m) \in Config /\ HalfCommitted(c, m) \in Config
<1>1. m[2] \in Nodes
  OBVIOUS
<1>2. Committed(c, m) \in Config
  BY <1>1 DEF Config, Targets, Committed
<1>3. Committed(c, m).selected \in Targets
  BY <1>2 DEF Config
<1>4. HalfCommitted(c, m) \in Config
  <2> DEFINE sel == Committed(c, m).selected
  <2>1. sel \in Targets
    BY <1>3
  <2>2. c.nodes \in SUBSET Nodes /\ c.version + 1 \in Nat
    BY DEF Config
  <2>3. HalfCommitted(c, m) = [c EXCEPT !.version = @ + 1, !.selected = sel]
    BY DEF HalfCommitted
  <2> HIDE DEF sel
  <2>4. HalfCommitted(c, m) = [nodes |-> c.nodes, selected |-> sel, version |-> c.version + 1]
    BY <2>3 DEF Config
  <2> QED BY <2>1, <2>2, <2>4 DEF Config
<1> QED BY <1>2, <1>4

(* Retargeting moves live selectors to the built-in node, which every      *)
(* snapshot can build, and leaves their versions alone.                    *)
LEMMA RetargetNodeKeepsInv ==
  ASSUME Inv, NEW r \in Requests, NEW n \in Nodes, RetargetNode(r, n)
  PROVE  Inv'
<1>1. TypeOK'
  <2>1. work' \in [Requests -> Work]
    <3>1. <<"delete", n>> \in (Kinds \X Nodes) \cup {NoMutation}
      BY DEF Kinds
    <3> QED BY <3>1 DEF Inv, TypeOK, Work, RetargetNode
  <2>2. selectors' \in [DOMAIN selectors -> Selector] /\ DOMAIN selectors' = DOMAIN selectors
    <3>1. \A s \in DOMAIN selectors : selectors'[s] \in Selector
      BY DEF Inv, TypeOK, Selector, Targets, RetargetNode
    <3> QED BY <3>1 DEF RetargetNode
  <2> QED BY <2>1, <2>2 DEF Inv, TypeOK, RetargetNode, Goto, runtime
<1>2. LockHeld'
  BY DEF Inv, RetargetNode, Goto, LockHeld, Holding, TypeOK
<1>3. Locals'
  <2>1. <<"delete", n>> \in Mutations
    BY DEF Mutations, RetargetNode
  <2>2. work[r].prepared = {}
    BY IdleIsWork DEF Inv, Locals, RetargetNode
  <2>3. /\ pc'[r] = "retargeted" /\ work'[r].prepared = {}
        /\ work'[r].op = <<"delete", n>>
    BY <2>2 DEF Inv, TypeOK, Work, RetargetNode, Goto
  <2>4. \A q \in Requests \ {r} : pc'[q] = pc[q] /\ work'[q] = work[q]
    BY DEF Inv, TypeOK, RetargetNode, Goto
  <2> QED BY <2>1, <2>3, <2>4 DEF Inv, Locals
<1>4. PlanesAgree'
  <2>1. \A s \in DOMAIN selectors : selectors'[s].version = selectors[s].version
    BY DEF Inv, TypeOK, Selector, RetargetNode
  <2> QED BY <2>1 DEF Inv, TypeOK, PlanesAgree, Swapping, RetargetNode, Goto, runtime
<1>5. SelectorsResolve'
  <2>1. \A s \in DOMAIN selectors : selectors'[s].node \in {selectors[s].node, Direct}
    BY DEF Inv, TypeOK, Selector, RetargetNode
  <2> QED BY <2>1 DEF Inv, SelectorsResolve, Buildable, RetargetNode, runtime
<1>6. Covered'
  BY ControllerOptions
     DEF Inv, RetargetNode, Goto, Covered, TypeOK, LockHeld, Holding
<1>7. Reported'
  BY DEF Inv, RetargetNode, runtime, Goto, Reported, Accounted, TypeOK
<1> QED BY <1>1, <1>2, <1>3, <1>4, <1>5, <1>6, <1>7 DEF Inv

(* A mutation starts under the lock, before anything is prepared.          *)
LEMMA BeginMutationKeepsInv ==
  ASSUME Inv, NEW r \in Requests, NEW o \in Mutations, BeginMutation(r, o)
  PROVE  Inv'
<1>1. TypeOK'
  <2>1. o \in (Kinds \X Nodes) \cup {NoMutation}
    BY ControllerOptions DEF Mutations
  <2>2. work' \in [Requests -> Work]
    BY <2>1 DEF Inv, TypeOK, Work, BeginMutation
  <2> QED BY <2>2 DEF Inv, TypeOK, BeginMutation, Goto, runtime
<1>2. LockHeld'
  BY ControllerOptions DEF Inv, BeginMutation, Goto, LockHeld, Holding, TypeOK
<1>3. Locals'
  BY DEF Inv, BeginMutation, Goto, Locals, TypeOK, Idle
<1>4. PlanesAgree'
  BY DEF Inv, BeginMutation, runtime, Goto, PlanesAgree, Swapping
<1>5. SelectorsResolve'
  BY DEF Inv, BeginMutation, runtime, SelectorsResolve
<1>6. Covered'
  BY DEF Inv, BeginMutation, runtime, Goto, Covered
<1>7. Reported'
  BY DEF Inv, BeginMutation, runtime, Goto, Reported, Accounted
<1> QED BY <1>1, <1>2, <1>3, <1>4, <1>5, <1>6, <1>7 DEF Inv

(* A reload starts under the lock with the locals of an idle request.      *)
LEMMA BeginReloadKeepsInv ==
  ASSUME Inv, NEW r \in Requests, BeginReload(r)
  PROVE  Inv'
<1>1. TypeOK'
  BY DEF Inv, BeginReload, runtime, Goto, TypeOK
<1>2. LockHeld'
  BY ControllerOptions DEF Inv, BeginReload, Goto, LockHeld, Holding, TypeOK
<1>3. Locals'
  BY DEF Inv, BeginReload, Goto, Locals, Idle
<1>4. PlanesAgree'
  BY DEF Inv, BeginReload, runtime, Goto, PlanesAgree, Swapping
<1>5. SelectorsResolve'
  BY DEF Inv, BeginReload, runtime, SelectorsResolve
<1>6. Covered'
  BY DEF Inv, BeginReload, runtime, Goto, Covered
<1>7. Reported'
  BY DEF Inv, BeginReload, runtime, Goto, Reported, Accounted
<1> QED BY <1>1, <1>2, <1>3, <1>4, <1>5, <1>6, <1>7 DEF Inv

(* A commit changes the store only, and its request is the one under way.  *)
LEMMA CommitKeepsInv ==
  ASSUME Inv, NEW r \in Requests, Commit(r)
  PROVE  Inv'
<1>1. TypeOK'
  <2>1. work[r].op \in Kinds \X Nodes
    BY MutationsAreReal DEF Inv, Locals, Commit
  <2>2. store' \in Config
    BY <2>1, CommitIsConfig DEF Inv, TypeOK, Commit
  <2> QED BY <2>2 DEF Inv, TypeOK, Commit, Goto, runtime
<1>2. LockHeld'
  BY DEF Inv, Commit, Goto, LockHeld, Holding
<1>3. Locals'
  BY DEF Inv, Commit, Goto, Locals
<1>4. PlanesAgree'
  BY DEF Inv, Commit, runtime, Goto, PlanesAgree, Swapping
<1>5. SelectorsResolve'
  BY DEF Inv, Commit, runtime, SelectorsResolve
<1>6. Covered'
  BY DEF Inv, Commit, Goto, Covered, LockHeld, Holding
<1>7. Reported'
  BY ControllerOptions
     DEF Inv, Commit, Goto, Reported, TypeOK, LockHeld, Holding, Locals,
         NoMutation, Mutations
<1> QED BY <1>1, <1>2, <1>3, <1>4, <1>5, <1>6, <1>7 DEF Inv

(* A failed commit may leave half its writes, and is recorded.             *)
LEMMA CommitFailsKeepsInv ==
  ASSUME Inv, NEW r \in Requests, CommitFails(r)
  PROVE  Inv'
<1>1. TypeOK'
  <2>1. work' \in [Requests -> Work]
    BY IdleIsWork DEF Inv, TypeOK, CommitFails, Fail, Release
  <2>2. store' \in Config
    <3>1. work[r].op \in Kinds \X Nodes
      BY MutationsAreReal DEF Inv, Locals, CommitFails
    <3> QED BY <3>1, CommitIsConfig DEF Inv, TypeOK, CommitFails
  <2> QED BY <2>1, <2>2 DEF Inv, TypeOK, CommitFails, Fail, Release, runtime
<1>2. LockHeld'
  BY ControllerOptions
     DEF Inv, CommitFails, Fail, Release, LockHeld, Holding, TypeOK
<1>3. Locals'
  BY DEF Inv, CommitFails, Fail, Release, Locals, TypeOK
<1>4. PlanesAgree'
  BY DEF Inv, CommitFails, runtime, Fail, Release, PlanesAgree, Swapping
<1>5. SelectorsResolve'
  BY DEF Inv, CommitFails, runtime, SelectorsResolve
<1>6. Covered'
  BY DEF Inv, CommitFails, Fail, Release, Covered, LockHeld, Holding
<1>7. Reported'
  BY DEF Inv, CommitFails, Fail, Release, Reported, Accounted, LockHeld,
         Holding
<1> QED BY <1>1, <1>2, <1>3, <1>4, <1>5, <1>6, <1>7 DEF Inv

(* The collected selectors are all the live ones.                          *)
LEMMA BuildKeepsInv ==
  ASSUME Inv, NEW r \in Requests, Build(r)
  PROVE  Inv'
<1>1. TypeOK'
  <2>1. work'[r] \in Work
    <3>1. work[r] \in Work /\ store \in Config /\ revision \in Nat
      BY DEF Inv, TypeOK
    <3>2. DOMAIN selectors \in SUBSET Selectors
      BY DEF Inv, TypeOK
    <3>3. work'[r] = [work[r] EXCEPT !.expected = revision, !.next = store,
                                     !.todo = DOMAIN selectors]
      BY DEF Inv, TypeOK, Build
    <3> QED BY <3>1, <3>2, <3>3 DEF Work
  <2>2. work' \in [Requests -> Work]
    BY <2>1 DEF Inv, TypeOK, Build
  <2> QED BY <2>2 DEF Inv, TypeOK, Build, Goto, runtime
<1>2. LockHeld'
  BY DEF Inv, Build, Goto, LockHeld, Holding
<1>3. Locals'
  BY DEF Inv, Build, Goto, Locals, TypeOK
<1>4. PlanesAgree'
  BY DEF Inv, Build, runtime, Goto, PlanesAgree, Swapping
<1>5. SelectorsResolve'
  BY DEF Inv, Build, runtime, SelectorsResolve
<1>6. Covered'
  BY DEF Inv, Build, Goto, Covered, TypeOK, LockHeld, Holding, Locals
<1>7. Reported'
  BY DEF Inv, Build, runtime, Goto, Reported, Accounted, TypeOK
<1> QED BY <1>1, <1>2, <1>3, <1>4, <1>5, <1>6, <1>7 DEF Inv

(* A failed build is recorded.                                             *)
LEMMA BuildFailsKeepsInv ==
  ASSUME Inv, NEW r \in Requests, BuildFails(r)
  PROVE  Inv'
<1>1. TypeOK'
  BY DEF Inv, BuildFails, runtime, Fail, Release, TypeOK, Work, Config,
         Targets, Idle
<1>2. LockHeld'
  BY ControllerOptions
     DEF Inv, BuildFails, Fail, Release, LockHeld, Holding, TypeOK
<1>3. Locals'
  BY DEF Inv, BuildFails, Fail, Release, Locals, TypeOK
<1>4. PlanesAgree'
  BY DEF Inv, BuildFails, runtime, Fail, Release, PlanesAgree, Swapping
<1>5. SelectorsResolve'
  BY DEF Inv, BuildFails, runtime, SelectorsResolve
<1>6. Covered'
  BY DEF Inv, BuildFails, Fail, Release, Covered, LockHeld, Holding
<1>7. Reported'
  BY DEF Inv, BuildFails, Fail, Release, Reported, Accounted, LockHeld, Holding
<1> QED BY <1>1, <1>2, <1>3, <1>4, <1>5, <1>6, <1>7 DEF Inv

(* A failed DNS handler changes nothing; after a commit it is silent.      *)
LEMMA DnsHandlerFailsKeepsInv ==
  ASSUME Inv, NEW r \in Requests, DnsHandlerFails(r)
  PROVE  Inv'
<1>1. TypeOK'
  BY DEF Inv, DnsHandlerFails, runtime, Release, TypeOK, Work, Config, Targets,
         Idle
<1>2. LockHeld'
  BY ControllerOptions
     DEF Inv, DnsHandlerFails, Release, LockHeld, Holding, TypeOK
<1>3. Locals'
  BY DEF Inv, DnsHandlerFails, Release, Locals, TypeOK
<1>4. PlanesAgree'
  BY DEF Inv, DnsHandlerFails, runtime, Release, PlanesAgree, Swapping
<1>5. SelectorsResolve'
  BY DEF Inv, DnsHandlerFails, runtime, SelectorsResolve
<1>6. Covered'
  BY DEF Inv, DnsHandlerFails, Release, Covered, LockHeld, Holding
<1>7. Reported'
  BY DEF Inv, DnsHandlerFails, runtime, Release, Reported, Accounted, TypeOK
<1> QED BY <1>1, <1>2, <1>3, <1>4, <1>5, <1>6, <1>7 DEF Inv

(* A prepared selector can be built from the next snapshot.                *)
LEMMA PrepareKeepsInv ==
  ASSUME Inv, NEW r \in Requests, NEW s \in Selectors, Prepare(r, s)
  PROVE  Inv'
<1>1. TypeOK'
  <2>1. work[r] \in Work
    BY DEF Inv, TypeOK
  <2>2. work'[r] = [work[r] EXCEPT !.todo = @ \ {s}, !.prepared = @ \cup {s}]
    BY DEF Inv, TypeOK, Prepare
  <2>3. work'[r] \in Work
    BY <2>1, <2>2 DEF Work
  <2>4. work' \in [Requests -> Work]
    BY <2>3 DEF Inv, TypeOK, Prepare
  <2> QED BY <2>4 DEF Inv, TypeOK, Prepare, runtime
<1>2. LockHeld'
  BY DEF Inv, Prepare, LockHeld
<1>3. Locals'
  BY DEF Inv, Prepare, Locals, TypeOK
<1>4. PlanesAgree'
  BY DEF Inv, Prepare, runtime, PlanesAgree, Swapping
<1>5. SelectorsResolve'
  BY DEF Inv, Prepare, runtime, SelectorsResolve
<1>6. Covered'
  BY DEF Inv, Prepare, Covered, TypeOK, LockHeld, Holding
<1>7. Reported'
  BY DEF Inv, Prepare, runtime, Reported, Accounted, TypeOK
<1> QED BY <1>1, <1>2, <1>3, <1>4, <1>5, <1>6, <1>7 DEF Inv

(* A failed prepare is recorded and leaves every plane as it was.          *)
LEMMA PrepareFailsKeepsInv ==
  ASSUME Inv, NEW r \in Requests, NEW s \in Selectors, PrepareFails(r, s)
  PROVE  Inv'
<1>1. TypeOK'
  BY DEF Inv, PrepareFails, runtime, Fail, Release, TypeOK, Work, Config,
         Targets, Idle
<1>2. LockHeld'
  BY ControllerOptions
     DEF Inv, PrepareFails, Fail, Release, LockHeld, Holding, TypeOK
<1>3. Locals'
  BY DEF Inv, PrepareFails, Fail, Release, Locals, TypeOK
<1>4. PlanesAgree'
  BY DEF Inv, PrepareFails, runtime, Fail, Release, PlanesAgree, Swapping
<1>5. SelectorsResolve'
  BY DEF Inv, PrepareFails, runtime, SelectorsResolve
<1>6. Covered'
  BY DEF Inv, PrepareFails, Fail, Release, Covered, TypeOK, LockHeld, Holding
<1>7. Reported'
  BY DEF Inv, PrepareFails, Fail, Release, Reported, Accounted, TypeOK,
         LockHeld, Holding
<1> QED BY <1>1, <1>2, <1>3, <1>4, <1>5, <1>6, <1>7 DEF Inv

(* A replaced selector has the published version.                          *)
LEMMA ReplaceKeepsInv ==
  ASSUME Inv, NEW r \in Requests, NEW s \in Selectors, Replace(r, s)
  PROVE  Inv'
<1>1. TypeOK'
  <2>1. work' \in [Requests -> Work]
    BY DEF Inv, TypeOK, Work, Replace
  <2>2. DOMAIN selectors' = DOMAIN selectors /\ selectors' \in [DOMAIN selectors -> Selector]
    BY DEF Inv, TypeOK, Work, Config, Selector, Replace
  <2> QED BY <2>1, <2>2 DEF Inv, TypeOK, Replace, runtime
<1>2. LockHeld'
  BY DEF Inv, Replace, LockHeld
<1>3. Locals'
  BY DEF Inv, Replace, Locals
<1>4. PlanesAgree'
  BY DEF Replace, PlanesAgree, Swapping
<1>5. SelectorsResolve'
  BY DEF Inv, Replace, runtime, SelectorsResolve
<1>6. Covered'
  BY DEF Inv, Replace, runtime, Covered
<1>7. Reported'
  BY DEF Inv, Replace, runtime, Reported, Accounted
<1> QED BY <1>1, <1>2, <1>3, <1>4, <1>5, <1>6, <1>7 DEF Inv

(* The swap starts with every live selector prepared: the lock kept new    *)
(* ones away.  A lost race is recorded.                                    *)
LEMMA PublishKeepsInv ==
  ASSUME Inv, NEW r \in Requests, Publish(r)
  PROVE  Inv'
<1>1. TypeOK'
  <2>1. work' \in [Requests -> Work]
    BY IdleIsWork DEF Inv, TypeOK, Work, Publish, Fail, Release
  <2>2. snapshot' \in Config /\ revision' \in Nat
    BY DEF Inv, TypeOK, Work, Publish
  <2> QED BY <2>1, <2>2 DEF Inv, TypeOK, Publish, Goto, Fail, Release
<1>2. LockHeld'
  BY ControllerOptions
     DEF Inv, Publish, Goto, Fail, Release, LockHeld, Holding, TypeOK
<1>3. Locals'
  <2>1. pc'[r] \in {"idle", "replace"} /\ (pc'[r] = "idle" => work'[r] = Idle)
    BY DEF Inv, TypeOK, Publish, Goto, Fail, Release
  <2>2. \A q \in Requests \ {r} : pc'[q] = pc[q] /\ work'[q] = work[q]
    BY DEF Inv, TypeOK, Publish, Goto, Fail, Release
  <2> QED BY <2>1, <2>2 DEF Inv, Locals
<1>4. PlanesAgree'
  BY DEF Inv, Publish, Goto, Fail, Release, PlanesAgree, Swapping, TypeOK
<1>5. SelectorsResolve'
  BY DEF Inv, Publish, SelectorsResolve, Covered
<1>6. Covered'
  <2>1. \A q \in Requests \ {r} : pc'[q] = pc[q] /\ pc[q] \notin {"prepare", "replace"}
    BY DEF Inv, TypeOK, LockHeld, Holding, Publish, Goto, Fail, Release
  <2>2. CASE revision = work[r].expected
    <3>1. /\ pc'[r] = "replace" /\ snapshot' = work[r].next /\ selectors' = selectors
          /\ work'[r].next = work[r].next /\ work'[r].todo = work[r].prepared
      BY <2>2 DEF Inv, TypeOK, Work, Publish, Goto
    <3>2. DOMAIN selectors \subseteq work'[r].todo
      BY <3>1 DEF Inv, Covered, Publish
    <3> QED BY <2>1, <3>1, <3>2 DEF Covered
  <2>3. CASE revision # work[r].expected
    <3>1. pc'[r] = "idle"
      BY <2>3 DEF Inv, TypeOK, Publish, Fail, Release
    <3> QED BY <2>1, <3>1 DEF Covered
  <2> QED BY <2>2, <2>3
<1>7. Reported'
  BY DEF Inv, Publish, Goto, Fail, Release, Reported, Accounted, TypeOK
<1> QED BY <1>1, <1>2, <1>3, <1>4, <1>5, <1>6, <1>7 DEF Inv

(* The swap ends with no selector of an older version left.                *)
LEMMA FinishKeepsInv ==
  ASSUME Inv, NEW r \in Requests, Finish(r)
  PROVE  Inv'
<1>1. TypeOK'
  BY DEF Inv, Finish, Release, TypeOK, Work, Config, Targets, Idle
<1>2. LockHeld'
  BY ControllerOptions DEF Inv, Finish, Release, LockHeld, Holding, TypeOK
<1>3. Locals'
  BY DEF Inv, Finish, Release, Locals, TypeOK
<1>4. PlanesAgree'
  BY DEF Inv, Finish, PlanesAgree, Covered
<1>5. SelectorsResolve'
  BY DEF Inv, Finish, SelectorsResolve
<1>6. Covered'
  BY DEF Inv, Finish, Release, Covered, TypeOK
<1>7. Reported'
  BY DEF Inv, Finish, Release, Reported, Accounted
<1> QED BY <1>1, <1>2, <1>3, <1>4, <1>5, <1>6, <1>7 DEF Inv

(* A dropped request leaves every plane as it was.                         *)
LEMMA CancelKeepsInv ==
  ASSUME Inv, NEW r \in Requests, Cancel(r)
  PROVE  Inv'
<1>1. TypeOK'
  <2>1. work' \in [Requests -> Work]
    BY IdleIsWork DEF Inv, TypeOK, Cancel
  <2>2. ASSUME pc[r] = "commit" PROVE work[r].op \in Mutations
    BY <2>2 DEF Inv, Locals
  <2> QED BY <2>1, <2>2 DEF Inv, TypeOK, Cancel, runtime
<1>2. LockHeld'
  BY ControllerOptions DEF Inv, Cancel, LockHeld, Holding, TypeOK
<1>3. Locals'
  BY DEF Inv, Cancel, Locals, TypeOK
<1>4. PlanesAgree'
  BY DEF Inv, Cancel, runtime, PlanesAgree, Swapping
<1>5. SelectorsResolve'
  BY DEF Inv, Cancel, runtime, SelectorsResolve
<1>6. Covered'
  BY DEF Inv, Cancel, runtime, Covered, TypeOK
<1>7. Reported'
  <2>1. CASE silent'
    BY <2>1 DEF Reported
  <2>2. CASE ~silent'
    <3>1. ~silent /\ (pc[r] = "retargeted" \/ work[r].op = NoMutation)
      BY <2>2 DEF Inv, TypeOK, Cancel
    <3>2. pc[r] # "commit"
      BY <3>1, MutationsAreReal DEF Inv, Locals
    <3>3. pc'[r] = "idle" /\ \A q \in Requests \ {r} : pc'[q] = pc[q] /\ work'[q] = work[q]
      BY DEF Inv, TypeOK, Cancel
    <3>4. lock' = NoOne => Accounted
      BY <3>1, <3>2 DEF Inv, TypeOK, Reported, LockHeld, Holding, Cancel
    <3> QED BY <3>1, <3>2, <3>3, <3>4 DEF Inv, Reported, Accounted, Cancel, runtime
  <2> QED BY <2>1, <2>2
<1> QED BY <1>1, <1>2, <1>3, <1>4, <1>5, <1>6, <1>7 DEF Inv

(* A commit nobody waits for follows a silent ending.                      *)
LEMMA OrphanCommitsKeepsInv ==
  ASSUME Inv, NEW o \in Mutations, OrphanCommits(o)
  PROVE  Inv'
<1>1. TypeOK'
  <2>1. o \in Kinds \X Nodes
    BY ControllerOptions DEF Mutations
  <2>2. store' \in Config
    BY <2>1, CommitIsConfig DEF Inv, TypeOK, OrphanCommits
  <2> QED BY <2>2 DEF Inv, TypeOK, OrphanCommits, runtime
<1>2. LockHeld'
  BY DEF Inv, OrphanCommits, LockHeld
<1>3. Locals'
  BY DEF Inv, OrphanCommits, Locals
<1>4. PlanesAgree'
  BY DEF Inv, OrphanCommits, runtime, PlanesAgree, Swapping
<1>5. SelectorsResolve'
  BY DEF Inv, OrphanCommits, runtime, SelectorsResolve
<1>6. Covered'
  BY DEF Inv, OrphanCommits, runtime, Covered
<1>7. Reported'
  BY DEF Inv, OrphanCommits, Reported
<1> QED BY <1>1, <1>2, <1>3, <1>4, <1>5, <1>6, <1>7 DEF Inv

(* The supervisor's read of the selected node changes no plane.            *)
LEMMA ReadSelectionKeepsInv ==
  ASSUME Inv, ReadSelection
  PROVE  Inv'
<1>1. TypeOK'
  BY DEF Inv, ReadSelection, runtime, EffectiveSelection, TypeOK, Config,
         Targets
<1>2. LockHeld'
  BY DEF Inv, ReadSelection, LockHeld
<1>3. Locals'
  BY DEF Inv, ReadSelection, Locals
<1>4. PlanesAgree'
  BY DEF Inv, ReadSelection, runtime, PlanesAgree, Swapping
<1>5. SelectorsResolve'
  BY DEF Inv, ReadSelection, runtime, SelectorsResolve
<1>6. Covered'
  BY DEF Inv, ReadSelection, runtime, Covered
<1>7. Reported'
  BY DEF Inv, ReadSelection, runtime, Reported, Accounted
<1> QED BY <1>1, <1>2, <1>3, <1>4, <1>5, <1>6, <1>7 DEF Inv

(* A new selector has the published version, and no reload is under way.   *)
LEMMA BuildSelectorKeepsInv ==
  ASSUME Inv, NEW s \in Selectors, BuildSelector(s)
  PROVE  Inv'
<1>1. TypeOK'
  BY DEF Inv, BuildSelector, runtime, Put, TypeOK, Config, Selector
<1>2. LockHeld'
  BY DEF Inv, BuildSelector, LockHeld
<1>3. Locals'
  BY DEF Inv, BuildSelector, Locals
<1>4. PlanesAgree'
  BY DEF Inv, BuildSelector, runtime, Put, PlanesAgree, Swapping
<1>5. SelectorsResolve'
  BY DEF Inv, BuildSelector, runtime, Put, SelectorsResolve
<1>6. Covered'
  BY ControllerOptions DEF Inv, BuildSelector, Covered, LockHeld, Holding
<1>7. Reported'
  BY DEF Inv, BuildSelector, runtime, Reported, Accounted
<1> QED BY <1>1, <1>2, <1>3, <1>4, <1>5, <1>6, <1>7 DEF Inv

(* A failed construction changes no plane.                                 *)
LEMMA BuildSelectorFailsKeepsInv ==
  ASSUME Inv, BuildSelectorFails
  PROVE  Inv'
<1>1. TypeOK'
  BY DEF Inv, BuildSelectorFails, runtime, TypeOK
<1>2. LockHeld'
  BY DEF Inv, BuildSelectorFails, LockHeld
<1>3. Locals'
  BY DEF Inv, BuildSelectorFails, Locals
<1>4. PlanesAgree'
  BY DEF Inv, BuildSelectorFails, runtime, PlanesAgree, Swapping
<1>5. SelectorsResolve'
  BY DEF Inv, BuildSelectorFails, runtime, SelectorsResolve
<1>6. Covered'
  BY DEF Inv, BuildSelectorFails, runtime, Covered
<1>7. Reported'
  BY DEF Inv, BuildSelectorFails, runtime, Reported, Accounted
<1> QED BY <1>1, <1>2, <1>3, <1>4, <1>5, <1>6, <1>7 DEF Inv

(* Fewer selectors keep every claim about the live ones.                   *)
LEMMA DropSelectorKeepsInv ==
  ASSUME Inv, NEW s \in Selectors, DropSelector(s)
  PROVE  Inv'
<1>1. TypeOK'
  BY DEF Inv, DropSelector, runtime, Drop, Restrict, TypeOK
<1>2. LockHeld'
  BY DEF Inv, DropSelector, LockHeld
<1>3. Locals'
  BY DEF Inv, DropSelector, Locals
<1>4. PlanesAgree'
  BY DEF Inv, DropSelector, runtime, Drop, Restrict, PlanesAgree, Swapping
<1>5. SelectorsResolve'
  BY DEF Inv, DropSelector, runtime, Drop, Restrict, SelectorsResolve
<1>6. Covered'
  BY DEF Inv, DropSelector, runtime, Drop, Restrict, Covered
<1>7. Reported'
  BY DEF Inv, DropSelector, runtime, Reported, Accounted
<1> QED BY <1>1, <1>2, <1>3, <1>4, <1>5, <1>6, <1>7 DEF Inv

(* Closing a node changes neither the nodes nor the versions of selectors. *)
LEMMA CloseNodeKeepsInv ==
  ASSUME Inv, NEW n \in Nodes, CloseNode(n)
  PROVE  Inv'
<1>1. TypeOK'
  <2>1. selectors' \in [DOMAIN selectors -> Selector] /\ DOMAIN selectors' = DOMAIN selectors
    <3>1. \A s \in DOMAIN selectors : selectors'[s] \in Selector
      BY DEF Inv, TypeOK, Selector, CloseNode
    <3> QED BY <3>1 DEF CloseNode
  <2> QED BY <2>1 DEF Inv, TypeOK, CloseNode, runtime
<1>2. LockHeld'
  BY DEF Inv, CloseNode, LockHeld
<1>3. Locals'
  BY DEF Inv, CloseNode, Locals
<1>4. PlanesAgree'
  BY DEF Inv, CloseNode, runtime, PlanesAgree, Swapping
<1>5. SelectorsResolve'
  BY DEF Inv, CloseNode, runtime, SelectorsResolve
<1>6. Covered'
  BY DEF Inv, CloseNode, runtime, Covered
<1>7. Reported'
  BY DEF Inv, CloseNode, runtime, Reported, Accounted
<1> QED BY <1>1, <1>2, <1>3, <1>4, <1>5, <1>6, <1>7 DEF Inv

(* A stuttering step keeps the invariant.                                  *)
LEMMA StutterKeepsInv ==
  ASSUME Inv, UNCHANGED vars
  PROVE  Inv'
<1>1. TypeOK'
  BY DEF Inv, vars, TypeOK
<1>2. LockHeld'
  BY DEF Inv, vars, LockHeld
<1>3. Locals'
  BY DEF Inv, vars, Locals
<1>4. PlanesAgree'
  BY DEF Inv, vars, PlanesAgree, Swapping
<1>5. SelectorsResolve'
  BY DEF Inv, vars, SelectorsResolve
<1>6. Covered'
  BY DEF Inv, vars, Covered
<1>7. Reported'
  BY DEF Inv, vars, Reported, Accounted
<1> QED BY <1>1, <1>2, <1>3, <1>4, <1>5, <1>6, <1>7 DEF Inv

(* The first snapshot is the store, and there are no selectors yet.        *)
LEMMA InitEstablishesInv == Init => Inv
<1> SUFFICES ASSUME Init PROVE Inv
  OBVIOUS
<1>1. TypeOK
  <2>1. store \in Config /\ snapshot \in Config
    BY DEF Init, Config
  <2>2. selectors = [x \in {} |-> x]
    BY DEF Init, EmptyMap
  <2>3. DOMAIN selectors \subseteq Selectors /\ selectors \in [DOMAIN selectors -> Selector]
    BY <2>2
  <2> QED BY <2>1, <2>3, IdleIsWork DEF Init, TypeOK
<1>2. DOMAIN selectors = {}
  BY DEF Init, EmptyMap
<1>3. dns = snapshot.version /\ snapshot = store
  BY DEF Init
<1> QED BY <1>1, <1>2, <1>3, ControllerOptions
     DEF Init, Inv, LockHeld, Holding, Locals, PlanesAgree, SelectorsResolve,
         Covered, Reported, Accounted

(* Every step keeps the invariant.                                         *)
LEMMA StepKeepsInv ==
  ASSUME Inv, [Next]_vars
  PROVE  Inv'
<1>1. ASSUME NEW r \in Requests, Request(r) PROVE Inv'
  BY <1>1, RetargetNodeKeepsInv, BeginMutationKeepsInv, BeginReloadKeepsInv,
     CommitKeepsInv, CommitFailsKeepsInv, BuildKeepsInv, BuildFailsKeepsInv,
     DnsHandlerFailsKeepsInv, PrepareKeepsInv, PrepareFailsKeepsInv,
     ReplaceKeepsInv, PublishKeepsInv, FinishKeepsInv, CancelKeepsInv DEF Request
<1>2. ASSUME NEW o \in Mutations, OrphanCommits(o) PROVE Inv'
  BY <1>2, OrphanCommitsKeepsInv
<1>3. CASE ReadSelection
  BY <1>3, ReadSelectionKeepsInv
<1>4. ASSUME NEW s \in Selectors, BuildSelector(s) \/ DropSelector(s) PROVE Inv'
  BY <1>4, BuildSelectorKeepsInv, DropSelectorKeepsInv
<1>5. CASE BuildSelectorFails
  BY <1>5, BuildSelectorFailsKeepsInv
<1>6. ASSUME NEW n \in Nodes, CloseNode(n) PROVE Inv'
  BY <1>6, CloseNodeKeepsInv
<1>7. CASE UNCHANGED vars
  BY <1>7, StutterKeepsInv
<1> QED BY <1>1, <1>2, <1>3, <1>4, <1>5, <1>6, <1>7 DEF Next

(* Inv is an invariant of the controller.                                  *)
LEMMA InvHolds == Spec => []Inv
<1>1. Init => Inv
  BY InitEstablishesInv
<1>2. Inv /\ [Next]_vars => Inv'
  BY StepKeepsInv
<1> QED BY <1>1, <1>2, PTL DEF Spec

(* While nobody holds the reload lock nothing is prepared.                 *)
LEMMA UnlockedIsUnprepared ==
  ASSUME Inv, lock = NoOne
  PROVE  \A r \in Requests : work[r].prepared = {}
<1> TAKE r \in Requests
<1>1. pc[r] \in {"idle", "retargeted"}
  BY ControllerOptions DEF Inv, TypeOK, LockHeld, Holding
<1> QED BY <1>1, IdleIsWork DEF Inv, Locals

(* The two actions that close a slot take the reload lock.                 *)
LEMMA StepClosesUnprepared ==
  ASSUME Inv, Next
  PROVE  ClosesUnprepared
<1> SUFFICES ASSUME NEW s \in DOMAIN selectors \cap DOMAIN selectors',
                    ~selectors[s].closed, selectors'[s].closed
             PROVE  \A r \in Requests : s \notin work[r].prepared
  BY DEF ClosesUnprepared
<1>1. selectors' # selectors
  OBVIOUS
<1>2. ASSUME NEW r \in Requests, NEW n \in Nodes, RetargetNode(r, n)
      PROVE  lock = NoOne
  BY <1>2 DEF RetargetNode
<1>3. ASSUME NEW n \in Nodes, CloseNode(n)
      PROVE  lock = NoOne
  BY <1>3 DEF CloseNode
<1>4. ASSUME NEW r \in Requests, NEW t \in Selectors, Replace(r, t)
      PROVE  FALSE
  BY <1>4 DEF Inv, TypeOK, Selector, Replace
<1>5. ASSUME NEW t \in Selectors, BuildSelector(t)
      PROVE  FALSE
  BY <1>5 DEF BuildSelector, Put
<1>6. ASSUME NEW t \in Selectors, DropSelector(t)
      PROVE  FALSE
  BY <1>6 DEF DropSelector, Drop, Restrict
<1>7. ASSUME NEW r \in Requests, Request(r)
      PROVE  lock = NoOne
  BY <1>1, <1>2, <1>4, <1>7
     DEF Request, BeginMutation, BeginReload, Commit, CommitFails, Build, BuildFails,
         DnsHandlerFails, Prepare, PrepareFails, Publish, Finish, Cancel
<1>8. lock = NoOne
  BY <1>1, <1>3, <1>5, <1>6, <1>7
     DEF Next, OrphanCommits, ReadSelection, BuildSelectorFails
<1> QED BY <1>8, UnlockedIsUnprepared

-----------------------------------------------------------------------------
(* Type correctness of the controller.                                     *)
THEOREM ControllerTypeCorrect == Spec => []TypeOK
<1>1. Inv => TypeOK
  BY DEF Inv
<1> QED BY <1>1, InvHolds, PTL

(* Between reloads every live selector and the DNS handlers carry the      *)
(* version of the published snapshot, whatever failed or was cancelled.    *)
THEOREM PlanesAlwaysAgree == Spec => []PlanesAgree
<1>1. Inv => PlanesAgree
  BY DEF Inv
<1> QED BY <1>1, InvHolds, PTL

(* The node of a live selector is always one the published snapshot can    *)
(* build: prepare has seen it, or the deletion has retargeted it.          *)
THEOREM SelectorsAlwaysResolve == Spec => []SelectorsResolve
<1>1. Inv => SelectorsResolve
  BY DEF Inv
<1> QED BY <1>1, InvHolds, PTL

(* Unless a request ended silently after its commit, the persisted         *)
(* configuration runs or last_reload_error() is set.                       *)
THEOREM FailuresAreReported == Spec => []RunningIsPersisted
<1>1. Inv => RunningIsPersisted
  BY DEF Inv, Reported, Accounted, RunningIsPersisted
<1> QED BY <1>1, InvHolds, PTL

(* close_node and retarget_node_to_direct never close a slot that a reload *)
(* under way has already prepared and would reopen.                        *)
THEOREM ClosesAreNotLost == Spec => CloseNotLost
<1>1. Inv /\ [Next]_vars => [ClosesUnprepared]_vars
  BY StepClosesUnprepared
<1> QED BY <1>1, InvHolds, PTL DEF Spec, CloseNotLost

(* Between reloads the data plane uses the published snapshot, its version *)
(* and its nodes, whatever rebuild_locked was interrupted by.              *)
THEOREM SelectorsStayCurrent == Spec => []SelectorsCurrent
<1> QED BY PlanesAlwaysAgree, SelectorsAlwaysResolve, PTL DEF SelectorsCurrent

-----------------------------------------------------------------------------
(* The inbound supervisor.  The argument is that an event is never         *)
(* forgotten: it is queued, or the receiver knows that it lagged, or the   *)
(* inbound is among those being restarted.                                 *)

(* The supervisor will still be told to restart i.                         *)
Coming(i) == lagged \/ \E k \in 1..Len(queue) : queue[k] \in {i, All}

(* It is restarting i, and has not read its record, or not marked it yet.  *)
Rereading(i) == stage \in {"abort", "read"} /\ i \in target
Remarking(i) == stage \in {"abort", "read", "select"} /\ i \in target

(* The status of i agrees with the record it was started from; in the      *)
(* middle of a start it may also be "starting".                            *)
SettledOff(i) ==
  served[i].state = "disabled" =>
    status[i].state = "disabled" \/ (i \in Transparent /\ status[i].state \in Outcomes)

Settled(i) ==
  /\ served[i].state = "enabled" =>
       status[i].state \in Outcomes \/ (status[i].state = "starting" /\ Unreported(i))
  /\ SettledOff(i)

Settling(i) ==
  /\ stage = "bind" /\ i \in target
  /\ served[i].state = "enabled" =>
       \/ status[i].state \in Outcomes
       \/ status[i].state = "starting" /\ (i \in Transparent => Unreported(i))
  /\ SettledOff(i)

(* Every inbound has an entry.                                             *)
Entries == status = [i \in Inbounds |-> status[i]]

(* An announced record is read, or is going to be.                         *)
Known ==
  \A i \in Inbounds :
    /\ announced[i] <= config[i].version
    /\ served[i].version >= announced[i] \/ Coming(i) \/ Rereading(i)

(* Open sockets, and the tasks that are to open one, are of the record     *)
(* last read, and the ones of the inbounds that are being restarted were   *)
(* ended before the record was read.                                       *)
Current ==
  \A x \in open \cup spawned :
    /\ x[3] = served[x[1]].version /\ served[x[1]].state = "enabled"
    /\ stage \in {"read", "select"} => x[1] \notin target

(* So were their owners.                                                   *)
Released == stage \in {"read", "select"} => owned \cap target = {}

(* Only enabled inbounds that are being restarted are bound.               *)
Bindable ==
  stage = "bind" => \A x \in binding : x[1] \in target /\ served[x[1]].state = "enabled"

(* A status that does not settle belongs to an inbound that is or will be  *)
(* restarted.                                                              *)
Marked ==
  \A i \in Inbounds :
    stage = "stopped" \/ Coming(i) \/ Remarking(i) \/ Settling(i) \/ Settled(i)

SupervisorInv ==
  /\ InboundTypeOK
  /\ Entries
  /\ Known
  /\ Current
  /\ Released
  /\ Bindable
  /\ Marked

(* An event that is sent is on its way, and so are the ones before it:     *)
(* the channel that overwrote one knows that it lagged.                    *)
LEMMA SendIsComing ==
  ASSUME InboundTypeOK, NEW ev \in Events, Send(ev)
  PROVE  /\ queue' \in Seq(Events) /\ Len(queue') <= Capacity /\ lagged' \in BOOLEAN
         /\ \A i : Coming(i) => Coming(i)'
         /\ \A i : ev \in {i, All} => Coming(i)'
<1>1. CASE Len(queue) = Capacity
  <2>1. Tail(queue) \in Seq(Events) /\ Len(Tail(queue)) = Capacity - 1
    BY <1>1, SupervisorOptions DEF InboundTypeOK
  <2>2. queue' = Append(Tail(queue), ev) /\ lagged' = TRUE
    BY <1>1 DEF Send
  <2> QED BY <2>1, <2>2, SupervisorOptions DEF Coming
<1>2. CASE Len(queue) # Capacity
  <2>1. queue' = Append(queue, ev) /\ lagged' = lagged
    BY <1>2 DEF Send, InboundTypeOK
  <2>2. /\ queue' \in Seq(Events) /\ Len(queue') = Len(queue) + 1
        /\ queue'[Len(queue) + 1] = ev
        /\ \A k \in 1..Len(queue) : queue'[k] = queue[k]
    BY <2>1 DEF InboundTypeOK
  <2>3. Len(queue) \in Nat /\ Len(queue) + 1 <= Capacity
    BY <1>2, SupervisorOptions DEF InboundTypeOK
  <2> QED BY <2>1, <2>2, <2>3 DEF Coming, InboundTypeOK
<1> QED BY <1>1, <1>2

(* An inbound that a reload announces is on its way to the supervisor.     *)
LEMMA PublishedIsComing ==
  ASSUME SupervisorInv, ReloadSucceeds
  PROVE  /\ queue' \in Seq(Events) /\ Len(queue') <= Capacity /\ lagged' \in BOOLEAN
         /\ \A i \in Inbounds : Coming(i) => Coming(i)'
         /\ \A i \in Inbounds : publishing \in {i, All} => Coming(i)'
<1>1. CASE publishing = Quiet
  <2>1. queue' = queue /\ lagged' = lagged
    BY <1>1 DEF ReloadSucceeds, channel
  <2>2. \A i \in Inbounds : publishing \notin {i, All}
    BY <1>1, SupervisorOptions DEF All, Quiet
  <2> QED BY <2>1, <2>2 DEF SupervisorInv, InboundTypeOK, Coming
<1>2. CASE publishing # Quiet
  <2>1. publishing \in Events /\ Send(publishing)
    BY <1>2 DEF SupervisorInv, InboundTypeOK, ReloadSucceeds
  <2> QED BY <2>1, SendIsComing DEF SupervisorInv
<1> QED BY <1>1, <1>2

(* What was on its way still is, or is restarted now.                      *)
LEMMA ReceivedIsRestarted ==
  ASSUME SupervisorInv, Receive
  PROVE  /\ queue' \in Seq(Events) /\ Len(queue') <= Capacity /\ target' \subseteq Inbounds
         /\ \A i \in Inbounds : Coming(i) => Coming(i)' \/ i \in target'
<1>1. CASE lagged \/ Head(queue) = All
  <2>1. target' = Inbounds /\ queue' = <<>>
    BY <1>1 DEF Receive
  <2> QED BY <2>1, SupervisorOptions
<1>2. CASE ~(lagged \/ Head(queue) = All)
  <2>1. ~lagged /\ queue # <<>> /\ target' = {Head(queue)} /\ queue' = Tail(queue)
    BY <1>2 DEF Receive
  <2>2. /\ Len(queue) \in Nat \ {0} /\ Head(queue) = queue[1]
        /\ queue[1] \in Events
        /\ queue' \in Seq(Events) /\ Len(queue') = Len(queue) - 1
        /\ \A k \in 1..Len(queue) - 1 : queue'[k] = queue[k + 1]
    BY <2>1 DEF SupervisorInv, InboundTypeOK
  <2>3. Head(queue) \in Inbounds
    BY <1>2, <2>2 DEF Events
  <2>4. ASSUME NEW i \in Inbounds, NEW k \in 1..Len(queue), queue[k] \in {i, All}
        PROVE  Coming(i)' \/ i \in target'
    <3>1. CASE k = 1
      BY <1>2, <2>1, <2>2, <2>4, <3>1
    <3>2. CASE k # 1
      <4>1. k - 1 \in 1..Len(queue') /\ queue'[k - 1] = queue[k]
        BY <2>2, <3>2
      <4> QED BY <2>4, <4>1 DEF Coming
    <3> QED BY <3>1, <3>2
  <2> QED BY <2>1, <2>2, <2>3, <2>4, SupervisorOptions DEF SupervisorInv, InboundTypeOK, Coming
<1> QED BY <1>1, <1>2

(* A commit only makes the record newer.                                   *)
LEMMA CommitInboundKeepsInv ==
  ASSUME SupervisorInv, NEW i \in Inbounds, NEW s \in {"absent", "disabled", "enabled"},
         CommitInbound(i, s)
  PROVE  SupervisorInv'
<1>1. InboundTypeOK'
  <2>1. config[i].version + 1 \in Nat
    BY DEF SupervisorInv, InboundTypeOK, Record
  <2>2. config' \in [Inbounds -> Record]
    BY <2>1 DEF SupervisorInv, InboundTypeOK, Record, CommitInbound
  <2> QED BY <2>2 DEF SupervisorInv, InboundTypeOK, Events, CommitInbound, channel, tasks
<1>2. Entries'
  BY DEF SupervisorInv, CommitInbound, Entries
<1>3. Known'
  BY DEF SupervisorInv, CommitInbound, channel, Known, Coming, Rereading, InboundTypeOK, Record
<1>4. Current'
  BY DEF SupervisorInv, CommitInbound, tasks, Current
<1>5. Bindable'
  BY DEF SupervisorInv, CommitInbound, Bindable
<1>6. Marked'
  BY DEF SupervisorInv, CommitInbound, channel, Marked, Coming, Remarking, Settling,
         Settled, SettledOff, Unreported, Outcomes, tasks
<1>7. Released'
  BY DEF SupervisorInv, CommitInbound, tasks, AbortOwners, Released
<1> QED BY <1>1, <1>2, <1>3, <1>4, <1>5, <1>6, <1>7 DEF SupervisorInv

(* The records only become newer.                                          *)
LEMMA CommitUsersKeepsInv ==
  ASSUME SupervisorInv, CommitUsers
  PROVE  SupervisorInv'
<1>1. InboundTypeOK'
  <2>1. \A i \in Inbounds : [config[i] EXCEPT !.version = @ + 1] \in Record
    <3> TAKE i \in Inbounds
    <3>1. config[i] \in Record
      BY DEF SupervisorInv, InboundTypeOK
    <3> QED BY <3>1 DEF Record
  <2>2. config' \in [Inbounds -> Record]
    BY <2>1 DEF CommitUsers
  <2> QED BY <2>2 DEF SupervisorInv, InboundTypeOK, Events, CommitUsers, channel, tasks
<1>2. Entries'
  BY DEF SupervisorInv, CommitUsers, Entries
<1>3. Known'
  BY DEF SupervisorInv, CommitUsers, channel, Known, Coming, Rereading, InboundTypeOK, Record
<1>4. Current'
  BY DEF SupervisorInv, CommitUsers, tasks, Current
<1>5. Bindable'
  BY DEF SupervisorInv, CommitUsers, Bindable
<1>6. Marked'
  BY DEF SupervisorInv, CommitUsers, channel, Marked, Coming, Remarking, Settling,
         Settled, SettledOff, Unreported, Outcomes, tasks
<1>7. Released'
  BY DEF SupervisorInv, CommitUsers, tasks, AbortOwners, Released
<1> QED BY <1>1, <1>2, <1>3, <1>4, <1>5, <1>6, <1>7 DEF SupervisorInv

(* A plain reload takes the lock and announces nothing.                    *)
LEMMA BeginPlainReloadKeepsInv ==
  ASSUME SupervisorInv, BeginPlainReload
  PROVE  SupervisorInv'
<1>1. InboundTypeOK'
  BY DEF SupervisorInv, BeginPlainReload, channel, tasks, InboundTypeOK
<1>2. Entries'
  BY DEF SupervisorInv, BeginPlainReload, Entries
<1>3. Known'
  BY DEF SupervisorInv, BeginPlainReload, channel, Known, Coming, Rereading
<1>4. Current'
  BY DEF SupervisorInv, BeginPlainReload, tasks, Current
<1>5. Bindable'
  BY DEF SupervisorInv, BeginPlainReload, Bindable
<1>6. Marked'
  BY DEF SupervisorInv, BeginPlainReload, channel, Marked, Coming, Remarking, Settling,
         Settled, SettledOff, Unreported, Outcomes, tasks
<1>7. Released'
  BY DEF SupervisorInv, BeginPlainReload, tasks, AbortOwners, Released
<1> QED BY <1>1, <1>2, <1>3, <1>4, <1>5, <1>6, <1>7 DEF SupervisorInv

(* What becomes announced is in the channel, or the channel has lagged.    *)
LEMMA ReloadSucceedsKeepsInv ==
  ASSUME SupervisorInv, ReloadSucceeds
  PROVE  SupervisorInv'
<1>1. InboundTypeOK'
  <2>1. loaded' \in [Inbounds -> Nat] /\ announced' \in [Inbounds -> Nat]
    BY DEF SupervisorInv, InboundTypeOK, Record, ReloadSucceeds
  <2>2. queue' \in Seq(Events) /\ Len(queue') <= Capacity /\ lagged' \in BOOLEAN
    BY PublishedIsComing
  <2> QED BY <2>1, <2>2 DEF SupervisorInv, InboundTypeOK, ReloadSucceeds, tasks
<1>2. Entries'
  BY DEF SupervisorInv, ReloadSucceeds, Entries
<1>3. Known'
  <2> SUFFICES ASSUME NEW i \in Inbounds
               PROVE  /\ announced'[i] <= config'[i].version
                      /\ served'[i].version >= announced'[i] \/ Coming(i)' \/ Rereading(i)'
    BY DEF Known
  <2>1. CASE publishing \in {i, All}
    <3>1. Coming(i)'
      BY <2>1, PublishedIsComing
    <3>2. announced'[i] = config[i].version /\ config' = config
      BY <2>1 DEF ReloadSucceeds
    <3> QED BY <3>1, <3>2 DEF SupervisorInv, InboundTypeOK, Record
  <2>2. CASE publishing \notin {i, All}
    <3>1. announced'[i] = announced[i] /\ config' = config /\ served' = served
      BY <2>2 DEF ReloadSucceeds
    <3>2. (Coming(i) => Coming(i)') /\ (Rereading(i) => Rereading(i)')
      BY PublishedIsComing DEF Rereading, ReloadSucceeds
    <3> QED BY <3>1, <3>2 DEF SupervisorInv, Known
  <2> QED BY <2>1, <2>2
<1>4. Current'
  BY DEF SupervisorInv, ReloadSucceeds, tasks, Current
<1>5. Bindable'
  BY DEF SupervisorInv, ReloadSucceeds, Bindable
<1>6. Marked'
  BY PublishedIsComing
     DEF SupervisorInv, Marked, Remarking, Settling, Settled, SettledOff, Unreported, Outcomes, tasks, ReloadSucceeds
<1>7. Released'
  BY DEF SupervisorInv, ReloadSucceeds, tasks, AbortOwners, Released
<1> QED BY <1>1, <1>2, <1>3, <1>4, <1>5, <1>6, <1>7 DEF SupervisorInv

(* A failed reload announces nothing.                                      *)
LEMMA ReloadFailsKeepsInv ==
  ASSUME SupervisorInv, ReloadFails
  PROVE  SupervisorInv'
<1>1. InboundTypeOK'
  BY DEF SupervisorInv, ReloadFails, channel, tasks, InboundTypeOK
<1>2. Entries'
  BY DEF SupervisorInv, ReloadFails, Entries
<1>3. Known'
  BY DEF SupervisorInv, ReloadFails, channel, Known, Coming, Rereading
<1>4. Current'
  BY DEF SupervisorInv, ReloadFails, tasks, Current
<1>5. Bindable'
  BY DEF SupervisorInv, ReloadFails, Bindable
<1>6. Marked'
  BY DEF SupervisorInv, ReloadFails, channel, Marked, Coming, Remarking, Settling,
         Settled, SettledOff, Unreported, Outcomes, tasks
<1>7. Released'
  BY DEF SupervisorInv, ReloadFails, tasks, AbortOwners, Released
<1> QED BY <1>1, <1>2, <1>3, <1>4, <1>5, <1>6, <1>7 DEF SupervisorInv

(* A retried inbound is in the channel.                                    *)
LEMMA RetryKeepsInv ==
  ASSUME SupervisorInv, NEW i \in Inbounds, Retry(i)
  PROVE  SupervisorInv'
<1>1. InboundTypeOK'
  <2>1. queue' \in Seq(Events) /\ Len(queue') <= Capacity /\ lagged' \in BOOLEAN
    BY SendIsComing DEF SupervisorInv, Retry, Events
  <2>2. \A j \in Inbounds : status'[j].state \in States
    BY DEF SupervisorInv, InboundTypeOK, Entries, Retry, Blank, States
  <2> QED BY <2>1, <2>2 DEF SupervisorInv, InboundTypeOK, Retry, controller, tasks
<1>2. Entries'
  BY DEF SupervisorInv, Retry, Entries
<1>3. Known'
  <2>1. \A j \in Inbounds : Coming(j) => Coming(j)'
    BY SendIsComing DEF SupervisorInv, Retry, Events
  <2> QED BY <2>1 DEF SupervisorInv, Known, Rereading, Retry, controller
<1>4. Current'
  BY DEF SupervisorInv, Retry, tasks, Current
<1>5. Bindable'
  BY DEF SupervisorInv, Retry, Bindable
<1>6. Marked'
  <2>1. Coming(i)' /\ \A j \in Inbounds : Coming(j) => Coming(j)'
    BY SendIsComing DEF SupervisorInv, Retry, Events
  <2>2. \A j \in Inbounds \ {i} : status'[j] = status[j]
    BY DEF SupervisorInv, Entries, Retry
  <2> QED BY <2>1, <2>2 DEF SupervisorInv, Marked, Remarking, Settling, Settled, SettledOff, Unreported, Outcomes, tasks, Retry
<1>7. Released'
  BY DEF SupervisorInv, Retry, tasks, AbortOwners, Released
<1> QED BY <1>1, <1>2, <1>3, <1>4, <1>5, <1>6, <1>7 DEF SupervisorInv

(* The received event is taken off the channel and its inbounds are        *)
(* restarted.                                                              *)
LEMMA ReceiveKeepsInv ==
  ASSUME SupervisorInv, Receive
  PROVE  SupervisorInv'
<1>1. InboundTypeOK'
  <2>1. queue' \in Seq(Events) /\ Len(queue') <= Capacity /\ target' \subseteq Inbounds
    BY ReceivedIsRestarted
  <2> QED BY <2>1 DEF SupervisorInv, InboundTypeOK, Receive, controller, tasks
<1>2. Entries'
  BY DEF SupervisorInv, Receive, Entries
<1>3. Known'
  BY ReceivedIsRestarted DEF SupervisorInv, Known, Rereading, Receive, controller
<1>4. Current'
  BY DEF SupervisorInv, Receive, tasks, Current
<1>5. Bindable'
  BY DEF SupervisorInv, Receive, Bindable
<1>6. Marked'
  BY ReceivedIsRestarted DEF SupervisorInv, Marked, Remarking, Settling, Settled, SettledOff, Unreported, Outcomes, tasks, Receive
<1>7. Released'
  BY DEF SupervisorInv, Receive, tasks, AbortOwners, Released
<1> QED BY <1>1, <1>2, <1>3, <1>4, <1>5, <1>6, <1>7 DEF SupervisorInv

(* The sockets of the inbounds being restarted are closed.                 *)
LEMMA AbortKeepsInv ==
  ASSUME SupervisorInv, Abort
  PROVE  SupervisorInv'
<1>1. InboundTypeOK'
  <2>1. open' \subseteq open /\ owned' \subseteq Inbounds
    BY DEF SupervisorInv, InboundTypeOK, Abort, AbortOwners
  <2>2. closing' \subseteq Inbounds \X Ports
    BY DEF SupervisorInv, InboundTypeOK, Abort, AbortOwners
  <2>3. \A i \in Inbounds : status'[i].state \in States
    BY DEF SupervisorInv, InboundTypeOK, Abort, AbortOwners, Stopping, States
  <2>4. spawned' \subseteq spawned /\ late' \subseteq Transparent \X Ports
    BY DEF SupervisorInv, InboundTypeOK, Abort, AbortOwners
  <2> QED BY <2>1, <2>2, <2>3, <2>4 DEF SupervisorInv, InboundTypeOK, Abort, controller, channel
<1>2. Entries'
  BY DEF SupervisorInv, Abort, AbortOwners, Entries
<1>3. Known'
  BY DEF SupervisorInv, Abort, controller, channel, Known, Coming, Rereading
<1>4. Current'
  BY DEF SupervisorInv, Abort, AbortOwners, Current
<1>5. Bindable'
  BY DEF SupervisorInv, Abort, Bindable
<1>6. Marked'
  BY DEF SupervisorInv, Abort, channel, AbortOwners, Marked, Coming, Remarking, Settling,
         Settled, SettledOff, Unreported, Outcomes, tasks
<1>7. Released'
  BY DEF SupervisorInv, Abort, tasks, AbortOwners, Released
<1> QED BY <1>1, <1>2, <1>3, <1>4, <1>5, <1>6, <1>7 DEF SupervisorInv

(* A socket of an aborted task is nobody's listener any more.              *)
LEMMA SocketDroppedKeepsInv ==
  ASSUME SupervisorInv, NEW x \in closing, SocketDropped(x)
  PROVE  SupervisorInv'
<1>1. InboundTypeOK'
  BY DEF SupervisorInv, SocketDropped, controller, channel, InboundTypeOK
<1>2. Entries'
  BY DEF SupervisorInv, SocketDropped, Entries
<1>3. Known'
  BY DEF SupervisorInv, SocketDropped, controller, channel, Known, Coming, Rereading
<1>4. Current'
  BY DEF SupervisorInv, SocketDropped, Current
<1>5. Bindable'
  BY DEF SupervisorInv, SocketDropped, Bindable
<1>6. Marked'
  BY DEF SupervisorInv, SocketDropped, channel, Marked, Coming, Remarking, Settling,
         Settled, SettledOff, Unreported, Outcomes, tasks
<1>7. Released'
  BY DEF SupervisorInv, SocketDropped, tasks, AbortOwners, Released
<1> QED BY <1>1, <1>2, <1>3, <1>4, <1>5, <1>6, <1>7 DEF SupervisorInv

(* The records that are read are as new as any announcement.               *)
LEMMA ReadRecordsKeepsInv ==
  ASSUME SupervisorInv, ReadRecords
  PROVE  SupervisorInv'
<1>1. InboundTypeOK'
  BY DEF SupervisorInv, ReadRecords, controller, channel, tasks, InboundTypeOK
<1>2. Entries'
  BY DEF SupervisorInv, ReadRecords, Entries
<1>3. Known'
  BY DEF SupervisorInv, ReadRecords, controller, channel, Known, Coming, Rereading
<1>4. Current'
  <2> SUFFICES ASSUME NEW x \in open \cup spawned
               PROVE  x[3] = served'[x[1]].version /\ served'[x[1]].state = "enabled" /\ x[1] \notin target
    BY DEF ReadRecords, tasks, Current
  <2>1. x[1] \in Inbounds
    BY SupervisorOptions DEF SupervisorInv, InboundTypeOK
  <2>2. x[1] \notin target /\ x[3] = served[x[1]].version /\ served[x[1]].state = "enabled"
    BY DEF SupervisorInv, ReadRecords, Current
  <2> QED BY <2>1, <2>2 DEF ReadRecords
<1>5. Bindable'
  BY DEF SupervisorInv, ReadRecords, Bindable
<1>6. Marked'
  BY DEF SupervisorInv, ReadRecords, channel, Marked, Coming, Remarking, Settling,
         Settled, SettledOff, Unreported, Outcomes, tasks
<1>7. Released'
  BY DEF SupervisorInv, ReadRecords, tasks, AbortOwners, Released
<1> QED BY <1>1, <1>2, <1>3, <1>4, <1>5, <1>6, <1>7 DEF SupervisorInv

(* Only enabled inbounds are bound.                                        *)
LEMMA MarkStartingKeepsInv ==
  ASSUME SupervisorInv, MarkStarting
  PROVE  SupervisorInv'
<1>1. InboundTypeOK'
  BY DEF SupervisorInv, MarkStarting, controller, channel, tasks, Blank, InboundTypeOK, States
<1>2. Entries'
  BY DEF SupervisorInv, MarkStarting, Entries
<1>3. Known'
  BY DEF SupervisorInv, MarkStarting, controller, channel, Known, Coming, Rereading
<1>4. Current'
  BY DEF SupervisorInv, MarkStarting, tasks, Current
<1>5. Bindable'
  BY DEF SupervisorInv, MarkStarting, Bindable
<1>6. Marked'
  <2> SUFFICES ASSUME NEW i \in Inbounds
               PROVE  \/ stage' = "stopped" \/ Coming(i)' \/ Remarking(i)'
                      \/ Settling(i)' \/ Settled(i)'
    BY DEF Marked
  <2>1. Unreported(i)' <=> Unreported(i)
    BY DEF MarkStarting, tasks, Unreported
  <2>2. CASE i \in target
    <3>1. i \in Transparent => Unreported(i)
      BY <2>2 DEF SupervisorInv, MarkStarting, Released, Unreported
    <3>2. stage' = "bind" /\ i \in target' /\ served' = served
      BY <2>2 DEF MarkStarting
    <3>3. served[i].state = "enabled" => status'[i].state = "starting"
      BY <2>2 DEF MarkStarting, Blank
    <3>4. served[i].state = "disabled" => status'[i].state = "disabled"
      BY <2>2 DEF MarkStarting, Blank
    <3> QED BY <2>1, <3>1, <3>2, <3>3, <3>4 DEF Settling, SettledOff
  <2>3. CASE i \notin target
    <3>1. status'[i] = status[i] /\ served' = served /\ UNCHANGED channel
      BY <2>3 DEF MarkStarting
    <3>2. SettledOff(i) => SettledOff(i)'
      BY <3>1 DEF SettledOff
    <3>3. Coming(i) \/ Settled(i)
      BY <2>3 DEF SupervisorInv, Marked, MarkStarting, Remarking, Settling
    <3> QED BY <2>1, <3>1, <3>2, <3>3 DEF channel, Coming, Settled
  <2> QED BY <2>2, <2>3
<1>7. Released'
  BY DEF SupervisorInv, MarkStarting, tasks, AbortOwners, Released
<1> QED BY <1>1, <1>2, <1>3, <1>4, <1>5, <1>6, <1>7 DEF SupervisorInv

(* A stopped supervisor has no more listeners than before.                 *)
LEMMA StartFailsKeepsInv ==
  ASSUME SupervisorInv, StartFails
  PROVE  SupervisorInv'
<1>1. InboundTypeOK'
  <2>1. open' \subseteq open /\ owned' \subseteq Inbounds
    BY DEF SupervisorInv, InboundTypeOK, StartFails, AbortOwners
  <2>2. closing' \subseteq Inbounds \X Ports
    BY DEF SupervisorInv, InboundTypeOK, StartFails, AbortOwners
  <2>3. \A i \in Inbounds : status'[i].state \in States
    BY DEF SupervisorInv, InboundTypeOK, StartFails, AbortOwners, Stopping, States
  <2>4. spawned' \subseteq spawned /\ late' \subseteq Transparent \X Ports
    BY DEF SupervisorInv, InboundTypeOK, StartFails, AbortOwners
  <2> QED BY <2>1, <2>2, <2>3, <2>4 DEF SupervisorInv, InboundTypeOK, StartFails, controller, channel
<1>2. Entries'
  BY DEF SupervisorInv, StartFails, AbortOwners, Entries
<1>3. Known'
  BY DEF SupervisorInv, StartFails, controller, channel, Known, Coming, Rereading
<1>4. Current'
  BY DEF SupervisorInv, StartFails, AbortOwners, Current
<1>5. Bindable'
  BY DEF SupervisorInv, StartFails, Bindable
<1>6. Marked'
  BY DEF SupervisorInv, StartFails, Marked
<1>7. Released'
  BY DEF SupervisorInv, StartFails, tasks, AbortOwners, Released
<1> QED BY <1>1, <1>2, <1>3, <1>4, <1>5, <1>6, <1>7 DEF SupervisorInv

(* A new socket is of the record last read.                                *)
LEMMA BindKeepsInv ==
  ASSUME SupervisorInv, NEW i \in Inbounds, NEW p \in Ports, Bind(i, p)
  PROVE  SupervisorInv'
<1>1. InboundTypeOK'
  <2>1. open' \subseteq Inbounds \X Ports \X Nat
    BY DEF SupervisorInv, InboundTypeOK, Record, Bind
  <2>2. \A j \in Inbounds : status'[j].state \in States
    BY DEF SupervisorInv, InboundTypeOK, Entries, Bind, Ready, States
  <2> QED BY <2>1, <2>2 DEF SupervisorInv, InboundTypeOK, Bind, controller, channel
<1>2. Entries'
  BY DEF SupervisorInv, Bind, Entries
<1>3. Known'
  BY DEF SupervisorInv, Bind, controller, channel, Known, Coming, Rereading
<1>4. Current'
  BY DEF SupervisorInv, Bind, Current, Bindable
<1>5. Bindable'
  BY DEF SupervisorInv, Bind, Bindable
<1>6. Marked'
  BY DEF SupervisorInv, Bind, channel, Ready, Marked, Coming, Remarking, Settling,
         Settled, SettledOff, Unreported, Outcomes, tasks, Bindable
<1>7. Released'
  BY DEF SupervisorInv, Bind, tasks, AbortOwners, Released
<1> QED BY <1>1, <1>2, <1>3, <1>4, <1>5, <1>6, <1>7 DEF SupervisorInv

(* A failed bind opens nothing and marks the inbound failed or degraded.   *)
LEMMA BindFailsKeepsInv ==
  ASSUME SupervisorInv, NEW i \in Inbounds, NEW p \in Ports, BindFails(i, p)
  PROVE  SupervisorInv'
<1>1. InboundTypeOK'
  <2>1. \A j \in Inbounds : status'[j].state \in States
    BY DEF SupervisorInv, InboundTypeOK, Entries, BindFails, Failed, States
  <2> QED BY <2>1 DEF SupervisorInv, InboundTypeOK, BindFails, controller, channel, tasks
<1>2. Entries'
  BY DEF SupervisorInv, BindFails, Entries
<1>3. Known'
  BY DEF SupervisorInv, BindFails, controller, channel, Known, Coming, Rereading
<1>4. Current'
  BY DEF SupervisorInv, BindFails, tasks, Current
<1>5. Bindable'
  BY DEF SupervisorInv, BindFails, Bindable
<1>6. Marked'
  BY DEF SupervisorInv, BindFails, channel, Failed, Marked, Coming, Remarking, Settling,
         Settled, SettledOff, Unreported, Outcomes, tasks, Bindable
<1>7. Released'
  BY DEF SupervisorInv, BindFails, tasks, AbortOwners, Released
<1> QED BY <1>1, <1>2, <1>3, <1>4, <1>5, <1>6, <1>7 DEF SupervisorInv

(* A skipped inbound stays unbound until the start ends.                   *)
LEMMA SkipInboundKeepsInv ==
  ASSUME SupervisorInv, NEW i \in Inbounds, SkipInbound(i)
  PROVE  SupervisorInv'
<1>1. InboundTypeOK'
  BY DEF SupervisorInv, SkipInbound, controller, channel, tasks, InboundTypeOK
<1>2. Entries'
  BY DEF SupervisorInv, SkipInbound, Entries
<1>3. Known'
  BY DEF SupervisorInv, SkipInbound, controller, channel, Known, Coming, Rereading
<1>4. Current'
  BY DEF SupervisorInv, SkipInbound, tasks, Current
<1>5. Bindable'
  BY DEF SupervisorInv, SkipInbound, Bindable
<1>6. Marked'
  BY DEF SupervisorInv, SkipInbound, channel, Marked, Coming, Remarking, Settling,
         Settled, SettledOff, Unreported, Outcomes, tasks
<1>7. Released'
  BY DEF SupervisorInv, SkipInbound, tasks, AbortOwners, Released
<1> QED BY <1>1, <1>2, <1>3, <1>4, <1>5, <1>6, <1>7 DEF SupervisorInv

(* The tasks of a transparent inbound are of the record last read, and     *)
(* none of them has reported.                                              *)
LEMMA SpawnTransparentKeepsInv ==
  ASSUME SupervisorInv, NEW i \in Inbounds, SpawnTransparent(i)
  PROVE  SupervisorInv'
<1> DEFINE T == {<<i, p, served[i].version>> : p \in Transports[i]}
<1>1. /\ i \in target /\ i \in Transparent /\ stage = "bind"
      /\ Transports[i] \subseteq Ports /\ Transports[i] # {}
      /\ served[i].state = "enabled" /\ served[i].version \in Nat
  <2>1. /\ i \in target /\ i \in Transparent /\ stage = "bind"
        /\ Transports[i] # {} /\ \A p \in Transports[i] : <<i, p>> \in binding
    BY DEF SpawnTransparent, Untouched
  <2>2. PICK p \in Transports[i] : <<i, p>> \in binding
    BY <2>1
  <2>3. served[<<i, p>>[1]].state = "enabled"
    BY <2>1, <2>2 DEF SupervisorInv, Bindable
  <2>4. Transports[i] \subseteq Ports /\ served[i].version \in Nat
    BY SupervisorOptions DEF SupervisorInv, InboundTypeOK, Record
  <2> QED BY <2>1, <2>3, <2>4
<1>2. /\ spawned' = spawned \cup T /\ owned' = owned \cup {i}
      /\ binding' \subseteq binding
      /\ UNCHANGED <<controller, channel, stage, target, served, open, closing, late, status>>
  BY DEF SpawnTransparent
<1>3. \A x \in T : x \in Transparent \X Ports \X Nat /\ x[1] = i /\ x[3] = served[i].version
  BY <1>1
<1>4. \E x \in T : x[1] = i
  <2>1. PICK p \in Transports[i] : TRUE
    BY <1>1
  <2>2. <<i, p, served[i].version>> \in T
    BY <2>1
  <2> QED BY <2>2
<1> HIDE DEF T
<1>5. InboundTypeOK'
  BY <1>2, <1>3 DEF SupervisorInv, InboundTypeOK, controller, channel
<1>6. Entries'
  BY <1>2 DEF SupervisorInv, Entries
<1>7. Known'
  BY <1>2 DEF SupervisorInv, controller, channel, Known, Coming, Rereading
<1>8. Current'
  BY <1>1, <1>2, <1>3 DEF SupervisorInv, Current
<1>9. Bindable' /\ Released'
  BY <1>1, <1>2 DEF SupervisorInv, Bindable, Released
<1>10. Marked'
  <2>1. \A j \in Inbounds : Unreported(j) => Unreported(j)'
    BY <1>2, <1>4 DEF Unreported
  <2>2. \A j \in Inbounds : SettledOff(j) => SettledOff(j)'
    BY <1>2 DEF SettledOff
  <2> QED BY <1>2, <2>1, <2>2
          DEF SupervisorInv, channel, Marked, Coming, Remarking, Settling, Settled
<1> QED BY <1>5, <1>6, <1>7, <1>8, <1>9, <1>10 DEF SupervisorInv

(* A report settles the status of an enabled inbound, and of any           *)
(* transparent one.                                                        *)
LEMMA ReportKeepsMarked ==
  ASSUME SupervisorInv, NEW i \in Transparent,
         UNCHANGED <<stage, target, served, channel>>,
         Entries', \A j \in Inbounds : j # i => status'[j] = status[j],
         status'[i].state \in Outcomes,
         \A j \in Inbounds : j # i /\ Unreported(j) => Unreported(j)'
  PROVE  Marked'
<1>1. i \in Inbounds
  BY SupervisorOptions
<1> SUFFICES ASSUME NEW j \in Inbounds
             PROVE  \/ stage' = "stopped" \/ Coming(j)' \/ Remarking(j)'
                    \/ Settling(j)' \/ Settled(j)'
  BY DEF Marked
<1>2. CASE j = i
  BY <1>2 DEF Settled, SettledOff
<1>3. CASE j # i
  <2>1. status'[j] = status[j] /\ (Unreported(j) => Unreported(j)')
    BY <1>3
  <2>2. SettledOff(j) => SettledOff(j)'
    BY <2>1 DEF SettledOff
  <2> QED BY <2>1, <2>2 DEF SupervisorInv, Marked, channel, Coming, Remarking, Settling, Settled
<1> QED BY <1>2, <1>3

(* A task of a transparent inbound binds or fails, and says so.            *)
LEMMA TaskReportsKeepsInv ==
  ASSUME SupervisorInv, NEW x \in spawned, TaskBinds(x) \/ TaskFails(x)
  PROVE  SupervisorInv'
<1> DEFINE i == x[1]
           p == x[2]
           e == IF TaskBinds(x) THEN Ready(status[i], p) ELSE Failed(status[i], p)
<1>1. i \in Transparent /\ i \in Inbounds /\ x \in Inbounds \X Ports \X Nat
  BY SupervisorOptions DEF SupervisorInv, InboundTypeOK
<1>2. /\ UNCHANGED <<controller, channel, stage, target, served, binding, owned, closing, late>>
      /\ spawned' = spawned \ {x} /\ (open' = open \/ open' = open \cup {x})
      /\ status' = [status EXCEPT ![i] = e]
  BY DEF TaskBinds, TaskFails
<1>3. e.state \in Outcomes
  BY DEF Ready, Failed, Outcomes
<1> HIDE DEF e
<1>4. Entries' /\ status'[i] = e /\ \A j \in Inbounds : j # i => status'[j] = status[j]
  BY <1>1, <1>2 DEF SupervisorInv, Entries
<1>5. InboundTypeOK'
  <2>1. \A j \in Inbounds : status'[j].state \in States
    BY <1>3, <1>4 DEF SupervisorInv, InboundTypeOK, States, Outcomes
  <2> QED BY <1>1, <1>2, <2>1 DEF SupervisorInv, InboundTypeOK, controller, channel
<1>6. Known'
  BY <1>2 DEF SupervisorInv, controller, channel, Known, Coming, Rereading
<1>7. Current'
  BY <1>2 DEF SupervisorInv, Current
<1>8. Bindable' /\ Released'
  BY <1>2 DEF SupervisorInv, Bindable, Released
<1>9. Marked'
  <2>1. \A j \in Inbounds : j # i /\ Unreported(j) => Unreported(j)'
    BY <1>2 DEF Unreported
  <2> QED BY <1>1, <1>2, <1>3, <1>4, <2>1, ReportKeepsMarked
<1> QED BY <1>4, <1>5, <1>6, <1>7, <1>8, <1>9 DEF SupervisorInv

(* A late report settles what it finds, too.                               *)
LEMMA LateTaskEndsKeepsInv ==
  ASSUME SupervisorInv, NEW x \in late, LateTaskEnds(x)
  PROVE  SupervisorInv'
<1> DEFINE i == x[1]
           p == x[2]
<1>1. i \in Transparent /\ i \in Inbounds /\ x \in Inbounds \X Ports
  BY SupervisorOptions DEF SupervisorInv, InboundTypeOK
<1>2. /\ UNCHANGED <<controller, channel, stage, target, served, binding, owned, open, spawned>>
      /\ late' \subseteq late /\ (closing' = closing \/ closing' = closing \cup {x})
      /\ \/ status' = status
         \/ status' = [status EXCEPT ![i] = Ready(status[i], p)]
         \/ status' = [status EXCEPT ![i] = Failed(status[i], p)]
  BY DEF LateTaskEnds
<1>3. Ready(status[i], p).state \in Outcomes /\ Failed(status[i], p).state \in Outcomes
  BY DEF Ready, Failed, Outcomes
<1>4. /\ Entries' /\ \A j \in Inbounds : j # i => status'[j] = status[j]
      /\ status' = status \/ status'[i].state \in Outcomes
  BY <1>1, <1>2, <1>3 DEF SupervisorInv, Entries
<1>5. InboundTypeOK'
  <2>1. \A j \in Inbounds : status'[j].state \in States
    BY <1>4 DEF SupervisorInv, InboundTypeOK, States, Outcomes
  <2> QED BY <1>1, <1>2, <2>1 DEF SupervisorInv, InboundTypeOK, controller, channel
<1>6. Known'
  BY <1>2 DEF SupervisorInv, controller, channel, Known, Coming, Rereading
<1>7. Current'
  BY <1>2 DEF SupervisorInv, Current
<1>8. Bindable' /\ Released'
  BY <1>2 DEF SupervisorInv, Bindable, Released
<1>9. Marked'
  <2>1. \A j \in Inbounds : Unreported(j) => Unreported(j)'
    BY <1>2 DEF Unreported
  <2>2. CASE status' = status
    <3>1. \A j \in Inbounds : SettledOff(j) => SettledOff(j)'
      BY <1>2, <2>2 DEF SettledOff
    <3> QED BY <1>2, <2>1, <2>2, <3>1
            DEF SupervisorInv, channel, Marked, Coming, Remarking, Settling, Settled
  <2>3. CASE status'[i].state \in Outcomes
    BY <1>1, <1>2, <1>4, <2>1, <2>3, ReportKeepsMarked
  <2> QED BY <1>4, <2>2, <2>3
<1> QED BY <1>4, <1>5, <1>6, <1>7, <1>8, <1>9 DEF SupervisorInv

(* The end of a start settles the status of every restarted inbound that   *)
(* is not transparent.                                                     *)
LEMMA FinishStartKeepsInv ==
  ASSUME SupervisorInv, FinishStart
  PROVE  SupervisorInv'
<1>1. InboundTypeOK'
  BY DEF SupervisorInv, FinishStart, controller, channel, tasks, Started, Ready, Failed,
         InboundTypeOK, States
<1>2. Entries'
  BY DEF SupervisorInv, FinishStart, Entries
<1>3. Known'
  BY DEF SupervisorInv, FinishStart, controller, channel, Known, Coming, Rereading
<1>4. Current'
  BY DEF SupervisorInv, FinishStart, tasks, Current
<1>5. Bindable'
  BY DEF SupervisorInv, FinishStart, Bindable
<1>6. Marked'
  BY DEF SupervisorInv, FinishStart, channel, Started, Ready, Failed, Marked, Coming,
         Remarking, Settling, Settled, SettledOff, Unreported, Outcomes, tasks
<1>7. Released'
  BY DEF SupervisorInv, FinishStart, tasks, AbortOwners, Released
<1> QED BY <1>1, <1>2, <1>3, <1>4, <1>5, <1>6, <1>7 DEF SupervisorInv

(* A dead listener leaves a settled status settled.                        *)
LEMMA ListenerDiesKeepsInv ==
  ASSUME SupervisorInv, NEW x \in open, ListenerDies(x)
  PROVE  SupervisorInv'
<1>1. InboundTypeOK'
  <2>1. x[1] \in Inbounds
    BY DEF SupervisorInv, InboundTypeOK
  <2>2. \A j \in Inbounds : status'[j].state \in States
    BY <2>1 DEF SupervisorInv, InboundTypeOK, Entries, ListenerDies, Failed, States
  <2> QED BY <2>2 DEF SupervisorInv, InboundTypeOK, ListenerDies, controller, channel
<1>2. Entries'
  BY DEF SupervisorInv, ListenerDies, Entries
<1>3. Known'
  BY DEF SupervisorInv, ListenerDies, controller, channel, Known, Coming, Rereading
<1>4. Current'
  BY DEF SupervisorInv, ListenerDies, Current
<1>5. Bindable'
  BY DEF SupervisorInv, ListenerDies, Bindable
<1>6. Marked'
  BY DEF SupervisorInv, ListenerDies, channel, Failed, Marked, Coming, Remarking,
         Settling, Settled, SettledOff, Unreported, Outcomes, tasks, Current
<1>7. Released'
  BY DEF SupervisorInv, ListenerDies, tasks, AbortOwners, Released
<1> QED BY <1>1, <1>2, <1>3, <1>4, <1>5, <1>6, <1>7 DEF SupervisorInv

(* A stopped supervisor has no more listeners than before.                 *)
LEMMA ShutdownKeepsInv ==
  ASSUME SupervisorInv, Shutdown
  PROVE  SupervisorInv'
<1>1. InboundTypeOK'
  <2>1. open' \subseteq open /\ owned' \subseteq Inbounds
    BY DEF SupervisorInv, InboundTypeOK, Shutdown, AbortOwners
  <2>2. closing' \subseteq Inbounds \X Ports
    BY DEF SupervisorInv, InboundTypeOK, Shutdown, AbortOwners
  <2>3. \A i \in Inbounds : status'[i].state \in States
    BY DEF SupervisorInv, InboundTypeOK, Shutdown, AbortOwners, Stopping, States
  <2>4. spawned' \subseteq spawned /\ late' \subseteq Transparent \X Ports
    BY DEF SupervisorInv, InboundTypeOK, Shutdown, AbortOwners
  <2> QED BY <2>1, <2>2, <2>3, <2>4 DEF SupervisorInv, InboundTypeOK, Shutdown, controller, channel
<1>2. Entries'
  BY DEF SupervisorInv, Shutdown, AbortOwners, Entries
<1>3. Known'
  BY DEF SupervisorInv, Shutdown, controller, channel, Known, Coming, Rereading
<1>4. Current'
  BY DEF SupervisorInv, Shutdown, AbortOwners, Current
<1>5. Bindable'
  BY DEF SupervisorInv, Shutdown, Bindable
<1>6. Marked'
  BY DEF SupervisorInv, Shutdown, Marked
<1>7. Released'
  BY DEF SupervisorInv, Shutdown, tasks, AbortOwners, Released
<1> QED BY <1>1, <1>2, <1>3, <1>4, <1>5, <1>6, <1>7 DEF SupervisorInv

(* A stuttering step keeps the invariant.                                  *)
LEMMA StutterKeepsSupervisorInv ==
  ASSUME SupervisorInv, UNCHANGED inboundVars
  PROVE  SupervisorInv'
<1>1. InboundTypeOK'
  BY DEF SupervisorInv, inboundVars, controller, channel, tasks, InboundTypeOK
<1>2. Entries'
  BY DEF SupervisorInv, inboundVars, Entries
<1>3. Known'
  BY DEF SupervisorInv, inboundVars, controller, channel, Known, Coming, Rereading
<1>4. Current'
  BY DEF SupervisorInv, inboundVars, tasks, Current
<1>5. Bindable'
  BY DEF SupervisorInv, inboundVars, Bindable
<1>6. Marked'
  BY DEF SupervisorInv, inboundVars, channel, Marked, Coming, Remarking, Settling, Settled, SettledOff, Unreported, Outcomes, tasks
<1>7. Released'
  BY DEF SupervisorInv, inboundVars, tasks, AbortOwners, Released
<1> QED BY <1>1, <1>2, <1>3, <1>4, <1>5, <1>6, <1>7 DEF SupervisorInv

(* The supervisor starts by restarting every inbound.                      *)
LEMMA InitEstablishesSupervisorInv == InboundInit => SupervisorInv
<1> SUFFICES ASSUME InboundInit PROVE SupervisorInv
  OBVIOUS
<1>1. InboundTypeOK
  <2>1. config \in [Inbounds -> Record] /\ served \in [Inbounds -> Record]
    BY DEF InboundInit, Record
  <2>2. queue \in Seq(Events) /\ Len(queue) <= Capacity
    BY SupervisorOptions DEF InboundInit
  <2>3. \A i \in Inbounds : status[i].state \in States
    BY DEF InboundInit, Blank, States
  <2>4. loaded \in [Inbounds -> Nat] /\ announced \in [Inbounds -> Nat]
    BY DEF InboundInit
  <2> QED BY <2>1, <2>2, <2>3, <2>4 DEF InboundInit, InboundTypeOK
<1>2. Entries
  BY DEF InboundInit, Entries
<1>3. \A i \in Inbounds : config[i].version = 0 /\ announced[i] = 0 /\ served[i].version = 0
  BY DEF InboundInit
<1>4. Known
  BY <1>3 DEF Known
<1> QED BY <1>1, <1>2, <1>4 DEF InboundInit, SupervisorInv, Current, Released, Bindable, Marked, Remarking

(* Every step keeps the invariant.                                         *)
LEMMA StepKeepsSupervisorInv ==
  ASSUME SupervisorInv, [InboundNext]_inboundVars
  PROVE  SupervisorInv'
<1>1. CASE Supervise
  BY <1>1, ReceiveKeepsInv, AbortKeepsInv, ReadRecordsKeepsInv, MarkStartingKeepsInv,
     StartFailsKeepsInv, FinishStartKeepsInv, SkipInboundKeepsInv, SpawnTransparentKeepsInv, BindKeepsInv,
     BindFailsKeepsInv DEF Supervise
<1>2. CASE EndReload
  BY <1>2, ReloadSucceedsKeepsInv, ReloadFailsKeepsInv DEF EndReload
<1>3. ASSUME NEW i \in Inbounds,
             (\E s \in {"absent", "disabled", "enabled"} : CommitInbound(i, s)) \/ Retry(i)
      PROVE  SupervisorInv'
  BY <1>3, CommitInboundKeepsInv, RetryKeepsInv
<1>4. CASE CommitUsers \/ BeginPlainReload \/ Shutdown
  BY <1>4, CommitUsersKeepsInv, BeginPlainReloadKeepsInv, ShutdownKeepsInv
<1>5. ASSUME NEW x \in open, ListenerDies(x) PROVE SupervisorInv'
  BY <1>5, ListenerDiesKeepsInv
<1>6. ASSUME NEW x \in closing, SocketDropped(x) PROVE SupervisorInv'
  BY <1>6, SocketDroppedKeepsInv
<1>7. ASSUME NEW x \in spawned, TaskBinds(x) \/ TaskFails(x) PROVE SupervisorInv'
  BY <1>7, TaskReportsKeepsInv
<1>8. ASSUME NEW x \in late, LateTaskEnds(x) PROVE SupervisorInv'
  BY <1>8, LateTaskEndsKeepsInv
<1>9. CASE UNCHANGED inboundVars
  BY <1>9, StutterKeepsSupervisorInv
<1> QED BY <1>1, <1>2, <1>3, <1>4, <1>5, <1>6, <1>7, <1>8, <1>9 DEF InboundNext

(* SupervisorInv is an invariant of the supervisor.                                  *)
LEMMA SupervisorInvHolds == InboundSpec => []SupervisorInv
<1>1. InboundInit => SupervisorInv
  BY InitEstablishesSupervisorInv
<1>2. SupervisorInv /\ [InboundNext]_inboundVars => SupervisorInv'
  BY StepKeepsSupervisorInv
<1> QED BY <1>1, <1>2, PTL DEF InboundSpec

-----------------------------------------------------------------------------
(* Type correctness; in particular the channel never exceeds its capacity. *)
THEOREM SupervisorTypeCorrect == InboundSpec => []InboundTypeOK
<1>1. SupervisorInv => InboundTypeOK
  BY DEF SupervisorInv
<1> QED BY <1>1, SupervisorInvHolds, PTL

(* A supervisor at rest has started every inbound from a record at least   *)
(* as new as its last announcement, for any capacity of the channel.       *)
THEOREM AnnouncementsAreServed == InboundSpec => []AnnouncedIsServed
<1>1. SupervisorInv => AnnouncedIsServed
  BY DEF SupervisorInv, Known, Coming, Rereading, AnnouncedIsServed, AtRest
<1> QED BY <1>1, SupervisorInvHolds, PTL

(* Between restarts every open socket is of the record last read, of an    *)
(* inbound that is enabled.                                                *)
THEOREM AlwaysOneGeneration == InboundSpec => []OneGeneration
<1>1. SupervisorInv => OneGeneration
  BY DEF SupervisorInv, Current, OneGeneration
<1> QED BY <1>1, SupervisorInvHolds, PTL

(* At rest the status of an inbound is never "stopping", and "starting"    *)
(* only for a transparent one with no task that has reported: its tasks    *)
(* have yet to bind, or it was skipped (listeners.rs, deferred_socket_ids). *)
THEOREM StatusAlwaysSettles == InboundSpec => []StatusSettles
<1>1. SupervisorInv => StatusSettles
  BY DEF SupervisorInv, Marked, Coming, Remarking, Settling, Settled, SettledOff, StatusSettles,
         AtRest
<1> QED BY <1>1, SupervisorInvHolds, PTL

(* A restart ends with the listeners of the record that was read and a     *)
(* settled status, the transparent inbounds that have not reported         *)
(* excepted.                                                               *)
THEOREM ListenersAlwaysSettle == InboundSpec => []ListenersSettle
<1> QED BY AlwaysOneGeneration, StatusAlwaysSettles, PTL DEF ListenersSettle
=============================================================================
