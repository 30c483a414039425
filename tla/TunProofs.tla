----------------------------- MODULE TunProofs -----------------------------
(***************************************************************************)
(* What the NAT table keeps for every set of networks, sources,            *)
(* destinations and endpoints, every idle timeout and any number of calls; *)
(* and what the loop task of the TUN device keeps about its TCP, UDP and   *)
(* echo flows, for any number of flows, any capacity of the channels and   *)
(* of the sockets, and any number of connections and bytes.                *)
(***************************************************************************)
EXTENDS NatRelay, TunTcp, TunUdp, SumProofs, SequenceTheorems, TLAPS

(* The state of the counters and the two indexes, all that the operations  *)
(* preserve together.                                                      *)
Inv ==
  /\ TableShape
  /\ IsFiniteSet(DOMAIN entries)
  /\ IndexesAgree
  /\ NoIdleBinding
  /\ LifecycleConserved

counters == <<allocations, expired_bindings, explicit_closes>>

-----------------------------------------------------------------------------
(* NatState::remove_binding keeps the table's shape and the agreement of   *)
(* the indexes, whatever set of bindings it is called for, and takes no    *)
(* endpoint from a binding that stays.                                     *)
LEMMA RemoveBindingsKeepsIndexes ==
  ASSUME Inv, NEW K \in SUBSET DOMAIN entries, RemoveBindings(K),
         now' = now, allocations' \in Nat, expired_bindings' \in Nat,
         explicit_closes' \in Nat
  PROVE  TableShape' /\ IndexesAgree' /\ NoIdleBinding' /\ OwnerKept
<1> USE DEF Inv, RemoveBindings, Drop, Restrict
<1>1. TableShape'
  BY DEF TableShape
<1>2. IndexesAgree'
  BY DEF TableShape, IndexesAgree, EndpointOf
<1>3. NoIdleBinding' /\ OwnerKept
  BY DEF NoIdleBinding, OwnerKept, TableShape
<1> QED BY <1>1, <1>2, <1>3

(* Bindings that expire are taken from the live ones and added to the      *)
(* expired ones, as often as there are keys.                               *)
LEMMA ExpireKeepsInv ==
  ASSUME Inv, NEW K \in SUBSET DOMAIN entries, Expire(K)
  PROVE  Inv' /\ OwnerKept
<1>1. /\ IsFiniteSet(K) /\ Cardinality(K) \in Nat
      /\ IsFiniteSet(DOMAIN entries \ K)
      /\ Cardinality(DOMAIN entries) \in Nat
      /\ Cardinality(DOMAIN entries \ K) = Cardinality(DOMAIN entries) - Cardinality(K)
  <2>1. IsFiniteSet(DOMAIN entries) /\ IsFiniteSet(K)
    BY FS_Subset DEF Inv
  <2>2. (DOMAIN entries) \cap K = K
    OBVIOUS
  <2> QED BY <2>1, <2>2, FS_Difference, FS_CardinalityType
<1>2. DOMAIN entries' = DOMAIN entries \ K
  BY DEF Expire, RemoveBindings, Drop, Restrict
<1>3. LifecycleConserved' /\ expired_bindings' \in Nat
  BY <1>1, <1>2 DEF Inv, TableShape, Expire, LifecycleConserved
<1>4. TableShape' /\ IndexesAgree' /\ NoIdleBinding' /\ OwnerKept
  <2>1. RemoveBindings(K) /\ now' = now /\ allocations' \in Nat /\ explicit_closes' \in Nat
    BY DEF Expire, Inv, TableShape
  <2> QED BY <2>1, <1>3, RemoveBindingsKeepsIndexes
<1> QED BY <1>1, <1>2, <1>3, <1>4 DEF Inv

(* A binding that is closed is counted once.                               *)
LEMMA CloseKeepsInv ==
  ASSUME Inv, NEW k \in DOMAIN entries, CloseBinding(k)
  PROVE  Inv' /\ OwnerKept
<1>1. /\ IsFiniteSet(DOMAIN entries \ {k}) /\ Cardinality(DOMAIN entries) \in Nat
      /\ Cardinality(DOMAIN entries \ {k}) = Cardinality(DOMAIN entries) - 1
  BY FS_RemoveElement, FS_CardinalityType DEF Inv
<1>2. DOMAIN entries' = DOMAIN entries \ {k}
  BY DEF CloseBinding, RemoveBindings, Drop, Restrict
<1>3. LifecycleConserved' /\ explicit_closes' \in Nat
  BY <1>1, <1>2 DEF Inv, TableShape, CloseBinding, LifecycleConserved
<1>4. TableShape' /\ IndexesAgree' /\ NoIdleBinding' /\ OwnerKept
  <2>1. /\ RemoveBindings({k}) /\ {k} \in SUBSET DOMAIN entries /\ now' = now
        /\ allocations' \in Nat /\ expired_bindings' \in Nat
    BY DEF CloseBinding, Inv, TableShape
  <2> QED BY <2>1, <1>3, RemoveBindingsKeepsIndexes
<1> QED BY <1>1, <1>2, <1>3, <1>4 DEF Inv

(* A step that keeps the bindings and their endpoints, and leaves each a   *)
(* destination, keeps everything.                                          *)
LEMMA UpdateKeepsInv ==
  ASSUME Inv,
         entries' \in [DOMAIN entries -> Binding],
         \A k \in DOMAIN entries : /\ entries'[k].translated = entries[k].translated
                                   /\ entries'[k].destinations # {},
         UNCHANGED <<now, translated, counters>>
  PROVE  Inv' /\ OwnerKept
<1>1. DOMAIN entries' = DOMAIN entries
  OBVIOUS
<1>2. TableShape' /\ LifecycleConserved' /\ IsFiniteSet(DOMAIN entries')
  BY <1>1 DEF Inv, TableShape, LifecycleConserved, counters
<1>3. IndexesAgree'
  BY <1>1 DEF Inv, TableShape, IndexesAgree, EndpointOf
<1>4. NoIdleBinding' /\ OwnerKept
  BY <1>1 DEF NoIdleBinding, OwnerKept
<1> QED BY <1>2, <1>3, <1>4 DEF Inv

(* touch renews a binding and adds a destination to it.                    *)
LEMMA UseKeepsInv ==
  ASSUME Inv, NEW k \in DOMAIN entries, NEW d \in Destinations, Use(k, d)
  PROVE  Inv' /\ OwnerKept
<1>1. entries' \in [DOMAIN entries -> Binding]
  BY DEF Inv, TableShape, Use, Binding
<1>2. \A j \in DOMAIN entries : /\ entries'[j].translated = entries[j].translated
                                /\ entries'[j].destinations # {}
  BY DEF Inv, TableShape, Use, Binding, NoIdleBinding
<1>3. UNCHANGED <<now, translated, counters>>
  BY DEF Use, counters
<1> QED BY <1>1, <1>2, <1>3, UpdateKeepsInv

(* A lookup that finds a live binding only renews it.                      *)
LEMMA RefreshKeepsInv ==
  ASSUME Inv, NEW k \in DOMAIN entries, Refresh(k)
  PROVE  Inv' /\ OwnerKept
<1>1. entries' \in [DOMAIN entries -> Binding]
  BY DEF Inv, TableShape, Refresh, Binding
<1>2. \A j \in DOMAIN entries : /\ entries'[j].translated = entries[j].translated
                                /\ entries'[j].destinations # {}
  BY DEF Inv, TableShape, Refresh, Binding, NoIdleBinding
<1>3. UNCHANGED <<now, translated, counters>>
  BY DEF Refresh, counters
<1> QED BY <1>1, <1>2, <1>3, UpdateKeepsInv

(* insert takes a free endpoint and counts one allocation.                 *)
LEMMA InsertNewKeepsInv ==
  ASSUME Inv, NEW k \in BindingKeys, NEW d \in Destinations, NEW e \in Endpoints,
         InsertNew(k, d, e)
  PROVE  Inv' /\ OwnerKept
<1> DEFINE ep == <<k[1], e>>
<1>1. /\ k \notin DOMAIN entries /\ ep \in EndpointKeys
      /\ DOMAIN entries' = DOMAIN entries \cup {k}
      /\ DOMAIN translated' = DOMAIN translated \cup {ep}
  BY DEF InsertNew, Put, BindingKeys, EndpointKeys
<1>2. TableShape'
  BY DEF Inv, TableShape, InsertNew, Put, Binding, BindingKeys, EndpointKeys
(* No other source holds the endpoint: its owner would be in the table.    *)
<1>3. ep \notin DOMAIN translated
  BY <1>1 DEF Inv, InsertNew, EndpointIsFree, IndexesAgree
<1>4. IndexesAgree'
  <2>1. \A j \in DOMAIN entries : EndpointOf(j)' = EndpointOf(j)
    BY <1>1 DEF InsertNew, Put, EndpointOf
  <2>2. EndpointOf(k)' = ep
    BY DEF InsertNew, Put, EndpointOf
  <2>3. translated' = Put(translated, ep, k)
    BY DEF InsertNew
  <2> HIDE DEF ep
  <2>4. \A x \in DOMAIN translated : translated'[x] = translated[x]
    BY <2>3, <1>3 DEF Put
  <2>5. translated'[ep] = k
    BY <2>3 DEF Put
  <2> QED BY <1>1, <1>3, <2>1, <2>2, <2>4, <2>5 DEF Inv, IndexesAgree
<1>5. NoIdleBinding'
  BY DEF Inv, InsertNew, Put, NoIdleBinding, TableShape
<1>6. OwnerKept
  BY <1>3 DEF OwnerKept, InsertNew, Put
<1>7. IsFiniteSet(DOMAIN entries') /\ LifecycleConserved'
  <2>1. /\ IsFiniteSet(DOMAIN entries \cup {k}) /\ Cardinality(DOMAIN entries) \in Nat
        /\ Cardinality(DOMAIN entries \cup {k}) = Cardinality(DOMAIN entries) + 1
    BY <1>1, FS_AddElement, FS_CardinalityType DEF Inv
  <2> QED BY <2>1, <1>1 DEF Inv, TableShape, InsertNew, LifecycleConserved
<1> QED BY <1>2, <1>4, <1>5, <1>6, <1>7 DEF Inv

(* bind_translated moves a binding to an endpoint nobody else owns, and    *)
(* frees its placeholder.                                                  *)
LEMMA BindTranslatedKeepsInv ==
  ASSUME Inv, NEW k \in BindingKeys, NEW e \in Endpoints, BindTranslated(k, e)
  PROVE  Inv' /\ OwnerKept
<1> DEFINE ep == <<k[1], e>>
<1>1. k \in DOMAIN entries
  BY DEF BindTranslated
<1>2. CASE Expire({k})
  BY <1>1, <1>2, ExpireKeepsInv
<1>3. CASE Refresh(k)
  BY <1>1, <1>3, RefreshKeepsInv
<1>4. CASE /\ entries[k].translated # e
           /\ EndpointIsFree(k, e)
           /\ entries' = [entries EXCEPT ![k].translated = e, ![k].last_seen = now]
           /\ translated' = Put(Drop(translated, {EndpointOf(k)}), <<k[1], e>>, k)
           /\ UNCHANGED <<now, active_destinations,
                          allocations, expired_bindings, explicit_closes>>
  <2>1. DOMAIN entries' = DOMAIN entries /\ ep \in EndpointKeys
    BY <1>4 DEF BindingKeys, EndpointKeys
  <2>2. TableShape' /\ NoIdleBinding'
    <3>1. entries' \in [DOMAIN entries -> Binding]
      BY <1>4 DEF Inv, TableShape, Binding
    <3>2. DOMAIN translated' \subseteq EndpointKeys /\ translated' \in [DOMAIN translated' -> BindingKeys]
      BY <1>4, <2>1 DEF Inv, TableShape, Put, Drop, Restrict
    <3>3. \A j \in DOMAIN entries : entries'[j].destinations = entries[j].destinations
      BY <1>4 DEF Inv, TableShape, Binding
    <3> QED BY <1>4, <2>1, <3>1, <3>2, <3>3 DEF Inv, TableShape, NoIdleBinding
  (* A free endpoint has no owner: the only owner it may have is k itself, *)
  (* which owns another.                                                   *)
  <2>3. ep \notin DOMAIN translated
    <3>1. EndpointOf(k) # ep
      BY <1>4 DEF EndpointOf
    <3> QED BY <3>1, <1>4 DEF Inv, IndexesAgree, EndpointIsFree
  <2>4. IndexesAgree'
    <3>1. \A j \in DOMAIN entries : j # k => EndpointOf(j)' = EndpointOf(j)
      BY <1>4 DEF EndpointOf, Inv, TableShape, Binding
    <3>2. EndpointOf(k)' = ep
      BY <1>1, <1>4 DEF EndpointOf, Inv, TableShape, Binding
    <3>3. translated' = Put(Drop(translated, {EndpointOf(k)}), ep, k)
      BY <1>4
    <3> HIDE DEF ep
    <3>4. /\ DOMAIN translated' = (DOMAIN translated \ {EndpointOf(k)}) \cup {ep}
          /\ translated'[ep] = k
          /\ \A x \in DOMAIN translated : x # EndpointOf(k) => translated'[x] = translated[x]
      BY <3>3, <2>3 DEF Put, Drop, Restrict
    <3> QED BY <1>1, <2>1, <2>3, <3>1, <3>2, <3>4 DEF Inv, IndexesAgree
  <2>5. OwnerKept
    BY <1>4, <2>3 DEF OwnerKept, Put, Drop, Restrict
  <2> QED BY <1>4, <2>1, <2>2, <2>4, <2>5 DEF Inv, LifecycleConserved
<1> QED BY <1>2, <1>3, <1>4 DEF BindTranslated

(* remove takes a destination, and the binding with its last one.          *)
LEMMA RemoveKeepsInv ==
  ASSUME Inv, NEW k \in BindingKeys, NEW d \in Destinations, RemoveDestination(k, d)
  PROVE  Inv' /\ OwnerKept
<1>1. k \in DOMAIN entries
  BY DEF RemoveDestination
<1>2. CASE entries[k].destinations \subseteq {d}
  BY <1>1, <1>2, CloseKeepsInv DEF RemoveDestination
<1>3. CASE ~(entries[k].destinations \subseteq {d})
  <2>1. /\ entries' = [entries EXCEPT ![k].destinations = @ \ {d}]
        /\ UNCHANGED <<now, translated, counters>>
    BY <1>3 DEF RemoveDestination, counters
  <2>2. entries[k].destinations \ {d} # {}
    BY <1>3
  <2>3. entries' \in [DOMAIN entries -> Binding]
    BY <2>1 DEF Inv, TableShape, Binding
  <2>4. \A j \in DOMAIN entries : /\ entries'[j].translated = entries[j].translated
                                  /\ entries'[j].destinations # {}
    BY <2>1, <2>2 DEF Inv, TableShape, Binding, NoIdleBinding
  <2> QED BY <2>1, <2>3, <2>4, UpdateKeepsInv
<1> QED BY <1>2, <1>3

-----------------------------------------------------------------------------
(* An empty table satisfies the invariant.                                 *)
LEMMA InitEstablishesInv == Init => Inv
BY FS_EmptySet
   DEF Init, Inv, TableShape, IndexesAgree, NoIdleBinding, LifecycleConserved, EmptyMap

(* Every operation keeps the invariant and takes no endpoint.              *)
LEMMA StepKeepsInv == Inv /\ [Next]_vars => Inv' /\ OwnerKept
<1> SUFFICES ASSUME Inv, [Next]_vars PROVE Inv' /\ OwnerKept
  OBVIOUS
<1>1. ASSUME NEW k \in BindingKeys, NEW d \in Destinations, NEW e \in Endpoints,
             InsertReuse(k, d, e)
      PROVE  Inv' /\ OwnerKept
  BY <1>1, UseKeepsInv DEF InsertReuse
<1>2. ASSUME NEW k \in BindingKeys, NEW d \in Destinations, NEW e \in Endpoints,
             InsertNew(k, d, e)
      PROVE  Inv' /\ OwnerKept
  BY <1>2, InsertNewKeepsInv
<1>3. ASSUME NEW k \in BindingKeys, NEW d \in Destinations, Touch(k, d)
      PROVE  Inv' /\ OwnerKept
  <2>1. k \in DOMAIN entries
    BY <1>3 DEF Touch
  <2> QED BY <1>3, <2>1, ExpireKeepsInv, UseKeepsInv DEF Touch
<1>4. ASSUME NEW k \in BindingKeys, NEW d \in Destinations, RemoveDestination(k, d)
      PROVE  Inv' /\ OwnerKept
  BY <1>4, RemoveKeepsInv
<1>5. ASSUME NEW k \in BindingKeys, NEW e \in Endpoints, BindTranslated(k, e)
      PROVE  Inv' /\ OwnerKept
  BY <1>5, BindTranslatedKeepsInv
<1>6. ASSUME NEW k \in BindingKeys, RemoveSource(k)
      PROVE  Inv' /\ OwnerKept
  BY <1>6, CloseKeepsInv DEF RemoveSource
<1>7. ASSUME NEW k \in BindingKeys, LookupSource(k)
      PROVE  Inv' /\ OwnerKept
  <2>1. {k} \in SUBSET DOMAIN entries /\ Expire({k})
    BY <1>7 DEF LookupSource
  <2> QED BY <2>1, ExpireKeepsInv
<1>8. ASSUME NEW ep \in EndpointKeys, LookupTranslated(ep)
      PROVE  Inv' /\ OwnerKept
  <2>1. translated[ep] \in DOMAIN entries /\ {translated[ep]} \in SUBSET DOMAIN entries
    BY <1>8 DEF LookupTranslated
  <2> QED BY <1>8, <2>1, ExpireKeepsInv, RefreshKeepsInv DEF LookupTranslated
<1>9. ASSUME Sweep PROVE Inv' /\ OwnerKept
  BY <1>9, ExpireKeepsInv DEF Sweep, ExpiredKeys
<1>10. ASSUME Tick PROVE Inv' /\ OwnerKept
  BY <1>10 DEF Tick, Inv, TableShape, IndexesAgree, EndpointOf, NoIdleBinding,
               LifecycleConserved, OwnerKept
<1>11. ASSUME UNCHANGED vars PROVE Inv' /\ OwnerKept
  BY <1>11 DEF vars, Inv, TableShape, IndexesAgree, EndpointOf, NoIdleBinding,
               LifecycleConserved, OwnerKept
<1> QED BY <1>1, <1>2, <1>3, <1>4, <1>5, <1>6, <1>7, <1>8, <1>9, <1>10, <1>11 DEF Next

(* The inductive invariant holds throughout.                               *)
LEMMA InvHolds == Spec => []Inv
<1>1. Inv /\ [Next]_vars => Inv'
  BY StepKeepsInv
<1> QED BY InitEstablishesInv, <1>1, PTL DEF Spec

(* The forward and the reverse index of the NAT table describe the same    *)
(* bindings after any number of inserts, moves, closes and expiries, for   *)
(* every set of sources and endpoints.                                     *)
THEOREM IndexesAlwaysAgree == Spec => []IndexesAgree
<1>1. Inv => IndexesAgree
  BY DEF Inv
<1> QED BY InvHolds, <1>1, PTL

(* Every binding ever allocated is live, expired or closed, each once.     *)
THEOREM LifecycleIsConserved == Spec => []LifecycleConserved
<1>1. Inv => LifecycleConserved
  BY DEF Inv
<1> QED BY InvHolds, <1>1, PTL

(* remove closes a binding with its last destination, and nothing else     *)
(* takes a destination away: no binding is idle.                           *)
THEOREM NeverAnIdleBinding == Spec => []NoIdleBinding
<1>1. Inv => NoIdleBinding
  BY DEF Inv
<1> QED BY InvHolds, <1>1, PTL

(* No operation takes a translated endpoint from the source that owns it.  *)
THEOREM EndpointsAreNeverStolen == Spec => NoEndpointStolen
<1>1. Inv /\ [Next]_vars => [OwnerKept]_vars
  BY StepKeepsInv
<1> QED BY InvHolds, <1>1, PTL DEF Spec, NoEndpointStolen

(* The table, the reverse index and the counters describe the same bindings *)
(* after every operation of nat.rs.                                        *)
THEOREM NatIsConsistent == Spec => []NatConsistent
<1> QED BY IndexesAlwaysAgree, LifecycleIsConserved, NeverAnIdleBinding,
           PTL DEF NatConsistent

-----------------------------------------------------------------------------
(* The count of the destinations: active_destinations is kept by           *)
(* increments, the bindings by their sets.                                 *)
Sizes == [k \in DOMAIN entries |-> Cardinality(entries[k].destinations)]

Counted ==
  /\ \A k \in DOMAIN entries : IsFiniteSet(entries[k].destinations)
  /\ DestinationsCounted

LEMMA CountIsSum ==
  ASSUME IsFiniteSet(DOMAIN entries), \A k \in DOMAIN entries : IsFiniteSet(entries[k].destinations),
         NEW K \in SUBSET DOMAIN entries
  PROVE  /\ DestinationCount(K) = SumFunctionOnSet(Sizes, K)
         /\ \A k \in DOMAIN entries : Sizes[k] \in Nat
         /\ SumFunctionOnSet(Sizes, K) \in Nat
<1>1. \A k \in DOMAIN entries : Sizes[k] = Cardinality(entries[k].destinations) /\ Sizes[k] \in Nat
  BY FS_CardinalityType DEF Sizes
<1> DEFINE f == [k \in K |-> Cardinality(entries[k].destinations)]
<1>2. DestinationCount(K) = SumFunctionOnSet(f, K)
  BY DEF DestinationCount, SumFunction
<1>3. \A k \in K : f[k] = Sizes[k]
  BY <1>1
<1>4. IsFiniteSet(K)
  BY FS_Subset
<1> HIDE DEF f
<1>5. SumFunctionOnSet(f, K) = SumFunctionOnSet(Sizes, K)
  BY <1>3, <1>4, SumSame
<1>6. SumFunctionOnSet(Sizes, K) \in Nat
  BY <1>1, <1>4, SumNatural
<1> QED BY <1>1, <1>2, <1>5, <1>6

(* The same facts of the state that a step leads to.                       *)
LEMMA CountIsSumNext ==
  ASSUME IsFiniteSet(DOMAIN entries'), \A k \in DOMAIN entries' : IsFiniteSet(entries'[k].destinations)
  PROVE  /\ DestinationCount(DOMAIN entries)' = SumFunctionOnSet(Sizes', DOMAIN entries')
         /\ \A k \in DOMAIN entries' : Sizes'[k] = Cardinality(entries'[k].destinations) /\ Sizes'[k] \in Nat
BY FS_CardinalityType DEF Sizes, DestinationCount, SumFunction

(* A step that changes the destinations of one binding adds the difference. *)
LEMMA ChangeKeepsCount ==
  ASSUME Inv, Counted, NEW k \in DOMAIN entries, DOMAIN entries' = DOMAIN entries,
         \A j \in DOMAIN entries : j # k => entries'[j].destinations = entries[j].destinations,
         IsFiniteSet(entries'[k].destinations),
         active_destinations' = active_destinations
           + (Cardinality(entries'[k].destinations) - Cardinality(entries[k].destinations))
  PROVE  Counted'
<1>1. IsFiniteSet(DOMAIN entries) /\ \A j \in DOMAIN entries' : IsFiniteSet(entries'[j].destinations)
  BY DEF Inv, Counted
<1>2. /\ DestinationCount(DOMAIN entries) = SumFunctionOnSet(Sizes, DOMAIN entries)
      /\ \A j \in DOMAIN entries : Sizes[j] \in Nat /\ Sizes[j] = Cardinality(entries[j].destinations)
  BY <1>1, CountIsSum DEF Counted, Sizes
<1>3. /\ DestinationCount(DOMAIN entries)' = SumFunctionOnSet(Sizes', DOMAIN entries)
      /\ \A j \in DOMAIN entries : Sizes'[j] = Cardinality(entries'[j].destinations) /\ Sizes'[j] \in Nat
  BY <1>1, CountIsSumNext
<1>4. \A j \in DOMAIN entries : Sizes[j] \in Int /\ Sizes'[j] \in Int /\ (j # k => Sizes[j] = Sizes'[j])
  BY <1>2, <1>3
<1>5. SumFunctionOnSet(Sizes', DOMAIN entries) = SumFunctionOnSet(Sizes, DOMAIN entries) + (Sizes'[k] - Sizes[k])
  BY <1>1, <1>4, SumChange
<1> QED BY <1>1, <1>2, <1>3, <1>5 DEF Counted, DestinationsCounted

(* remove_binding subtracts what the bindings it removes hold.             *)
LEMMA RemoveKeepsCount ==
  ASSUME Inv, Counted, NEW K \in SUBSET DOMAIN entries, RemoveBindings(K)
  PROVE  Counted'
<1> DEFINE D == DOMAIN entries
<1>1. /\ IsFiniteSet(D) /\ IsFiniteSet(D \ K) /\ DOMAIN entries' = D \ K
      /\ \A k \in D \ K : entries'[k] = entries[k]
      /\ active_destinations' = active_destinations - DestinationCount(K)
  BY FS_Subset DEF Inv, RemoveBindings, Drop, Restrict
<1>2. /\ DestinationCount(K) = SumFunctionOnSet(Sizes, K) /\ DestinationCount(D) = SumFunctionOnSet(Sizes, D)
      /\ \A k \in D : Sizes[k] \in Nat /\ Sizes[k] = Cardinality(entries[k].destinations)
      /\ SumFunctionOnSet(Sizes, K) \in Nat /\ SumFunctionOnSet(Sizes, D \ K) \in Nat
  BY <1>1, CountIsSum DEF Counted, Sizes
<1>3. \A k \in DOMAIN entries' : IsFiniteSet(entries'[k].destinations)
  BY <1>1 DEF Counted
<1>4. /\ DestinationCount(DOMAIN entries)' = SumFunctionOnSet(Sizes', D \ K)
      /\ \A k \in D \ K : Sizes'[k] = Sizes[k]
  BY <1>1, <1>2, <1>3, CountIsSumNext
<1>5. SumFunctionOnSet(Sizes', D \ K) = SumFunctionOnSet(Sizes, D \ K)
  BY <1>1, <1>4, SumSame
<1>6. SumFunctionOnSet(Sizes, D) = SumFunctionOnSet(Sizes, K) + SumFunctionOnSet(Sizes, D \ K)
  BY <1>1, <1>2, SumSplit
<1>7. active_destinations' = DestinationCount(DOMAIN entries)'
  BY <1>1, <1>2, <1>4, <1>5, <1>6 DEF Counted, DestinationsCounted
<1> QED BY <1>3, <1>7 DEF Counted, DestinationsCounted

(* A new binding comes with one destination.                               *)
LEMMA InsertKeepsCount ==
  ASSUME Inv, Counted, NEW k, NEW d, NEW e, InsertNew(k, d, e)
  PROVE  Counted'
<1> DEFINE D == DOMAIN entries
           E == D \cup {k}
<1>1. /\ k \notin D /\ IsFiniteSet(D) /\ IsFiniteSet(E) /\ DOMAIN entries' = E /\ E \ {k} = D /\ k \in E
      /\ \A j \in D : entries'[j] = entries[j]
      /\ entries'[k].destinations = {d} /\ active_destinations' = active_destinations + 1
  BY FS_AddElement DEF Inv, InsertNew, Put
<1>2. Cardinality({d}) = 1 /\ IsFiniteSet({d})
  BY FS_Singleton
<1>3. \A j \in E : IsFiniteSet(entries'[j].destinations)
  BY <1>1, <1>2 DEF Counted
<1>4. /\ DestinationCount(D) = SumFunctionOnSet(Sizes, D) /\ SumFunctionOnSet(Sizes, D) \in Nat
      /\ \A j \in D : Sizes[j] \in Nat /\ Sizes[j] = Cardinality(entries[j].destinations)
  BY <1>1, CountIsSum DEF Counted, Sizes
<1>5. /\ DestinationCount(DOMAIN entries)' = SumFunctionOnSet(Sizes', E)
      /\ \A j \in E : Sizes'[j] = Cardinality(entries'[j].destinations) /\ Sizes'[j] \in Nat
  BY <1>1, <1>3, CountIsSumNext
<1> HIDE DEF E
<1>6. SumFunctionOnSet(Sizes', E) = Sizes'[k] + SumFunctionOnSet(Sizes', E \ {k})
  BY <1>1, <1>5, SumRemove
<1>7. SumFunctionOnSet(Sizes', D) = SumFunctionOnSet(Sizes, D)
  <2>1. \A j \in D : j \in E
    BY DEF E
  <2>2. \A j \in D : Sizes'[j] = Sizes[j]
    BY <1>1, <1>4, <1>5, <2>1
  <2> QED BY <1>1, <2>2, SumSame
<1>8. Sizes'[k] = 1
  BY <1>1, <1>2, <1>5
<1>9. active_destinations' = DestinationCount(DOMAIN entries)'
  BY <1>1, <1>4, <1>5, <1>6, <1>7, <1>8 DEF Counted, DestinationsCounted
<1> QED BY <1>1, <1>3, <1>9 DEF Counted, DestinationsCounted

LEMMA UseKeepsCount ==
  ASSUME Inv, Counted, NEW k \in DOMAIN entries, NEW d, Use(k, d)
  PROVE  Counted'
<1> DEFINE o == entries[k].destinations
<1>1. /\ DOMAIN entries' = DOMAIN entries /\ entries'[k].destinations = o \cup {d}
      /\ \A j \in DOMAIN entries : j # k => entries'[j].destinations = entries[j].destinations
      /\ active_destinations' = active_destinations + (IF d \in o THEN 0 ELSE 1)
  BY DEF Inv, TableShape, Binding, Use
<1>2. IsFiniteSet(o) /\ Cardinality(o) \in Nat
  BY FS_CardinalityType DEF Counted
<1>3. IsFiniteSet(o \cup {d}) /\ Cardinality(o \cup {d}) = Cardinality(o) + (IF d \in o THEN 0 ELSE 1)
  <2>1. CASE d \in o
    <3>1. o \cup {d} = o
      BY <2>1
    <3>2. Cardinality(o \cup {d}) = Cardinality(o) /\ IsFiniteSet(o \cup {d})
      BY <1>2, <3>1
    <3> HIDE DEF o
    <3> QED BY <1>2, <2>1, <3>2
  <2>2. CASE d \notin o
    BY <1>2, <2>2, FS_AddElement
  <2> QED BY <2>1, <2>2
<1> HIDE DEF o
<1>4. active_destinations' = active_destinations + (Cardinality(entries'[k].destinations) - Cardinality(o))
  BY <1>1, <1>2, <1>3
<1> QED BY <1>1, <1>3, <1>4, ChangeKeepsCount DEF o

(* A step that leaves every set of destinations as it is.                  *)
LEMMA SameKeepsCount ==
  ASSUME Inv, Counted, DOMAIN entries' = DOMAIN entries,
         \A j \in DOMAIN entries : entries'[j].destinations = entries[j].destinations,
         UNCHANGED active_destinations
  PROVE  Counted'
<1>1. IsFiniteSet(DOMAIN entries) /\ \A j \in DOMAIN entries' : IsFiniteSet(entries'[j].destinations)
  BY DEF Inv, Counted
<1>2. Sizes' = Sizes
  BY DEF Sizes
<1>3. DestinationCount(DOMAIN entries)' = DestinationCount(DOMAIN entries)
  BY <1>2 DEF DestinationCount, SumFunction, Sizes
<1> QED BY <1>1, <1>3 DEF Counted, DestinationsCounted

LEMMA RemoveDestinationKeepsCount ==
  ASSUME Inv, Counted, NEW k, NEW d, RemoveDestination(k, d)
  PROVE  Counted'
<1> DEFINE o == entries[k].destinations
<1>1. k \in DOMAIN entries
  BY DEF RemoveDestination
<1>2. CASE o \subseteq {d}
  <2>1. RemoveBindings({k}) /\ {k} \in SUBSET DOMAIN entries
    BY <1>1, <1>2 DEF RemoveDestination, CloseBinding
  <2> QED BY <2>1, RemoveKeepsCount
<1>3. CASE ~(o \subseteq {d})
  <2>1. /\ DOMAIN entries' = DOMAIN entries /\ entries'[k].destinations = o \ {d}
        /\ \A j \in DOMAIN entries : j # k => entries'[j].destinations = entries[j].destinations
        /\ active_destinations' = active_destinations - (IF d \in o THEN 1 ELSE 0)
    BY <1>1, <1>3 DEF Inv, TableShape, Binding, RemoveDestination
  <2>2. IsFiniteSet(o) /\ Cardinality(o) \in Nat
    BY <1>1, FS_CardinalityType DEF Counted
  <2>3. /\ IsFiniteSet(o \ {d})
        /\ Cardinality(o \ {d}) = IF d \in o THEN Cardinality(o) - 1 ELSE Cardinality(o)
    BY <2>2, FS_RemoveElement
  <2>4. active_destinations \in Nat
    <3>1. IsFiniteSet(DOMAIN entries) /\ \A j \in DOMAIN entries : IsFiniteSet(entries[j].destinations)
      BY DEF Inv, Counted
    <3> QED BY <3>1, CountIsSum DEF Counted, DestinationsCounted
  <2> HIDE DEF o
  <2>5. active_destinations' = active_destinations + (Cardinality(entries'[k].destinations) - Cardinality(o))
    BY <2>1, <2>2, <2>3, <2>4
  <2> QED BY <1>1, <2>1, <2>3, <2>5, ChangeKeepsCount DEF o
<1> QED BY <1>2, <1>3

LEMMA StepKeepsCount == Inv /\ Counted /\ [Next]_vars => Counted'
<1> SUFFICES ASSUME Inv, Counted, [Next]_vars PROVE Counted'
  OBVIOUS
<1>1. ASSUME NEW K \in SUBSET DOMAIN entries, Expire(K) PROVE Counted'
  BY <1>1, RemoveKeepsCount DEF Expire
<1>2. ASSUME NEW k \in DOMAIN entries, CloseBinding(k) PROVE Counted'
  <2>1. RemoveBindings({k}) /\ {k} \in SUBSET DOMAIN entries
    BY <1>2 DEF CloseBinding
  <2> QED BY <2>1, RemoveKeepsCount
<1>3. ASSUME NEW k \in DOMAIN entries, Expire({k}) PROVE Counted'
  <2>1. {k} \in SUBSET DOMAIN entries
    OBVIOUS
  <2> QED BY <1>1, <1>3, <2>1
<1>4. ASSUME NEW k \in DOMAIN entries, Refresh(k) PROVE Counted'
  <2>1. /\ DOMAIN entries' = DOMAIN entries /\ UNCHANGED active_destinations
        /\ \A j \in DOMAIN entries : entries'[j].destinations = entries[j].destinations
    BY <1>4 DEF Inv, TableShape, Binding, Refresh
  <2> QED BY <2>1, SameKeepsCount
<1>5. ASSUME NEW k, NEW e, BindTranslated(k, e) PROVE Counted'
  <2>1. k \in DOMAIN entries
    BY <1>5 DEF BindTranslated
  <2>2. CASE Expire({k}) \/ Refresh(k)
    BY <1>3, <1>4, <2>1, <2>2
  <2>3. CASE ~(Expire({k}) \/ Refresh(k))
    <3>1. /\ entries' = [entries EXCEPT ![k].translated = e, ![k].last_seen = now]
          /\ UNCHANGED active_destinations
      BY <1>5, <2>3 DEF BindTranslated
    <3>2. /\ DOMAIN entries' = DOMAIN entries
          /\ \A j \in DOMAIN entries : entries'[j].destinations = entries[j].destinations
      BY <2>1, <3>1 DEF Inv, TableShape, Binding
    <3> QED BY <3>1, <3>2, SameKeepsCount
  <2> QED BY <2>2, <2>3
<1>6. ASSUME NEW k \in BindingKeys, NEW d \in Destinations,
             \/ \E e \in Endpoints : InsertReuse(k, d, e) \/ InsertNew(k, d, e)
             \/ Touch(k, d) \/ RemoveDestination(k, d)
      PROVE  Counted'
  <2>1. CASE RemoveDestination(k, d)
    BY <2>1, RemoveDestinationKeepsCount
  <2>2. CASE Touch(k, d)
    BY <1>3, <2>2, UseKeepsCount DEF Touch
  <2>3. ASSUME NEW e \in Endpoints, InsertReuse(k, d, e) PROVE Counted'
    BY <2>3, UseKeepsCount DEF InsertReuse
  <2>4. ASSUME NEW e \in Endpoints, InsertNew(k, d, e) PROVE Counted'
    BY <2>4, InsertKeepsCount
  <2> QED BY <1>6, <2>1, <2>2, <2>3, <2>4
<1>7. ASSUME NEW k, RemoveSource(k) \/ LookupSource(k) PROVE Counted'
  BY <1>2, <1>3, <1>7 DEF RemoveSource, LookupSource
<1>8. ASSUME NEW ep, LookupTranslated(ep) PROVE Counted'
  BY <1>3, <1>4, <1>8 DEF LookupTranslated
<1>9. CASE Sweep
  BY <1>1, <1>9 DEF Sweep, ExpiredKeys
<1>10. CASE Tick \/ UNCHANGED vars
  <2>1. entries' = entries /\ UNCHANGED active_destinations
    BY <1>10 DEF Tick, vars
  <2> QED BY <2>1, SameKeepsCount
<1> QED BY <1>5, <1>6, <1>7, <1>8, <1>9, <1>10 DEF Next

(* active_destinations, which six operations of nat.rs adjust by one or by *)
(* the size of a set, is the number of destinations that the bindings      *)
(* hold: it never drifts and its decrements never underflow.               *)
THEOREM DestinationsAreCounted == Spec => []DestinationsCounted
<1>1. Init => Counted
  <2> SUFFICES ASSUME Init PROVE Counted
    OBVIOUS
  <2>1. DOMAIN entries = {} /\ active_destinations = 0
    BY DEF Init, EmptyMap
  <2>2. DestinationCount({}) = 0
    BY SumEmpty DEF DestinationCount, SumFunction
  <2> QED BY <2>1, <2>2 DEF Counted, DestinationsCounted
<1>2. Counted => DestinationsCounted
  BY DEF Counted
<1> QED BY <1>1, <1>2, InvHolds, StepKeepsCount, PTL DEF Spec

-----------------------------------------------------------------------------
(* What the relays keep of the table they share: it holds UDP bindings     *)
(* only, each the mapping of the relay whose endpoint it uses or the       *)
(* source a close of that relay has taken.                                 *)
RelayKeys == {udp} \X Sources
NatKeys == RelayKeys \X Destinations

RelayShape ==
  /\ mapping \in [Endpoints -> NatKeys \cup {NoKey}]
  /\ sending \in [Endpoints -> NatKeys \cup {Idle}]
  /\ sweeping \in [Endpoints -> BOOLEAN]
  /\ receiving \in [Endpoints -> ({"lookup", "touch"} \X NatKeys) \cup {Idle}]
  /\ releasing \in [Endpoints -> RelayKeys \cup {NoKey}]

RelayInv ==
  /\ Inv
  /\ DOMAIN entries \subseteq RelayKeys
  /\ RelayShape
  /\ BindingsHaveOwner

(* Bindings may go, the others keep their endpoints and the relays their   *)
(* mappings.                                                               *)
LEMMA FewerBindingsKeepOwners ==
  ASSUME RelayInv, Inv', DOMAIN entries' \subseteq DOMAIN entries,
         \A k \in DOMAIN entries' : entries'[k].translated = entries[k].translated,
         UNCHANGED mapping, UNCHANGED releasing, RelayShape'
  PROVE  RelayInv'
<1>1. BindingsHaveOwner'
  BY DEF RelayInv, BindingsHaveOwner
<1> QED BY <1>1 DEF RelayInv

LEMMA ExpireShrinks ==
  ASSUME NEW K, Expire(K)
  PROVE  /\ DOMAIN entries' \subseteq DOMAIN entries
         /\ \A k \in DOMAIN entries' : entries'[k].translated = entries[k].translated
BY DEF Expire, RemoveBindings, Drop, Restrict

LEMMA UseKeepsEndpoints ==
  ASSUME Inv, NEW k \in DOMAIN entries, NEW d, Use(k, d)
  PROVE  /\ DOMAIN entries' = DOMAIN entries
         /\ \A j \in DOMAIN entries : entries'[j].translated = entries[j].translated
BY DEF Use, Inv, TableShape, Binding

LEMMA RefreshKeepsEndpoints ==
  ASSUME Inv, NEW k \in DOMAIN entries, Refresh(k)
  PROVE  /\ DOMAIN entries' = DOMAIN entries
         /\ \A j \in DOMAIN entries : entries'[j].translated = entries[j].translated
BY DEF Refresh, Inv, TableShape, Binding

(* A relay takes the binding of its endpoint for its mapping.              *)
LEMMA AssignKeepsOwners ==
  ASSUME RelayInv, Inv', NEW r \in Endpoints, NEW k \in RelayKeys, NEW d \in Destinations,
         Assign(r, <<k, d>>), UNCHANGED releasing, RelayShape',
         k \in DOMAIN entries', entries'[k].translated = r,
         DOMAIN entries' \subseteq DOMAIN entries \cup {k},
         \A j \in DOMAIN entries : entries'[j].translated = entries[j].translated
  PROVE  RelayInv'
<1>1. DOMAIN entries' \subseteq RelayKeys
  BY DEF RelayInv
<1>2. /\ mapping'[r] = <<k, d>>
      /\ \A x \in Endpoints : x # r => mapping'[x] = mapping[x]
  BY DEF RelayInv, RelayShape, Assign
<1>3. \A j \in DOMAIN entries' : entries'[j].translated = r => j = k
  <2> SUFFICES ASSUME NEW j \in DOMAIN entries', entries'[j].translated = r PROVE j = k
    OBVIOUS
  <2>1. j[1] = udp /\ k[1] = udp
    BY <1>1 DEF RelayKeys
  <2>2. EndpointOf(j)' = EndpointOf(k)'
    BY <2>1 DEF EndpointOf
  <2>3. translated'[EndpointOf(j)'] = j /\ translated'[EndpointOf(k)'] = k
    BY DEF Inv, IndexesAgree
  <2> QED BY <2>2, <2>3
<1>4. mapping'[r] # NoKey /\ SourceKey(mapping'[r]) = k
  BY <1>2 DEF NoKey, SourceKey
<1>5. BindingsHaveOwner'
  <2> SUFFICES ASSUME NEW j \in DOMAIN entries', entries'[j].translated \in Endpoints
               PROVE  LET q == entries'[j].translated IN
                      \/ mapping'[q] # NoKey /\ SourceKey(mapping'[q]) = j
                      \/ releasing'[q] = j
    BY DEF BindingsHaveOwner, SourceKey
  <2>1. CASE entries'[j].translated = r
    BY <1>3, <1>4, <2>1
  <2>2. CASE entries'[j].translated # r
    <3>1. j \in DOMAIN entries /\ entries'[j].translated = entries[j].translated
      BY <2>2
    <3> QED BY <1>2, <2>2, <3>1 DEF RelayInv, BindingsHaveOwner
  <2> QED BY <2>1, <2>2
<1> QED BY <1>1, <1>5 DEF RelayInv

LEMMA RelaySendKeeps ==
  ASSUME RelayInv, NEW r \in Endpoints, NEW s \in Sources, NEW d \in Destinations, RelaySend(r, s, d)
  PROVE  RelayInv'
<1> DEFINE k == <<udp, s>>
<1>1. k \in RelayKeys /\ <<k, d>> \in NatKeys /\ Inv /\ RelayShape
  BY DEF RelayKeys, NatKeys, RelayInv
<1>2. UNCHANGED sweeping /\ UNCHANGED receiving /\ UNCHANGED releasing
  BY DEF RelaySend
<1>3. CASE k \in DOMAIN entries /\ ~IsExpired(k)
  <2>1. /\ Use(k, d) /\ UNCHANGED sending
        /\ IF entries[k].translated = r THEN Assign(r, <<k, d>>) ELSE UNCHANGED mapping
    BY <1>3 DEF RelaySend
  <2> HIDE DEF k
  <2>2. Inv'
    BY <1>1, <1>3, <2>1, UseKeepsInv
  <2>3. /\ DOMAIN entries' = DOMAIN entries
        /\ \A j \in DOMAIN entries : entries'[j].translated = entries[j].translated
    BY <1>1, <1>3, <2>1, UseKeepsEndpoints
  <2>4. RelayShape'
    BY <1>1, <1>2, <2>1 DEF RelayShape, Assign
  <2>5. CASE entries[k].translated = r
    BY <1>1, <1>2, <1>3, <2>1, <2>2, <2>3, <2>4, <2>5, AssignKeepsOwners
  <2>6. CASE entries[k].translated # r
    BY <1>1, <1>2, <2>1, <2>2, <2>3, <2>4, <2>6, FewerBindingsKeepOwners
  <2> QED BY <2>5, <2>6
<1>4. CASE ~(k \in DOMAIN entries /\ ~IsExpired(k))
  <2>1. /\ sending' = [sending EXCEPT ![r] = <<k, d>>] /\ UNCHANGED mapping
        /\ IF k \in DOMAIN entries THEN Expire({k}) ELSE UNCHANGED vars
    BY <1>4 DEF RelaySend
  <2> HIDE DEF k
  <2>2. RelayShape'
    BY <1>1, <1>2, <2>1 DEF RelayShape
  <2>3. CASE k \in DOMAIN entries
    <3>1. {k} \in SUBSET DOMAIN entries /\ Expire({k})
      BY <2>1, <2>3
    <3>2. Inv'
      BY <1>1, <3>1, ExpireKeepsInv
    <3> QED BY <1>2, <2>1, <2>2, <3>1, <3>2, ExpireShrinks, FewerBindingsKeepOwners
  <2>4. CASE k \notin DOMAIN entries
    <3>1. UNCHANGED vars
      BY <2>1, <2>4
    <3>2. Inv' /\ entries' = entries
      BY <1>1, <3>1, StepKeepsInv DEF vars
    <3> QED BY <1>2, <2>1, <2>2, <3>2, FewerBindingsKeepOwners
  <2> QED BY <2>3, <2>4
<1> QED BY <1>3, <1>4

LEMMA RelayInsertKeeps ==
  ASSUME RelayInv, NEW r \in Endpoints, RelayInsert(r)
  PROVE  RelayInv'
<1> DEFINE k == sending[r][1]
           d == sending[r][2]
<1>1. /\ k \in RelayKeys /\ d \in Destinations /\ Inv
      /\ sending' = [sending EXCEPT ![r] = Idle]
      /\ UNCHANGED sweeping /\ UNCHANGED receiving /\ UNCHANGED releasing
  BY DEF RelayInsert, RelayInv, RelayShape, NatKeys
<1>2. k \in BindingKeys /\ <<k, d>> \in NatKeys
  BY <1>1, RelayNetwork DEF RelayKeys, BindingKeys, NatKeys
<1>3. \/ InsertReuse(k, d, r) /\ Assign(r, <<k, d>>)
      \/ InsertNew(k, d, r) /\ Assign(r, <<k, d>>)
      \/ UNCHANGED <<vars, mapping>>
  BY DEF RelayInsert
<1> HIDE DEF k, d
<1>4. RelayShape'
  BY <1>1, <1>2, <1>3 DEF RelayInv, RelayShape, Assign
<1>5. CASE InsertReuse(k, d, r) /\ Assign(r, <<k, d>>)
  <2>1. k \in DOMAIN entries /\ entries[k].translated = r /\ Use(k, d)
    BY <1>5 DEF InsertReuse
  <2>2. Inv'
    BY <1>1, <2>1, UseKeepsInv
  <2>3. /\ DOMAIN entries' = DOMAIN entries
        /\ \A j \in DOMAIN entries : entries'[j].translated = entries[j].translated
    BY <1>1, <2>1, UseKeepsEndpoints
  <2> QED BY <1>1, <1>4, <1>5, <2>1, <2>2, <2>3, AssignKeepsOwners
<1>6. CASE InsertNew(k, d, r) /\ Assign(r, <<k, d>>)
  <2>1. Inv'
    BY <1>1, <1>2, <1>6, InsertNewKeepsInv
  <2>2. /\ DOMAIN entries' = DOMAIN entries \cup {k} /\ entries'[k].translated = r
        /\ \A j \in DOMAIN entries : entries'[j].translated = entries[j].translated
    BY <1>6 DEF InsertNew, Put
  <2> QED BY <1>1, <1>4, <1>6, <2>1, <2>2, AssignKeepsOwners
<1>7. CASE UNCHANGED <<vars, mapping>>
  <2>1. UNCHANGED vars /\ UNCHANGED mapping
    BY <1>7
  <2>2. Inv' /\ entries' = entries
    BY <1>1, <2>1, StepKeepsInv DEF vars
  <2> QED BY <1>1, <1>4, <2>1, <2>2, FewerBindingsKeepOwners
<1> QED BY <1>3, <1>5, <1>6, <1>7

(* A lookup of its own endpoint takes no other binding from a relay, and   *)
(* leaves none on an endpoint it finds dead.                               *)
LEMMA LookupOwnKeeps ==
  ASSUME RelayInv, NEW r \in Endpoints, LookupOwn(r)
  PROVE  /\ Inv' /\ DOMAIN entries' \subseteq DOMAIN entries
         /\ \A k \in DOMAIN entries' : entries'[k].translated = entries[k].translated
         /\ ~EndpointLives(r) => \A k \in DOMAIN entries' : entries[k].translated # r
<1> DEFINE ep == <<udp, r>>
           k == translated[ep]
<1>1. Inv /\ ep \in EndpointKeys /\ DOMAIN entries \subseteq RelayKeys
  BY RelayNetwork DEF EndpointKeys, RelayInv
<1>2. \A j \in DOMAIN entries : entries[j].translated = r => ep \in DOMAIN translated /\ k = j
  BY <1>1 DEF RelayKeys, Inv, IndexesAgree, EndpointOf
<1>3. CASE LookupTranslated(ep)
  <2>1. Inv'
    BY <1>1, <1>3, StepKeepsInv DEF Next
  <2>2. /\ k \in DOMAIN entries
        /\ IF IsExpired(k) THEN Expire({k}) ELSE Refresh(k)
        /\ ~EndpointLives(r) => IsExpired(k)
    BY <1>3 DEF LookupTranslated, EndpointLives
  <2>3. CASE Expire({k}) /\ IsExpired(k)
    <3>1. DOMAIN entries' = DOMAIN entries \ {k}
      BY <2>3 DEF Expire, RemoveBindings, Drop, Restrict
    <3> QED BY <1>2, <2>1, <2>3, <3>1, ExpireShrinks
  <2>4. CASE Refresh(k) /\ ~IsExpired(k)
    <3> HIDE DEF k, ep
    <3> QED BY <1>1, <2>1, <2>2, <2>4, RefreshKeepsEndpoints
  <2> QED BY <2>2, <2>3, <2>4
<1>4. CASE ep \notin DOMAIN translated /\ UNCHANGED vars
  <2>1. Inv' /\ entries' = entries
    BY <1>1, <1>4, StepKeepsInv DEF vars
  <2> QED BY <1>2, <1>4, <2>1
<1> QED BY <1>3, <1>4 DEF LookupOwn

LEMMA RelayLookupKeeps ==
  ASSUME RelayInv, NEW r \in Endpoints, RelayLookup(r)
  PROVE  RelayInv'
<1>1. /\ LookupOwn(r) /\ UNCHANGED mapping /\ UNCHANGED sending /\ UNCHANGED sweeping
      /\ UNCHANGED releasing /\ receiving[r] # Idle
      /\ receiving' = [receiving EXCEPT ![r] = IF EndpointLives(r) THEN <<"touch", @[2]>> ELSE Idle]
  BY DEF RelayLookup
<1>2. RelayShape'
  <2>1. receiving[r][2] \in NatKeys
    BY <1>1 DEF RelayInv, RelayShape
  <2> DEFINE v == IF EndpointLives(r) THEN <<"touch", receiving[r][2]>> ELSE Idle
  <2>2. v \in ({"lookup", "touch"} \X NatKeys) \cup {Idle}
    BY <2>1
  <2>3. receiving' = [receiving EXCEPT ![r] = v]
    BY <1>1
  <2> HIDE DEF v
  <2> QED BY <1>1, <2>2, <2>3 DEF RelayInv, RelayShape
<1> QED BY <1>1, <1>2, LookupOwnKeeps, FewerBindingsKeepOwners

LEMMA RelayTouchKeeps ==
  ASSUME RelayInv, NEW r \in Endpoints, RelayTouch(r)
  PROVE  RelayInv'
<1> DEFINE k == SourceKey(receiving[r][2])
           d == receiving[r][2][2]
<1>1. /\ UNCHANGED mapping /\ UNCHANGED sending /\ UNCHANGED sweeping /\ UNCHANGED releasing
      /\ receiving[r] # Idle /\ receiving' = [receiving EXCEPT ![r] = Idle]
      /\ IF k \in DOMAIN entries THEN Touch(k, d) ELSE UNCHANGED vars
  BY DEF RelayTouch
<1>2. RelayShape'
  BY <1>1 DEF RelayInv, RelayShape
<1>3. d \in Destinations /\ Inv
  BY <1>1 DEF RelayInv, RelayShape, NatKeys, SourceKey
<1> HIDE DEF k, d
<1>4. CASE k \notin DOMAIN entries
  <2>1. UNCHANGED vars
    BY <1>1, <1>4
  <2>2. Inv' /\ entries' = entries
    BY <1>3, <2>1, StepKeepsInv DEF vars
  <2> QED BY <1>1, <1>2, <2>2, FewerBindingsKeepOwners
<1>5. CASE k \in DOMAIN entries
  <2>1. Expire({k}) \/ Use(k, d)
    BY <1>1, <1>5 DEF Touch
  <2>2. CASE Expire({k})
    <3>1. {k} \in SUBSET DOMAIN entries
      BY <1>5
    <3>2. Inv'
      BY <1>3, <2>2, <3>1, ExpireKeepsInv
    <3> QED BY <1>1, <1>2, <2>2, <3>2, ExpireShrinks, FewerBindingsKeepOwners
  <2>3. CASE Use(k, d)
    <3>1. Inv'
      BY <1>3, <1>5, <2>3, UseKeepsInv
    <3> QED BY <1>1, <1>2, <1>3, <1>5, <2>3, <3>1, UseKeepsEndpoints, FewerBindingsKeepOwners
  <2> QED BY <2>1, <2>2, <2>3
<1> QED BY <1>4, <1>5

LEMMA RelaySweepKeeps ==
  ASSUME RelayInv, NEW r \in Endpoints, RelaySweep(r)
  PROVE  RelayInv'
<1>1. /\ Sweep /\ UNCHANGED mapping /\ UNCHANGED sending /\ UNCHANGED receiving /\ UNCHANGED releasing
      /\ sweeping' = [sweeping EXCEPT ![r] = (mapping[r] # NoKey)]
  BY DEF RelaySweep
<1>2. RelayShape'
  BY <1>1 DEF RelayInv, RelayShape
<1>3. Inv' /\ Expire(ExpiredKeys)
  BY <1>1, StepKeepsInv DEF Next, Sweep, RelayInv
<1> QED BY <1>1, <1>2, <1>3, ExpireShrinks, FewerBindingsKeepOwners

(* A relay whose endpoint carries nothing has nothing to release.          *)
LEMMA RelaySweepLookupKeeps ==
  ASSUME RelayInv, NEW r \in Endpoints, RelaySweepLookup(r)
  PROVE  RelayInv'
<1>1. /\ LookupOwn(r) /\ UNCHANGED sending /\ UNCHANGED receiving /\ UNCHANGED releasing
      /\ IF EndpointLives(r) THEN UNCHANGED mapping ELSE Assign(r, NoKey)
      /\ sweeping' = [sweeping EXCEPT ![r] = FALSE]
  BY DEF RelaySweepLookup
<1>2. RelayShape'
  BY <1>1 DEF RelayInv, RelayShape, Assign
<1>3. CASE EndpointLives(r)
  BY <1>1, <1>2, <1>3, LookupOwnKeeps, FewerBindingsKeepOwners
<1>4. CASE ~EndpointLives(r)
  <2>1. \A x \in Endpoints : x # r => mapping'[x] = mapping[x]
    BY <1>1, <1>4 DEF RelayInv, RelayShape, Assign
  <2>2. /\ Inv' /\ DOMAIN entries' \subseteq DOMAIN entries
        /\ \A k \in DOMAIN entries' : entries'[k].translated = entries[k].translated
        /\ \A k \in DOMAIN entries' : entries[k].translated # r
    BY <1>1, <1>4, LookupOwnKeeps
  <2>3. BindingsHaveOwner'
    BY <1>1, <2>1, <2>2 DEF RelayInv, BindingsHaveOwner
  <2> QED BY <1>2, <2>2, <2>3 DEF RelayInv
<1> QED BY <1>3, <1>4

(* Between the two locks of a close its source is still owned: by it.      *)
LEMMA RelayCloseKeeps ==
  ASSUME RelayInv, NEW r \in Endpoints, RelayClose(r)
  PROVE  RelayInv'
<1> DEFINE k == SourceKey(mapping[r])
<1>1. /\ UNCHANGED vars /\ UNCHANGED sending /\ UNCHANGED sweeping /\ UNCHANGED receiving
      /\ Assign(r, NoKey) /\ mapping[r] # NoKey /\ releasing[r] = NoKey
      /\ releasing' = [releasing EXCEPT ![r] = k]
  BY DEF RelayClose
<1>2. k \in RelayKeys
  BY <1>1 DEF RelayInv, RelayShape, NatKeys, SourceKey
<1>3. Inv' /\ entries' = entries
  BY <1>1, StepKeepsInv DEF RelayInv, vars
<1>4. RelayShape'
  BY <1>1, <1>2 DEF RelayInv, RelayShape, Assign
<1>5. /\ releasing'[r] = k
      /\ \A x \in Endpoints : x # r => mapping'[x] = mapping[x] /\ releasing'[x] = releasing[x]
  BY <1>1 DEF RelayInv, RelayShape, Assign
<1>6. \A j \in DOMAIN entries : entries[j].translated = r => j = k \/ j = NoKey
  BY <1>1 DEF RelayInv, BindingsHaveOwner
<1>7. \A j \in DOMAIN entries : j # NoKey
  BY DEF RelayInv, RelayKeys, NoKey
<1> HIDE DEF k
<1>8. BindingsHaveOwner'
  <2> SUFFICES ASSUME NEW j \in DOMAIN entries, entries[j].translated \in Endpoints
               PROVE  LET q == entries[j].translated IN
                      \/ mapping'[q] # NoKey /\ SourceKey(mapping'[q]) = j
                      \/ releasing'[q] = j
    BY <1>3 DEF BindingsHaveOwner, SourceKey
  <2>1. CASE entries[j].translated = r
    BY <1>5, <1>6, <1>7, <2>1
  <2>2. CASE entries[j].translated # r
    BY <1>5, <2>2 DEF RelayInv, BindingsHaveOwner
  <2> QED BY <2>1, <2>2
<1> QED BY <1>3, <1>4, <1>8 DEF RelayInv

LEMMA RelayReleaseKeeps ==
  ASSUME RelayInv, NEW r \in Endpoints, RelayRelease(r)
  PROVE  RelayInv'
<1> DEFINE k == releasing[r]
<1>1. /\ UNCHANGED mapping /\ UNCHANGED sending /\ UNCHANGED sweeping /\ UNCHANGED receiving
      /\ releasing' = [releasing EXCEPT ![r] = NoKey]
      /\ IF k \in DOMAIN entries THEN CloseBinding(k) ELSE UNCHANGED vars
  BY DEF RelayRelease
<1>2. RelayShape'
  BY <1>1 DEF RelayInv, RelayShape
<1>3. /\ Inv' /\ DOMAIN entries' = DOMAIN entries \ {k}
      /\ \A j \in DOMAIN entries' : entries'[j].translated = entries[j].translated
  <2>1. CASE k \in DOMAIN entries
    <3>1. CloseBinding(k) /\ Inv
      BY <1>1, <2>1 DEF RelayInv
    <3>2. Inv'
      BY <2>1, <3>1, CloseKeepsInv
    <3> QED BY <3>1, <3>2 DEF CloseBinding, RemoveBindings, Drop, Restrict
  <2>2. CASE k \notin DOMAIN entries
    <3>1. UNCHANGED vars
      BY <1>1, <2>2
    <3>2. Inv' /\ entries' = entries
      BY <3>1, StepKeepsInv DEF RelayInv, vars
    <3> QED BY <2>2, <3>2
  <2> QED BY <2>1, <2>2
<1>4. \A x \in Endpoints : x # r => releasing'[x] = releasing[x]
  BY <1>1 DEF RelayInv, RelayShape
<1>5. BindingsHaveOwner'
  BY <1>1, <1>3, <1>4 DEF RelayInv, BindingsHaveOwner
<1> QED BY <1>2, <1>3, <1>5 DEF RelayInv

LEMMA RelayStepKeeps == RelayInv /\ [RelayNext]_relayVars => RelayInv'
<1> SUFFICES ASSUME RelayInv, [RelayNext]_relayVars PROVE RelayInv'
  OBVIOUS
<1>1. ASSUME NEW r \in Endpoints, RelayReceive(r) PROVE RelayInv'
  <2>1. /\ UNCHANGED vars /\ UNCHANGED mapping /\ UNCHANGED sending /\ UNCHANGED sweeping
        /\ UNCHANGED releasing /\ mapping[r] # NoKey
        /\ receiving' = [receiving EXCEPT ![r] = <<"lookup", mapping[r]>>]
    BY <1>1 DEF RelayReceive
  <2>2. RelayShape'
    BY <2>1 DEF RelayInv, RelayShape
  <2>3. Inv' /\ entries' = entries
    BY <2>1, StepKeepsInv DEF RelayInv, vars
  <2> QED BY <2>1, <2>2, <2>3, FewerBindingsKeepOwners
<1>2. ASSUME NEW r \in Endpoints,
             \/ \E s \in Sources, d \in Destinations : RelaySend(r, s, d)
             \/ RelayInsert(r) \/ RelayLookup(r) \/ RelayTouch(r)
             \/ RelaySweep(r) \/ RelaySweepLookup(r) \/ RelayClose(r) \/ RelayRelease(r)
      PROVE  RelayInv'
  BY <1>2, RelaySendKeeps, RelayInsertKeeps, RelayLookupKeeps, RelayTouchKeeps, RelaySweepKeeps,
     RelaySweepLookupKeeps, RelayCloseKeeps, RelayReleaseKeeps
<1>3. CASE (Tick \/ UNCHANGED vars) /\ UNCHANGED <<mapping, sending, sweeping, receiving, releasing>>
  <2>1. Inv'
    BY <1>3, StepKeepsInv DEF RelayInv, Next
  <2>2. entries' = entries /\ UNCHANGED mapping /\ UNCHANGED releasing /\ RelayShape'
    BY <1>3 DEF Tick, vars, RelayInv, RelayShape
  <2> QED BY <2>1, <2>2, FewerBindingsKeepOwners
<1> QED BY <1>1, <1>2, <1>3 DEF RelayNext, relayVars

(* Whatever the relays that share a table do between the locks they take,  *)
(* with sources that move and bindings that expire meanwhile: every        *)
(* binding of a relay's endpoint is the one of its mapping or the one a    *)
(* close of it is about to remove (nat.rs).                                *)
THEOREM RelayBindingsHaveOwner == RelaySpec => []BindingsHaveOwner
<1>1. RelayInit => RelayInv
  <2> SUFFICES ASSUME RelayInit PROVE RelayInv
    OBVIOUS
  <2>1. Inv
    BY InitEstablishesInv DEF RelayInit
  <2> QED BY <2>1 DEF RelayInit, Init, RelayInv, RelayShape, BindingsHaveOwner, EmptyMap
<1>2. RelayInv => BindingsHaveOwner
  BY DEF RelayInv
<1> QED BY <1>1, <1>2, RelayStepKeeps, PTL DEF RelaySpec

-----------------------------------------------------------------------------
(* The TCP flows of the TUN device.                                        *)
(*                                                                         *)
(* What a handler does to every flow of a set keeps to a set of states if  *)
(* what it does to one does.                                               *)
LEMMA FlushStays ==
  ASSUME NEW S, IsFiniteSet(S), NEW G, NEW r \in G, \A x \in S : \A y \in G : FlushFlow(x, y) \in G
  PROVE  FoldSet(FlushFlow, r, S) \in G
<1> DEFINE F == [p \in S \X G |-> FlushFlow(p[1], p[2])]
           c == [s \in SUBSET S |-> Pick(s)]
           Step(h) == h = [s \in SUBSET S |-> IF s = {} THEN r ELSE FlushFlow(Pick(s), h[s \ {Pick(s)}])]
           e == CHOOSE h : Step(h)
<1>1. F \in [S \X G -> G]
  OBVIOUS
<1>2. \A s \in SUBSET S : s # {} => Pick(s) \in s
  BY DEF Pick
<1>3. \A s \in SUBSET S : c[s] = Pick(s)
  OBVIOUS
<1>4. \A s \in SUBSET S : s # {} => c[s] \in s
  BY <1>2, <1>3
<1>5. PICK h \in [SUBSET S -> G] : Folding(F, r, c, SUBSET S, h)
  <2> HIDE DEF F, c
  <2> QED BY <1>1, <1>4, FoldingExists
<1>6. Step(h)
  <2>1. ASSUME NEW s \in SUBSET S, s # {}
        PROVE  F[<<c[s], h[s \ {c[s]}]>>] = FlushFlow(Pick(s), h[s \ {Pick(s)}])
    <3>1. <<Pick(s), h[s \ {Pick(s)}]>> \in S \X G /\ c[s] = Pick(s)
      BY <1>2, <1>3, <1>5, <2>1
    <3> QED BY <3>1
  <2> QED BY <1>5, <2>1 DEF Folding
<1>7. Step(e)
  BY <1>6
<1>8. FoldSet(FlushFlow, r, S) = e[S]
  BY DEF FoldSet, MapThenFoldSet, Pick
<1> HIDE DEF e
<1>9. e[{}] \in G
  BY <1>7
<1>10. ASSUME NEW s \in SUBSET S, s # {}
      PROVE  \E x \in s : e[s \ {x}] \in G => e[s] \in G
  <2>1. e[s] = FlushFlow(Pick(s), e[s \ {Pick(s)}])
    BY <1>7, <1>10
  <2>2. Pick(s) \in s /\ Pick(s) \in S
    BY <1>2, <1>10
  <2>3. e[s \ {Pick(s)}] \in G => e[s] \in G
    <3> HIDE DEF Step
    <3> QED BY <2>1, <2>2
  <2> HIDE DEF Step
  <2> QED BY <2>2, <2>3
<1>11. e[S] \in G
  BY <1>9, <1>10, FoldStays
<1> QED BY <1>8, <1>11

LEMMA CloseStays ==
  ASSUME NEW S, IsFiniteSet(S), NEW G, NEW r \in G, \A x \in S : \A y \in G : CloseFlow(x, y) \in G
  PROVE  FoldSet(CloseFlow, r, S) \in G
<1> DEFINE F == [p \in S \X G |-> CloseFlow(p[1], p[2])]
           c == [s \in SUBSET S |-> Pick(s)]
           Step(h) == h = [s \in SUBSET S |-> IF s = {} THEN r ELSE CloseFlow(Pick(s), h[s \ {Pick(s)}])]
           e == CHOOSE h : Step(h)
<1>1. F \in [S \X G -> G]
  OBVIOUS
<1>2. \A s \in SUBSET S : s # {} => Pick(s) \in s
  BY DEF Pick
<1>3. \A s \in SUBSET S : c[s] = Pick(s)
  OBVIOUS
<1>4. \A s \in SUBSET S : s # {} => c[s] \in s
  BY <1>2, <1>3
<1>5. PICK h \in [SUBSET S -> G] : Folding(F, r, c, SUBSET S, h)
  <2> HIDE DEF F, c
  <2> QED BY <1>1, <1>4, FoldingExists
<1>6. Step(h)
  <2>1. ASSUME NEW s \in SUBSET S, s # {}
        PROVE  F[<<c[s], h[s \ {c[s]}]>>] = CloseFlow(Pick(s), h[s \ {Pick(s)}])
    <3>1. <<Pick(s), h[s \ {Pick(s)}]>> \in S \X G /\ c[s] = Pick(s)
      BY <1>2, <1>3, <1>5, <2>1
    <3> QED BY <3>1
  <2> QED BY <1>5, <2>1 DEF Folding
<1>7. Step(e)
  BY <1>6
<1>8. FoldSet(CloseFlow, r, S) = e[S]
  BY DEF FoldSet, MapThenFoldSet, Pick
<1> HIDE DEF e
<1>9. e[{}] \in G
  BY <1>7
<1>10. ASSUME NEW s \in SUBSET S, s # {}
      PROVE  \E x \in s : e[s \ {x}] \in G => e[s] \in G
  <2>1. e[s] = CloseFlow(Pick(s), e[s \ {Pick(s)}])
    BY <1>7, <1>10
  <2>2. Pick(s) \in s /\ Pick(s) \in S
    BY <1>2, <1>10
  <2>3. e[s \ {Pick(s)}] \in G => e[s] \in G
    <3> HIDE DEF Step
    <3> QED BY <2>1, <2>2
  <2> HIDE DEF Step
  <2> QED BY <2>2, <2>3
<1>11. e[S] \in G
  BY <1>9, <1>10, FoldStays
<1> QED BY <1>8, <1>11

LEMMA ReapStays ==
  ASSUME NEW S, IsFiniteSet(S), NEW G, NEW r \in G, \A x \in S : \A y \in G : ReapFlow(x, y) \in G
  PROVE  FoldSet(ReapFlow, r, S) \in G
<1> DEFINE F == [p \in S \X G |-> ReapFlow(p[1], p[2])]
           c == [s \in SUBSET S |-> Pick(s)]
           Step(h) == h = [s \in SUBSET S |-> IF s = {} THEN r ELSE ReapFlow(Pick(s), h[s \ {Pick(s)}])]
           e == CHOOSE h : Step(h)
<1>1. F \in [S \X G -> G]
  OBVIOUS
<1>2. \A s \in SUBSET S : s # {} => Pick(s) \in s
  BY DEF Pick
<1>3. \A s \in SUBSET S : c[s] = Pick(s)
  OBVIOUS
<1>4. \A s \in SUBSET S : s # {} => c[s] \in s
  BY <1>2, <1>3
<1>5. PICK h \in [SUBSET S -> G] : Folding(F, r, c, SUBSET S, h)
  <2> HIDE DEF F, c
  <2> QED BY <1>1, <1>4, FoldingExists
<1>6. Step(h)
  <2>1. ASSUME NEW s \in SUBSET S, s # {}
        PROVE  F[<<c[s], h[s \ {c[s]}]>>] = ReapFlow(Pick(s), h[s \ {Pick(s)}])
    <3>1. <<Pick(s), h[s \ {Pick(s)}]>> \in S \X G /\ c[s] = Pick(s)
      BY <1>2, <1>3, <1>5, <2>1
    <3> QED BY <3>1
  <2> QED BY <1>5, <2>1 DEF Folding
<1>7. Step(e)
  BY <1>6
<1>8. FoldSet(ReapFlow, r, S) = e[S]
  BY DEF FoldSet, MapThenFoldSet, Pick
<1> HIDE DEF e
<1>9. e[{}] \in G
  BY <1>7
<1>10. ASSUME NEW s \in SUBSET S, s # {}
      PROVE  \E x \in s : e[s \ {x}] \in G => e[s] \in G
  <2>1. e[s] = ReapFlow(Pick(s), e[s \ {Pick(s)}])
    BY <1>7, <1>10
  <2>2. Pick(s) \in s /\ Pick(s) \in S
    BY <1>2, <1>10
  <2>3. e[s \ {Pick(s)}] \in G => e[s] \in G
    <3> HIDE DEF Step
    <3> QED BY <2>1, <2>2
  <2> HIDE DEF Step
  <2> QED BY <2>2, <2>3
<1>11. e[S] \in G
  BY <1>9, <1>10, FoldStays
<1> QED BY <1>8, <1>11

LEMMA ExpireStays ==
  ASSUME NEW S, IsFiniteSet(S), NEW G, NEW r \in G, \A x \in S : \A y \in G : ExpireFlow(x, y) \in G
  PROVE  FoldSet(ExpireFlow, r, S) \in G
<1> DEFINE F == [p \in S \X G |-> ExpireFlow(p[1], p[2])]
           c == [s \in SUBSET S |-> Pick(s)]
           Step(h) == h = [s \in SUBSET S |-> IF s = {} THEN r ELSE ExpireFlow(Pick(s), h[s \ {Pick(s)}])]
           e == CHOOSE h : Step(h)
<1>1. F \in [S \X G -> G]
  OBVIOUS
<1>2. \A s \in SUBSET S : s # {} => Pick(s) \in s
  BY DEF Pick
<1>3. \A s \in SUBSET S : c[s] = Pick(s)
  OBVIOUS
<1>4. \A s \in SUBSET S : s # {} => c[s] \in s
  BY <1>2, <1>3
<1>5. PICK h \in [SUBSET S -> G] : Folding(F, r, c, SUBSET S, h)
  <2> HIDE DEF F, c
  <2> QED BY <1>1, <1>4, FoldingExists
<1>6. Step(h)
  <2>1. ASSUME NEW s \in SUBSET S, s # {}
        PROVE  F[<<c[s], h[s \ {c[s]}]>>] = ExpireFlow(Pick(s), h[s \ {Pick(s)}])
    <3>1. <<Pick(s), h[s \ {Pick(s)}]>> \in S \X G /\ c[s] = Pick(s)
      BY <1>2, <1>3, <1>5, <2>1
    <3> QED BY <3>1
  <2> QED BY <1>5, <2>1 DEF Folding
<1>7. Step(e)
  BY <1>6
<1>8. FoldSet(ExpireFlow, r, S) = e[S]
  BY DEF FoldSet, MapThenFoldSet, Pick
<1> HIDE DEF e
<1>9. e[{}] \in G
  BY <1>7
<1>10. ASSUME NEW s \in SUBSET S, s # {}
      PROVE  \E x \in s : e[s \ {x}] \in G => e[s] \in G
  <2>1. e[s] = ExpireFlow(Pick(s), e[s \ {Pick(s)}])
    BY <1>7, <1>10
  <2>2. Pick(s) \in s /\ Pick(s) \in S
    BY <1>2, <1>10
  <2>3. e[s \ {Pick(s)}] \in G => e[s] \in G
    <3> HIDE DEF Step
    <3> QED BY <2>1, <2>2
  <2> HIDE DEF Step
  <2> QED BY <2>2, <2>3
<1>11. e[S] \in G
  BY <1>9, <1>10, FoldStays
<1> QED BY <1>8, <1>11

LEMMA ReplayStays ==
  ASSUME NEW E, NEW q \in Seq(E), NEW G, NEW r \in G,
         \A x \in E : \A y \in G : ReplayEvent(y, x) \in G
  PROVE  FoldLeft(ReplayEvent, r, q) \in G
<1> DEFINE S == DOMAIN q
           F == [p \in S \X G |-> ReplayEvent(p[2], q[p[1]])]
           c == [s \in SUBSET S |-> Max(s)]
           Step(h) == h = [s \in SUBSET S |-> IF s = {} THEN r
                                             ELSE ReplayEvent(h[s \ {Max(s)}], q[Max(s)])]
           e == CHOOSE h : Step(h)
<1>1. IsFiniteSet(S) /\ S = 1 .. Len(q) /\ Len(q) \in Nat /\ \A i \in S : q[i] \in E
  BY FS_Interval
<1>2. F \in [S \X G -> G]
  BY <1>1
<1>3. \A s \in SUBSET S : s # {} => Max(s) \in s
  BY <1>1, MaxIsIn
<1>4. \A s \in SUBSET S : c[s] = Max(s)
  OBVIOUS
<1>5. \A s \in SUBSET S : s # {} => c[s] \in s
  BY <1>3, <1>4
<1>6. PICK h \in [SUBSET S -> G] : Folding(F, r, c, SUBSET S, h)
  <2> HIDE DEF F, c, S
  <2> QED BY <1>1, <1>2, <1>5, FoldingExists
<1>7. Step(h)
  <2>1. ASSUME NEW s \in SUBSET S, s # {}
        PROVE  F[<<c[s], h[s \ {c[s]}]>>] = ReplayEvent(h[s \ {Max(s)}], q[Max(s)])
    <3>1. <<Max(s), h[s \ {Max(s)}]>> \in S \X G /\ c[s] = Max(s)
      BY <1>3, <1>4, <1>6, <2>1
    <3> QED BY <3>1
  <2> QED BY <1>6, <2>1 DEF Folding
<1>8. Step(e)
  BY <1>7
<1>9. FoldLeft(ReplayEvent, r, q) = e[S]
  BY DEF FoldLeft, MapThenFoldSet
<1> HIDE DEF e, S
<1>10. e[{}] \in G
  BY <1>8
<1>11. ASSUME NEW s \in SUBSET S, s # {}
       PROVE  \E x \in s : e[s \ {x}] \in G => e[s] \in G
  <2>1. e[s] = ReplayEvent(e[s \ {Max(s)}], q[Max(s)])
    BY <1>8, <1>11
  <2>2. Max(s) \in s /\ q[Max(s)] \in E
    BY <1>1, <1>3, <1>11
  <2> HIDE DEF Step
  <2>3. e[s \ {Max(s)}] \in G => e[s] \in G
    BY <2>1, <2>2
  <2> QED BY <2>2, <2>3
<1>12. e[S] \in G
  BY <1>1, <1>10, <1>11, FoldStays
<1> QED BY <1>9, <1>12

LEMMA KeptStays ==
  ASSUME NEW E, NEW q \in Seq(E), NEW G, <<>> \in G, NEW f,
         \A x \in E : \A y \in G : (IF x.flow = f THEN y ELSE Append(y, x)) \in G
  PROVE  EventsBut(q, f) \in G
<1> DEFINE S == DOMAIN q
           F == [p \in S \X G |-> IF q[p[1]].flow = f THEN p[2] ELSE Append(p[2], q[p[1]])]
           c == [s \in SUBSET S |-> Max(s)]
           Step(h) == h = [s \in SUBSET S |-> IF s = {} THEN <<>>
                                             ELSE (IF q[Max(s)].flow = f THEN h[s \ {Max(s)}] ELSE Append(h[s \ {Max(s)}], q[Max(s)]))]
           e == CHOOSE h : Step(h)
<1>1. IsFiniteSet(S) /\ S = 1 .. Len(q) /\ Len(q) \in Nat /\ \A i \in S : q[i] \in E
  BY FS_Interval
<1>2. F \in [S \X G -> G]
  BY <1>1
<1>3. \A s \in SUBSET S : s # {} => Max(s) \in s
  BY <1>1, MaxIsIn
<1>4. \A s \in SUBSET S : c[s] = Max(s)
  OBVIOUS
<1>5. \A s \in SUBSET S : s # {} => c[s] \in s
  BY <1>3, <1>4
<1>6. PICK h \in [SUBSET S -> G] : Folding(F, <<>>, c, SUBSET S, h)
  <2> HIDE DEF F, c, S
  <2> QED BY <1>1, <1>2, <1>5, FoldingExists
<1>7. Step(h)
  <2>1. ASSUME NEW s \in SUBSET S, s # {}
        PROVE  F[<<c[s], h[s \ {c[s]}]>>] = (IF q[Max(s)].flow = f THEN h[s \ {Max(s)}] ELSE Append(h[s \ {Max(s)}], q[Max(s)]))
    <3>1. <<Max(s), h[s \ {Max(s)}]>> \in S \X G /\ c[s] = Max(s)
      BY <1>3, <1>4, <1>6, <2>1
    <3> QED BY <3>1
  <2> QED BY <1>6, <2>1 DEF Folding
<1>8. Step(e)
  BY <1>7
<1>9. EventsBut(q, f) = e[S]
  BY DEF EventsBut, FoldLeft, MapThenFoldSet
<1> HIDE DEF e, S
<1>10. e[{}] \in G
  BY <1>8
<1>11. ASSUME NEW s \in SUBSET S, s # {}
       PROVE  \E x \in s : e[s \ {x}] \in G => e[s] \in G
  <2>1. e[s] = (IF q[Max(s)].flow = f THEN e[s \ {Max(s)}] ELSE Append(e[s \ {Max(s)}], q[Max(s)]))
    BY <1>8, <1>11
  <2>2. Max(s) \in s /\ q[Max(s)] \in E
    BY <1>1, <1>3, <1>11
  <2> HIDE DEF Step
  <2>3. e[s \ {Max(s)}] \in G => e[s] \in G
    BY <2>1, <2>2
  <2> QED BY <2>2, <2>3
<1>12. e[S] \in G
  BY <1>1, <1>10, <1>11, FoldStays
<1> QED BY <1>9, <1>12

-----------------------------------------------------------------------------
(* Types.  A unit of a stream is its generation and its number.            *)
Unit == Nat \X Nat

SocketRecord ==
  [st : {"none", "open", "closing", "dead"}, tx : 0 .. TxCap, got : Seq(Unit), sent : Nat,
   fin : BOOLEAN, gen : Nat]

TaskRecord ==
  [gen : Nat, pc : {"connecting", "relaying", "ending", "finished"}, cmds : Seq(Nat),
   forwarded : Seq(Nat), emitted : Nat, writeClosed : BOOLEAN]
TaskMap == UNION {[D -> TaskRecord] : D \in SUBSET TcpFlows}

InputRecord == [kind : {"opened", "data", "half", "closed"}, flow : TcpFlows, n : Nat]
DeferredRecord == [kind : {"opened", "data", "half"}, flow : TcpFlows, n : Nat]
OutputRecord ==
  [kind : {"data", "closed", "resolved"}, flow : TcpFlows, gen : Nat, payload : Seq(Unit)]

LookupRecord == [id : Nat, events : Seq(DeferredRecord), sent : BOOLEAN]

LoopRecord ==
  [sock : [TcpFlows -> SocketRecord], tracked : SUBSET TcpFlows, nat : SUBSET TcpFlows,
   cached : BOOLEAN, resolver : BOOLEAN, lookup : LookupRecord, nextId : Nat,
   task : TaskMap, gens : Nat, pending : [TcpFlows -> Seq(Unit)], closes : SUBSET TcpFlows,
   requested : SUBSET TcpFlows, ok : BOOLEAN]

TunTcpShape == tun \in LoopRecord /\ inputs \in Seq(InputRecord) /\ outputs \in Seq(OutputRecord)

(* The flows that have a socket.                                           *)
Socketed(r) == {f \in TcpFlows : r.sock[f].st # "none"}

(* What the loop keeps between its handlers.  The flows that are tracked   *)
(* or wait for a lookup are in L.                                          *)
TasksInOrder(r) ==
  /\ DOMAIN r.task \subseteq r.tracked
  /\ r.lookup.id # 0 => DOMAIN r.task = {}
  /\ r.resolver /\ ~r.cached => DOMAIN r.task = {}
ClosesWait(r) == \A f \in r.closes : r.pending[f] # <<>>
LookupInOrder(r, L) ==
  /\ r.lookup.id = 0 => r.lookup = NoLookup
  /\ r.lookup.id # 0 => r.lookup.events # <<>>
  /\ \A i \in DOMAIN r.lookup.events : r.lookup.events[i].flow \in L
Ordered(L, P) ==
  {r \in LoopRecord : /\ Socketed(r) = P /\ r.tracked \subseteq L
                      /\ TasksInOrder(r) /\ ClosesWait(r) /\ LookupInOrder(r, L)}

-----------------------------------------------------------------------------
(* What the helpers of TunProxyRuntime return.                             *)
LEMMA TrackReturns ==
  ASSUME NEW r \in LoopRecord, NEW f \in TcpFlows
  PROVE  LET t == Track(r, f) IN
         /\ t \in LoopRecord /\ t.tracked = r.tracked \cup {f}
         /\ t.sock = r.sock /\ t.cached = r.cached /\ t.resolver = r.resolver /\ t.lookup = r.lookup
         /\ t.task = r.task /\ t.pending = r.pending /\ t.closes = r.closes /\ t.gens = r.gens
         /\ t.ok = r.ok /\ t.nextId = r.nextId
BY DEF Track, LoopRecord

LEMMA UntrackReturns ==
  ASSUME NEW r \in LoopRecord, NEW f \in TcpFlows
  PROVE  LET u == Untrack(r, f) IN
         /\ u \in LoopRecord /\ u.tracked = r.tracked \ {f}
         /\ u.sock = r.sock /\ u.resolver = r.resolver /\ u.lookup = r.lookup
         /\ u.task = r.task /\ u.pending = r.pending /\ u.closes = r.closes /\ u.gens = r.gens
         /\ u.ok = r.ok
         /\ u.cached => r.cached
         /\ ~u.cached => ~r.cached \/ u.tracked = {}
BY DEF Untrack, LoopRecord

LEMMA AbortReturns ==
  ASSUME NEW r \in LoopRecord, NEW f \in TcpFlows
  PROVE  LET a == AbortTask(r, f) IN
         /\ a \in LoopRecord /\ a.tracked = r.tracked
         /\ a.sock = r.sock /\ a.cached = r.cached /\ a.resolver = r.resolver /\ a.lookup = r.lookup
         /\ DOMAIN a.task = DOMAIN r.task \ {f} /\ \A g \in DOMAIN a.task : a.task[g] = r.task[g]
         /\ a.pending = [r.pending EXCEPT ![f] = <<>>] /\ a.closes = r.closes \ {f} /\ a.gens = r.gens
         /\ a.ok = r.ok
<1>1. PICK D \in SUBSET TcpFlows : r.task \in [D -> TaskRecord]
  BY DEF LoopRecord, TaskMap
<1>2. /\ Drop(r.task, {f}) \in [D \ {f} -> TaskRecord]
      /\ \A g \in D \ {f} : Drop(r.task, {f})[g] = r.task[g]
  BY <1>1 DEF Drop, Restrict
<1>3. Drop(r.task, {f}) \in TaskMap
  BY <1>2 DEF TaskMap
<1>4. <<>> \in Seq(Unit)
  OBVIOUS
<1> QED BY <1>1, <1>2, <1>3, <1>4 DEF AbortTask, ClearPending, LoopRecord

LEMMA KeptEvents ==
  ASSUME NEW q \in Seq(DeferredRecord), NEW f
  PROVE  /\ EventsBut(q, f) \in Seq(DeferredRecord)
         /\ \A i \in DOMAIN EventsBut(q, f) :
              \E j \in DOMAIN q : EventsBut(q, f)[i] = q[j] /\ q[j].flow # f
<1> DEFINE K == {q[j] : j \in DOMAIN q}
           G == Seq({e \in K : e.flow # f})
<1>1. q \in Seq(K)
  BY SeqDef
<1>2. <<>> \in G /\ \A x \in K : \A y \in G : (IF x.flow = f THEN y ELSE Append(y, x)) \in G
  OBVIOUS
<1>3. EventsBut(q, f) \in G
  <2> HIDE DEF G, K
  <2> QED BY <1>1, <1>2, KeptStays
<1>4. \A i \in DOMAIN EventsBut(q, f) : EventsBut(q, f)[i] \in {e \in K : e.flow # f}
  BY <1>3
<1>5. \A e \in K : e \in DeferredRecord
  OBVIOUS
<1>6. EventsBut(q, f) \in Seq(DeferredRecord)
  BY <1>3, <1>5
<1> QED BY <1>4, <1>6

LEMMA DropDeferredReturns ==
  ASSUME NEW r \in LoopRecord, NEW f \in TcpFlows, r.lookup.id = 0 => r.lookup = NoLookup
  PROVE  LET d == DropDeferred(r, f) IN
         /\ d \in LoopRecord /\ d.tracked = r.tracked
         /\ d.sock = r.sock /\ d.cached = r.cached /\ d.resolver = r.resolver
         /\ d.task = r.task /\ d.pending = r.pending /\ d.closes = r.closes /\ d.gens = r.gens
         /\ d.ok = r.ok /\ d.nextId = r.nextId
         /\ d.lookup.id # 0 => r.lookup.id # 0
         /\ d.lookup.id = 0 => d.lookup = NoLookup
         /\ d.lookup.id # 0 => d.lookup.events # <<>>
         /\ \A i \in DOMAIN d.lookup.events :
              d.lookup.events[i].flow # f /\ \E j \in DOMAIN r.lookup.events : d.lookup.events[i] = r.lookup.events[j]
<1>1. r.lookup \in LookupRecord /\ r.lookup.events \in Seq(DeferredRecord)
  BY DEF LoopRecord, LookupRecord
<1>2. NoLookup \in LookupRecord /\ NoLookup.events = <<>> /\ NoLookup.id = 0
  BY DEF NoLookup, LookupRecord
<1> DEFINE kept == EventsBut(r.lookup.events, f)
<1>3. /\ kept \in Seq(DeferredRecord)
      /\ \A i \in DOMAIN kept : \E j \in DOMAIN r.lookup.events : kept[i] = r.lookup.events[j] /\ r.lookup.events[j].flow # f
  BY <1>1, KeptEvents
<1>4. CASE r.lookup.id = 0
  BY <1>2, <1>4 DEF DropDeferred
<1>5. CASE r.lookup.id # 0 /\ kept = <<>>
  <2>1. DropDeferred(r, f) = [r EXCEPT !.lookup = NoLookup]
    BY <1>5 DEF DropDeferred
  <2>2. DropDeferred(r, f).lookup = NoLookup
    BY <2>1 DEF LoopRecord
  <2>3. DOMAIN DropDeferred(r, f).lookup.events = {}
    BY <1>2, <2>2
  <2>4. [r EXCEPT !.lookup = NoLookup] \in LoopRecord
    BY <1>2 DEF LoopRecord
  <2> QED BY <1>2, <1>5, <2>1, <2>2, <2>3, <2>4 DEF LoopRecord
<1>6. CASE r.lookup.id # 0 /\ kept # <<>>
  <2>1. DropDeferred(r, f) = [r EXCEPT !.lookup.events = kept]
    BY <1>6 DEF DropDeferred
  <2> HIDE DEF kept
  <2>2. [r.lookup EXCEPT !.events = kept] \in LookupRecord
    BY <1>1, <1>3 DEF LookupRecord
  <2>3. DropDeferred(r, f) = [r EXCEPT !.lookup = [r.lookup EXCEPT !.events = kept]]
    BY <2>1 DEF LoopRecord
  <2>4. /\ DropDeferred(r, f).lookup.events = kept /\ DropDeferred(r, f).lookup.id = r.lookup.id
    BY <1>1, <2>3 DEF LoopRecord, LookupRecord
  <2> QED BY <1>3, <1>6, <2>2, <2>3, <2>4 DEF LoopRecord
<1> QED BY <1>4, <1>5, <1>6

(* Closing or resetting a socket changes its state and nothing else.       *)
SameBuffers(a, r) ==
  /\ Socketed(a) = Socketed(r)
  /\ \A f \in TcpFlows : /\ a.sock[f].tx = r.sock[f].tx /\ a.sock[f].got = r.sock[f].got
                         /\ a.sock[f].sent = r.sock[f].sent /\ a.sock[f].gen = r.sock[f].gen
                         /\ a.sock[f].fin = r.sock[f].fin /\ (Writable(a, f) => Writable(r, f))
SameBesideSockets(a, r) ==
  /\ a.tracked = r.tracked /\ a.cached = r.cached /\ a.resolver = r.resolver /\ a.lookup = r.lookup
  /\ a.task = r.task /\ a.pending = r.pending /\ a.closes = r.closes /\ a.gens = r.gens /\ a.ok = r.ok

LEMMA CloseTcpReturns ==
  ASSUME NEW r \in LoopRecord, NEW f \in TcpFlows
  PROVE  /\ CloseTcp(r, f) \in LoopRecord /\ AbortTcp(r, f) \in LoopRecord
         /\ SameBesideSockets(CloseTcp(r, f), r) /\ SameBesideSockets(AbortTcp(r, f), r)
         /\ SameBuffers(CloseTcp(r, f), r) /\ SameBuffers(AbortTcp(r, f), r)
<1>1. r.sock[f] \in SocketRecord
  BY DEF LoopRecord
<1> DEFINE S(st) == [r EXCEPT !.sock[f].st = st]
<1>2. ASSUME NEW st \in {"closing", "dead"}, r.sock[f].st # "none"
      PROVE  S(st) \in LoopRecord /\ SameBesideSockets(S(st), r) /\ SameBuffers(S(st), r)
  <2>1. [r.sock[f] EXCEPT !.st = st] \in SocketRecord
    BY <1>1 DEF SocketRecord
  <2>2. /\ S(st).sock = [r.sock EXCEPT ![f] = [r.sock[f] EXCEPT !.st = st]]
        /\ S(st) = [r EXCEPT !.sock = [r.sock EXCEPT ![f] = [r.sock[f] EXCEPT !.st = st]]]
    BY DEF LoopRecord
  <2>3. S(st) \in LoopRecord /\ SameBesideSockets(S(st), r)
    BY <2>1, <2>2 DEF LoopRecord, SameBesideSockets
  <2>4. SameBuffers(S(st), r)
    <3>1. \A g \in TcpFlows : S(st).sock[g] = IF g = f THEN [r.sock[f] EXCEPT !.st = st] ELSE r.sock[g]
      BY <2>2 DEF LoopRecord
    <3>2. \A g \in TcpFlows : r.sock[g] \in SocketRecord
      BY DEF LoopRecord
    <3> HIDE DEF S
    <3>3. ASSUME NEW g \in TcpFlows
          PROVE  /\ S(st).sock[g].st # "none" <=> r.sock[g].st # "none"
                 /\ S(st).sock[g].tx = r.sock[g].tx /\ S(st).sock[g].got = r.sock[g].got
                 /\ S(st).sock[g].sent = r.sock[g].sent /\ S(st).sock[g].gen = r.sock[g].gen
                 /\ S(st).sock[g].fin = r.sock[g].fin /\ (Writable(S(st), g) => Writable(r, g))
      BY <1>1, <1>2, <3>1, <3>2, SMTT(40) DEF SocketRecord, Writable
    <3> QED BY <3>3 DEF SameBuffers, Socketed
  <2> QED BY <2>3, <2>4
<1>3. SameBesideSockets(r, r) /\ SameBuffers(r, r)
  BY DEF SameBesideSockets, SameBuffers
<1> QED BY <1>2, <1>3 DEF CloseTcp, AbortTcp

-----------------------------------------------------------------------------
(* The handlers keep the loop in order.                                    *)
LEMMA AbortOrdered ==
  ASSUME NEW L, NEW P, NEW r \in Ordered(L, P), NEW f \in TcpFlows
  PROVE  /\ AbortTask(r, f) \in Ordered(L, P) /\ f \notin DOMAIN AbortTask(r, f).task
<1>1. r \in LoopRecord /\ r.pending \in [TcpFlows -> Seq(Unit)] /\ r.closes \subseteq TcpFlows
  BY DEF Ordered, LoopRecord
<1> DEFINE a == AbortTask(r, f)
<1>2. /\ a \in LoopRecord /\ a.tracked = r.tracked
      /\ a.sock = r.sock /\ a.cached = r.cached /\ a.resolver = r.resolver /\ a.lookup = r.lookup
      /\ DOMAIN a.task = DOMAIN r.task \ {f}
      /\ a.pending = [r.pending EXCEPT ![f] = <<>>] /\ a.closes = r.closes \ {f}
  BY <1>1, AbortReturns
<1> HIDE DEF a
<1>3. ClosesWait(a)
  BY <1>1, <1>2 DEF ClosesWait, Ordered
<1>4. TasksInOrder(a) /\ LookupInOrder(a, L) /\ Socketed(a) = P /\ a.tracked \subseteq L
  BY <1>2 DEF Ordered, TasksInOrder, LookupInOrder, Socketed
<1> QED BY <1>2, <1>3, <1>4 DEF Ordered, a

LEMMA UntrackOrdered ==
  ASSUME NEW L, NEW P, NEW r \in Ordered(L, P), NEW f \in TcpFlows, f \notin DOMAIN r.task
  PROVE  Untrack(r, f) \in Ordered(L, P)
<1>1. r \in LoopRecord
  BY DEF Ordered
<1> DEFINE u == Untrack(r, f)
<1>2. /\ u \in LoopRecord /\ u.tracked = r.tracked \ {f}
      /\ u.sock = r.sock /\ u.resolver = r.resolver /\ u.lookup = r.lookup
      /\ u.task = r.task /\ u.pending = r.pending /\ u.closes = r.closes
      /\ ~u.cached => ~r.cached \/ u.tracked = {}
  BY <1>1, UntrackReturns
<1> HIDE DEF u
<1>3. TasksInOrder(u)
  BY <1>2 DEF Ordered, TasksInOrder
<1>4. ClosesWait(u) /\ LookupInOrder(u, L) /\ Socketed(u) = P /\ u.tracked \subseteq L
  BY <1>2 DEF Ordered, ClosesWait, LookupInOrder, Socketed
<1> QED BY <1>2, <1>3, <1>4 DEF Ordered, u

LEMMA DropDeferredOrdered ==
  ASSUME NEW L, NEW P, NEW r \in Ordered(L, P), NEW f \in TcpFlows
  PROVE  /\ DropDeferred(r, f) \in Ordered(L, P)
         /\ \A i \in DOMAIN DropDeferred(r, f).lookup.events : DropDeferred(r, f).lookup.events[i].flow # f
<1>1. r \in LoopRecord /\ (r.lookup.id = 0 => r.lookup = NoLookup)
  BY DEF Ordered, LookupInOrder
<1> DEFINE d == DropDeferred(r, f)
<1>2. /\ d \in LoopRecord /\ d.tracked = r.tracked
      /\ d.sock = r.sock /\ d.cached = r.cached /\ d.resolver = r.resolver
      /\ d.task = r.task /\ d.pending = r.pending /\ d.closes = r.closes
      /\ d.lookup.id # 0 => r.lookup.id # 0
      /\ d.lookup.id = 0 => d.lookup = NoLookup
      /\ d.lookup.id # 0 => d.lookup.events # <<>>
      /\ \A i \in DOMAIN d.lookup.events :
           d.lookup.events[i].flow # f /\ \E j \in DOMAIN r.lookup.events : d.lookup.events[i] = r.lookup.events[j]
  BY <1>1, DropDeferredReturns
<1> HIDE DEF d
<1>3. TasksInOrder(d) /\ ClosesWait(d) /\ Socketed(d) = P /\ d.tracked \subseteq L
  BY <1>2 DEF Ordered, TasksInOrder, ClosesWait, Socketed
<1>4. LookupInOrder(d, L)
  BY <1>2 DEF Ordered, LookupInOrder
<1> QED BY <1>2, <1>3, <1>4 DEF Ordered, d

LEMMA SocketsOrdered ==
  ASSUME NEW L, NEW P, NEW r \in Ordered(L, P), NEW a \in LoopRecord, SameBesideSockets(a, r),
         Socketed(a) = Socketed(r)
  PROVE  a \in Ordered(L, P)
BY DEF Ordered, SameBesideSockets, TasksInOrder, ClosesWait, LookupInOrder

LEMMA CloseTcpOrdered ==
  ASSUME NEW L, NEW P, NEW r \in Ordered(L, P), NEW f \in TcpFlows
  PROVE  CloseTcp(r, f) \in Ordered(L, P) /\ AbortTcp(r, f) \in Ordered(L, P)
<1>1. r \in LoopRecord
  BY DEF Ordered
<1>2. /\ CloseTcp(r, f) \in LoopRecord /\ AbortTcp(r, f) \in LoopRecord
      /\ SameBesideSockets(CloseTcp(r, f), r) /\ SameBesideSockets(AbortTcp(r, f), r)
      /\ Socketed(CloseTcp(r, f)) = Socketed(r) /\ Socketed(AbortTcp(r, f)) = Socketed(r)
  BY <1>1, CloseTcpReturns DEF SameBuffers
<1>3. CloseTcp(r, f) \in Ordered(L, P)
  BY <1>2, SocketsOrdered
<1> QED BY <1>2, <1>3, SocketsOrdered

LEMMA FinishOrdered ==
  ASSUME NEW L, NEW P, NEW r \in Ordered(L, P), NEW f \in TcpFlows
  PROVE  FinishTcpClose(r, f) \in Ordered(L, P)
<1>1. CloseTcp(r, f) \in Ordered(L, P)
  BY CloseTcpOrdered
<1>2. /\ AbortTask(CloseTcp(r, f), f) \in Ordered(L, P)
      /\ f \notin DOMAIN AbortTask(CloseTcp(r, f), f).task
  BY <1>1, AbortOrdered
<1> QED BY <1>2, UntrackOrdered DEF FinishTcpClose

LEMMA RemoveOrdered ==
  ASSUME NEW L, NEW P, NEW r \in Ordered(L, P), NEW f \in TcpFlows
  PROVE  RemoveFlowTask(r, f) \in Ordered(L, P) /\ f \notin DOMAIN RemoveFlowTask(r, f).task
<1>1. DropDeferred(r, f) \in Ordered(L, P)
  BY DropDeferredOrdered
<1> QED BY <1>1, AbortOrdered DEF RemoveFlowTask

LEMMA CloseFlowOrdered ==
  ASSUME NEW L, NEW P, NEW r \in Ordered(L, P), NEW f \in TcpFlows
  PROVE  CloseFlow(f, r) \in Ordered(L, P)
<1> DEFINE a == RemoveFlowTask(r, f)
           b == AbortTcp(a, f)
<1>1. a \in Ordered(L, P) /\ f \notin DOMAIN a.task
  BY RemoveOrdered
<1>2. a \in LoopRecord
  BY <1>1 DEF Ordered
<1> HIDE DEF a
<1>3. b \in Ordered(L, P) /\ b.task = a.task
  BY <1>1, <1>2, CloseTcpOrdered, CloseTcpReturns DEF SameBesideSockets
<1>4. CloseFlow(f, r) = Untrack(b, f)
  BY DEF CloseFlow, a
<1> HIDE DEF b
<1> QED BY <1>1, <1>3, <1>4, UntrackOrdered

LEMMA ExpireOrdered ==
  ASSUME NEW L, NEW P, NEW r \in Ordered(L, P), NEW f \in TcpFlows
  PROVE  ExpireFlow(f, r) \in Ordered(L, P)
<1>1. AbortTcp(r, f) \in Ordered(L, P)
  BY CloseTcpOrdered
<1> QED BY <1>1, RemoveOrdered DEF ExpireFlow

LEMMA ReapOrdered ==
  ASSUME NEW L, NEW P, NEW r \in Ordered(L, P), NEW f \in TcpFlows
  PROVE  ReapFlow(f, r) \in Ordered(L, P)
<1>1. CASE r.pending[f] # <<>>
  <2>1. [r EXCEPT !.closes = @ \cup {f}] \in Ordered(L, P)
    BY <1>1 DEF Ordered, LoopRecord, TasksInOrder, ClosesWait, LookupInOrder, Socketed
  <2> QED BY <1>1, <2>1 DEF ReapFlow
<1>2. CASE r.pending[f] = <<>>
  BY <1>2, FinishOrdered DEF ReapFlow
<1> QED BY <1>1, <1>2

(* A write takes a beginning of the payload, and leaves the rest.          *)
LEMMA WriteReturns ==
  ASSUME NEW r \in LoopRecord, NEW f \in TcpFlows, NEW p \in Seq(Unit)
  PROVE  LET n == Fits(r, f, p)
             w == WriteTcp(r, f, p) IN
         /\ n \in 0 .. Len(p) /\ SubSeq(p, 1, n) \in Seq(Unit) /\ SubSeq(p, n + 1, Len(p)) \in Seq(Unit)
         /\ w \in LoopRecord /\ SameBesideSockets(w, r)
         /\ \A g \in TcpFlows : g # f => w.sock[g] = r.sock[g]
         /\ w.sock[f].got = r.sock[f].got \o SubSeq(p, 1, n)
         /\ w.sock[f].st = r.sock[f].st /\ w.sock[f].gen = r.sock[f].gen /\ w.sock[f].sent = r.sock[f].sent
         /\ w.sock[f].fin = r.sock[f].fin /\ w.sock[f].tx = r.sock[f].tx + n
         /\ r.sock[f].tx \in 0 .. TxCap /\ TxCap \in Nat /\ (n = Len(p) \/ r.sock[f].tx + n = TxCap)
<1> DEFINE n == Fits(r, f, p)
           w == WriteTcp(r, f, p)
           s == [r.sock[f] EXCEPT !.tx = @ + n, !.got = @ \o SubSeq(p, 1, n)]
<1>1. r.sock[f] \in SocketRecord /\ r.sock \in [TcpFlows -> SocketRecord]
  BY DEF LoopRecord
<1>2. r.sock[f].tx \in 0 .. TxCap /\ r.sock[f].got \in Seq(Unit) /\ TxCap \in Nat
  BY <1>1, TunTcpAssumption DEF SocketRecord
<1>3. n \in 0 .. Len(p) /\ r.sock[f].tx + n \in 0 .. TxCap /\ (n = Len(p) \/ r.sock[f].tx + n = TxCap)
  BY <1>2 DEF Fits
<1> HIDE DEF n
<1>4. SubSeq(p, 1, n) \in Seq(Unit) /\ SubSeq(p, n + 1, Len(p)) \in Seq(Unit)
  BY <1>3, SubSeqProperties
<1>5. s \in SocketRecord
  <2>1. r.sock[f].got \o SubSeq(p, 1, n) \in Seq(Unit)
    BY <1>2, <1>4, ConcatProperties
  <2> QED BY <1>1, <1>2, <1>3, <2>1 DEF SocketRecord
<1>6. w = [r EXCEPT !.sock = [r.sock EXCEPT ![f] = s]]
  BY <1>1 DEF WriteTcp, LoopRecord, SocketRecord, n
<1>7. w \in LoopRecord /\ w.sock = [r.sock EXCEPT ![f] = s] /\ SameBesideSockets(w, r)
  <2> HIDE DEF w, s
  <2> QED BY <1>5, <1>6 DEF LoopRecord, SameBesideSockets
<1>8. w.sock[f] = s /\ \A g \in TcpFlows : g # f => w.sock[g] = r.sock[g]
  BY <1>1, <1>7
<1>9. s.got = r.sock[f].got \o SubSeq(p, 1, n) /\ s.st = r.sock[f].st /\ s.gen = r.sock[f].gen
      /\ s.sent = r.sock[f].sent /\ s.fin = r.sock[f].fin /\ s.tx = r.sock[f].tx + n
  BY <1>1 DEF SocketRecord
<1> HIDE DEF w, s
<1> QED BY <1>2, <1>3, <1>4, <1>7, <1>8, <1>9 DEF w, n

LEMMA WriteOrdered ==
  ASSUME NEW L, NEW P, NEW r \in Ordered(L, P), NEW f \in TcpFlows, NEW p \in Seq(Unit)
  PROVE  WriteTcp(r, f, p) \in Ordered(L, P) /\ WriteTcp(r, f, p).pending = r.pending
         /\ WriteTcp(r, f, p).closes = r.closes
<1>1. r \in LoopRecord
  BY DEF Ordered
<1> DEFINE w == WriteTcp(r, f, p)
<1>2. /\ w \in LoopRecord /\ SameBesideSockets(w, r)
      /\ \A g \in TcpFlows : g # f => w.sock[g] = r.sock[g]
      /\ w.sock[f].st = r.sock[f].st
  BY <1>1, WriteReturns
<1> HIDE DEF w
<1>3. Socketed(w) = Socketed(r)
  BY <1>2 DEF Socketed
<1>4. w \in Ordered(L, P)
  BY <1>2, <1>3, SocketsOrdered
<1> QED BY <1>2, <1>4 DEF w, SameBesideSockets

(* What waits for a socket may change, as long as a close still waits for  *)
(* something.                                                              *)
LEMMA PendingOrdered ==
  ASSUME NEW L, NEW P, NEW r \in Ordered(L, P), NEW f \in TcpFlows, NEW p \in Seq(Unit),
         f \in r.closes => p # <<>>
  PROVE  [r EXCEPT !.pending[f] = p] \in Ordered(L, P)
<1> DEFINE a == [r EXCEPT !.pending[f] = p]
<1>1. a \in LoopRecord /\ a.pending = [r.pending EXCEPT ![f] = p] /\ a.closes = r.closes
      /\ r.pending \in [TcpFlows -> Seq(Unit)] /\ r.closes \subseteq TcpFlows
  BY DEF Ordered, LoopRecord
<1>2. a.task = r.task /\ a.tracked = r.tracked /\ a.lookup = r.lookup /\ a.resolver = r.resolver
      /\ a.cached = r.cached /\ a.sock = r.sock
  BY DEF Ordered, LoopRecord
<1> HIDE DEF a
<1>3. ClosesWait(a)
  BY <1>1 DEF Ordered, ClosesWait
<1>4. a \in Ordered(L, P)
  BY <1>1, <1>2, <1>3 DEF Ordered, TasksInOrder, LookupInOrder, Socketed
<1> QED BY <1>4 DEF a

LEMMA ClearOrdered ==
  ASSUME NEW L, NEW P, NEW r \in Ordered(L, P), NEW f \in TcpFlows
  PROVE  ClearPending(r, f) \in Ordered(L, P)
<1> DEFINE a == ClearPending(r, f)
<1>1. <<>> \in Seq(Unit)
  OBVIOUS
<1>2. a \in LoopRecord /\ a.pending = [r.pending EXCEPT ![f] = <<>>] /\ a.closes = r.closes \ {f}
      /\ r.pending \in [TcpFlows -> Seq(Unit)] /\ r.closes \subseteq TcpFlows
  BY <1>1 DEF Ordered, LoopRecord, ClearPending
<1>3. a.task = r.task /\ a.tracked = r.tracked /\ a.lookup = r.lookup /\ a.resolver = r.resolver
      /\ a.cached = r.cached /\ a.sock = r.sock
  BY DEF Ordered, LoopRecord, ClearPending
<1> HIDE DEF a
<1>4. ClosesWait(a)
  BY <1>2 DEF Ordered, ClosesWait
<1>5. a \in Ordered(L, P)
  BY <1>2, <1>3, <1>4 DEF Ordered, TasksInOrder, LookupInOrder, Socketed
<1> QED BY <1>5 DEF a

LEMMA FlushOrdered ==
  ASSUME NEW L, NEW P, NEW r \in Ordered(L, P), NEW f \in TcpFlows
  PROVE  FlushFlow(f, r) \in Ordered(L, P)
<1> DEFINE bytes == r.pending[f]
           n == Fits(r, f, bytes)
           rest == SubSeq(bytes, n + 1, Len(bytes))
           v == WriteTcp(r, f, bytes)
           w == [v EXCEPT !.pending[f] = rest]
<1>1. r \in LoopRecord /\ bytes \in Seq(Unit)
  BY DEF Ordered, LoopRecord
<1>2. rest \in Seq(Unit) /\ v \in Ordered(L, P) /\ v.pending = r.pending /\ v.closes = r.closes
  BY <1>1, WriteReturns, WriteOrdered
<1>3. v \in LoopRecord /\ v.pending = r.pending /\ v.closes = r.closes /\ r.pending \in [TcpFlows -> Seq(Unit)]
  <2> HIDE DEF v
  <2> QED BY <1>1, <1>2 DEF Ordered, LoopRecord
<1>4. ClearPending(w, f) = ClearPending(v, f) /\ w.closes = v.closes
  <2> HIDE DEF v, rest
  <2> QED BY <1>3 DEF ClearPending, LoopRecord
<1>5. FinishTcpClose(w, f) = FinishTcpClose(v, f)
  <2> HIDE DEF v, rest
  <2>1. /\ w.sock = v.sock
        /\ [w EXCEPT !.sock[f].st = "closing"] = [[v EXCEPT !.sock[f].st = "closing"] EXCEPT !.pending[f] = rest]
    BY <1>3 DEF LoopRecord
  <2>2. CloseTcp(w, f) = [CloseTcp(v, f) EXCEPT !.pending[f] = rest]
    BY <2>1 DEF CloseTcp
  <2>3. CloseTcp(v, f) \in LoopRecord
    BY <1>3, CloseTcpReturns
  <2>4. AbortTask(CloseTcp(w, f), f) = AbortTask(CloseTcp(v, f), f)
    BY <2>2, <2>3, ZenonT(40) DEF AbortTask, ClearPending, LoopRecord
  <2> QED BY <2>4 DEF FinishTcpClose
<1>6. rest # <<>> => w \in Ordered(L, P)
  <2> HIDE DEF v, rest
  <2> QED BY <1>2, PendingOrdered
<1>7. FlushFlow(f, r) = IF bytes = <<>> THEN r
        ELSE IF ~Writable(r, f) THEN (IF f \in r.closes THEN FinishTcpClose(r, f) ELSE r)
        ELSE IF rest # <<>> THEN w
        ELSE IF f \in w.closes THEN FinishTcpClose(w, f) ELSE ClearPending(w, f)
  BY DEF FlushFlow
<1>8. /\ FinishTcpClose(r, f) \in Ordered(L, P) /\ FinishTcpClose(v, f) \in Ordered(L, P)
      /\ ClearPending(v, f) \in Ordered(L, P)
  BY <1>2, FinishOrdered, ClearOrdered
<1> HIDE DEF bytes, rest, v, w
<1> QED BY <1>4, <1>5, <1>6, <1>7, <1>8

LEMMA TcpDataOrdered ==
  ASSUME NEW L, NEW P, NEW r \in Ordered(L, P), NEW o \in OutputRecord
  PROVE  TcpData(r, o) \in Ordered(L, P)
<1> DEFINE f == o.flow
           n == IF Writable(r, f) THEN Fits(r, f, o.payload) ELSE 0
           w == IF Writable(r, f) THEN WriteTcp(r, f, o.payload) ELSE r
           p == r.pending[f] \o SubSeq(o.payload, n + 1, Len(o.payload))
<1>1. /\ r \in LoopRecord /\ f \in TcpFlows /\ o.payload \in Seq(Unit) /\ r.pending[f] \in Seq(Unit)
      /\ f \in r.closes => r.pending[f] # <<>>
  BY DEF Ordered, LoopRecord, OutputRecord, ClosesWait
<1>2. w \in Ordered(L, P) /\ w.pending = r.pending /\ w.closes = r.closes
  BY <1>1, WriteOrdered
<1>3. SubSeq(o.payload, n + 1, Len(o.payload)) \in Seq(Unit)
  <2>1. CASE Writable(r, f)
    <3>1. n = Fits(r, f, o.payload)
      BY <2>1
    <3>2. SubSeq(o.payload, Fits(r, f, o.payload) + 1, Len(o.payload)) \in Seq(Unit)
      BY <1>1, WriteReturns
    <3> QED BY <3>1, <3>2
  <2>2. CASE ~Writable(r, f)
    <3>1. n + 1 = 1
      BY <2>2
    <3>2. SubSeq(o.payload, 1, Len(o.payload)) = o.payload
      BY <1>1, SubSeqFull
    <3> QED BY <1>1, <3>1, <3>2
  <2> QED BY <2>1, <2>2
<1>4. p \in Seq(Unit) /\ (f \in w.closes => p # <<>>)
  <2> DEFINE q == SubSeq(o.payload, n + 1, Len(o.payload))
  <2> HIDE DEF q, w
  <2>1. r.pending[f] \o q \in Seq(Unit) /\ Len(r.pending[f] \o q) = Len(r.pending[f]) + Len(q)
    BY <1>1, <1>3, ConcatProperties DEF q
  <2>2. r.pending[f] # <<>> => Len(r.pending[f]) # 0 /\ Len(r.pending[f]) \in Nat
    BY <1>1, EmptySeq
  <2>3. r.pending[f] # <<>> => r.pending[f] \o q # <<>>
    BY <1>3, <2>1, <2>2 DEF q
  <2> QED BY <1>1, <1>2, <2>1, <2>3 DEF q
<1>5. TcpData(r, o) = [w EXCEPT !.pending[f] = p]
  <2>1. TcpData(r, o) = [w EXCEPT !.pending[f] = @ \o SubSeq(o.payload, n + 1, Len(o.payload))]
    BY DEF TcpData
  <2>2. w \in LoopRecord
    BY <1>2 DEF Ordered
  <2>3. w.pending[f] = r.pending[f]
    BY <1>2
  <2> DEFINE q == SubSeq(o.payload, n + 1, Len(o.payload))
  <2> HIDE DEF w, q
  <2>4. TcpData(r, o) = [w EXCEPT !.pending[f] = @ \o q]
    BY <2>1 DEF q
  <2>5. [w EXCEPT !.pending[f] = @ \o q] = [w EXCEPT !.pending[f] = r.pending[f] \o q]
    BY <2>2, <2>3 DEF LoopRecord
  <2> QED BY <2>4, <2>5 DEF q
<1> HIDE DEF w, p, f
<1>6. [w EXCEPT !.pending[f] = p] \in Ordered(L, P)
  BY <1>1, <1>2, <1>4, PendingOrdered
<1> QED BY <1>5, <1>6

(* A task is spawned for a flow that is tracked and lives.                 *)
LEMMA SpawnReturns ==
  ASSUME NEW r \in LoopRecord, NEW f \in TcpFlows
  PROVE  LET t == SpawnTask(r, f) IN
         /\ t \in LoopRecord /\ t.tracked = r.tracked
         /\ Socketed(t) = Socketed(r) /\ t.cached = r.cached /\ t.resolver = r.resolver /\ t.lookup = r.lookup
         /\ DOMAIN t.task = DOMAIN r.task \cup {f}
         /\ \A g \in DOMAIN r.task : g # f => t.task[g] = r.task[g]
         /\ t.task[f] = [gen |-> r.gens + 1, pc |-> "connecting", cmds |-> <<>>,
                         forwarded |-> <<>>, emitted |-> 0, writeClosed |-> FALSE]
         /\ t.gens = r.gens + 1
         /\ t.pending = [r.pending EXCEPT ![f] = <<>>] /\ t.closes = r.closes \ {f}
         /\ \A g \in TcpFlows : g # f => t.sock[g] = r.sock[g]
         /\ t.sock[f].got = r.sock[f].got /\ t.sock[f].sent = r.sock[f].sent /\ t.sock[f].st = r.sock[f].st
         /\ t.sock[f].fin = r.sock[f].fin /\ t.sock[f].tx = r.sock[f].tx
         /\ t.sock[f].gen = IF r.sock[f].st = "none" THEN 0 ELSE r.gens + 1
         /\ t.ok = r.ok
<1> DEFINE a == AbortTask(r, f)
           k == [gen |-> r.gens + 1, pc |-> "connecting", cmds |-> <<>>,
                 forwarded |-> <<>>, emitted |-> 0, writeClosed |-> FALSE]
           s == [a.sock[f] EXCEPT !.gen = IF r.sock[f].st = "none" THEN 0 ELSE r.gens + 1]
           t == SpawnTask(r, f)
<1>1. /\ a \in LoopRecord /\ a.tracked = r.tracked
      /\ a.sock = r.sock /\ a.cached = r.cached /\ a.resolver = r.resolver /\ a.lookup = r.lookup
      /\ DOMAIN a.task = DOMAIN r.task \ {f} /\ \A g \in DOMAIN a.task : a.task[g] = r.task[g]
      /\ a.pending = [r.pending EXCEPT ![f] = <<>>] /\ a.closes = r.closes \ {f} /\ a.gens = r.gens
      /\ a.ok = r.ok
  BY AbortReturns
<1>2. r.gens \in Nat /\ r.sock \in [TcpFlows -> SocketRecord] /\ r.sock[f] \in SocketRecord
  BY DEF LoopRecord
<1>3. k \in TaskRecord
  <2>1. <<>> \in Seq(Nat) /\ r.gens + 1 \in Nat
    BY <1>2
  <2> QED BY <2>1 DEF TaskRecord
<1>4. s \in SocketRecord
  <2>1. (IF r.sock[f].st = "none" THEN 0 ELSE r.gens + 1) \in Nat /\ a.sock[f] \in SocketRecord
    BY <1>1, <1>2
  <2> QED BY <2>1 DEF SocketRecord
<1> HIDE DEF a
<1>5. PICK D \in SUBSET TcpFlows : a.task \in [D -> TaskRecord]
  BY <1>1 DEF LoopRecord, TaskMap
<1> HIDE DEF k
<1>6. /\ Put(a.task, f, k) \in [D \cup {f} -> TaskRecord]
      /\ Put(a.task, f, k)[f] = k /\ \A g \in D : g # f => Put(a.task, f, k)[g] = a.task[g]
  BY <1>3, <1>5 DEF Put
<1>7. Put(a.task, f, k) \in TaskMap
  BY <1>6 DEF TaskMap
<1>8. t = [a EXCEPT !.task = Put(a.task, f, k), !.gens = r.gens + 1, !.sock = [a.sock EXCEPT ![f] = s]]
  <2>1. t = [a EXCEPT !.task = Put(@, f, k), !.gens = @ + 1,
                      !.sock[f].gen = IF r.sock[f].st = "none" THEN 0 ELSE r.gens + 1]
    BY DEF SpawnTask, k, a
  <2> HIDE DEF t
  <2>2. a \in LoopRecord /\ a.gens = r.gens
    BY <1>1
  <2> QED BY <2>1, <2>2 DEF LoopRecord
<1> HIDE DEF t, s
<1>9. /\ t \in LoopRecord /\ t.task = Put(a.task, f, k) /\ t.gens = r.gens + 1 /\ t.sock = [a.sock EXCEPT ![f] = s]
      /\ t.tracked = a.tracked /\ t.cached = a.cached /\ t.resolver = a.resolver /\ t.lookup = a.lookup
      /\ t.pending = a.pending /\ t.closes = a.closes /\ t.ok = a.ok
  <2>1. [a.sock EXCEPT ![f] = s] \in [TcpFlows -> SocketRecord] /\ r.gens + 1 \in Nat
    BY <1>1, <1>2, <1>4
  <2> DEFINE S == [a.sock EXCEPT ![f] = s]
             T == Put(a.task, f, k)
  <2> HIDE DEF S, T
  <2>2. t = [a EXCEPT !.task = T, !.gens = r.gens + 1, !.sock = S]
    BY <1>8 DEF S, T
  <2>3. T \in TaskMap /\ S \in [TcpFlows -> SocketRecord]
    BY <1>7, <2>1 DEF S, T
  <2>4. /\ t \in LoopRecord /\ t.task = T /\ t.gens = r.gens + 1 /\ t.sock = S
        /\ t.tracked = a.tracked /\ t.cached = a.cached /\ t.resolver = a.resolver /\ t.lookup = a.lookup
        /\ t.pending = a.pending /\ t.closes = a.closes /\ t.ok = a.ok
    BY <1>1, <2>1, <2>2, <2>3 DEF LoopRecord
  <2> QED BY <2>4 DEF S, T
<1>10. /\ s.got = r.sock[f].got /\ s.sent = r.sock[f].sent /\ s.st = r.sock[f].st
       /\ s.fin = r.sock[f].fin /\ s.tx = r.sock[f].tx
       /\ s.gen = IF r.sock[f].st = "none" THEN 0 ELSE r.gens + 1
  BY <1>1, <1>2 DEF s, SocketRecord
<1>11. t.sock[f] = s /\ \A g \in TcpFlows : g # f => t.sock[g] = r.sock[g]
  BY <1>1, <1>2, <1>9
<1>12. Socketed(t) = Socketed(r)
  BY <1>10, <1>11 DEF Socketed
<1>13. /\ DOMAIN t.task = DOMAIN r.task \cup {f} /\ t.task[f] = k
       /\ \A g \in DOMAIN r.task : g # f => t.task[g] = r.task[g]
  BY <1>1, <1>5, <1>6, <1>9
<1> QED BY <1>1, <1>9, <1>10, <1>11, <1>12, <1>13 DEF t, k

LEMMA TrackOrdered ==
  ASSUME NEW L, NEW P, NEW r \in Ordered(L, P), NEW f \in TcpFlows, f \in L
  PROVE  Track(r, f) \in Ordered(L, P)
<1> DEFINE t == Track(r, f)
<1>1. r \in LoopRecord
  BY DEF Ordered
<1>2. /\ t \in LoopRecord /\ t.tracked = r.tracked \cup {f}
      /\ t.sock = r.sock /\ t.cached = r.cached /\ t.resolver = r.resolver /\ t.lookup = r.lookup
      /\ t.task = r.task /\ t.pending = r.pending /\ t.closes = r.closes
  BY <1>1, TrackReturns
<1> HIDE DEF t
<1>3. t \in Ordered(L, P)
  BY <1>2 DEF Ordered, TasksInOrder, ClosesWait, LookupInOrder, Socketed
<1> QED BY <1>3 DEF t

LEMMA SpawnOrdered ==
  ASSUME NEW L, NEW P, NEW r \in Ordered(L, P), NEW f \in TcpFlows, f \in r.tracked,
         r.lookup.id = 0, r.cached \/ ~r.resolver
  PROVE  SpawnTask(r, f) \in Ordered(L, P)
<1> DEFINE t == SpawnTask(r, f)
<1>1. r \in LoopRecord /\ r.pending \in [TcpFlows -> Seq(Unit)] /\ r.closes \subseteq TcpFlows
  BY DEF Ordered, LoopRecord
<1>2. /\ t \in LoopRecord /\ t.tracked = r.tracked
      /\ Socketed(t) = Socketed(r) /\ t.cached = r.cached /\ t.resolver = r.resolver /\ t.lookup = r.lookup
      /\ DOMAIN t.task = DOMAIN r.task \cup {f}
      /\ t.pending = [r.pending EXCEPT ![f] = <<>>] /\ t.closes = r.closes \ {f}
  BY <1>1, SpawnReturns
<1> HIDE DEF t
<1>3. ClosesWait(t)
  BY <1>1, <1>2 DEF ClosesWait, Ordered
<1>4. TasksInOrder(t)
  BY <1>2 DEF TasksInOrder, Ordered
<1>5. t \in Ordered(L, P)
  BY <1>2, <1>3, <1>4 DEF Ordered, LookupInOrder
<1> QED BY <1>5 DEF t

(* A command reaches the queue of its task, or its flow is released.       *)
LEMMA QueueReturns ==
  ASSUME NEW r \in LoopRecord, NEW f \in DOMAIN r.task, NEW c \in Nat
  PROVE  LET q == [r EXCEPT !.task[f].cmds = Append(@, c)] IN
         /\ q \in LoopRecord /\ DOMAIN q.task = DOMAIN r.task
         /\ q.tracked = r.tracked /\ q.sock = r.sock /\ q.cached = r.cached /\ q.resolver = r.resolver
         /\ q.lookup = r.lookup /\ q.pending = r.pending /\ q.closes = r.closes /\ q.ok = r.ok
         /\ q.gens = r.gens /\ \A g \in DOMAIN r.task : g # f => q.task[g] = r.task[g]
         /\ q.task[f].cmds = Append(r.task[f].cmds, c) /\ q.task[f].gen = r.task[f].gen
         /\ q.task[f].forwarded = r.task[f].forwarded /\ q.task[f].emitted = r.task[f].emitted
         /\ q.task[f].writeClosed = r.task[f].writeClosed
<1>1. PICK D \in SUBSET TcpFlows : r.task \in [D -> TaskRecord]
  BY DEF LoopRecord, TaskMap
<1>2. r.task[f] \in TaskRecord /\ r.task[f].cmds \in Seq(Nat)
  BY <1>1 DEF TaskRecord
<1> DEFINE k == [r.task[f] EXCEPT !.cmds = Append(r.task[f].cmds, c)]
           T == [r.task EXCEPT ![f] = k]
<1>3. Append(r.task[f].cmds, c) \in Seq(Nat)
  BY <1>2
<1>4. k \in TaskRecord
  BY <1>2, <1>3 DEF TaskRecord
<1>5. [r EXCEPT !.task[f].cmds = Append(@, c)] = [r EXCEPT !.task = T]
  BY <1>1, <1>2 DEF LoopRecord, TaskRecord
<1>6. /\ k.cmds = Append(r.task[f].cmds, c) /\ k.gen = r.task[f].gen /\ k.forwarded = r.task[f].forwarded
      /\ k.emitted = r.task[f].emitted /\ k.writeClosed = r.task[f].writeClosed
  BY <1>2 DEF TaskRecord
<1> HIDE DEF k
<1>7. T \in [D -> TaskRecord] /\ T[f] = k /\ \A g \in DOMAIN r.task : g # f => T[g] = r.task[g]
  BY <1>1, <1>4
<1>8. T \in TaskMap /\ DOMAIN T = DOMAIN r.task
  BY <1>1, <1>7 DEF TaskMap
<1> HIDE DEF T
<1>9. [r EXCEPT !.task = T].task = T
  BY DEF LoopRecord
<1>10. [r EXCEPT !.task = T].gens = r.gens
  BY DEF LoopRecord
<1> QED BY <1>5, <1>7, <1>8, <1>6, <1>9, <1>10 DEF LoopRecord

LEMMA OkOrdered ==
  ASSUME NEW L, NEW P, NEW r \in Ordered(L, P), NEW b \in BOOLEAN
  PROVE  [r EXCEPT !.ok = b] \in Ordered(L, P)
BY DEF Ordered, LoopRecord, TasksInOrder, ClosesWait, LookupInOrder, Socketed

LEMMA SendOrdered ==
  ASSUME NEW L, NEW P, NEW r \in Ordered(L, P), NEW f \in TcpFlows, NEW c \in Nat
  PROVE  LET s == SendCommand(r, f, c) IN
         /\ s \in Ordered(L, P) /\ s.lookup = r.lookup
         /\ s.ok => s.cached = r.cached
<1>1. r \in LoopRecord
  BY DEF Ordered
<1>2. CASE Accepts(r, f)
  <2> DEFINE q == [r EXCEPT !.task[f].cmds = Append(@, c)]
  <2>1. f \in DOMAIN r.task /\ SendCommand(r, f, c) = q
    BY <1>2 DEF Accepts, SendCommand
  <2>2. /\ q \in LoopRecord /\ DOMAIN q.task = DOMAIN r.task
        /\ q.tracked = r.tracked /\ q.sock = r.sock /\ q.cached = r.cached /\ q.resolver = r.resolver
        /\ q.lookup = r.lookup /\ q.pending = r.pending /\ q.closes = r.closes /\ q.ok = r.ok
    BY <1>1, <2>1, QueueReturns
  <2> HIDE DEF q
  <2>3. q \in Ordered(L, P)
    BY <2>2 DEF Ordered, TasksInOrder, ClosesWait, LookupInOrder, Socketed
  <2> QED BY <2>1, <2>2, <2>3
<1>3. CASE ~Accepts(r, f)
  <2> DEFINE a == AbortTask(r, f)
             u == Untrack(a, f)
  <2>1. a \in Ordered(L, P) /\ f \notin DOMAIN a.task /\ a.lookup = r.lookup
    BY <1>1, AbortOrdered, AbortReturns
  <2>2. a \in LoopRecord
    BY <2>1 DEF Ordered
  <2>3. u \in Ordered(L, P) /\ u.lookup = a.lookup
    <3> HIDE DEF a
    <3> QED BY <2>1, <2>2, UntrackOrdered, UntrackReturns
  <2>4. SendCommand(r, f, c) = [u EXCEPT !.ok = FALSE]
    BY <1>3 DEF SendCommand
  <2> HIDE DEF u, a
  <2>5. [u EXCEPT !.ok = FALSE] \in Ordered(L, P)
    BY <2>3, OkOrdered
  <2>6. [u EXCEPT !.ok = FALSE].lookup = u.lookup /\ ~[u EXCEPT !.ok = FALSE].ok
    BY <2>3 DEF Ordered, LoopRecord
  <2> QED BY <2>1, <2>3, <2>4, <2>5, <2>6
<1> QED BY <1>2, <1>3

(* handle_ready_input, of an event that opens, feeds or half-closes a flow *)
(* while its source does not wait for a lookup.                            *)
LEMMA ReadyOrdered ==
  ASSUME NEW L, NEW P, NEW r \in Ordered(L, P), NEW e \in DeferredRecord, e.flow \in L,
         r.lookup.id = 0, e.kind = "opened" => r.cached \/ ~r.resolver
  PROVE  /\ Ready(r, e) \in Ordered(L, P) /\ Ready(r, e).lookup = r.lookup
         /\ Ready(r, e).ok => Ready(r, e).cached = r.cached
<1>1. r \in LoopRecord /\ e.flow \in TcpFlows /\ e.n \in Nat /\ e.kind \in {"opened", "data", "half"}
  BY DEF Ordered, DeferredRecord
<1>2. CASE e.kind = "opened"
  <2> DEFINE t == Track(r, e.flow)
  <2>1. t \in Ordered(L, P)
    BY <1>1, TrackOrdered
  <2>2. /\ t \in LoopRecord /\ e.flow \in t.tracked /\ t.lookup = r.lookup
        /\ t.cached = r.cached /\ t.resolver = r.resolver
    BY <1>1, TrackReturns
  <2>3. Ready(r, e) = SpawnTask(t, e.flow)
    BY <1>2 DEF Ready
  <2> HIDE DEF t
  <2>4. SpawnTask(t, e.flow) \in Ordered(L, P)
    BY <1>1, <1>2, <2>1, <2>2, SpawnOrdered
  <2>5. SpawnTask(t, e.flow).lookup = t.lookup /\ SpawnTask(t, e.flow).cached = t.cached
    BY <1>1, <2>2, SpawnReturns
  <2> QED BY <2>2, <2>3, <2>4, <2>5
<1>3. CASE e.kind = "data"
  <2>1. Ready(r, e) = SendCommand(r, e.flow, e.n)
    BY <1>3 DEF Ready
  <2> QED BY <1>1, <2>1, SendOrdered
<1>4. CASE e.kind = "half"
  <2>1. Ready(r, e) = SendCommand(r, e.flow, 0)
    BY <1>4 DEF Ready
  <2> QED BY <1>1, <2>1, SendOrdered
<1> QED BY <1>1, <1>2, <1>3, <1>4

(* The flow of a closed socket is forgotten.                               *)
LEMMA UntrackLeaves ==
  ASSUME NEW L, NEW P, NEW r \in Ordered(L, P), NEW f \in TcpFlows, f \notin DOMAIN r.task,
         \A i \in DOMAIN r.lookup.events : r.lookup.events[i].flow # f
  PROVE  Untrack(r, f) \in Ordered(L \ {f}, P)
<1> DEFINE u == Untrack(r, f)
<1>1. r \in LoopRecord
  BY DEF Ordered
<1>2. u \in Ordered(L, P)
  BY UntrackOrdered
<1>3. u.tracked = r.tracked \ {f} /\ u.lookup = r.lookup
  BY <1>1, UntrackReturns
<1> HIDE DEF u
<1>4. u \in Ordered(L \ {f}, P)
  BY <1>2, <1>3 DEF Ordered, LookupInOrder
<1> QED BY <1>4 DEF u

LEMMA ClosedLeaves ==
  ASSUME NEW L, NEW P, NEW r \in Ordered(L, P), NEW e \in InputRecord, e.kind = "closed"
  PROVE  HandleProxyInput(r, e) \in Ordered(L \ {e.flow}, P)
<1>1. r \in LoopRecord /\ e.flow \in TcpFlows /\ TasksInOrder(r) /\ LookupInOrder(r, L)
  BY DEF Ordered, InputRecord
<1>2. CASE r.lookup.id # 0
  <2> DEFINE d == DropDeferred(r, e.flow)
  <2>1. HandleProxyInput(r, e) = Untrack(d, e.flow)
    BY <1>2 DEF HandleProxyInput, Deferred
  <2>2. d \in Ordered(L, P) /\ \A i \in DOMAIN d.lookup.events : d.lookup.events[i].flow # e.flow
    BY <1>1, DropDeferredOrdered
  <2>3. d.task = r.task
    BY <1>1, DropDeferredReturns DEF LookupInOrder
  <2>4. e.flow \notin DOMAIN d.task
    BY <1>1, <1>2, <2>3 DEF TasksInOrder
  <2> HIDE DEF d
  <2> QED BY <1>1, <2>1, <2>2, <2>4, UntrackLeaves
<1>3. CASE r.lookup.id = 0
  <2> DEFINE a == AbortTask(r, e.flow)
  <2>1. HandleProxyInput(r, e) = Untrack(a, e.flow)
    BY <1>3 DEF HandleProxyInput, Ready
  <2>2. a \in Ordered(L, P) /\ e.flow \notin DOMAIN a.task
    BY <1>1, AbortOrdered
  <2>3. a.lookup = r.lookup
    BY <1>1, AbortReturns
  <2>4. DOMAIN a.lookup.events = {}
    BY <1>1, <1>3, <2>3 DEF LookupInOrder, NoLookup
  <2> HIDE DEF a
  <2> QED BY <1>1, <2>1, <2>2, <2>4, UntrackLeaves
<1> QED BY <1>2, <1>3

(* defer_process_lookup and the start of a lookup.                         *)
LEMMA DeferredOrdered ==
  ASSUME NEW L, NEW P, NEW r \in Ordered(L, P), NEW e \in DeferredRecord, e.flow \in L,
         r.lookup.id # 0
  PROVE  Deferred(r, e) \in Ordered(L, P)
<1>1. /\ r \in LoopRecord /\ e.flow \in TcpFlows /\ e.kind # "closed" /\ TasksInOrder(r) /\ LookupInOrder(r, L)
      /\ r.lookup \in LookupRecord /\ r.lookup.events \in Seq(DeferredRecord)
  BY DEF Ordered, DeferredRecord, LoopRecord, LookupRecord
<1>2. CASE Len(r.lookup.events) - 1 >= ChannelCap
  <2> DEFINE d == DropDeferred(r, e.flow)
             u == Untrack(d, e.flow)
  <2>1. d \in Ordered(L, P) /\ d.task = r.task
    BY <1>1, DropDeferredOrdered, DropDeferredReturns DEF LookupInOrder
  <2>2. e.flow \notin DOMAIN d.task
    BY <1>1, <2>1 DEF TasksInOrder
  <2>3. u \in Ordered(L, P)
    <3> HIDE DEF d
    <3> QED BY <1>1, <2>1, <2>2, UntrackOrdered
  <2>4. Deferred(r, e) = [u EXCEPT !.ok = FALSE]
    BY <1>1, <1>2 DEF Deferred
  <2> HIDE DEF u
  <2>5. [u EXCEPT !.ok = FALSE] \in Ordered(L, P)
    BY <2>3, OkOrdered
  <2> QED BY <2>4, <2>5
<1>3. CASE ~(Len(r.lookup.events) - 1 >= ChannelCap)
  <2> DEFINE q == Append(r.lookup.events, e)
             a == [r EXCEPT !.lookup.events = Append(@, e)]
  <2>1. q \in Seq(DeferredRecord) /\ q # <<>> /\ \A i \in DOMAIN q : q[i].flow \in L
    BY <1>1 DEF LookupInOrder
  <2>2. a = [r EXCEPT !.lookup = [r.lookup EXCEPT !.events = q]]
    BY <1>1 DEF LoopRecord, LookupRecord
  <2> HIDE DEF q
  <2>3. [r.lookup EXCEPT !.events = q] \in LookupRecord
    BY <1>1, <2>1 DEF LookupRecord
  <2>4. /\ a \in LoopRecord /\ a.lookup.events = q /\ a.lookup.id = r.lookup.id
        /\ a.tracked = r.tracked /\ a.task = r.task /\ a.sock = r.sock /\ a.resolver = r.resolver
        /\ a.cached = r.cached /\ a.pending = r.pending /\ a.closes = r.closes
    BY <1>1, <2>2, <2>3 DEF LoopRecord, LookupRecord
  <2>5. Deferred(r, e) = Track(a, e.flow)
    BY <1>1, <1>3 DEF Deferred
  <2> HIDE DEF a
  <2>6. a \in Ordered(L, P)
    BY <2>1, <2>4 DEF Ordered, TasksInOrder, ClosesWait, LookupInOrder, Socketed
  <2> QED BY <1>1, <2>5, <2>6, TrackOrdered
<1> QED BY <1>2, <1>3

LEMMA StartOrdered ==
  ASSUME NEW L, NEW P, NEW r \in Ordered(L, P), NEW e \in DeferredRecord, e.flow \in L,
         r.resolver, ~r.cached
  PROVE  StartLookup(r, e) \in Ordered(L, P)
<1> DEFINE t == Track(r, e.flow)
           k == [id |-> r.nextId + 1, events |-> <<e>>, sent |-> FALSE]
           a == StartLookup(r, e)
<1>1. r \in LoopRecord /\ e.flow \in TcpFlows /\ r.nextId \in Nat
  BY DEF Ordered, DeferredRecord, LoopRecord
<1>2. t \in Ordered(L, P) /\ t.nextId = r.nextId /\ t.resolver /\ ~t.cached
  BY <1>1, TrackOrdered, TrackReturns
<1>3. k \in LookupRecord /\ k.id # 0 /\ k.events = <<e>>
  <2>1. <<e>> \in Seq(DeferredRecord) /\ r.nextId + 1 \in Nat /\ r.nextId + 1 # 0
    BY <1>1
  <2> QED BY <2>1 DEF LookupRecord
<1>4. a = [t EXCEPT !.nextId = @ + 1, !.lookup = k]
  BY DEF StartLookup
<1> HIDE DEF t, k, a
<1>5. t \in LoopRecord /\ DOMAIN t.task = {} /\ t.nextId + 1 \in Nat
  BY <1>1, <1>2 DEF Ordered, TasksInOrder
<1>6. /\ a \in LoopRecord /\ a.lookup = k
      /\ a.tracked = t.tracked /\ a.task = t.task /\ a.sock = t.sock
      /\ a.pending = t.pending /\ a.closes = t.closes
  BY <1>3, <1>4, <1>5 DEF LoopRecord
<1>7. LookupInOrder(a, L)
  <2>1. <<e>> # <<>> /\ \A i \in DOMAIN <<e>> : <<e>>[i].flow \in L
    OBVIOUS
  <2> QED BY <1>3, <1>6, <2>1 DEF LookupInOrder
<1>8. a \in Ordered(L, P)
  BY <1>2, <1>5, <1>6, <1>7 DEF Ordered, TasksInOrder, ClosesWait, Socketed
<1> QED BY <1>8 DEF a

LEMMA InputOrdered ==
  ASSUME NEW L, NEW P, NEW r \in Ordered(L, P), NEW e \in DeferredRecord, e.flow \in L
  PROVE  HandleProxyInput(r, e) \in Ordered(L, P)
<1>1. CASE r.lookup.id # 0
  BY <1>1, DeferredOrdered DEF HandleProxyInput
<1>2. CASE r.lookup.id = 0 /\ e.kind = "opened" /\ r.resolver /\ ~r.cached
  BY <1>2, StartOrdered DEF HandleProxyInput
<1>3. CASE r.lookup.id = 0 /\ ~(e.kind = "opened" /\ r.resolver /\ ~r.cached)
  <2>1. HandleProxyInput(r, e) = Ready(r, e)
    BY <1>3 DEF HandleProxyInput
  <2>2. e.kind = "opened" => r.cached \/ ~r.resolver
    BY <1>3
  <2> QED BY <1>3, <2>1, <2>2, ReadyOrdered
<1> QED BY <1>1, <1>2, <1>3

(* complete_process_lookup: a replay that fails closes its flows.          *)
LEMMA ResolvedOrdered ==
  ASSUME NEW L, NEW P, NEW r \in Ordered(L, P), NEW o
  PROVE  ProcessResolved(r, o) \in Ordered(L, P)
<1> DEFINE a == [r EXCEPT !.lookup = NoLookup, !.cached = TRUE]
           q == r.lookup.events
           E == {e \in DeferredRecord : e.flow \in L}
           G == {x \in Ordered(L, P) : x.lookup = NoLookup /\ (x.ok => x.cached)}
           end == FoldLeft(ReplayEvent, a, q)
           S == {q[i].flow : i \in DOMAIN q} \cup end.tracked
<1>1. /\ r \in LoopRecord /\ q \in Seq(DeferredRecord) /\ TasksInOrder(r) /\ LookupInOrder(r, L)
  BY DEF Ordered, LoopRecord, LookupRecord
<1>2. q \in Seq(E)
  BY <1>1, SeqDef DEF LookupInOrder
<1>3. NoLookup \in LookupRecord /\ NoLookup.id = 0 /\ DOMAIN NoLookup.events = {}
  BY DEF NoLookup, LookupRecord
<1>4. a \in G
  <2>1. /\ a \in LoopRecord /\ a.lookup = NoLookup /\ a.cached
        /\ a.tracked = r.tracked /\ a.task = r.task /\ a.sock = r.sock
        /\ a.pending = r.pending /\ a.closes = r.closes
    BY <1>1, <1>3 DEF LoopRecord
  <2> HIDE DEF a
  <2> QED BY <1>3, <2>1 DEF Ordered, TasksInOrder, ClosesWait, LookupInOrder, Socketed
<1>5. ASSUME NEW e \in E, NEW x \in G PROVE ReplayEvent(x, e) \in G
  <2>1. x \in Ordered(L, P) /\ x.lookup.id = 0 /\ x.lookup = NoLookup /\ (x.ok => x.cached)
    BY <1>3, <1>5
  <2>2. CASE x.ok
    <3>1. /\ Ready(x, e) \in Ordered(L, P) /\ Ready(x, e).lookup = x.lookup
          /\ Ready(x, e).ok => Ready(x, e).cached = x.cached
      BY <1>5, <2>1, <2>2, ReadyOrdered
    <3> QED BY <2>1, <2>2, <3>1 DEF ReplayEvent
  <2>3. CASE ~x.ok
    BY <1>5, <2>3 DEF ReplayEvent
  <2> QED BY <2>2, <2>3
<1>6. end \in G
  <2> HIDE DEF a, q, E, G
  <2> QED BY <1>2, <1>4, <1>5, ReplayStays
<1>7. end \in Ordered(L, P)
  BY <1>6
<1> HIDE DEF end
<1>8. S \subseteq TcpFlows
  <2>1. end.tracked \subseteq TcpFlows
    BY <1>7 DEF Ordered, LoopRecord
  <2>2. \A i \in DOMAIN q : q[i] \in DeferredRecord
    BY <1>1
  <2>3. \A e \in DeferredRecord : e.flow \in TcpFlows
    BY DEF DeferredRecord
  <2> HIDE DEF q
  <2> QED BY <2>1, <2>2, <2>3
<1>9. IsFiniteSet(S)
  BY <1>8, FS_Subset, TunTcpAssumption
<1> HIDE DEF S
<1>10. FoldSet(CloseFlow, end, S) \in Ordered(L, P)
  <2> DEFINE O == Ordered(L, P)
  <2>1. end \in O /\ \A f \in S : \A x \in O : CloseFlow(f, x) \in O
    BY <1>7, <1>8, CloseFlowOrdered
  <2> HIDE DEF O
  <2>2. FoldSet(CloseFlow, end, S) \in O
    BY <1>9, <2>1, CloseStays
  <2> QED BY <2>2 DEF O
<1>11. [FoldSet(CloseFlow, end, S) EXCEPT !.ok = TRUE] \in Ordered(L, P)
  BY <1>10, OkOrdered
<1>12. Replay(a, q) = IF end.ok THEN end ELSE [FoldSet(CloseFlow, end, S) EXCEPT !.ok = TRUE]
  BY DEF Replay, end, S
<1>13. Replay(a, q) \in Ordered(L, P)
  BY <1>7, <1>11, <1>12
<1> QED BY <1>13 DEF ProcessResolved

(* Close requests, then what is pending.                                   *)
LEMMA CloseAndFlushOrdered ==
  ASSUME NEW L, NEW P, NEW r \in Ordered(L, P)
  PROVE  CloseAndFlush(r) \in Ordered(L, P)
<1> DEFINE O == Ordered(L, P)
           S == r.tracked \cap r.requested
           c == FoldSet(CloseFlow, r, S)
<1>1. S \subseteq TcpFlows /\ IsFiniteSet(TcpFlows)
  BY TunTcpAssumption DEF Ordered, LoopRecord
<1>2. IsFiniteSet(S)
  BY <1>1, FS_Subset
<1>3. /\ r \in O /\ \A f \in S : \A x \in O : CloseFlow(f, x) \in O
      /\ \A f \in TcpFlows : \A x \in O : FlushFlow(f, x) \in O
  BY <1>1, CloseFlowOrdered, FlushOrdered
<1> HIDE DEF O, S
<1>4. c \in O
  BY <1>2, <1>3, CloseStays
<1> HIDE DEF c
<1>5. FoldSet(FlushFlow, c, TcpFlows) \in O
  BY <1>1, <1>3, <1>4, FlushStays
<1> QED BY <1>5 DEF CloseAndFlush, O, S, c

LEMMA ReapAllOrdered ==
  ASSUME NEW L, NEW P, NEW r \in Ordered(L, P), NEW S \in SUBSET TcpFlows
  PROVE  FoldSet(ReapFlow, r, S) \in Ordered(L, P) /\ FoldSet(ExpireFlow, r, S) \in Ordered(L, P)
<1> DEFINE O == Ordered(L, P)
<1>1. IsFiniteSet(S)
  BY FS_Subset, TunTcpAssumption
<1>2. /\ r \in O /\ \A f \in S : \A x \in O : ReapFlow(f, x) \in O
      /\ \A f \in S : \A x \in O : ExpireFlow(f, x) \in O
  BY ReapOrdered, ExpireOrdered
<1> HIDE DEF O
<1>3. FoldSet(ReapFlow, r, S) \in O
  BY <1>1, <1>2, ReapStays
<1>4. FoldSet(ExpireFlow, r, S) \in O
  BY <1>1, <1>2, ExpireStays
<1> QED BY <1>3, <1>4 DEF O

(* A step of a task changes the record of its task.                        *)
LEMMA TaskOrdered ==
  ASSUME NEW L, NEW P, NEW r \in Ordered(L, P), NEW f \in DOMAIN r.task, NEW k \in TaskRecord
  PROVE  [r EXCEPT !.task[f] = k] \in Ordered(L, P)
<1>1. r \in LoopRecord
  BY DEF Ordered
<1>2. PICK D \in SUBSET TcpFlows : r.task \in [D -> TaskRecord]
  BY <1>1 DEF LoopRecord, TaskMap
<1> DEFINE T == [r.task EXCEPT ![f] = k]
           a == [r EXCEPT !.task[f] = k]
<1>3. T \in [D -> TaskRecord]
  BY <1>2
<1>4. T \in TaskMap /\ DOMAIN T = DOMAIN r.task
  BY <1>2, <1>3 DEF TaskMap
<1>5. a = [r EXCEPT !.task = T]
  BY <1>1 DEF LoopRecord
<1> HIDE DEF T, a
<1>6. /\ a \in LoopRecord /\ a.task = T /\ a.tracked = r.tracked /\ a.sock = r.sock /\ a.resolver = r.resolver
      /\ a.cached = r.cached /\ a.pending = r.pending /\ a.closes = r.closes /\ a.lookup = r.lookup
  BY <1>1, <1>4, <1>5 DEF LoopRecord
<1>7. a \in Ordered(L, P)
  BY <1>4, <1>6 DEF Ordered, TasksInOrder, ClosesWait, LookupInOrder, Socketed
<1> QED BY <1>7 DEF a

-----------------------------------------------------------------------------
(* A flow lives while it has a socket or an event that is not handled; and *)
(* the last event of a flow without a socket is that its socket closed.    *)
Live == {f \in TcpFlows : tun.sock[f].st # "none" \/ \E i \in DOMAIN inputs : inputs[i].flow = f}
ClosesReported ==
  \A i \in DOMAIN inputs : tun.sock[inputs[i].flow].st = "none" =>
    \E j \in DOMAIN inputs : j >= i /\ inputs[j].flow = inputs[i].flow /\ inputs[j].kind = "closed"

TunTcpInv ==
  TunTcpShape /\ tun \in Ordered(Live, Socketed(tun)) /\ ClosesReported

LEMMA InputsFlows ==
  ASSUME NEW q \in Seq(InputRecord)
  PROVE  \A i \in DOMAIN q : q[i] \in InputRecord /\ q[i].flow \in TcpFlows
<1>1. \A i \in DOMAIN q : q[i] \in InputRecord
  OBVIOUS
<1>2. \A e \in InputRecord : e.flow \in TcpFlows
  BY DEF InputRecord
<1> QED BY <1>1, <1>2

LEMMA OrderedGrows ==
  ASSUME NEW L, NEW M, L \subseteq M, NEW P, NEW r \in Ordered(L, P)
  PROVE  r \in Ordered(M, P)
BY DEF Ordered, LookupInOrder

(* What the loop does to its own state leaves the sockets that exist.      *)
LEMMA LoopSteps ==
  ASSUME TunTcpInv, tun' \in Ordered(Live, Socketed(tun)), UNCHANGED inputs, outputs' \in Seq(OutputRecord)
  PROVE  TunTcpInv'
<1>1. tun' \in LoopRecord /\ Socketed(tun') = Socketed(tun) /\ inputs' = inputs
  BY DEF Ordered
<1>2. \A f \in TcpFlows : tun'.sock[f].st # "none" <=> tun.sock[f].st # "none"
  BY <1>1 DEF Socketed
<1>3. Live' = Live
  BY <1>1, <1>2 DEF Live
<1>4. inputs \in Seq(InputRecord) /\ \A i \in DOMAIN inputs : inputs[i].flow \in TcpFlows
  BY InputsFlows DEF TunTcpInv, TunTcpShape
<1>5. ClosesReported'
  BY <1>1, <1>2, <1>4 DEF ClosesReported, TunTcpInv
<1> QED BY <1>1, <1>3, <1>4, <1>5 DEF TunTcpInv, TunTcpShape

(* What the poll reports of a socket: a new or an open socket, or its end. *)
LEMMA SocketSteps ==
  ASSUME TunTcpInv, NEW f \in TcpFlows, NEW s \in SocketRecord, NEW e \in InputRecord, e.flow = f,
         s.st = "none" => e.kind = "closed",
         tun' = [tun EXCEPT !.sock[f] = s], inputs' = Append(inputs, e), UNCHANGED outputs
  PROVE  TunTcpInv'
<1>1. tun \in LoopRecord /\ tun.sock \in [TcpFlows -> SocketRecord] /\ inputs \in Seq(InputRecord)
  BY DEF TunTcpInv, TunTcpShape, LoopRecord
<1>2. /\ tun' \in LoopRecord /\ tun'.sock = [tun.sock EXCEPT ![f] = s]
      /\ SameBesideSockets(tun', tun)
  BY <1>1 DEF LoopRecord, SameBesideSockets
<1>3. tun'.sock[f] = s /\ \A g \in TcpFlows : g # f => tun'.sock[g] = tun.sock[g]
  BY <1>1, <1>2
<1>4. /\ inputs' \in Seq(InputRecord) /\ DOMAIN inputs' = DOMAIN inputs \cup {Len(inputs) + 1}
      /\ inputs'[Len(inputs) + 1] = e /\ \A i \in DOMAIN inputs : inputs'[i] = inputs[i]
      /\ \A i \in DOMAIN inputs' : Len(inputs) + 1 >= i /\ inputs'[i].flow \in TcpFlows
  <2>1. inputs' \in Seq(InputRecord)
    BY <1>1
  <2>2. \A i \in DOMAIN inputs' : inputs'[i].flow \in TcpFlows
    BY <2>1, InputsFlows
  <2> QED BY <1>1, <2>1, <2>2
<1>5. Live \subseteq Live'
  BY <1>3, <1>4 DEF Live
<1>6. tun' \in Ordered(Live', Socketed(tun'))
  BY <1>2, <1>5 DEF TunTcpInv, Ordered, SameBesideSockets, TasksInOrder, ClosesWait, LookupInOrder
<1>7. ClosesReported'
  <2> SUFFICES ASSUME NEW i \in DOMAIN inputs', tun'.sock[inputs'[i].flow].st = "none"
               PROVE  \E j \in DOMAIN inputs' : j >= i /\ inputs'[j].flow = inputs'[i].flow /\ inputs'[j].kind = "closed"
    BY DEF ClosesReported
  <2>1. CASE inputs'[i].flow = f
    BY <1>3, <1>4, <2>1
  <2>2. CASE inputs'[i].flow # f
    <3>1. i \in DOMAIN inputs /\ inputs'[i] = inputs[i] /\ tun.sock[inputs[i].flow].st = "none"
      BY <1>3, <1>4, <2>2
    <3>2. PICK j \in DOMAIN inputs : j >= i /\ inputs[j].flow = inputs[i].flow /\ inputs[j].kind = "closed"
      BY <3>1 DEF TunTcpInv, ClosesReported
    <3> QED BY <1>4, <3>1, <3>2
  <2> QED BY <2>1, <2>2
<1> QED BY <1>2, <1>4, <1>6, <1>7 DEF TunTcpInv, TunTcpShape

(* The dispatch of an event: the flow may stop to live with it.            *)
LEMMA DispatchSteps ==
  ASSUME TunTcpInv, DispatchInput
  PROVE  TunTcpInv'
<1> DEFINE e == Head(inputs)
           r == HandleProxyInput(tun, e)
           P == Socketed(tun)
<1>1. inputs \in Seq(InputRecord) /\ inputs # <<>> /\ tun \in Ordered(Live, P) /\ tun \in LoopRecord
  BY DEF TunTcpInv, TunTcpShape, DispatchInput
<1>2. /\ e \in InputRecord /\ e = inputs[1] /\ 1 \in DOMAIN inputs
      /\ Tail(inputs) \in Seq(InputRecord) /\ Len(Tail(inputs)) = Len(inputs) - 1 /\ Len(inputs) \in Nat
      /\ \A i \in 1 .. Len(inputs) - 1 : Tail(inputs)[i] = inputs[i + 1]
  BY <1>1
<1>3. /\ inputs' = Tail(inputs) /\ outputs' = outputs
      /\ tun' = IF r.ok THEN r ELSE AbortTcp([r EXCEPT !.ok = TRUE], e.flow)
  BY DEF DispatchInput
<1>4. \A i \in DOMAIN inputs : inputs[i] \in InputRecord /\ inputs[i].flow \in TcpFlows
  BY <1>1, InputsFlows
<1>5. e.flow \in TcpFlows /\ e.flow \in Live
  BY <1>2, <1>4 DEF Live
<1> DEFINE M == {f \in TcpFlows : f \in P \/ \E i \in DOMAIN Tail(inputs) : Tail(inputs)[i].flow = f}
<1>6. Live \ {e.flow} \subseteq M
  <2> SUFFICES ASSUME NEW f \in Live, f # e.flow, f \notin P PROVE f \in M
    BY DEF Live
  <2>1. PICK i \in DOMAIN inputs : inputs[i].flow = f
    BY DEF Live, Socketed
  <2>2. i \in 1 .. Len(inputs) /\ i # 1
    BY <1>1, <1>2, <2>1
  <2>3. i - 1 \in DOMAIN Tail(inputs) /\ Tail(inputs)[i - 1] = inputs[i]
    BY <1>2, <2>2
  <2> QED BY <2>1, <2>3 DEF Live
<1>7. e.kind # "closed" => e.flow \in M
  <2> SUFFICES ASSUME e.kind # "closed", e.flow \notin P PROVE e.flow \in M
    BY <1>5
  <2>1. tun.sock[inputs[1].flow].st = "none"
    BY <1>2, <1>5 DEF Socketed
  <2>2. PICK j \in DOMAIN inputs : j >= 1 /\ inputs[j].flow = inputs[1].flow /\ inputs[j].kind = "closed"
    BY <1>2, <2>1 DEF TunTcpInv, ClosesReported
  <2>3. j \in 1 .. Len(inputs) /\ j # 1
    BY <1>1, <1>2, <2>2
  <2>4. j - 1 \in DOMAIN Tail(inputs) /\ Tail(inputs)[j - 1] = inputs[j]
    BY <1>2, <2>3
  <2> QED BY <1>2, <1>5, <2>2, <2>4
<1> HIDE DEF M, e
<1>8. r \in Ordered(M, P)
  <2>1. CASE e.kind = "closed"
    <3>1. r \in Ordered(Live \ {e.flow}, P)
      BY <1>1, <1>2, <2>1, ClosedLeaves
    <3> HIDE DEF r
    <3> QED BY <1>6, <3>1, OrderedGrows
  <2>2. CASE e.kind # "closed"
    <3>1. e \in DeferredRecord
      BY <1>2, <2>2 DEF InputRecord, DeferredRecord
    <3>2. r \in Ordered(Live, P) /\ Live \subseteq M
      BY <1>1, <1>5, <1>6, <1>7, <2>2, <3>1, InputOrdered
    <3> HIDE DEF r
    <3> QED BY <3>2, OrderedGrows
  <2> QED BY <2>1, <2>2
<1> HIDE DEF r
<1>9. tun' \in Ordered(M, P)
  <2>1. [r EXCEPT !.ok = TRUE] \in Ordered(M, P)
    BY <1>8, OkOrdered
  <2>2. AbortTcp([r EXCEPT !.ok = TRUE], e.flow) \in Ordered(M, P)
    BY <1>5, <2>1, CloseTcpOrdered
  <2> QED BY <1>3, <1>8, <2>2
<1>10. /\ tun' \in LoopRecord /\ Socketed(tun') = P
       /\ \A f \in TcpFlows : tun'.sock[f].st # "none" <=> tun.sock[f].st # "none"
  <2>1. tun' \in LoopRecord /\ Socketed(tun') = P
    BY <1>9 DEF Ordered
  <2> QED BY <2>1 DEF Socketed
<1>11. Live' = M
  BY <1>3, <1>10 DEF Live, M, Socketed
<1>12. ClosesReported'
  <2> SUFFICES ASSUME NEW i \in DOMAIN inputs', tun'.sock[inputs'[i].flow].st = "none"
               PROVE  \E j \in DOMAIN inputs' : j >= i /\ inputs'[j].flow = inputs'[i].flow /\ inputs'[j].kind = "closed"
    BY DEF ClosesReported
  <2>1. i \in 1 .. Len(inputs) - 1 /\ inputs'[i] = inputs[i + 1] /\ i + 1 \in DOMAIN inputs
    BY <1>1, <1>2, <1>3
  <2>2. tun.sock[inputs[i + 1].flow].st = "none"
    BY <1>4, <1>10, <2>1
  <2>3. PICK j \in DOMAIN inputs : /\ j >= i + 1 /\ inputs[j].flow = inputs[i + 1].flow
                                   /\ inputs[j].kind = "closed"
    BY <2>1, <2>2 DEF TunTcpInv, ClosesReported
  <2>4. j - 1 \in 1 .. Len(inputs) - 1 /\ j - 1 >= i
    BY <1>1, <2>1, <2>3
  <2>5. j - 1 \in DOMAIN inputs' /\ inputs'[j - 1] = inputs[j]
    BY <1>2, <1>3, <2>4
  <2> QED BY <2>1, <2>3, <2>4, <2>5
<1> QED BY <1>2, <1>3, <1>9, <1>10, <1>11, <1>12 DEF TunTcpInv, TunTcpShape

LEMMA EmitTyped ==
  ASSUME TunTcpShape, NEW kind \in {"data", "closed", "resolved"}, NEW f \in TcpFlows, NEW gen \in Nat,
         NEW payload \in Seq(Unit), Emit(kind, f, gen, payload)
  PROVE  outputs' \in Seq(OutputRecord)
<1>1. [kind |-> kind, flow |-> f, gen |-> gen, payload |-> payload] \in OutputRecord
  BY DEF OutputRecord
<1> QED BY <1>1 DEF Emit, TunTcpShape

(* What smoltcp makes of the packets of the client.                        *)
LEMMA ClientSteps ==
  ASSUME TunTcpInv, NEW f \in TcpFlows,
         ClientConnects(f) \/ ClientSends(f) \/ ClientFins(f) \/ ClientAcks(f) \/ SocketCloses(f)
  PROVE  TunTcpInv'
<1>1. /\ tun \in LoopRecord /\ tun.sock \in [TcpFlows -> SocketRecord] /\ tun.sock[f] \in SocketRecord
      /\ tun \in Ordered(Live, Socketed(tun)) /\ outputs \in Seq(OutputRecord)
  BY DEF TunTcpInv, TunTcpShape, LoopRecord
<1>2. tun.sock[f].sent \in Nat /\ TxCap \in Nat /\ <<>> \in Seq(Unit)
  BY <1>1, TunTcpAssumption DEF SocketRecord
<1>3. NoSocket \in SocketRecord
  BY <1>2 DEF NoSocket, SocketRecord
<1>4. ASSUME NEW kind \in {"opened", "data", "half", "closed"}, NEW n \in Nat
      PROVE  Event(kind, f, n) \in InputRecord /\ Event(kind, f, n).flow = f /\ Event(kind, f, n).kind = kind
  BY DEF Event, InputRecord
<1>5. CASE ClientConnects(f)
  <2> DEFINE s == [NoSocket EXCEPT !.st = "open"]
             e == Event("opened", f, 0)
  <2>1. s \in SocketRecord /\ s.st # "none"
    BY <1>3 DEF SocketRecord
  <2>2. tun' = [tun EXCEPT !.sock[f] = s] /\ inputs' = Append(inputs, e) /\ UNCHANGED outputs
    BY <1>5 DEF ClientConnects, Report
  <2>3. e \in InputRecord /\ e.flow = f
    BY <1>4
  <2> HIDE DEF s, e
  <2> QED BY <2>1, <2>2, <2>3, SocketSteps
<1>6. CASE ClientSends(f)
  <2> DEFINE s == [tun.sock[f] EXCEPT !.sent = @ + 1]
             e == Event("data", f, tun.sock[f].sent + 1)
  <2>1. s \in SocketRecord /\ s.st # "none"
    <3> DEFINE k == tun.sock[f]
               n == tun.sock[f].sent + 1
    <3>1. k \in SocketRecord /\ n \in Nat
      BY <1>1, <1>2
    <3>2. k.st \in {"open", "closing"}
      BY <1>6 DEF ClientSends
    <3> HIDE DEF k, n
    <3>3. [k EXCEPT !.sent = n] \in SocketRecord /\ [k EXCEPT !.sent = n].st = k.st
      BY <3>1 DEF SocketRecord
    <3> QED BY <3>2, <3>3 DEF k, n
  <2>2. tun' = [tun EXCEPT !.sock[f] = s] /\ inputs' = Append(inputs, e) /\ UNCHANGED outputs
    BY <1>1, <1>6 DEF ClientSends, Report, LoopRecord
  <2>3. e \in InputRecord /\ e.flow = f
    BY <1>2, <1>4
  <2> HIDE DEF s, e
  <2> QED BY <2>1, <2>2, <2>3, SocketSteps
<1>7. CASE ClientFins(f)
  <2> DEFINE s == [tun.sock[f] EXCEPT !.fin = TRUE]
             e == Event("half", f, 0)
  <2>1. s \in SocketRecord /\ s.st # "none"
    <3> DEFINE k == tun.sock[f]
    <3>1. k \in SocketRecord
      BY <1>1
    <3>2. k.st \in {"open", "closing"}
      BY <1>7 DEF ClientFins
    <3> HIDE DEF k
    <3>3. [k EXCEPT !.fin = TRUE] \in SocketRecord /\ [k EXCEPT !.fin = TRUE].st = k.st
      BY <3>1 DEF SocketRecord
    <3> QED BY <3>2, <3>3 DEF k
  <2>2. tun' = [tun EXCEPT !.sock[f] = s] /\ inputs' = Append(inputs, e) /\ UNCHANGED outputs
    BY <1>1, <1>7 DEF ClientFins, Report, LoopRecord
  <2>3. e \in InputRecord /\ e.flow = f
    BY <1>4
  <2> HIDE DEF s, e
  <2> QED BY <2>1, <2>2, <2>3, SocketSteps
<1>8. CASE ClientAcks(f)
  <2> DEFINE s == [tun.sock[f] EXCEPT !.tx = 0]
  <2>1. s \in SocketRecord /\ s.st = tun.sock[f].st
    <3> DEFINE k == tun.sock[f]
    <3>1. k \in SocketRecord /\ 0 \in 0 .. TxCap
      BY <1>1, <1>2
    <3> HIDE DEF k
    <3>2. [k EXCEPT !.tx = 0] \in SocketRecord /\ [k EXCEPT !.tx = 0].st = k.st
      BY <3>1 DEF SocketRecord
    <3> QED BY <3>2 DEF k
  <2>2. tun' = [tun EXCEPT !.sock[f] = s] /\ UNCHANGED <<inputs, outputs>>
    BY <1>1, <1>8 DEF ClientAcks, LoopRecord
  <2> HIDE DEF s
  <2>3. /\ tun' \in LoopRecord /\ tun'.sock = [tun.sock EXCEPT ![f] = s] /\ SameBesideSockets(tun', tun)
    BY <1>1, <2>1, <2>2 DEF LoopRecord, SameBesideSockets
  <2>4. Socketed(tun') = Socketed(tun)
    BY <1>1, <2>1, <2>3 DEF Socketed
  <2>5. tun' \in Ordered(Live, Socketed(tun))
    BY <1>1, <2>3, <2>4, SocketsOrdered
  <2> QED BY <1>1, <2>2, <2>5, LoopSteps
<1>9. CASE SocketCloses(f)
  <2> DEFINE e == Event("closed", f, 0)
  <2>1. tun' = [tun EXCEPT !.sock[f] = NoSocket] /\ inputs' = Append(inputs, e) /\ UNCHANGED outputs
    BY <1>9 DEF SocketCloses, Report
  <2>2. e \in InputRecord /\ e.flow = f /\ e.kind = "closed"
    BY <1>4
  <2> HIDE DEF e
  <2> QED BY <1>3, <2>1, <2>2, SocketSteps
<1> QED BY <1>5, <1>6, <1>7, <1>8, <1>9

(* The proxy task of a flow.                                               *)
LEMMA TaskSteps ==
  ASSUME TunTcpInv, NEW f \in TcpFlows,
         \/ \E pc \in {"relaying", "ending"} : ConnectEnds(f, pc)
         \/ ReadRemote(f) \/ RemoteEnds(f) \/ EmitClosed(f) \/ EmitTimesOut(f) \/ TakeCommand(f)
  PROVE  TunTcpInv'
<1>1. /\ tun \in LoopRecord /\ tun \in Ordered(Live, Socketed(tun))
      /\ TunTcpShape /\ outputs \in Seq(OutputRecord)
  BY DEF TunTcpInv, TunTcpShape
<1>2. f \in DOMAIN tun.task /\ inputs' = inputs
  BY DEF ConnectEnds, ReadRemote, RemoteEnds, EmitClosed, EmitTimesOut, TakeCommand, Running
<1>3. PICK D \in SUBSET TcpFlows : tun.task \in [D -> TaskRecord]
  BY <1>1 DEF LoopRecord, TaskMap
<1> DEFINE t == tun.task[f]
<1>4. t \in TaskRecord
  BY <1>2, <1>3
<1>5. /\ t.gen \in Nat /\ t.emitted \in Nat /\ t.cmds \in Seq(Nat) /\ t.forwarded \in Seq(Nat)
      /\ t.writeClosed \in BOOLEAN
  BY <1>4 DEF TaskRecord
<1>6. ASSUME NEW k \in TaskRecord, tun' = [tun EXCEPT !.task[f] = k]
      PROVE  tun' \in Ordered(Live, Socketed(tun))
  BY <1>1, <1>2, <1>6, TaskOrdered
<1>7. ASSUME NEW pc \in {"relaying", "ending", "finished"}, TaskGoes(f, pc)
      PROVE  tun' \in Ordered(Live, Socketed(tun))
  <2>1. [t EXCEPT !.pc = pc] \in TaskRecord
    BY <1>4 DEF TaskRecord
  <2>2. tun' = [tun EXCEPT !.task[f] = [t EXCEPT !.pc = pc]]
    BY <1>1, <1>2, <1>3, <1>7 DEF TaskGoes, LoopRecord
  <2> QED BY <1>6, <2>1, <2>2
<1>8. CASE \E pc \in {"relaying", "ending"} : ConnectEnds(f, pc)
  BY <1>1, <1>2, <1>7, <1>8, LoopSteps DEF ConnectEnds
<1>9. CASE RemoteEnds(f) \/ EmitTimesOut(f)
  BY <1>1, <1>2, <1>7, <1>9, LoopSteps DEF RemoteEnds, EmitTimesOut
<1>10. CASE EmitClosed(f)
  <2>1. <<>> \in Seq(Unit)
    OBVIOUS
  <2>2. outputs' \in Seq(OutputRecord)
    BY <1>1, <1>5, <1>10, <2>1, EmitTyped DEF EmitClosed
  <2>3. tun' \in Ordered(Live, Socketed(tun))
    BY <1>7, <1>10 DEF EmitClosed
  <2> QED BY <1>2, <2>2, <2>3, LoopSteps
<1>11. CASE ReadRemote(f)
  <2> DEFINE k == [t EXCEPT !.emitted = @ + ChunkLen]
             u == Units(t.gen, t.emitted, ChunkLen)
  <2>1. ChunkLen \in Nat /\ t.emitted + ChunkLen \in Nat
    BY <1>5, TunTcpAssumption
  <2>2. k \in TaskRecord
    BY <1>4, <1>5, <2>1 DEF TaskRecord
  <2>3. u \in Seq(Unit)
    <3>1. \A i \in 1 .. ChunkLen : <<t.gen, t.emitted + i>> \in Unit
      BY <1>5, <2>1, SMTT(40) DEF Unit
    <3>2. u \in [1 .. ChunkLen -> Unit]
      BY <3>1 DEF Units
    <3> QED BY <2>1, <3>2
  <2>4. tun' = [tun EXCEPT !.task[f] = k] /\ Emit("data", f, t.gen, u)
    <3>1. /\ tun' = [tun EXCEPT !.task[f].emitted = @ + ChunkLen]
          /\ Emit("data", f, t.gen, u)
      BY <1>11 DEF ReadRemote
    <3>2. [tun EXCEPT !.task[f].emitted = @ + ChunkLen] = [tun EXCEPT !.task[f] = k]
      BY <1>1, <1>2, <1>3 DEF LoopRecord
    <3> QED BY <3>1, <3>2
  <2> HIDE DEF k, u
  <2>5. outputs' \in Seq(OutputRecord)
    <3> HIDE DEF t
    <3> QED BY <1>1, <1>5, <2>3, <2>4, EmitTyped
  <2>6. tun' \in Ordered(Live, Socketed(tun))
    BY <1>6, <2>2, <2>4
  <2> QED BY <1>2, <2>5, <2>6, LoopSteps
<1>12. CASE TakeCommand(f)
  <2> DEFINE c == Head(t.cmds)
             k == [t EXCEPT !.cmds = Tail(@), !.writeClosed = @ \/ c = 0,
                            !.forwarded = IF c # 0 /\ ~t.writeClosed THEN Append(@, c) ELSE @]
  <2>1. t.cmds # <<>> /\ tun' = [tun EXCEPT !.task[f] = k] /\ outputs' = outputs
    BY <1>12 DEF TakeCommand
  <2>2. c \in Nat /\ Tail(t.cmds) \in Seq(Nat)
    BY <1>5, <2>1
  <2>3. (IF c # 0 /\ ~t.writeClosed THEN Append(t.forwarded, c) ELSE t.forwarded) \in Seq(Nat)
    BY <1>5, <2>2
  <2>4. (t.writeClosed \/ c = 0) \in BOOLEAN
    BY <1>5
  <2>5. k \in TaskRecord
    BY <1>4, <2>2, <2>3, <2>4 DEF TaskRecord
  <2> HIDE DEF k
  <2>6. tun' \in Ordered(Live, Socketed(tun))
    BY <1>6, <2>1, <2>5
  <2> QED BY <1>1, <1>2, <2>1, <2>6, LoopSteps
<1> QED BY <1>8, <1>9, <1>10, <1>11, <1>12

(* The steps of the loop after the poll.                                   *)
LEMMA OutputSteps ==
  ASSUME TunTcpInv, HandleOutput
  PROVE  TunTcpInv'
<1> DEFINE o == Head(outputs)
<1>1. tun \in Ordered(Live, Socketed(tun)) /\ outputs \in Seq(OutputRecord) /\ outputs # <<>>
  BY DEF TunTcpInv, TunTcpShape, HandleOutput
<1>2. o \in OutputRecord /\ Tail(outputs) \in Seq(OutputRecord)
  BY <1>1
<1>3. o.flow \in TcpFlows /\ o.kind \in {"data", "closed", "resolved"}
  BY <1>2 DEF OutputRecord
<1>4. outputs' = Tail(outputs) /\ inputs' = inputs
      /\ tun' = CASE o.kind = "data"     -> TcpData(tun, o)
                  [] o.kind = "closed"   -> TcpClosed(tun, o)
                  [] o.kind = "resolved" -> ProcessResolved(tun, o)
  BY DEF HandleOutput
<1> HIDE DEF o
<1>5. CASE o.kind = "data"
  <2>1. tun' = TcpData(tun, o)
    BY <1>4, <1>5
  <2>2. tun' \in Ordered(Live, Socketed(tun))
    BY <1>1, <1>2, <2>1, TcpDataOrdered
  <2> QED BY <1>2, <1>4, <2>2, LoopSteps
<1>6. CASE o.kind = "closed"
  <2>1. tun' = ReapFlow(o.flow, tun)
    BY <1>4, <1>6 DEF TcpClosed, ReapFlow
  <2>2. tun' \in Ordered(Live, Socketed(tun))
    BY <1>1, <1>3, <2>1, ReapOrdered
  <2> QED BY <1>2, <1>4, <2>2, LoopSteps
<1>7. CASE o.kind = "resolved"
  <2>1. tun' = ProcessResolved(tun, o)
    BY <1>4, <1>7
  <2>2. tun' \in Ordered(Live, Socketed(tun))
    BY <1>1, <2>1, ResolvedOrdered
  <2> QED BY <1>2, <1>4, <2>2, LoopSteps
<1> QED BY <1>3, <1>5, <1>6, <1>7

LEMMA SweepSteps ==
  ASSUME TunTcpInv, InputsEnd \/ Reap \/ \E E \in SUBSET tun.nat : Maintain(E)
  PROVE  TunTcpInv'
<1>1. /\ tun \in Ordered(Live, Socketed(tun)) /\ tun \in LoopRecord /\ outputs \in Seq(OutputRecord)
      /\ tun.nat \subseteq TcpFlows /\ inputs' = inputs /\ outputs' = outputs
  BY DEF TunTcpInv, TunTcpShape, InputsEnd, Reap, Maintain, LoopRecord
<1>2. CASE InputsEnd
  <2>1. tun' \in Ordered(Live, Socketed(tun))
    BY <1>1, <1>2, CloseAndFlushOrdered DEF InputsEnd
  <2> QED BY <1>1, <2>1, LoopSteps
<1>3. CASE Reap
  <2> DEFINE S == {f \in DOMAIN tun.task : tun.task[f].pc = "finished"}
  <2>1. S \subseteq TcpFlows
    BY <1>1 DEF LoopRecord, TaskMap
  <2>2. tun' = FoldSet(ReapFlow, tun, S)
    BY <1>3 DEF Reap
  <2> HIDE DEF S
  <2>3. tun' \in Ordered(Live, Socketed(tun))
    BY <1>1, <2>1, <2>2, ReapAllOrdered
  <2> QED BY <1>1, <2>3, LoopSteps
<1>4. CASE \E E \in SUBSET tun.nat : Maintain(E)
  <2>1. PICK E \in SUBSET tun.nat : Maintain(E)
    BY <1>4
  <2> DEFINE r == [tun EXCEPT !.nat = @ \ E]
  <2>2. tun' = FoldSet(ExpireFlow, r, E) /\ E \subseteq TcpFlows
    BY <1>1, <2>1 DEF Maintain
  <2>3. r \in Ordered(Live, Socketed(tun))
    BY <1>1 DEF Ordered, LoopRecord, TasksInOrder, ClosesWait, LookupInOrder, Socketed
  <2> HIDE DEF r
  <2>4. tun' \in Ordered(Live, Socketed(tun))
    BY <2>2, <2>3, ReapAllOrdered
  <2> QED BY <1>1, <2>4, LoopSteps
<1> QED BY <1>2, <1>3, <1>4

LEMMA OtherSteps ==
  ASSUME TunTcpInv,
         PollEnds \/ DrainEnds \/ LookupEnds \/ StopTun \/ \E f \in TcpFlows : RequestTcpClose(f)
  PROVE  TunTcpInv'
<1>1. /\ tun \in Ordered(Live, Socketed(tun)) /\ tun \in LoopRecord /\ outputs \in Seq(OutputRecord)
      /\ TunTcpShape /\ inputs' = inputs
      /\ tun.lookup \in LookupRecord /\ tun.lookup.events \in Seq(DeferredRecord) /\ LookupInOrder(tun, Live)
  BY DEF TunTcpInv, TunTcpShape, PollEnds, DrainEnds, LookupEnds, StopTun, RequestTcpClose, LoopRecord,
         LookupRecord, Ordered
<1>2. CASE PollEnds \/ DrainEnds
  <2>1. tun' = tun /\ outputs' = outputs
    BY <1>2 DEF PollEnds, DrainEnds
  <2> QED BY <1>1, <2>1, LoopSteps
<1>3. CASE \E f \in TcpFlows : RequestTcpClose(f)
  <2>1. PICK f \in TcpFlows : RequestTcpClose(f)
    BY <1>3
  <2>2. tun' = [tun EXCEPT !.requested = @ \cup {f}] /\ outputs' = outputs
    BY <2>1 DEF RequestTcpClose
  <2>3. [tun EXCEPT !.requested = @ \cup {f}] \in Ordered(Live, Socketed(tun))
    BY <1>1 DEF Ordered, LoopRecord, TasksInOrder, ClosesWait, LookupInOrder, Socketed
  <2> QED BY <1>1, <2>2, <2>3, LoopSteps
<1>4. CASE LookupEnds
  <2> DEFINE l == [tun.lookup EXCEPT !.sent = TRUE]
             r == [tun EXCEPT !.lookup = l]
             e == Head(tun.lookup.events)
  <2>1. l \in LookupRecord /\ l.id = tun.lookup.id /\ l.events = tun.lookup.events /\ l.id # 0 /\ l.id \in Nat
    BY <1>1, <1>4 DEF LookupRecord, LookupEnds
  <2>2. tun' = r /\ Emit("resolved", e.flow, tun.lookup.id, <<>>)
    BY <1>1, <1>4 DEF LookupEnds, LoopRecord
  <2> HIDE DEF l
  <2>3. /\ r \in LoopRecord /\ r.lookup = l /\ r.tracked = tun.tracked /\ r.task = tun.task
        /\ r.sock = tun.sock /\ r.resolver = tun.resolver /\ r.cached = tun.cached
        /\ r.pending = tun.pending /\ r.closes = tun.closes
    BY <1>1, <2>1 DEF LoopRecord
  <2> HIDE DEF r
  <2>4. r \in Ordered(Live, Socketed(tun))
    BY <1>1, <2>1, <2>3 DEF Ordered, TasksInOrder, ClosesWait, LookupInOrder, Socketed
  <2>5. outputs' \in Seq(OutputRecord)
    <3>1. tun.lookup.events # <<>>
      BY <1>1, <1>4 DEF LookupInOrder, LookupEnds
    <3>2. e \in DeferredRecord
      BY <1>1, <3>1
    <3>3. e.flow \in TcpFlows /\ <<>> \in Seq(Unit)
      BY <3>2 DEF DeferredRecord
    <3> HIDE DEF e
    <3> QED BY <1>1, <2>1, <2>2, <3>3, EmitTyped
  <2> QED BY <1>1, <2>2, <2>4, <2>5, LoopSteps
<1>5. CASE StopTun
  <2>1. tun' = Close(tun) /\ outputs' = outputs
    BY <1>5 DEF StopTun
  <2>2. EmptyMap \in TaskMap /\ DOMAIN EmptyMap = {}
    BY DEF TaskMap, EmptyMap
  <2>3. NoLookup \in LookupRecord /\ NoLookup.id = 0 /\ DOMAIN NoLookup.events = {}
    BY DEF NoLookup, LookupRecord
  <2>4. [f \in TcpFlows |-> <<>>] \in [TcpFlows -> Seq(Unit)]
    OBVIOUS
  <2> DEFINE p == [f \in TcpFlows |-> <<>>]
  <2> HIDE DEF p
  <2>5. tun' = [tun EXCEPT !.task = EmptyMap, !.lookup = NoLookup, !.tracked = {}, !.nat = {}, !.cached = FALSE,
                           !.requested = {}, !.pending = p, !.closes = {}]
    BY <2>1 DEF Close, p
  <2>6. /\ tun' \in LoopRecord /\ tun'.task = EmptyMap /\ tun'.lookup = NoLookup /\ tun'.tracked = {}
        /\ tun'.closes = {} /\ tun'.sock = tun.sock
    BY <1>1, <2>2, <2>3, <2>4, <2>5 DEF LoopRecord, p
  <2>7. tun' \in Ordered(Live, Socketed(tun))
    BY <2>2, <2>3, <2>6 DEF Ordered, TasksInOrder, ClosesWait, LookupInOrder, Socketed
  <2> QED BY <1>1, <2>1, <2>7, LoopSteps
<1> QED BY <1>2, <1>3, <1>4, <1>5

-----------------------------------------------------------------------------
LEMMA TunTcpInvHolds == TunTcpSpec => []TunTcpInv
<1>1. ASSUME TunTcpInit PROVE TunTcpInv
  <2>1. EmptyMap \in TaskMap /\ DOMAIN EmptyMap = {}
    BY DEF TaskMap, EmptyMap
  <2>2. NoLookup \in LookupRecord /\ NoLookup.id = 0 /\ DOMAIN NoLookup.events = {}
    BY DEF NoLookup, LookupRecord
  <2>3. <<>> \in Seq(Unit) /\ TxCap \in Nat
    BY TunTcpAssumption
  <2>4. NoSocket \in SocketRecord /\ NoSocket.st = "none"
    BY <2>3 DEF NoSocket, SocketRecord
  <2>5. PICK b \in BOOLEAN :
          tun = [sock |-> [f \in TcpFlows |-> NoSocket], tracked |-> {}, nat |-> {}, cached |-> FALSE,
                 resolver |-> b, lookup |-> NoLookup, nextId |-> 0, task |-> EmptyMap, gens |-> 0,
                 pending |-> [f \in TcpFlows |-> <<>>], closes |-> {}, requested |-> {}, ok |-> TRUE]
    BY <1>1 DEF TunTcpInit
  <2> DEFINE p == [f \in TcpFlows |-> <<>>]
             s == [f \in TcpFlows |-> NoSocket]
  <2>6. p \in [TcpFlows -> Seq(Unit)] /\ s \in [TcpFlows -> SocketRecord]
    BY <2>3, <2>4
  <2> HIDE DEF p
  <2>7. /\ tun \in LoopRecord /\ tun.task = EmptyMap /\ tun.lookup = NoLookup /\ tun.tracked = {}
        /\ tun.closes = {}
    BY <2>1, <2>2, <2>5, <2>6 DEF LoopRecord, p
  <2>8. tun \in Ordered(Live, Socketed(tun))
    BY <2>1, <2>2, <2>7 DEF Ordered, TasksInOrder, ClosesWait, LookupInOrder
  <2>9. inputs \in Seq(InputRecord) /\ outputs \in Seq(OutputRecord) /\ DOMAIN inputs = {}
    BY <1>1 DEF TunTcpInit
  <2> QED BY <2>7, <2>8, <2>9 DEF TunTcpInv, TunTcpShape, ClosesReported
<1>2. ASSUME TunTcpInv, [TunTcpNext]_tunTcpVars PROVE TunTcpInv'
  <2>1. CASE UNCHANGED tunTcpVars
    BY <1>2, <2>1 DEF tunTcpVars, TunTcpInv, TunTcpShape, Live, ClosesReported
  <2>2. CASE TunTcpNext
    BY <1>2, <2>2, ClientSteps, TaskSteps, DispatchSteps, OutputSteps, SweepSteps, OtherSteps DEF TunTcpNext
  <2> QED BY <1>2, <2>1, <2>2
<1> QED BY <1>1, <1>2, PTL DEF TunTcpSpec

(* Whatever a flow holds in the loop task, something is left that releases *)
(* it: a task belongs to a tracked flow, a tracked flow has a socket or an *)
(* event that says how it ended, and a close waits for pending output      *)
(* (the handlers of proxy_runtime.rs, proxy_process.rs, proxy_output.rs).  *)
THEOREM FlowsStayReleasable == TunTcpSpec => []FlowsReleasable
<1>1. ASSUME TunTcpInv PROVE FlowsReleasable
  <2>1. /\ tun \in LoopRecord /\ tun.tracked \subseteq Live /\ TasksInOrder(tun) /\ ClosesWait(tun)
    BY <1>1 DEF TunTcpInv, Ordered
  <2>2. DOMAIN tun.task = {} => tun.task = EmptyMap
    BY <2>1 DEF LoopRecord, TaskMap, EmptyMap
  <2>3. TasksTracked
    BY <2>1, <2>2 DEF TasksTracked, TasksInOrder
  <2>4. TrackedReleasable /\ CloseWaitsForOutput
    BY <2>1 DEF TrackedReleasable, CloseWaitsForOutput, Live, ClosesWait
  <2> QED BY <2>3, <2>4 DEF FlowsReleasable
<1> QED BY <1>1, TunTcpInvHolds, PTL


-----------------------------------------------------------------------------
(* The UDP and echo flows of the TUN device.                               *)
(*                                                                         *)
(* What a handler does to every member of a set or a sequence leads to     *)
(* P[S] if a step from P of the members before leads to P of one more.     *)
LEMMA CloseUdpFollows ==
  ASSUME NEW S, IsFiniteSet(S), NEW G, NEW r \in G, \A x \in S : \A y \in G : CloseUdpFlow(x, y) \in G,
         NEW P, r \in P[{}], 
         \A t \in SUBSET S : \A x \in S \ t : \A y \in P[t] : CloseUdpFlow(x, y) \in P[t \cup {x}]
  PROVE  FoldSet(CloseUdpFlow, r, S) \in P[S]
<1> DEFINE F == [p \in S \X G |-> CloseUdpFlow(p[1], p[2])]
           c == [s \in SUBSET S |-> Pick(s)]
           Step(h) == h = [s \in SUBSET S |-> IF s = {} THEN r ELSE CloseUdpFlow(Pick(s), h[s \ {Pick(s)}])]
           e == CHOOSE h : Step(h)
<1>1. F \in [S \X G -> G]
  OBVIOUS
<1>2. \A s \in SUBSET S : s # {} => Pick(s) \in s
  BY DEF Pick
<1>3. \A s \in SUBSET S : c[s] = Pick(s)
  OBVIOUS
<1>4. \A s \in SUBSET S : s # {} => c[s] \in s
  BY <1>2, <1>3
<1>5. PICK h \in [SUBSET S -> G] : Folding(F, r, c, SUBSET S, h)
  <2> HIDE DEF F, c
  <2> QED BY <1>1, <1>4, FoldingExists
<1>6. Step(h)
  <2>1. ASSUME NEW s \in SUBSET S, s # {}
        PROVE  F[<<c[s], h[s \ {c[s]}]>>] = CloseUdpFlow(Pick(s), h[s \ {Pick(s)}])
    <3>1. <<Pick(s), h[s \ {Pick(s)}]>> \in S \X G /\ c[s] = Pick(s)
      BY <1>2, <1>3, <1>5, <2>1
    <3> QED BY <3>1
  <2> QED BY <1>5, <2>1 DEF Folding
<1>7. Step(e)
  BY <1>6
<1>8. FoldSet(CloseUdpFlow, r, S) = e[S]
  BY DEF FoldSet, MapThenFoldSet, Pick
<1> HIDE DEF e
<1>9. e[{}] \in P[{}]
  BY <1>7
<1>10. ASSUME NEW s \in SUBSET S, s # {}
       PROVE  \E x \in s : e[s \ {x}] \in P[s \ {x}] => e[s] \in P[s]
  <2>1. e[s] = CloseUdpFlow(Pick(s), e[s \ {Pick(s)}])
    BY <1>7, <1>10
  <2>2. Pick(s) \in s
    BY <1>2, <1>10
  <2>3. SUFFICES ASSUME e[s \ {Pick(s)}] \in P[s \ {Pick(s)}] PROVE e[s] \in P[s]
    <3> HIDE DEF Step
    <3> QED BY <2>2
  <2> DEFINE t == s \ {Pick(s)}
             x == Pick(s)
  <2>4. t \in SUBSET S /\ x \in S \ t /\ t \cup {x} = s /\ e[t] \in P[t] /\ e[s] = CloseUdpFlow(x, e[t])
    <3> HIDE DEF Step
    <3> QED BY <2>1, <2>2, <2>3
  <2> HIDE DEF Step, t, x
  <2> QED BY <2>4
<1>11. e[S] \in P[S]
  <2> HIDE DEF Step
  <2> QED BY <1>9, <1>10, FoldFollows
<1> QED BY <1>8, <1>11

LEMMA UntrackUdpFollows ==
  ASSUME NEW S, IsFiniteSet(S), NEW G, NEW r \in G, \A x \in S : \A y \in G : UntrackUdp(x, y) \in G,
         NEW P, r \in P[{}], 
         \A t \in SUBSET S : \A x \in S \ t : \A y \in P[t] : UntrackUdp(x, y) \in P[t \cup {x}]
  PROVE  FoldSet(UntrackUdp, r, S) \in P[S]
<1> DEFINE F == [p \in S \X G |-> UntrackUdp(p[1], p[2])]
           c == [s \in SUBSET S |-> Pick(s)]
           Step(h) == h = [s \in SUBSET S |-> IF s = {} THEN r ELSE UntrackUdp(Pick(s), h[s \ {Pick(s)}])]
           e == CHOOSE h : Step(h)
<1>1. F \in [S \X G -> G]
  OBVIOUS
<1>2. \A s \in SUBSET S : s # {} => Pick(s) \in s
  BY DEF Pick
<1>3. \A s \in SUBSET S : c[s] = Pick(s)
  OBVIOUS
<1>4. \A s \in SUBSET S : s # {} => c[s] \in s
  BY <1>2, <1>3
<1>5. PICK h \in [SUBSET S -> G] : Folding(F, r, c, SUBSET S, h)
  <2> HIDE DEF F, c
  <2> QED BY <1>1, <1>4, FoldingExists
<1>6. Step(h)
  <2>1. ASSUME NEW s \in SUBSET S, s # {}
        PROVE  F[<<c[s], h[s \ {c[s]}]>>] = UntrackUdp(Pick(s), h[s \ {Pick(s)}])
    <3>1. <<Pick(s), h[s \ {Pick(s)}]>> \in S \X G /\ c[s] = Pick(s)
      BY <1>2, <1>3, <1>5, <2>1
    <3> QED BY <3>1
  <2> QED BY <1>5, <2>1 DEF Folding
<1>7. Step(e)
  BY <1>6
<1>8. FoldSet(UntrackUdp, r, S) = e[S]
  BY DEF FoldSet, MapThenFoldSet, Pick
<1> HIDE DEF e
<1>9. e[{}] \in P[{}]
  BY <1>7
<1>10. ASSUME NEW s \in SUBSET S, s # {}
       PROVE  \E x \in s : e[s \ {x}] \in P[s \ {x}] => e[s] \in P[s]
  <2>1. e[s] = UntrackUdp(Pick(s), e[s \ {Pick(s)}])
    BY <1>7, <1>10
  <2>2. Pick(s) \in s
    BY <1>2, <1>10
  <2>3. SUFFICES ASSUME e[s \ {Pick(s)}] \in P[s \ {Pick(s)}] PROVE e[s] \in P[s]
    <3> HIDE DEF Step
    <3> QED BY <2>2
  <2> DEFINE t == s \ {Pick(s)}
             x == Pick(s)
  <2>4. t \in SUBSET S /\ x \in S \ t /\ t \cup {x} = s /\ e[t] \in P[t] /\ e[s] = UntrackUdp(x, e[t])
    <3> HIDE DEF Step
    <3> QED BY <2>1, <2>2, <2>3
  <2> HIDE DEF Step, t, x
  <2> QED BY <2>4
<1>11. e[S] \in P[S]
  <2> HIDE DEF Step
  <2> QED BY <1>9, <1>10, FoldFollows
<1> QED BY <1>8, <1>11

LEMMA ReapEchoFollows ==
  ASSUME NEW S, IsFiniteSet(S), NEW G, NEW r \in G, \A x \in S : \A y \in G : ReapEcho(x, y) \in G,
         NEW P, r \in P[{}], 
         \A t \in SUBSET S : \A x \in S \ t : \A y \in P[t] : ReapEcho(x, y) \in P[t \cup {x}]
  PROVE  FoldSet(ReapEcho, r, S) \in P[S]
<1> DEFINE F == [p \in S \X G |-> ReapEcho(p[1], p[2])]
           c == [s \in SUBSET S |-> Pick(s)]
           Step(h) == h = [s \in SUBSET S |-> IF s = {} THEN r ELSE ReapEcho(Pick(s), h[s \ {Pick(s)}])]
           e == CHOOSE h : Step(h)
<1>1. F \in [S \X G -> G]
  OBVIOUS
<1>2. \A s \in SUBSET S : s # {} => Pick(s) \in s
  BY DEF Pick
<1>3. \A s \in SUBSET S : c[s] = Pick(s)
  OBVIOUS
<1>4. \A s \in SUBSET S : s # {} => c[s] \in s
  BY <1>2, <1>3
<1>5. PICK h \in [SUBSET S -> G] : Folding(F, r, c, SUBSET S, h)
  <2> HIDE DEF F, c
  <2> QED BY <1>1, <1>4, FoldingExists
<1>6. Step(h)
  <2>1. ASSUME NEW s \in SUBSET S, s # {}
        PROVE  F[<<c[s], h[s \ {c[s]}]>>] = ReapEcho(Pick(s), h[s \ {Pick(s)}])
    <3>1. <<Pick(s), h[s \ {Pick(s)}]>> \in S \X G /\ c[s] = Pick(s)
      BY <1>2, <1>3, <1>5, <2>1
    <3> QED BY <3>1
  <2> QED BY <1>5, <2>1 DEF Folding
<1>7. Step(e)
  BY <1>6
<1>8. FoldSet(ReapEcho, r, S) = e[S]
  BY DEF FoldSet, MapThenFoldSet, Pick
<1> HIDE DEF e
<1>9. e[{}] \in P[{}]
  BY <1>7
<1>10. ASSUME NEW s \in SUBSET S, s # {}
       PROVE  \E x \in s : e[s \ {x}] \in P[s \ {x}] => e[s] \in P[s]
  <2>1. e[s] = ReapEcho(Pick(s), e[s \ {Pick(s)}])
    BY <1>7, <1>10
  <2>2. Pick(s) \in s
    BY <1>2, <1>10
  <2>3. SUFFICES ASSUME e[s \ {Pick(s)}] \in P[s \ {Pick(s)}] PROVE e[s] \in P[s]
    <3> HIDE DEF Step
    <3> QED BY <2>2
  <2> DEFINE t == s \ {Pick(s)}
             x == Pick(s)
  <2>4. t \in SUBSET S /\ x \in S \ t /\ t \cup {x} = s /\ e[t] \in P[t] /\ e[s] = ReapEcho(x, e[t])
    <3> HIDE DEF Step
    <3> QED BY <2>1, <2>2, <2>3
  <2> HIDE DEF Step, t, x
  <2> QED BY <2>4
<1>11. e[S] \in P[S]
  <2> HIDE DEF Step
  <2> QED BY <1>9, <1>10, FoldFollows
<1> QED BY <1>8, <1>11

LEMMA CloseSourceFollows ==
  ASSUME NEW S, IsFiniteSet(S), NEW G, NEW r \in G, \A x \in S : \A y \in G : CloseSource(x, y) \in G,
         NEW P, r \in P[{}], 
         \A t \in SUBSET S : \A x \in S \ t : \A y \in P[t] : CloseSource(x, y) \in P[t \cup {x}]
  PROVE  FoldSet(CloseSource, r, S) \in P[S]
<1> DEFINE F == [p \in S \X G |-> CloseSource(p[1], p[2])]
           c == [s \in SUBSET S |-> Pick(s)]
           Step(h) == h = [s \in SUBSET S |-> IF s = {} THEN r ELSE CloseSource(Pick(s), h[s \ {Pick(s)}])]
           e == CHOOSE h : Step(h)
<1>1. F \in [S \X G -> G]
  OBVIOUS
<1>2. \A s \in SUBSET S : s # {} => Pick(s) \in s
  BY DEF Pick
<1>3. \A s \in SUBSET S : c[s] = Pick(s)
  OBVIOUS
<1>4. \A s \in SUBSET S : s # {} => c[s] \in s
  BY <1>2, <1>3
<1>5. PICK h \in [SUBSET S -> G] : Folding(F, r, c, SUBSET S, h)
  <2> HIDE DEF F, c
  <2> QED BY <1>1, <1>4, FoldingExists
<1>6. Step(h)
  <2>1. ASSUME NEW s \in SUBSET S, s # {}
        PROVE  F[<<c[s], h[s \ {c[s]}]>>] = CloseSource(Pick(s), h[s \ {Pick(s)}])
    <3>1. <<Pick(s), h[s \ {Pick(s)}]>> \in S \X G /\ c[s] = Pick(s)
      BY <1>2, <1>3, <1>5, <2>1
    <3> QED BY <3>1
  <2> QED BY <1>5, <2>1 DEF Folding
<1>7. Step(e)
  BY <1>6
<1>8. FoldSet(CloseSource, r, S) = e[S]
  BY DEF FoldSet, MapThenFoldSet, Pick
<1> HIDE DEF e
<1>9. e[{}] \in P[{}]
  BY <1>7
<1>10. ASSUME NEW s \in SUBSET S, s # {}
       PROVE  \E x \in s : e[s \ {x}] \in P[s \ {x}] => e[s] \in P[s]
  <2>1. e[s] = CloseSource(Pick(s), e[s \ {Pick(s)}])
    BY <1>7, <1>10
  <2>2. Pick(s) \in s
    BY <1>2, <1>10
  <2>3. SUFFICES ASSUME e[s \ {Pick(s)}] \in P[s \ {Pick(s)}] PROVE e[s] \in P[s]
    <3> HIDE DEF Step
    <3> QED BY <2>2
  <2> DEFINE t == s \ {Pick(s)}
             x == Pick(s)
  <2>4. t \in SUBSET S /\ x \in S \ t /\ t \cup {x} = s /\ e[t] \in P[t] /\ e[s] = CloseSource(x, e[t])
    <3> HIDE DEF Step
    <3> QED BY <2>1, <2>2, <2>3
  <2> HIDE DEF Step, t, x
  <2> QED BY <2>4
<1>11. e[S] \in P[S]
  <2> HIDE DEF Step
  <2> QED BY <1>9, <1>10, FoldFollows
<1> QED BY <1>8, <1>11

LEMMA ReplayFollows ==
  ASSUME NEW E, NEW q \in Seq(E), NEW S, S = DOMAIN q, NEW G, NEW r \in G,
         \A x \in E : \A y \in G : ReplayDatagram(y, x) \in G,
         NEW P, r \in P[{}],
         \A t \in SUBSET S : \A i \in S \ t : \A y \in P[t] : ReplayDatagram(y, q[i]) \in P[t \cup {i}]
  PROVE  FoldLeft(ReplayDatagram, r, q) \in P[S]
<1> DEFINE F == [p \in S \X G |-> ReplayDatagram(p[2], q[p[1]])]
           c == [s \in SUBSET S |-> Max(s)]
           Step(h) == h = [s \in SUBSET S |-> IF s = {} THEN r
                                             ELSE ReplayDatagram(h[s \ {Max(s)}], q[Max(s)])]
           e == CHOOSE h : Step(h)
<1>1. IsFiniteSet(S) /\ S = 1 .. Len(q) /\ Len(q) \in Nat /\ \A i \in S : q[i] \in E
  BY FS_Interval
<1>2. F \in [S \X G -> G]
  BY <1>1
<1>3. \A s \in SUBSET S : s # {} => Max(s) \in s
  BY <1>1, MaxIsIn
<1>4. \A s \in SUBSET S : c[s] = Max(s)
  OBVIOUS
<1>5. \A s \in SUBSET S : s # {} => c[s] \in s
  BY <1>3, <1>4
<1>6. PICK h \in [SUBSET S -> G] : Folding(F, r, c, SUBSET S, h)
  <2> HIDE DEF F, c
  <2> QED BY <1>1, <1>2, <1>5, FoldingExists
<1>7. Step(h)
  <2>1. ASSUME NEW s \in SUBSET S, s # {}
        PROVE  F[<<c[s], h[s \ {c[s]}]>>] = ReplayDatagram(h[s \ {Max(s)}], q[Max(s)])
    <3>1. <<Max(s), h[s \ {Max(s)}]>> \in S \X G /\ c[s] = Max(s)
      BY <1>3, <1>4, <1>6, <2>1
    <3> QED BY <3>1
  <2> QED BY <1>6, <2>1 DEF Folding
<1>8. Step(e)
  BY <1>7
<1>9. FoldLeft(ReplayDatagram, r, q) = e[S]
  BY DEF FoldLeft, MapThenFoldSet
<1> HIDE DEF e
<1>10. e[{}] \in P[{}]
  BY <1>8
<1>11. ASSUME NEW s \in SUBSET S, s # {}
       PROVE  \E x \in s : e[s \ {x}] \in P[s \ {x}] => e[s] \in P[s]
  <2>1. e[s] = ReplayDatagram(e[s \ {Max(s)}], q[Max(s)])
    BY <1>8, <1>11
  <2>2. Max(s) \in s
    BY <1>3, <1>11
  <2>3. SUFFICES ASSUME e[s \ {Max(s)}] \in P[s \ {Max(s)}] PROVE e[s] \in P[s]
    <3> HIDE DEF Step
    <3> QED BY <2>2
  <2> DEFINE t == s \ {Max(s)}
             x == Max(s)
  <2>4. t \in SUBSET S /\ x \in S \ t /\ t \cup {x} = s /\ e[t] \in P[t] /\ e[s] = ReplayDatagram(e[t], q[x])
    <3> HIDE DEF Step
    <3> QED BY <2>1, <2>2, <2>3
  <2> HIDE DEF Step, t, x
  <2>5. \A y \in P[t] : ReplayDatagram(y, q[x]) \in P[t \cup {x}]
    BY <2>4
  <2>6. ReplayDatagram(e[t], q[x]) \in P[t \cup {x}]
    BY <2>4, <2>5
  <2> QED BY <2>4, <2>6
<1>12. e[S] \in P[S]
  <2> HIDE DEF Step
  <2> QED BY <1>1, <1>10, <1>11, FoldFollows
<1> QED BY <1>9, <1>12

LEMMA FlowsButFollows ==
  ASSUME NEW E, NEW q \in Seq(E), NEW S, S = DOMAIN q, NEW G, <<>> \in G, NEW f,
         \A x \in E : \A y \in G : (IF x = f THEN y ELSE Append(y, x)) \in G,
         NEW P, <<>> \in P[{}],
         \A t \in SUBSET S : \A i \in S \ t : \A y \in P[t] : (IF q[i] = f THEN y ELSE Append(y, q[i])) \in P[t \cup {i}]
  PROVE  FlowsBut(q, f) \in P[S]
<1> DEFINE F == [p \in S \X G |-> (IF q[p[1]] = f THEN p[2] ELSE Append(p[2], q[p[1]]))]
           c == [s \in SUBSET S |-> Max(s)]
           Step(h) == h = [s \in SUBSET S |-> IF s = {} THEN <<>>
                                             ELSE (IF q[Max(s)] = f THEN h[s \ {Max(s)}] ELSE Append(h[s \ {Max(s)}], q[Max(s)]))]
           e == CHOOSE h : Step(h)
<1>1. IsFiniteSet(S) /\ S = 1 .. Len(q) /\ Len(q) \in Nat /\ \A i \in S : q[i] \in E
  BY FS_Interval
<1>2. F \in [S \X G -> G]
  BY <1>1
<1>3. \A s \in SUBSET S : s # {} => Max(s) \in s
  BY <1>1, MaxIsIn
<1>4. \A s \in SUBSET S : c[s] = Max(s)
  OBVIOUS
<1>5. \A s \in SUBSET S : s # {} => c[s] \in s
  BY <1>3, <1>4
<1>6. PICK h \in [SUBSET S -> G] : Folding(F, <<>>, c, SUBSET S, h)
  <2> HIDE DEF F, c
  <2> QED BY <1>1, <1>2, <1>5, FoldingExists
<1>7. Step(h)
  <2>1. ASSUME NEW s \in SUBSET S, s # {}
        PROVE  F[<<c[s], h[s \ {c[s]}]>>] = (IF q[Max(s)] = f THEN h[s \ {Max(s)}] ELSE Append(h[s \ {Max(s)}], q[Max(s)]))
    <3>1. <<Max(s), h[s \ {Max(s)}]>> \in S \X G /\ c[s] = Max(s)
      BY <1>3, <1>4, <1>6, <2>1
    <3> QED BY <3>1
  <2> QED BY <1>6, <2>1 DEF Folding
<1>8. Step(e)
  BY <1>7
<1>9. FlowsBut(q, f) = e[S]
  BY DEF FlowsBut, FoldLeft, MapThenFoldSet
<1> HIDE DEF e
<1>10. e[{}] \in P[{}]
  BY <1>8
<1>11. ASSUME NEW s \in SUBSET S, s # {}
       PROVE  \E x \in s : e[s \ {x}] \in P[s \ {x}] => e[s] \in P[s]
  <2>1. e[s] = (IF q[Max(s)] = f THEN e[s \ {Max(s)}] ELSE Append(e[s \ {Max(s)}], q[Max(s)]))
    BY <1>8, <1>11
  <2>2. Max(s) \in s
    BY <1>3, <1>11
  <2>3. SUFFICES ASSUME e[s \ {Max(s)}] \in P[s \ {Max(s)}] PROVE e[s] \in P[s]
    <3> HIDE DEF Step
    <3> QED BY <2>2
  <2> DEFINE t == s \ {Max(s)}
             x == Max(s)
  <2>4. t \in SUBSET S /\ x \in S \ t /\ t \cup {x} = s /\ e[t] \in P[t] /\ e[s] = (IF q[x] = f THEN e[t] ELSE Append(e[t], q[x]))
    <3> HIDE DEF Step
    <3> QED BY <2>1, <2>2, <2>3
  <2> HIDE DEF Step, t, x
  <2>5. \A y \in P[t] : (IF q[x] = f THEN y ELSE Append(y, q[x])) \in P[t \cup {x}]
    BY <2>4
  <2>6. (IF q[x] = f THEN e[t] ELSE Append(e[t], q[x])) \in P[t \cup {x}]
    BY <2>4, <2>5
  <2> QED BY <2>4, <2>6
<1>12. e[S] \in P[S]
  <2> HIDE DEF Step
  <2> QED BY <1>1, <1>10, <1>11, FoldFollows
<1> QED BY <1>9, <1>12

-----------------------------------------------------------------------------
(* Types.                                                                  *)
AllSources == Range(SourceOf)
Commands == {"data", "close"} \X UdpFlows
UdpTask ==
  [gen : Nat, pc : {"opening", "serving", "ending", "finished"}, first : UdpFlows,
   flows : SUBSET UdpFlows, cmds : Seq(Commands), routes : SUBSET UdpFlows]
UdpTaskMap == UNION {[D -> UdpTask] : D \in SUBSET UdpSources}
UdpLookup == [id : Nat, events : Seq(AllFlows), sent : BOOLEAN]
UdpLookupMap == UNION {[D -> UdpLookup] : D \in SUBSET AllSources}
EchoTask == [id : Nat, flow : IcmpFlows, pc : {"pinging", "finished"}]

NetRecord ==
  [socket : [Range(DestOf) -> {"none", "open", "closing"}], tracked : SUBSET AllFlows,
   nat : SUBSET AllFlows, cached : SUBSET AllSources, resolver : BOOLEAN, lookup : UdpLookupMap,
   nextId : Nat, task : UdpTaskMap, bound : SUBSET UdpFlows, gens : Nat,
   echo : SUBSET EchoTask, requested : SUBSET AllFlows]

UdpResult ==
  [kind : {"data", "closed", "bound"}, flow : UdpFlows, id : Nat]
    \cup [kind : {"echo"}, flow : IcmpFlows, id : Nat]
    \cup [kind : {"resolved"}, flow : AllFlows, id : Nat]

(* The index of the flows is that of the tasks, by source.                 *)
TasksKeyed(r) ==
  /\ r.bound = UNION {r.task[k].flows : k \in DOMAIN r.task}
  /\ \A k \in DOMAIN r.task :
       r.task[k].flows # {} /\ \A f \in r.task[k].flows : SourceOf[f] = k /\ f \in r.tracked

(* What waits for a lookup waits for that of its source.                   *)
LookupsKeyed(r) ==
  \A k \in DOMAIN r.lookup :
    r.lookup[k].events # <<>> /\ \A i \in DOMAIN r.lookup[k].events : SourceOf[r.lookup[k].events[i]] = k

WaitsFor(r, f) == \E k \in DOMAIN r.lookup : \E i \in DOMAIN r.lookup[k].events : r.lookup[k].events[i] = f
Held(r, f) ==
  f \in r.bound \/ WaitsFor(r, f) \/ (\E e \in r.echo : e.flow = f) \/ f \in IcmpFlows \ r.nat

(* An identifier names one echo.                                           *)
EchoesNamed(r) ==
  /\ IsFiniteSet(r.echo)
  /\ \A e \in r.echo : e.id <= r.gens
  /\ \A a, b \in r.echo : a.id = b.id => a.flow = b.flow

(* What the loop owns while a handler runs: flows in X may have lost their *)
(* owner, and the echoes are in B or younger than g.                       *)
Holding(X, B, g) ==
  {r \in NetRecord :
     /\ TasksKeyed(r) /\ LookupsKeyed(r) /\ EchoesNamed(r)
     /\ \A f \in r.tracked \ X : Held(r, f)
     /\ r.gens >= g /\ \A e \in r.echo : e \in B \/ e.id > g}

(* A reply to an echo names the flow of it.                                *)
UdpInv ==
  /\ net \in Holding({}, net.echo, net.gens)
  /\ datagrams \in Seq(AllFlows) /\ results \in Seq(UdpResult)
  /\ \A i \in DOMAIN results : results[i].kind = "echo" =>
       /\ results[i].id <= net.gens
       /\ \A e \in net.echo : e.id = results[i].id => e.flow = results[i].flow

(* Fields a step leaves alone.                                             *)
SameTasks(a, r) == a.task = r.task /\ a.bound = r.bound
SameEchoes(a, r) == a.echo = r.echo /\ a.gens = r.gens
SameLookups(a, r) == a.lookup = r.lookup /\ a.nextId = r.nextId
SameFlows(a, r) == a.tracked = r.tracked /\ a.nat = r.nat

(* The keys of a flow are keys.                                            *)
LEMMA FlowKeys ==
  /\ \A f \in AllFlows : SourceOf[f] \in AllSources
  /\ \A f \in UdpFlows : SourceOf[f] \in UdpSources /\ DestOf[f] \in Range(DestOf)
  /\ UdpSources \subseteq AllSources /\ UdpFlows \subseteq AllFlows /\ IcmpFlows \subseteq AllFlows
  /\ \A f \in IcmpFlows : f \notin UdpFlows /\ SourceOf[f] \notin UdpSources
  /\ IsFiniteSet(UdpFlows)
BY UdpKeys DEF AllSources, UdpSources, AllFlows

(* What the steps on one field make of the loop's record.                  *)
LEMMA TrackUdpReturns ==
  ASSUME NEW r \in NetRecord, NEW f \in AllFlows
  PROVE  LET a == TrackUdp(r, f) IN
         /\ a \in NetRecord /\ a.tracked = r.tracked \cup {f} /\ a.nat = r.nat \cup {f}
         /\ SameTasks(a, r) /\ SameEchoes(a, r) /\ SameLookups(a, r)
         /\ a.socket = r.socket /\ a.resolver = r.resolver /\ a.cached = r.cached
BY DEF TrackUdp, NetRecord, SameTasks, SameEchoes, SameLookups

LEMMA UntrackUdpReturns ==
  ASSUME NEW r \in NetRecord, NEW f \in AllFlows
  PROVE  LET a == UntrackUdp(f, r) IN
         /\ a \in NetRecord /\ a.tracked = r.tracked \ {f} /\ a.nat \subseteq r.nat
         /\ SameTasks(a, r) /\ SameEchoes(a, r) /\ SameLookups(a, r)
BY DEF UntrackUdp, NetRecord, SameTasks, SameEchoes, SameLookups

LEMMA FlowsButReturns ==
  ASSUME NEW E, NEW q \in Seq(E), NEW f
  PROVE  LET a == FlowsBut(q, f) IN
         /\ a \in Seq(E)
         /\ \A i \in DOMAIN a : a[i] # f /\ \E j \in DOMAIN q : a[i] = q[j]
         /\ \A j \in DOMAIN q : q[j] # f => \E i \in DOMAIN a : a[i] = q[j]
<1> DEFINE K(s) == {q[j] : j \in s} \ {f}
           P == [s \in SUBSET (DOMAIN q) |-> {y \in Seq(E) : Range(y) = K(s)}]
           S == DOMAIN q
           G == Seq(E)
           r == << >>
<1>1. <<>> \in G /\ \A x \in E : \A y \in G : (IF x = f THEN y ELSE Append(y, x)) \in G
  OBVIOUS
<1>2. <<>> \in P[{}]
  BY DEF Range
<1>3. ASSUME NEW t \in SUBSET S, NEW i \in S \ t, NEW y \in P[t]
      PROVE  (IF q[i] = f THEN y ELSE Append(y, q[i])) \in P[t \cup {i}]
  <2>1. y \in Seq(E) /\ Range(y) = K(t) /\ q[i] \in E
    BY <1>3
  <2>2. t \cup {i} \in SUBSET S
    BY <1>3
  <2>3. CASE q[i] = f
    <3>1. K(t \cup {i}) = K(t)
      BY <2>3
    <3> QED BY <2>1, <2>2, <2>3, <3>1
  <2>4. CASE q[i] # f
    <3>1. K(t \cup {i}) = K(t) \cup {q[i]}
      BY <2>4
    <3> DEFINE z == Append(y, q[i])
    <3>2. z \in Seq(E) /\ DOMAIN z = DOMAIN y \cup {Len(y) + 1} /\ z[Len(y) + 1] = q[i]
          /\ \A j \in DOMAIN y : z[j] = y[j]
      BY <2>1
    <3> HIDE DEF z
    <3>3. Range(z) = Range(y) \cup {q[i]}
      BY <3>2 DEF Range
    <3> HIDE DEF K
    <3>4. z \in P[t \cup {i}]
      BY <2>1, <2>2, <3>1, <3>2, <3>3
    <3> QED BY <2>4, <3>4 DEF z
  <2> QED BY <2>3, <2>4
<1>4. FlowsBut(q, f) \in P[S]
  <2> HIDE DEF P, G, K
  <2> QED BY <1>1, <1>2, <1>3, FlowsButFollows
<1>5. FlowsBut(q, f) \in Seq(E) /\ Range(FlowsBut(q, f)) = K(S)
  BY <1>4
<1> QED BY <1>5 DEF Range

(* A waiting datagram is gone with its flow, and with the last its lookup. *)
LEMMA ForgetReturns ==
  ASSUME NEW r \in NetRecord, NEW f \in AllFlows, LookupsKeyed(r)
  PROVE  LET a == ForgetDeferred(r, f) IN
         /\ a \in NetRecord /\ LookupsKeyed(a)
         /\ SameTasks(a, r) /\ SameEchoes(a, r) /\ SameFlows(a, r) /\ a.socket = r.socket
         /\ \A g \in AllFlows : g # f /\ WaitsFor(r, g) => WaitsFor(a, g)
<1> DEFINE k == SourceOf[f]
           q == r.lookup[k].events
           kept == FlowsBut(q, f)
           a == ForgetDeferred(r, f)
<1>1. PICK D \in SUBSET AllSources : r.lookup \in [D -> UdpLookup]
  BY DEF NetRecord, UdpLookupMap
<1>2. CASE k \notin D
  <2>1. a = r
    BY <1>1, <1>2 DEF ForgetDeferred
  <2> QED BY <2>1 DEF SameTasks, SameEchoes, SameFlows
<1>3. CASE k \in D
  <2>1. q \in Seq(AllFlows) /\ r.lookup[k].id \in Nat /\ r.lookup[k].sent \in BOOLEAN
    BY <1>1, <1>3 DEF UdpLookup
  <2>2. /\ kept \in Seq(AllFlows)
        /\ \A i \in DOMAIN kept : kept[i] # f /\ \E j \in DOMAIN q : kept[i] = q[j]
        /\ \A j \in DOMAIN q : q[j] # f => \E i \in DOMAIN kept : kept[i] = q[j]
    <3> HIDE DEF q
    <3> QED BY <2>1, FlowsButReturns
  <2>3. CASE kept = <<>>
    <3> DEFINE m == Drop(r.lookup, {k})
    <3>1. m \in [D \ {k} -> UdpLookup] /\ \A i \in D \ {k} : m[i] = r.lookup[i]
      BY <1>1 DEF Drop, Restrict
    <3>2. m \in UdpLookupMap
      BY <1>1, <3>1 DEF UdpLookupMap
    <3>3. a = [r EXCEPT !.lookup = m]
      BY <1>1, <1>3, <2>3 DEF ForgetDeferred
    <3> HIDE DEF m, a
    <3>4. a \in NetRecord /\ a.lookup = m
      BY <3>2, <3>3 DEF NetRecord
    <3>5. SameTasks(a, r) /\ SameEchoes(a, r) /\ SameFlows(a, r) /\ a.socket = r.socket
      BY <3>3 DEF NetRecord, SameTasks, SameEchoes, SameFlows
    <3>6. LookupsKeyed(a)
      BY <1>1, <3>1, <3>4 DEF LookupsKeyed
    <3>7. ASSUME NEW g \in AllFlows, g # f, WaitsFor(r, g)
          PROVE  WaitsFor(a, g)
      <4>1. PICK x \in D : \E i \in DOMAIN r.lookup[x].events : r.lookup[x].events[i] = g
        BY <1>1, <3>7 DEF WaitsFor
      <4>2. x # k
        BY <2>2, <2>3, <3>7, <4>1
      <4> QED BY <3>1, <3>4, <4>1, <4>2 DEF WaitsFor
    <3> QED BY <3>4, <3>5, <3>6, <3>7 DEF a
  <2>4. CASE kept # <<>>
    <3> DEFINE m == [r.lookup EXCEPT ![k].events = kept]
    <3>1. /\ m \in [D -> UdpLookup] /\ m[k].events = kept
          /\ \A i \in D \ {k} : m[i] = r.lookup[i]
      BY <1>1, <1>3, <2>2 DEF UdpLookup
    <3>2. m \in UdpLookupMap
      BY <1>1, <3>1 DEF UdpLookupMap
    <3>3. a = [r EXCEPT !.lookup = m]
      BY <1>1, <1>3, <2>4 DEF ForgetDeferred
    <3> HIDE DEF m, a
    <3>4. a \in NetRecord /\ a.lookup = m
      BY <3>2, <3>3 DEF NetRecord
    <3>5. SameTasks(a, r) /\ SameEchoes(a, r) /\ SameFlows(a, r) /\ a.socket = r.socket
      BY <3>3 DEF NetRecord, SameTasks, SameEchoes, SameFlows
    <3>6. LookupsKeyed(a)
      <4>1. \A j \in DOMAIN q : SourceOf[q[j]] = k
        BY <1>1, <1>3 DEF LookupsKeyed
      <4>2. kept # <<>> /\ \A i \in DOMAIN kept : SourceOf[kept[i]] = k
        BY <2>2, <2>4, <4>1
      <4> HIDE DEF kept, q, k
      <4>3. ASSUME NEW i \in D PROVE m[i].events # <<>> /\ \A j \in DOMAIN m[i].events : SourceOf[m[i].events[j]] = i
        <5>1. CASE i = k
          BY <3>1, <4>2, <5>1
        <5>2. CASE i # k
          BY <1>1, <3>1, <5>2 DEF LookupsKeyed
        <5> QED BY <5>1, <5>2
      <4> QED BY <3>1, <3>4, <4>3 DEF LookupsKeyed
    <3>7. ASSUME NEW g \in AllFlows, g # f, WaitsFor(r, g)
          PROVE  WaitsFor(a, g)
      <4>1. PICK x \in D : \E i \in DOMAIN r.lookup[x].events : r.lookup[x].events[i] = g
        BY <1>1, <3>7 DEF WaitsFor
      <4>2. CASE x = k
        <5>1. \E i \in DOMAIN kept : kept[i] = g
          BY <2>2, <3>7, <4>1, <4>2
        <5> HIDE DEF kept, k
        <5> QED BY <1>3, <3>1, <3>4, <5>1 DEF WaitsFor
      <4>3. CASE x # k
        BY <3>1, <3>4, <4>1, <4>3 DEF WaitsFor
      <4> QED BY <4>2, <4>3
    <3> QED BY <3>4, <3>5, <3>6, <3>7 DEF a
  <2> QED BY <2>3, <2>4
<1> QED BY <1>2, <1>3

(* A released source takes its flows, and no other, out of the index.      *)
LEMMA ReleaseReturns ==
  ASSUME NEW r \in NetRecord, NEW k \in UdpSources, TasksKeyed(r)
  PROVE  LET a == ReleaseSource(r, k)
             F == FlowsOf(r, k)
         IN
         /\ a \in NetRecord /\ TasksKeyed(a)
         /\ SameLookups(a, r) /\ SameEchoes(a, r) /\ SameFlows(a, r) /\ a.socket = r.socket
         /\ F \subseteq UdpFlows /\ a.bound = r.bound \ F
         /\ \A f \in r.bound : SourceOf[f] = k => f \in F
         /\ \A f \in F : SourceOf[f] = k
<1> DEFINE a == ReleaseSource(r, k)
           F == FlowsOf(r, k)
<1>1. PICK D \in SUBSET UdpSources : r.task \in [D -> UdpTask]
  BY DEF NetRecord, UdpTaskMap
<1>2. /\ r.bound = UNION {r.task[i].flows : i \in D}
      /\ \A i \in D : r.task[i].flows # {} /\ \A f \in r.task[i].flows : SourceOf[f] = i /\ f \in r.tracked
  BY <1>1 DEF TasksKeyed
<1>3. CASE k \notin D
  <2>1. a = r /\ F = {}
    BY <1>1, <1>3 DEF ReleaseSource, FlowsOf
  <2>2. \A f \in r.bound : SourceOf[f] # k
    BY <1>2, <1>3
  <2> QED BY <2>1, <2>2 DEF SameLookups, SameEchoes, SameFlows
<1>4. CASE k \in D
  <2> DEFINE m == Drop(r.task, {k})
  <2>1. m \in [D \ {k} -> UdpTask] /\ \A i \in D \ {k} : m[i] = r.task[i]
    BY <1>1 DEF Drop, Restrict
  <2>2. m \in UdpTaskMap
    BY <1>1, <2>1 DEF UdpTaskMap
  <2>3. F = r.task[k].flows /\ F \subseteq UdpFlows
    BY <1>1, <1>4 DEF FlowsOf, UdpTask
  <2>4. a = [r EXCEPT !.task = m, !.bound = r.bound \ F]
    BY <1>1, <1>4, <2>3 DEF ReleaseSource, NetRecord
  <2> HIDE DEF m, a, F
  <2>5. a \in NetRecord /\ a.task = m /\ a.bound = r.bound \ F
    BY <2>2, <2>4 DEF NetRecord
  <2>6. SameLookups(a, r) /\ SameEchoes(a, r) /\ SameFlows(a, r) /\ a.socket = r.socket
    BY <2>4 DEF NetRecord, SameLookups, SameEchoes, SameFlows
  <2>7. a.bound = UNION {m[i].flows : i \in D \ {k}}
    <3>1. \A i \in D \ {k} : m[i].flows = r.task[i].flows /\ m[i].flows \cap F = {}
      BY <1>2, <1>4, <2>1, <2>3
    <3>2. \A f : f \in r.bound <=> \E i \in D : f \in r.task[i].flows
      BY <1>2
    <3>3. \A f : f \in a.bound <=> \E i \in D \ {k} : f \in m[i].flows
      BY <1>4, <2>3, <2>5, <3>1, <3>2
    <3> QED BY <3>3
  <2>8. TasksKeyed(a)
    BY <1>2, <2>1, <2>5, <2>6, <2>7 DEF TasksKeyed, SameFlows
  <2>9. /\ \A f \in r.bound : SourceOf[f] = k => f \in F
        /\ \A f \in F : SourceOf[f] = k
    BY <1>2, <1>4, <2>3
  <2> QED BY <2>3, <2>5, <2>6, <2>8, <2>9 DEF a, F
<1> QED BY <1>3, <1>4

(* A flow unbound has no task, and the index follows.                      *)
LEMMA UnbindReturns ==
  ASSUME NEW r \in NetRecord, NEW f \in UdpFlows, TasksKeyed(r)
  PROVE  LET a == UnbindFlow(r, f) IN
         /\ a \in NetRecord /\ TasksKeyed(a) /\ a.bound = r.bound \ {f}
         /\ SameLookups(a, r) /\ SameEchoes(a, r) /\ SameFlows(a, r) /\ a.socket = r.socket
<1> DEFINE a == UnbindFlow(r, f)
           k == SourceOf[f]
           left == FlowsOf(r, k) \ {f}
<1>1. PICK D \in SUBSET UdpSources : r.task \in [D -> UdpTask]
  BY DEF NetRecord, UdpTaskMap
<1>2. /\ r.bound = UNION {r.task[i].flows : i \in D}
      /\ \A i \in D : r.task[i].flows # {} /\ \A g \in r.task[i].flows : SourceOf[g] = i /\ g \in r.tracked
  BY <1>1 DEF TasksKeyed
<1>3. k \in UdpSources
  BY FlowKeys
<1>4. CASE f \notin r.bound
  <2>1. a = r
    BY <1>4 DEF UnbindFlow
  <2> QED BY <1>4, <2>1 DEF SameLookups, SameEchoes, SameFlows
<1>5. CASE f \in r.bound
  <2>1. k \in D /\ f \in r.task[k].flows /\ FlowsOf(r, k) = r.task[k].flows
    BY <1>1, <1>2, <1>5 DEF FlowsOf
  <2>2. CASE left = {}
    <3> DEFINE b == ReleaseSource(r, k)
    <3>1. /\ b \in NetRecord /\ TasksKeyed(b)
          /\ SameLookups(b, r) /\ SameEchoes(b, r) /\ SameFlows(b, r) /\ b.socket = r.socket
          /\ b.bound = r.bound \ FlowsOf(r, k)
      BY <1>3, ReleaseReturns
    <3>2. FlowsOf(r, k) = {f}
      BY <2>1, <2>2
    <3>3. a = [b EXCEPT !.bound = @ \ {f}]
      BY <1>5, <2>2 DEF UnbindFlow
    <3> HIDE DEF a, b
    <3>4. [b EXCEPT !.bound = @ \ {f}] = [b EXCEPT !.bound = b.bound]
      BY <3>1, <3>2 DEF NetRecord
    <3>5. a = b
      BY <3>1, <3>3, <3>4 DEF NetRecord
    <3> QED BY <3>1, <3>2, <3>5 DEF a
  <2>3. CASE left # {}
    <3> DEFINE q == r.task[k].cmds
               c == IF Len(q) < UdpChannelCap THEN Append(q, <<"close", f>>) ELSE q
               t == [r.task[k] EXCEPT !.flows = left, !.cmds = c]
               m == [r.task EXCEPT ![k] = t]
    <3>1. q \in Seq(Commands) /\ <<"close", f>> \in Commands
      BY <1>1, <2>1 DEF UdpTask, Commands
    <3>2. c \in Seq(Commands)
      BY <3>1
    <3>3. left \subseteq UdpFlows
      BY <1>1, <2>1 DEF UdpTask
    <3>4. a = [r EXCEPT !.bound = r.bound \ {f}, !.task = m]
      <4>1. a = [r EXCEPT !.bound = @ \ {f}, !.task[k].flows = left,
                    !.task[k].cmds = IF Len(@) < UdpChannelCap THEN Append(@, <<"close", f>>) ELSE @]
        BY <1>5, <2>3 DEF UnbindFlow
      <4>2. r.task[k] \in UdpTask
        BY <1>1, <2>1
      <4> HIDE DEF a, left
      <4> QED BY <1>1, <2>1, <4>1, <4>2, ZenonT(40) DEF NetRecord, UdpTask
    <3> HIDE DEF c, left, a
    <3>5. t \in UdpTask /\ t.flows = left
      <4>1. r.task[k] \in UdpTask
        BY <1>1, <2>1
      <4> QED BY <3>2, <3>3, <4>1 DEF UdpTask
    <3> HIDE DEF t
    <3>6. m \in [D -> UdpTask] /\ m[k] = t /\ \A i \in D \ {k} : m[i] = r.task[i]
      BY <1>1, <2>1, <3>5
    <3>7. m \in UdpTaskMap
      BY <1>1, <3>6 DEF UdpTaskMap
    <3> HIDE DEF m
    <3>8. a \in NetRecord /\ a.task = m /\ a.bound = r.bound \ {f}
      BY <3>4, <3>7 DEF NetRecord
    <3>9. SameLookups(a, r) /\ SameEchoes(a, r) /\ SameFlows(a, r) /\ a.socket = r.socket
      BY <3>4 DEF NetRecord, SameLookups, SameEchoes, SameFlows
    <3>10. \A i \in D : m[i].flows = r.task[i].flows \ {f}
      <4>1. \A i \in D \ {k} : f \notin r.task[i].flows
        BY <1>2
      <4>2. left = r.task[k].flows \ {f}
        BY <2>1 DEF left
      <4> QED BY <3>5, <3>6, <4>1, <4>2
    <3>11. a.bound = UNION {m[i].flows : i \in D}
      BY <1>2, <3>8, <3>10
    <3>12. \A i \in D : m[i].flows # {}
      BY <1>2, <2>3, <3>5, <3>6
    <3>13. TasksKeyed(a)
      BY <1>2, <3>6, <3>8, <3>9, <3>10, <3>11, <3>12 DEF TasksKeyed, SameFlows
    <3> QED BY <3>8, <3>9, <3>13 DEF a
  <2> QED BY <2>2, <2>3
<1> QED BY <1>4, <1>5

-----------------------------------------------------------------------------
(* What each helper does to the flows without an owner.                    *)
LEMMA HoldingGrows ==
  ASSUME NEW B, NEW g, NEW X, NEW Y, NEW r \in Holding(X, B, g), r.tracked \cap X \subseteq Y
  PROVE  r \in Holding(Y, B, g)
BY DEF Holding

LEMMA UntrackHolds ==
  ASSUME NEW B, NEW g, NEW X, NEW r \in Holding(X, B, g), NEW f \in AllFlows, f \notin r.bound
  PROVE  /\ UntrackUdp(f, r) \in Holding(X \ {f}, B, g)
         /\ SameTasks(UntrackUdp(f, r), r)
<1> DEFINE a == UntrackUdp(f, r)
<1>1. r \in NetRecord
  BY DEF Holding
<1>2. /\ a \in NetRecord /\ a.tracked = r.tracked \ {f} /\ a.nat \subseteq r.nat
      /\ SameTasks(a, r) /\ SameEchoes(a, r) /\ SameLookups(a, r)
  BY <1>1, UntrackUdpReturns
<1> HIDE DEF a
<1>3. TasksKeyed(a)
  <2>1. \A k \in DOMAIN r.task : f \notin r.task[k].flows
    BY DEF Holding, TasksKeyed
  <2> QED BY <1>2, <2>1 DEF Holding, TasksKeyed, SameTasks
<1>4. LookupsKeyed(a) /\ EchoesNamed(a) /\ a.gens >= g /\ \A e \in a.echo : e \in B \/ e.id > g
  BY <1>2 DEF Holding, LookupsKeyed, EchoesNamed, SameLookups, SameEchoes
<1>5. \A x \in a.tracked \ (X \ {f}) : Held(a, x)
  BY <1>2 DEF Holding, Held, WaitsFor, SameTasks, SameEchoes, SameLookups
<1> QED BY <1>2, <1>3, <1>4, <1>5 DEF Holding, a

LEMMA ForgetHolds ==
  ASSUME NEW B, NEW g, NEW X, NEW r \in Holding(X, B, g), NEW f \in AllFlows
  PROVE  LET a == ForgetDeferred(r, f) IN
         /\ a \in Holding(X \cup {f}, B, g)
         /\ SameTasks(a, r) /\ SameFlows(a, r) /\ SameEchoes(a, r) /\ a.socket = r.socket
<1> DEFINE a == ForgetDeferred(r, f)
<1>1. r \in NetRecord /\ LookupsKeyed(r)
  BY DEF Holding
<1>2. /\ a \in NetRecord /\ LookupsKeyed(a)
      /\ SameTasks(a, r) /\ SameEchoes(a, r) /\ SameFlows(a, r) /\ a.socket = r.socket
      /\ \A x \in AllFlows : x # f /\ WaitsFor(r, x) => WaitsFor(a, x)
  BY <1>1, ForgetReturns
<1> HIDE DEF a
<1>3. TasksKeyed(a) /\ EchoesNamed(a) /\ a.gens >= g /\ \A e \in a.echo : e \in B \/ e.id > g
  BY <1>2 DEF Holding, TasksKeyed, EchoesNamed, SameTasks, SameFlows, SameEchoes
<1>4. ASSUME NEW x \in a.tracked \ (X \cup {f}) PROVE Held(a, x)
  <2>1. x \in AllFlows /\ Held(r, x) /\ x # f
    BY <1>1, <1>2 DEF Holding, SameFlows, NetRecord
  <2> QED BY <1>2, <2>1 DEF Held, SameTasks, SameFlows, SameEchoes
<1> QED BY <1>2, <1>3, <1>4 DEF Holding, a

LEMMA ReleaseHolds ==
  ASSUME NEW B, NEW g, NEW X, NEW r \in Holding(X, B, g), NEW k \in UdpSources
  PROVE  LET a == ReleaseSource(r, k)
             F == FlowsOf(r, k)
         IN
         /\ a \in Holding(X \cup F, B, g) /\ SameFlows(a, r) /\ a.socket = r.socket
         /\ F \subseteq UdpFlows /\ a.bound = r.bound \ F
         /\ \A f \in r.bound : SourceOf[f] = k => f \in F
<1> DEFINE a == ReleaseSource(r, k)
           F == FlowsOf(r, k)
<1>1. r \in NetRecord /\ TasksKeyed(r)
  BY DEF Holding
<1>2. /\ a \in NetRecord /\ TasksKeyed(a)
      /\ SameLookups(a, r) /\ SameEchoes(a, r) /\ SameFlows(a, r) /\ a.socket = r.socket
      /\ F \subseteq UdpFlows /\ a.bound = r.bound \ F
      /\ \A f \in r.bound : SourceOf[f] = k => f \in F
  BY <1>1, ReleaseReturns
<1> HIDE DEF a, F
<1>3. LookupsKeyed(a) /\ EchoesNamed(a) /\ a.gens >= g /\ \A e \in a.echo : e \in B \/ e.id > g
  BY <1>2 DEF Holding, LookupsKeyed, EchoesNamed, SameLookups, SameEchoes
<1>4. \A x \in a.tracked \ (X \cup F) : Held(a, x)
  BY <1>2 DEF Holding, Held, WaitsFor, SameFlows, SameEchoes, SameLookups
<1> QED BY <1>2, <1>3, <1>4 DEF Holding, a, F

LEMMA UnbindHolds ==
  ASSUME NEW B, NEW g, NEW X, NEW r \in Holding(X, B, g), NEW f \in UdpFlows
  PROVE  LET a == UnbindFlow(r, f) IN
         a \in Holding(X \cup {f}, B, g) /\ SameFlows(a, r) /\ a.socket = r.socket /\ f \notin a.bound
<1> DEFINE a == UnbindFlow(r, f)
<1>1. r \in NetRecord /\ TasksKeyed(r)
  BY DEF Holding
<1>2. /\ a \in NetRecord /\ TasksKeyed(a) /\ a.bound = r.bound \ {f}
      /\ SameLookups(a, r) /\ SameEchoes(a, r) /\ SameFlows(a, r) /\ a.socket = r.socket
  BY <1>1, UnbindReturns
<1> HIDE DEF a
<1>3. LookupsKeyed(a) /\ EchoesNamed(a) /\ a.gens >= g /\ \A e \in a.echo : e \in B \/ e.id > g
  BY <1>2 DEF Holding, LookupsKeyed, EchoesNamed, SameLookups, SameEchoes
<1>4. \A x \in a.tracked \ (X \cup {f}) : Held(a, x)
  BY <1>2 DEF Holding, Held, WaitsFor, SameFlows, SameEchoes, SameLookups
<1> QED BY <1>2, <1>3, <1>4 DEF Holding, a

(* Echoes that leave may leave their flows behind.                         *)
LEMMA FewerEchoesHold ==
  ASSUME NEW B, NEW g, NEW X, NEW r \in Holding(X, B, g), NEW Y,
         NEW a \in NetRecord, a.gens = r.gens, a.echo \subseteq r.echo,
         \A e \in r.echo \ a.echo : e.flow \in Y,
         SameTasks(a, r), SameLookups(a, r), SameFlows(a, r)
  PROVE  a \in Holding(X \cup Y, B, g)
<1>1. IsFiniteSet(a.echo)
  BY FS_Subset DEF Holding, EchoesNamed
<1>2. TasksKeyed(a) /\ LookupsKeyed(a) /\ EchoesNamed(a) /\ a.gens >= g /\ \A e \in a.echo : e \in B \/ e.id > g
  BY <1>1 DEF Holding, TasksKeyed, LookupsKeyed, EchoesNamed, SameTasks, SameLookups, SameFlows
<1>3. \A x \in a.tracked \ (X \cup Y) : Held(a, x)
  BY DEF Holding, Held, WaitsFor, SameTasks, SameFlows, SameLookups
<1> QED BY <1>2, <1>3 DEF Holding

LEMMA RemoveTaskHolds ==
  ASSUME NEW B, NEW g, NEW X, NEW r \in Holding(X, B, g), NEW f \in AllFlows
  PROVE  LET a == RemoveUdpFlowTask(r, f) IN
         a \in Holding(X \cup {f}, B, g) /\ SameFlows(a, r) /\ a.socket = r.socket /\ f \notin a.bound
<1> DEFINE a == ForgetDeferred(r, f)
           E == {e \in a.echo : e.flow = f}
           b == [a EXCEPT !.echo = a.echo \ E]
           c == [a EXCEPT !.echo = {e \in @ : e.flow # f}]
           d == RemoveUdpFlowTask(r, f)
<1>1. a \in Holding(X \cup {f}, B, g) /\ SameTasks(a, r) /\ SameFlows(a, r) /\ a.socket = r.socket
  BY ForgetHolds
<1> HIDE DEF a
<1>2. b \in Holding(X \cup {f}, B, g) /\ SameTasks(b, a) /\ SameFlows(b, a) /\ b.socket = a.socket
  <2>1. a \in NetRecord
    BY <1>1 DEF Holding
  <2>2. /\ b \in NetRecord /\ b.echo = a.echo \ E /\ b.gens = a.gens /\ b.socket = a.socket
        /\ SameTasks(b, a) /\ SameLookups(b, a) /\ SameFlows(b, a)
    BY <2>1 DEF NetRecord, SameTasks, SameLookups, SameFlows
  <2> HIDE DEF b
  <2>3. \A e \in a.echo \ b.echo : e.flow \in {f}
    BY <2>2
  <2>4. b \in Holding((X \cup {f}) \cup {f}, B, g)
    BY <1>1, <2>2, <2>3, FewerEchoesHold
  <2>5. (X \cup {f}) \cup {f} = X \cup {f}
    OBVIOUS
  <2> QED BY <2>2, <2>4, <2>5
<1>3. c = b
  BY <1>1 DEF Holding, NetRecord
<1>4. d = IF f \in UdpFlows THEN UnbindFlow(c, f) ELSE c
  BY DEF RemoveUdpFlowTask, a
<1> HIDE DEF b, c, d
<1>5. b \in Holding(X \cup {f}, B, g) /\ SameFlows(b, r) /\ b.socket = r.socket
  BY <1>1, <1>2 DEF SameFlows
<1>6. CASE f \in UdpFlows
  <2>1. d = UnbindFlow(b, f)
    BY <1>3, <1>4, <1>6
  <2>2. /\ d \in Holding((X \cup {f}) \cup {f}, B, g) /\ SameFlows(d, b) /\ d.socket = b.socket
        /\ f \notin d.bound
    BY <1>5, <1>6, <2>1, UnbindHolds
  <2>3. (X \cup {f}) \cup {f} = X \cup {f}
    OBVIOUS
  <2> QED BY <1>5, <2>2, <2>3 DEF SameFlows, d
<1>7. CASE f \notin UdpFlows
  <2>1. d = b
    BY <1>3, <1>4, <1>7
  <2>2. f \notin b.bound
    BY <1>5, <1>7 DEF Holding, NetRecord
  <2> QED BY <1>5, <2>1, <2>2 DEF d
<1> QED BY <1>6, <1>7

(* A flow closed needs no owner.                                           *)
LEMMA CloseUdpHolds ==
  ASSUME NEW B, NEW g, NEW X, NEW r \in Holding(X, B, g), NEW f \in UdpFlows
  PROVE  CloseUdpFlow(f, r) \in Holding(X \ {f}, B, g)
<1> DEFINE a == RemoveUdpFlowTask(r, f)
           shared == \E x \in a.tracked \cap UdpFlows : x # f /\ DestOf[x] = DestOf[f]
           s == [a EXCEPT !.socket[DestOf[f]] = "closing"]
           b == IF shared \/ a.socket[DestOf[f]] = "none" THEN a ELSE s
<1>1. f \in AllFlows /\ DestOf[f] \in Range(DestOf)
  BY FlowKeys
<1>2. a \in Holding(X \cup {f}, B, g) /\ f \notin a.bound
  BY <1>1, RemoveTaskHolds
<1>3. CloseUdpFlow(f, r) = UntrackUdp(f, b)
  BY DEF CloseUdpFlow
<1> HIDE DEF a, shared
<1>4. s \in Holding(X \cup {f}, B, g) /\ f \notin s.bound
  <2>1. a \in NetRecord
    BY <1>2 DEF Holding
  <2>2. /\ s \in NetRecord
        /\ SameTasks(s, a) /\ SameEchoes(s, a) /\ SameLookups(s, a) /\ SameFlows(s, a)
    BY <1>1, <2>1 DEF NetRecord, SameTasks, SameEchoes, SameLookups, SameFlows
  <2> HIDE DEF s
  <2>3. TasksKeyed(s) /\ LookupsKeyed(s) /\ EchoesNamed(s)
    BY <1>2, <2>2
       DEF Holding, TasksKeyed, LookupsKeyed, EchoesNamed, SameTasks, SameEchoes, SameLookups, SameFlows
  <2>4. \A x \in s.tracked \ (X \cup {f}) : Held(s, x)
    BY <1>2, <2>2 DEF Holding, Held, WaitsFor, SameTasks, SameEchoes, SameLookups, SameFlows
  <2> QED BY <1>2, <2>2, <2>3, <2>4 DEF Holding, SameTasks, SameEchoes
<1>5. b \in Holding(X \cup {f}, B, g) /\ f \notin b.bound
  BY <1>2, <1>4
<1> HIDE DEF b
<1>6. UntrackUdp(f, b) \in Holding((X \cup {f}) \ {f}, B, g)
  BY <1>1, <1>5, UntrackHolds
<1>7. (X \cup {f}) \ {f} = X \ {f}
  OBVIOUS
<1> QED BY <1>3, <1>6, <1>7

(* Closing a set of flows gives none of them an owner they do not need.    *)
LEMMA CloseAllHolds ==
  ASSUME NEW B, NEW g, NEW X, NEW r \in Holding(X, B, g), NEW F \in SUBSET UdpFlows
  PROVE  FoldSet(CloseUdpFlow, r, F) \in Holding(X \ F, B, g)
<1> DEFINE G == Holding(X, B, g)
           P == [t \in SUBSET F |-> Holding(X \ t, B, g)]
<1>1. IsFiniteSet(F)
  BY FlowKeys, FS_Subset
<1>2. ASSUME NEW Y, NEW f \in F, NEW y \in Holding(Y, B, g)
      PROVE  CloseUdpFlow(f, y) \in Holding(Y \ {f}, B, g) /\ CloseUdpFlow(f, y) \in Holding(Y, B, g)
  <2>1. CloseUdpFlow(f, y) \in Holding(Y \ {f}, B, g)
    BY CloseUdpHolds
  <2> QED BY <2>1, HoldingGrows
<1>3. \A f \in F : \A y \in G : CloseUdpFlow(f, y) \in G
  BY <1>2
<1>4. r \in P[{}]
  <2>1. X \ {} = X
    OBVIOUS
  <2> QED BY <2>1
<1>5. ASSUME NEW t \in SUBSET F, NEW f \in F \ t, NEW y \in P[t]
      PROVE  CloseUdpFlow(f, y) \in P[t \cup {f}]
  <2>1. CloseUdpFlow(f, y) \in Holding((X \ t) \ {f}, B, g)
    BY <1>2
  <2>2. (X \ t) \ {f} = X \ (t \cup {f})
    OBVIOUS
  <2> QED BY <2>1, <2>2
<1>6. FoldSet(CloseUdpFlow, r, F) \in P[F]
  <2> HIDE DEF G, P
  <2>1. r \in G
    BY DEF G
  <2> QED BY <1>1, <1>3, <1>4, <1>5, <2>1, CloseUdpFollows
<1> QED BY <1>6

LEMMA CloseSourceHolds ==
  ASSUME NEW B, NEW g, NEW X, NEW r \in Holding(X, B, g), NEW k \in UdpSources
  PROVE  CloseSource(k, r) \in Holding(X, B, g)
<1> DEFINE F == FlowsOf(r, k)
           a == ReleaseSource(r, k)
<1>1. a \in Holding(X \cup F, B, g) /\ F \subseteq UdpFlows
  BY ReleaseHolds
<1>2. CloseSource(k, r) = FoldSet(CloseUdpFlow, a, F)
  BY DEF CloseSource
<1> HIDE DEF a, F
<1>3. CloseSource(k, r) \in Holding((X \cup F) \ F, B, g)
  BY <1>1, <1>2, CloseAllHolds
<1> QED BY <1>3, HoldingGrows

(* A task that keeps its flows keeps them owned.                           *)
LEMMA SameFlowsHold ==
  ASSUME NEW B, NEW g, NEW X, NEW r \in Holding(X, B, g), NEW k \in DOMAIN r.task, NEW t \in UdpTask,
         t.flows = r.task[k].flows, NEW a, a = [r EXCEPT !.task[k] = t]
  PROVE  a \in Holding(X, B, g) /\ SameFlows(a, r) /\ SameEchoes(a, r) /\ a.bound = r.bound
<1> DEFINE m == [r.task EXCEPT ![k] = t]
<1>1. r \in NetRecord
  BY DEF Holding
<1>2. PICK D \in SUBSET UdpSources : r.task \in [D -> UdpTask]
  BY <1>1 DEF NetRecord, UdpTaskMap
<1>3. m \in [D -> UdpTask] /\ \A i \in D : m[i].flows = r.task[i].flows
  BY <1>2
<1>4. m \in UdpTaskMap
  BY <1>2, <1>3 DEF UdpTaskMap
<1>5. a = [r EXCEPT !.task = m]
  BY <1>1 DEF NetRecord
<1> HIDE DEF m
<1>6. a \in NetRecord /\ a.task = m /\ a.bound = r.bound
      /\ SameFlows(a, r) /\ SameEchoes(a, r) /\ SameLookups(a, r)
  BY <1>1, <1>4, <1>5 DEF NetRecord, SameFlows, SameEchoes, SameLookups
<1>7. UNION {m[i].flows : i \in D} = UNION {r.task[i].flows : i \in D}
  BY <1>3
<1>8. TasksKeyed(a)
  BY <1>2, <1>3, <1>6, <1>7 DEF Holding, TasksKeyed, SameFlows
<1>9. LookupsKeyed(a) /\ EchoesNamed(a) /\ a.gens >= g /\ \A e \in a.echo : e \in B \/ e.id > g
  BY <1>6 DEF Holding, LookupsKeyed, EchoesNamed, SameLookups, SameEchoes
<1>10. \A x \in a.tracked \ X : Held(a, x)
  BY <1>6 DEF Holding, Held, WaitsFor, SameFlows, SameEchoes, SameLookups
<1> QED BY <1>6, <1>8, <1>9, <1>10 DEF Holding

(* A tracked flow joins the task of its source, or gets the first one.     *)
LEMMA EnsureReturns ==
  ASSUME NEW r \in NetRecord, NEW f \in UdpFlows, f \in r.tracked, TasksKeyed(r)
  PROVE  LET a == EnsureSource(r, f)
             k == SourceOf[f]
         IN
         /\ a \in NetRecord /\ TasksKeyed(a) /\ a.bound = r.bound \cup {f}
         /\ k \in DOMAIN a.task /\ f \in a.task[k].flows
         /\ SameLookups(a, r) /\ SameFlows(a, r)
         /\ a.echo = r.echo /\ a.gens >= r.gens
<1> DEFINE a == EnsureSource(r, f)
           k == SourceOf[f]
           fresh == [gen |-> r.gens + 1, pc |-> "opening", first |-> f, flows |-> {f},
                     cmds |-> <<>>, routes |-> {}]
<1>1. PICK D \in SUBSET UdpSources : r.task \in [D -> UdpTask]
  BY DEF NetRecord, UdpTaskMap
<1>2. /\ r.bound = UNION {r.task[i].flows : i \in D}
      /\ \A i \in D : r.task[i].flows # {} /\ \A x \in r.task[i].flows : SourceOf[x] = i /\ x \in r.tracked
  BY <1>1 DEF TasksKeyed
<1>3. k \in UdpSources /\ r.gens \in Nat /\ r.gens + 1 \in Nat
  BY FlowKeys DEF NetRecord
<1>4. \A x : x \in r.bound <=> \E i \in D : x \in r.task[i].flows
  BY <1>2
<1>5. CASE k \in D
  <2> DEFINE t == [r.task[k] EXCEPT !.flows = r.task[k].flows \cup {f}]
             m == [r.task EXCEPT ![k] = t]
  <2>1. t \in UdpTask /\ t.flows = r.task[k].flows \cup {f}
    <3>1. r.task[k] \in UdpTask
      BY <1>1, <1>5
    <3> QED BY <3>1 DEF UdpTask
  <2>2. a = [r EXCEPT !.task = m, !.bound = r.bound \cup {f}]
    <3>1. r.task[k] \in UdpTask
      BY <1>1, <1>5
    <3>2. a = [r EXCEPT !.task[k].flows = @ \cup {f}, !.bound = @ \cup {f}]
      BY <1>1, <1>5 DEF EnsureSource
    <3> HIDE DEF a, k
    <3> QED BY <1>1, <1>5, <3>1, <3>2 DEF NetRecord, UdpTask
  <2> HIDE DEF t, a
  <2>3. m \in [D -> UdpTask] /\ m[k] = t /\ \A i \in D \ {k} : m[i] = r.task[i]
    BY <1>1, <1>5, <2>1
  <2>4. m \in UdpTaskMap
    BY <1>1, <2>3 DEF UdpTaskMap
  <2> HIDE DEF m
  <2>5. a \in NetRecord /\ a.task = m /\ a.bound = r.bound \cup {f}
    BY <2>2, <2>4 DEF NetRecord
  <2>6. SameLookups(a, r) /\ SameFlows(a, r) /\ a.echo = r.echo /\ a.gens = r.gens
    BY <2>2 DEF NetRecord, SameLookups, SameFlows
  <2>7. \A x : x \in a.bound <=> \E i \in D : x \in m[i].flows
    BY <1>4, <1>5, <2>1, <2>3, <2>5
  <2>8. a.bound = UNION {m[i].flows : i \in D}
    BY <2>7
  <2>9. \A i \in D : m[i].flows # {} /\ \A x \in m[i].flows : SourceOf[x] = i /\ x \in r.tracked
    BY <1>2, <2>1, <2>3
  <2>10. TasksKeyed(a)
    BY <2>3, <2>5, <2>6, <2>8, <2>9 DEF TasksKeyed, SameFlows
  <2> QED BY <1>3, <1>5, <2>1, <2>3, <2>5, <2>6, <2>10 DEF a
<1>6. CASE k \notin D
  <2> DEFINE m == Put(r.task, k, fresh)
  <2>1. fresh \in UdpTask /\ fresh.flows = {f}
    <3>1. <<>> \in Seq(Commands)
      OBVIOUS
    <3> QED BY <1>3, <3>1 DEF UdpTask
  <2>2. a = [r EXCEPT !.task = m, !.gens = r.gens + 1, !.bound = r.bound \cup {f}]
    BY <1>1, <1>6 DEF EnsureSource, NetRecord
  <2> HIDE DEF fresh, a
  <2>3. m \in [D \cup {k} -> UdpTask] /\ m[k] = fresh /\ \A i \in D : m[i] = r.task[i]
    BY <1>1, <1>6, <2>1 DEF Put
  <2>4. m \in UdpTaskMap
    BY <1>1, <1>3, <2>3 DEF UdpTaskMap
  <2> HIDE DEF m
  <2>5. a \in NetRecord /\ a.task = m /\ a.bound = r.bound \cup {f}
    BY <1>3, <2>2, <2>4 DEF NetRecord
  <2>6. SameLookups(a, r) /\ SameFlows(a, r) /\ a.echo = r.echo /\ a.gens = r.gens + 1
    BY <2>2 DEF NetRecord, SameLookups, SameFlows
  <2>7. \A x : x \in a.bound <=> \E i \in D \cup {k} : x \in m[i].flows
    BY <1>4, <2>1, <2>3, <2>5
  <2>8. a.bound = UNION {m[i].flows : i \in D \cup {k}}
    BY <2>7
  <2>9. \A i \in D \cup {k} : m[i].flows # {} /\ \A x \in m[i].flows : SourceOf[x] = i /\ x \in r.tracked
    BY <1>2, <2>1, <2>3
  <2>10. TasksKeyed(a)
    BY <2>3, <2>5, <2>6, <2>8, <2>9 DEF TasksKeyed, SameFlows
  <2> QED BY <1>3, <2>1, <2>3, <2>5, <2>6, <2>10 DEF a
<1> QED BY <1>5, <1>6

LEMMA EnsureHolds ==
  ASSUME NEW B, NEW g \in Nat, NEW X, NEW r \in Holding(X, B, g), NEW f \in UdpFlows
  PROVE  LET a == EnsureSource(TrackUdp(r, f), f)
             k == SourceOf[f]
         IN a \in Holding(X \ {f}, B, g) /\ k \in DOMAIN a.task /\ f \in a.task[k].flows
<1> DEFINE b == TrackUdp(r, f)
           a == EnsureSource(b, f)
           k == SourceOf[f]
<1>1. r \in NetRecord /\ f \in AllFlows
  BY FlowKeys DEF Holding
<1>2. /\ b \in NetRecord /\ b.tracked = r.tracked \cup {f} /\ b.nat = r.nat \cup {f}
      /\ SameTasks(b, r) /\ SameEchoes(b, r) /\ SameLookups(b, r)
  BY <1>1, TrackUdpReturns
<1> HIDE DEF b
<1>3. TasksKeyed(b)
  BY <1>2 DEF Holding, TasksKeyed, SameTasks
<1>4. /\ a \in NetRecord /\ TasksKeyed(a) /\ a.bound = b.bound \cup {f}
      /\ k \in DOMAIN a.task /\ f \in a.task[k].flows
      /\ SameLookups(a, b) /\ SameFlows(a, b)
      /\ a.echo = b.echo /\ a.gens >= b.gens
  BY <1>2, <1>3, EnsureReturns
<1> HIDE DEF a
<1>5. LookupsKeyed(a)
  BY <1>2, <1>4 DEF Holding, LookupsKeyed, SameLookups
<1>6. EchoesNamed(a) /\ a.gens >= g /\ \A e \in a.echo : e \in B \/ e.id > g
  <2>1. a.gens \in Nat /\ r.gens \in Nat /\ a.gens >= r.gens /\ a.echo = r.echo /\ \A e \in r.echo : e.id \in Nat
    BY <1>1, <1>2, <1>4 DEF NetRecord, SameEchoes, EchoTask
  <2> QED BY <2>1 DEF Holding, EchoesNamed
<1>7. ASSUME NEW x \in a.tracked \ (X \ {f}) PROVE Held(a, x)
  <2>1. CASE x = f
    BY <1>4, <2>1 DEF Held
  <2>2. CASE x # f
    <3>1. Held(r, x)
      BY <1>2, <1>4, <2>2 DEF Holding, SameFlows
    <3> QED BY <1>2, <1>4, <2>2, <3>1 DEF Held, WaitsFor, SameTasks, SameEchoes, SameLookups, SameFlows
  <2> QED BY <2>1, <2>2
<1> QED BY <1>4, <1>5, <1>6, <1>7 DEF Holding, a, b

(* Flows without a task are untracked, whatever their order.               *)
LEMMA UntrackAllHolds ==
  ASSUME NEW B, NEW g, NEW X, NEW r \in Holding(X, B, g), NEW F \in SUBSET UdpFlows, r.bound \cap F = {}
  PROVE  FoldSet(UntrackUdp, r, F) \in Holding(X \ F, B, g)
<1> DEFINE H(Y) == {y \in Holding(Y, B, g) : y.bound \cap F = {}}
           G == H(X)
           P == [t \in SUBSET F |-> H(X \ t)]
<1>1. IsFiniteSet(F)
  BY FlowKeys, FS_Subset
<1>2. ASSUME NEW Y, NEW f \in F, NEW y \in H(Y)
      PROVE  UntrackUdp(f, y) \in H(Y \ {f}) /\ UntrackUdp(f, y) \in H(Y)
  <2>1. y \in Holding(Y, B, g) /\ f \in AllFlows /\ f \notin y.bound
    BY FlowKeys
  <2>2. UntrackUdp(f, y) \in Holding(Y \ {f}, B, g) /\ SameTasks(UntrackUdp(f, y), y)
    BY <2>1, UntrackHolds
  <2>3. UntrackUdp(f, y) \in Holding(Y, B, g)
    BY <2>2, HoldingGrows
  <2> QED BY <2>2, <2>3 DEF SameTasks
<1>3. \A f \in F : \A y \in G : UntrackUdp(f, y) \in G
  BY <1>2
<1>4. r \in P[{}]
  <2>1. X \ {} = X
    OBVIOUS
  <2> QED BY <2>1
<1>5. ASSUME NEW t \in SUBSET F, NEW f \in F \ t, NEW y \in P[t]
      PROVE  UntrackUdp(f, y) \in P[t \cup {f}]
  <2>1. UntrackUdp(f, y) \in H((X \ t) \ {f})
    <3>1. y \in H(X \ t)
      OBVIOUS
    <3> HIDE DEF H
    <3> QED BY <1>2, <3>1
  <2>2. (X \ t) \ {f} = X \ (t \cup {f})
    OBVIOUS
  <2> HIDE DEF H
  <2> QED BY <2>1, <2>2
<1>6. FoldSet(UntrackUdp, r, F) \in P[F]
  <2>1. r \in G
    OBVIOUS
  <2> HIDE DEF G, P
  <2> QED BY <1>1, <1>3, <1>4, <1>5, <2>1, UntrackUdpFollows
<1> QED BY <1>6

(* A datagram leaves its flow with a task that takes it, or untracks all   *)
(* the flows of the task.                                                  *)
LEMMA DatagramHolds ==
  ASSUME NEW B, NEW g \in Nat, NEW X, NEW r \in Holding(X, B, g), NEW f \in UdpFlows
  PROVE  Datagram(r, f) \in Holding(X \ {f}, B, g)
<1> DEFINE k == SourceOf[f]
           a == EnsureSource(TrackUdp(r, f), f)
           F == FlowsOf(a, k)
           b == ReleaseSource(a, k)
<1>1. k \in UdpSources
  BY FlowKeys
<1>2. a \in Holding(X \ {f}, B, g) /\ k \in DOMAIN a.task /\ f \in a.task[k].flows
  BY EnsureHolds
<1>3. Datagram(r, f) = IF TakesData(a, k) THEN [a EXCEPT !.task[k].cmds = Append(@, <<"data", f>>)]
                       ELSE FoldSet(UntrackUdp, b, a.task[k].flows)
  BY DEF Datagram
<1> HIDE DEF a
<1>4. CASE TakesData(a, k)
  <2> DEFINE t == [a.task[k] EXCEPT !.cmds = Append(@, <<"data", f>>)]
             d == [a EXCEPT !.task[k] = t]
  <2>1. PICK D \in SUBSET UdpSources : a.task \in [D -> UdpTask]
    BY <1>2 DEF Holding, NetRecord, UdpTaskMap
  <2>2. a.task[k] \in UdpTask
    BY <1>2, <2>1
  <2>3. t \in UdpTask /\ t.flows = a.task[k].flows
    <3>1. a.task[k].cmds \in Seq(Commands) /\ <<"data", f>> \in Commands
      BY <2>2 DEF UdpTask, Commands
    <3>2. Append(a.task[k].cmds, <<"data", f>>) \in Seq(Commands)
      BY <3>1
    <3> QED BY <2>2, <3>2 DEF UdpTask
  <2>4. Datagram(r, f) = d
    <3>1. a \in NetRecord
      BY <1>2 DEF Holding
    <3>2. Datagram(r, f) = [a EXCEPT !.task[k].cmds = Append(@, <<"data", f>>)]
      BY <1>3, <1>4
    <3> HIDE DEF k
    <3> QED BY <1>2, <2>1, <2>2, <3>1, <3>2 DEF NetRecord, UdpTask
  <2> HIDE DEF t
  <2>5. d = [a EXCEPT !.task[k] = t]
    OBVIOUS
  <2> HIDE DEF d
  <2>6. d \in Holding(X \ {f}, B, g)
    BY <1>2, <2>3, <2>5, SameFlowsHold
  <2> QED BY <2>4, <2>6
<1>5. CASE ~TakesData(a, k)
  <2> DEFINE Y == (X \ {f}) \cup F
  <2>1. b \in Holding(Y, B, g) /\ F \subseteq UdpFlows /\ b.bound = a.bound \ F
    BY <1>1, <1>2, ReleaseHolds
  <2>2. F = a.task[k].flows
    BY <1>2 DEF FlowsOf
  <2>3. Datagram(r, f) = FoldSet(UntrackUdp, b, F)
    BY <1>3, <1>5, <2>2
  <2> HIDE DEF b, F
  <2>4. FoldSet(UntrackUdp, b, F) \in Holding(Y \ F, B, g)
    BY <2>1, UntrackAllHolds
  <2> QED BY <2>3, <2>4, HoldingGrows
<1> QED BY <1>4, <1>5

LEMMA EchoHolds ==
  ASSUME NEW B, NEW g \in Nat, NEW X, NEW r \in Holding(X, B, g), NEW f \in IcmpFlows
  PROVE  Echo(r, f) \in Holding(X \ {f}, B, g)
<1> DEFINE b == TrackUdp(r, f)
           e == [id |-> r.gens + 1, flow |-> f, pc |-> "pinging"]
           a == [b EXCEPT !.echo = b.echo \cup {e}, !.gens = b.gens + 1]
<1>1. r \in NetRecord /\ f \in AllFlows /\ r.gens \in Nat
  BY FlowKeys DEF Holding, NetRecord
<1>2. /\ b \in NetRecord /\ b.tracked = r.tracked \cup {f} /\ b.nat = r.nat \cup {f}
      /\ SameTasks(b, r) /\ SameEchoes(b, r) /\ SameLookups(b, r)
  BY <1>1, TrackUdpReturns
<1>3. e \in EchoTask /\ e.flow = f /\ e.id = r.gens + 1
  BY <1>1 DEF EchoTask
<1>4. Echo(r, f) = a
  BY <1>2 DEF Echo, NetRecord
<1> HIDE DEF b, e
<1>5. /\ a \in NetRecord /\ a.echo = r.echo \cup {e} /\ a.gens = r.gens + 1
      /\ SameTasks(a, r) /\ SameLookups(a, r) /\ a.tracked = r.tracked \cup {f} /\ a.nat = r.nat \cup {f}
  <2>1. b.gens + 1 \in Nat /\ b.gens = r.gens /\ b.echo = r.echo
    BY <1>1, <1>2 DEF SameEchoes
  <2>2. b.echo \cup {e} \in SUBSET EchoTask
    BY <1>2, <1>3 DEF NetRecord
  <2>3. a \in NetRecord /\ a.echo = b.echo \cup {e} /\ a.gens = b.gens + 1
        /\ SameTasks(a, b) /\ SameLookups(a, b) /\ SameFlows(a, b)
    BY <1>2, <2>1, <2>2 DEF NetRecord, SameTasks, SameFlows, SameLookups
  <2> QED BY <1>2, <2>1, <2>3 DEF SameTasks, SameLookups, SameFlows
<1> HIDE DEF a
<1>6. TasksKeyed(a) /\ LookupsKeyed(a)
  BY <1>5 DEF Holding, TasksKeyed, LookupsKeyed, SameTasks, SameLookups
<1>7. IsFiniteSet(a.echo)
  <2>1. IsFiniteSet(r.echo)
    BY DEF Holding, EchoesNamed
  <2>2. IsFiniteSet(r.echo \cup {e})
    BY <2>1, FS_AddElement
  <2> QED BY <1>5, <2>2
<1>8. \A x \in r.echo : x.id \in Nat /\ x.id <= r.gens
  BY <1>1 DEF Holding, EchoesNamed, NetRecord, EchoTask
<1>9. EchoesNamed(a) /\ a.gens >= g /\ \A x \in a.echo : x \in B \/ x.id > g
  BY <1>1, <1>3, <1>5, <1>7, <1>8 DEF Holding, EchoesNamed
<1>10. ASSUME NEW x \in a.tracked \ (X \ {f}) PROVE Held(a, x)
  <2>1. CASE x = f
    BY <1>3, <1>5, <2>1 DEF Held
  <2>2. CASE x # f
    <3>1. Held(r, x)
      BY <1>5, <2>2 DEF Holding
    <3> QED BY <1>5, <2>2, <3>1 DEF Held, WaitsFor, SameTasks, SameLookups
  <2> QED BY <2>1, <2>2
<1> QED BY <1>4, <1>5, <1>6, <1>9, <1>10 DEF Holding

LEMMA ReadyHolds ==
  ASSUME NEW B, NEW g \in Nat, NEW X, NEW r \in Holding(X, B, g), NEW f \in AllFlows
  PROVE  ReadyDatagram(r, f) \in Holding(X \ {f}, B, g)
<1>1. CASE f \in UdpFlows
  BY <1>1, DatagramHolds DEF ReadyDatagram
<1>2. CASE f \notin UdpFlows
  <2>1. f \in IcmpFlows
    BY <1>2 DEF AllFlows
  <2> QED BY <1>2, <2>1, EchoHolds DEF ReadyDatagram
<1> QED BY <1>1, <1>2

(* A datagram that waits is what its flow waits for.                       *)
LEMMA DeferHolds ==
  ASSUME NEW B, NEW g, NEW X, NEW r \in Holding(X, B, g), NEW f \in AllFlows
  PROVE  DeferDatagram(r, f) \in Holding(X, B, g)
<1> DEFINE k == SourceOf[f]
           d == DeferDatagram(r, f)
<1>1. r \in NetRecord /\ k \in AllSources /\ r.nextId + 1 \in Nat /\ LookupsKeyed(r)
  BY FlowKeys DEF Holding, NetRecord
<1>2. PICK D \in SUBSET AllSources : r.lookup \in [D -> UdpLookup]
  BY <1>1 DEF NetRecord, UdpLookupMap
<1>3. ASSUME NEW a \in NetRecord, DOMAIN a.lookup = D \cup {k},
             SameTasks(a, r), SameEchoes(a, r), a.tracked = r.tracked \cup {f}, a.nat = r.nat \cup {f},
             \A i \in D \ {k} : a.lookup[i] = r.lookup[i],
             a.lookup[k].events # <<>>,
             \A j \in DOMAIN a.lookup[k].events : SourceOf[a.lookup[k].events[j]] = k,
             \E j \in DOMAIN a.lookup[k].events : a.lookup[k].events[j] = f,
             k \in D => \A j \in DOMAIN r.lookup[k].events :
                          j \in DOMAIN a.lookup[k].events /\ a.lookup[k].events[j] = r.lookup[k].events[j]
      PROVE  a \in Holding(X, B, g)
  <2> DEFINE m == a.lookup
             M == D \cup {k}
  <2> HIDE DEF k
  <2>1. TasksKeyed(a) /\ EchoesNamed(a) /\ a.gens >= g /\ \A e \in a.echo : e \in B \/ e.id > g
    BY <1>3 DEF Holding, TasksKeyed, EchoesNamed, SameTasks, SameEchoes
  <2>2. LookupsKeyed(a)
    <3> SUFFICES ASSUME NEW i \in M
                 PROVE  m[i].events # <<>> /\ \A j \in DOMAIN m[i].events : SourceOf[m[i].events[j]] = i
      BY <1>3 DEF LookupsKeyed
    <3>1. CASE i = k
      BY <1>3, <3>1
    <3>2. CASE i # k
      <4>1. i \in DOMAIN r.lookup /\ m[i] = r.lookup[i]
        BY <1>2, <1>3, <3>2
      <4> QED BY <1>1, <4>1 DEF LookupsKeyed
    <3> QED BY <3>1, <3>2
  <2>3. \A x : WaitsFor(r, x) => WaitsFor(a, x)
    <3> SUFFICES ASSUME NEW x, NEW i \in D, NEW j \in DOMAIN r.lookup[i].events, r.lookup[i].events[j] = x
                 PROVE  \E y \in M : \E z \in DOMAIN m[y].events : m[y].events[z] = x
      BY <1>2, <1>3 DEF WaitsFor
    <3>1. i \in M
      BY <1>3
    <3>2. CASE i = k
      BY <1>3, <3>1, <3>2
    <3>3. CASE i # k
      <4>1. m[i] = r.lookup[i]
        BY <1>3, <3>1, <3>3
      <4> QED BY <3>1, <4>1
    <3> QED BY <3>2, <3>3
  <2>4. WaitsFor(a, f)
    BY <1>3 DEF WaitsFor
  <2>5. ASSUME NEW x \in a.tracked \ X PROVE Held(a, x)
    <3>1. CASE x = f
      BY <2>4, <3>1 DEF Held
    <3>2. CASE x # f
      <4>1. Held(r, x)
        BY <1>3, <3>2 DEF Holding
      <4> QED BY <1>3, <2>3, <3>2, <4>1 DEF Held, SameTasks, SameEchoes
    <3> QED BY <3>1, <3>2
  <2> QED BY <1>3, <2>1, <2>2, <2>5 DEF Holding
<1>4. CASE k \in D /\ Len(r.lookup[k].events) >= UdpChannelCap
  BY <1>2, <1>4 DEF DeferDatagram
<1>5. CASE k \in D /\ ~(Len(r.lookup[k].events) >= UdpChannelCap)
  <2> DEFINE q == r.lookup[k].events
             v == [r.lookup[k] EXCEPT !.events = Append(q, f)]
             m == [r.lookup EXCEPT ![k] = v]
             b == [r EXCEPT !.lookup = m]
  <2>1. r.lookup[k] \in UdpLookup /\ q \in Seq(AllFlows)
    BY <1>2, <1>5 DEF UdpLookup
  <2>2. /\ Append(q, f) \in Seq(AllFlows) /\ DOMAIN Append(q, f) = DOMAIN q \cup {Len(q) + 1}
        /\ \A j \in DOMAIN q : Append(q, f)[j] = q[j]
        /\ Append(q, f)[Len(q) + 1] = f /\ Append(q, f) # <<>>
    <3> HIDE DEF q
    <3> QED BY <2>1
  <2>3. v \in UdpLookup /\ v.events = Append(q, f)
    BY <2>1, <2>2 DEF UdpLookup
  <2>4. d = TrackUdp(b, f)
    <3>1. d = TrackUdp([r EXCEPT !.lookup[k].events = Append(@, f)], f)
      BY <1>2, <1>5 DEF DeferDatagram
    <3>2. [r EXCEPT !.lookup[k].events = Append(@, f)] = b
      <4> HIDE DEF k
      <4> QED BY <1>1, <1>2, <1>5, <2>1 DEF NetRecord, UdpLookup
    <3> QED BY <3>1, <3>2
  <2> HIDE DEF v, d
  <2>5. m \in [D -> UdpLookup] /\ m[k] = v /\ \A i \in D \ {k} : m[i] = r.lookup[i]
    BY <1>2, <1>5, <2>3
  <2>6. m \in UdpLookupMap
    BY <1>2, <2>5 DEF UdpLookupMap
  <2> HIDE DEF m
  <2>7. b \in NetRecord /\ b.lookup = m /\ SameTasks(b, r) /\ SameEchoes(b, r) /\ SameFlows(b, r)
    BY <1>1, <2>6 DEF NetRecord, SameTasks, SameEchoes, SameFlows
  <2> HIDE DEF b
  <2>8. /\ d \in NetRecord /\ d.tracked = b.tracked \cup {f} /\ d.nat = b.nat \cup {f}
        /\ SameTasks(d, b) /\ SameEchoes(d, b) /\ SameLookups(d, b)
    BY <2>4, <2>7, TrackUdpReturns
  <2>9. \A j \in DOMAIN q : SourceOf[q[j]] = k
    BY <1>1, <1>2, <1>5 DEF LookupsKeyed
  <2>10. DOMAIN m = D /\ d.lookup = m /\ m[k].events = Append(q, f)
    BY <2>3, <2>5, <2>7, <2>8 DEF SameLookups
  <2>11. SameTasks(d, r) /\ SameEchoes(d, r) /\ d.tracked = r.tracked \cup {f} /\ d.nat = r.nat \cup {f}
    BY <2>7, <2>8 DEF SameTasks, SameEchoes, SameFlows
  <2>12. /\ m[k].events # <<>> /\ \A j \in DOMAIN m[k].events : SourceOf[m[k].events[j]] = k
         /\ \E j \in DOMAIN m[k].events : m[k].events[j] = f
         /\ \A j \in DOMAIN r.lookup[k].events :
              j \in DOMAIN m[k].events /\ m[k].events[j] = r.lookup[k].events[j]
    <3> HIDE DEF q
    <3> USE DEF k
    <3>1. \A j \in DOMAIN Append(q, f) : SourceOf[Append(q, f)[j]] = k
      BY <2>2, <2>9
    <3> QED BY <2>2, <2>10, <3>1 DEF q
  <2> HIDE DEF k, q
  <2>13. DOMAIN d.lookup = D \cup {k} /\ \A i \in D \ {k} : d.lookup[i] = r.lookup[i]
    BY <1>5, <2>5, <2>10
  <2>14. d \in Holding(X, B, g)
    BY <1>3, <2>8, <2>10, <2>11, <2>12, <2>13
  <2> QED BY <2>14 DEF d
<1>6. CASE k \notin D
  <2> DEFINE v == [id |-> r.nextId + 1, events |-> <<f>>, sent |-> FALSE]
             m == Put(r.lookup, k, v)
             b == TrackUdp(r, f)
  <2>1. v \in UdpLookup /\ v.events = <<f>>
    BY <1>1 DEF UdpLookup
  <2>2. /\ b \in NetRecord /\ b.tracked = r.tracked \cup {f} /\ b.nat = r.nat \cup {f}
        /\ SameTasks(b, r) /\ SameEchoes(b, r) /\ SameLookups(b, r)
    BY <1>1, TrackUdpReturns
  <2>3. d = [b EXCEPT !.nextId = b.nextId + 1, !.lookup = m]
    <3>1. d = [b EXCEPT !.nextId = @ + 1, !.lookup = Put(@, k, v)]
      BY <1>2, <1>6 DEF DeferDatagram
    <3> HIDE DEF b, v, k
    <3> QED BY <2>2, <3>1 DEF NetRecord, SameLookups
  <2> HIDE DEF v, b, d
  <2>4. m \in [D \cup {k} -> UdpLookup] /\ m[k] = v /\ \A i \in D : m[i] = r.lookup[i]
    BY <1>2, <1>6, <2>1 DEF Put
  <2>5. m \in UdpLookupMap
    BY <1>1, <1>2, <2>4 DEF UdpLookupMap
  <2> HIDE DEF m
  <2>6. b.nextId + 1 \in Nat
    BY <1>1, <2>2 DEF SameLookups
  <2>7. /\ d \in NetRecord /\ d.lookup = m /\ SameTasks(d, r) /\ SameEchoes(d, r)
        /\ d.tracked = r.tracked \cup {f} /\ d.nat = r.nat \cup {f}
    BY <2>2, <2>3, <2>5, <2>6 DEF NetRecord, SameTasks, SameEchoes
  <2>8. /\ m[k].events # <<>> /\ \A j \in DOMAIN m[k].events : SourceOf[m[k].events[j]] = k
        /\ \E j \in DOMAIN m[k].events : m[k].events[j] = f
    <3>1. m[k].events = <<f>> /\ <<f>>[1] = f /\ DOMAIN <<f>> = {1}
      BY <2>1, <2>4
    <3> QED BY <3>1
  <2> HIDE DEF k
  <2>9. DOMAIN d.lookup = D \cup {k} /\ \A i \in D \ {k} : d.lookup[i] = r.lookup[i]
    BY <1>6, <2>4, <2>7
  <2>10. d \in Holding(X, B, g)
    BY <1>3, <1>6, <2>7, <2>8, <2>9
  <2> QED BY <2>10 DEF d
<1> QED BY <1>4, <1>5, <1>6

(* Replay: a datagram already sent left its flow owned; one that failed    *)
(* makes the loop close every flow of the source.                          *)
LEMMA ReplayHolds ==
  ASSUME NEW B, NEW g \in Nat, NEW q \in Seq(AllFlows), NEW k, \A i \in DOMAIN q : SourceOf[q[i]] = k,
         NEW E, E = {q[i] : i \in DOMAIN q}, NEW r \in Holding(E, B, g)
  PROVE  ReplayDatagrams(r, k, q) \in Holding({}, B, g)
<1> DEFINE S == DOMAIN q
           A == {q[i] : i \in S}
           Sent(s) == {q[i] : i \in s}
           H(Y) == {y \in [net : Holding(E, B, g), failed : BOOLEAN] :
                      /\ y.failed => k \in UdpSources
                      /\ ~y.failed => y.net \in Holding(Y, B, g)}
           G == H(E)
           P == [s \in SUBSET S |-> H(E \ Sent(s))]
           start == [net |-> r, failed |-> FALSE]
           end == FoldLeft(ReplayDatagram, start, q)
<1>1. q \in Seq(A) /\ A \subseteq AllFlows /\ A = E /\ \A f \in A : SourceOf[f] = k
  <2>1. q \in Seq(A)
    BY SeqDef
  <2> QED BY <2>1
<1>2. ASSUME NEW Y \in SUBSET E, NEW f \in A, NEW y \in H(Y)
      PROVE  ReplayDatagram(y, f) \in H(Y \ {f})
  <2> DEFINE z == ReplayDatagram(y, f)
  <2>1. CASE y.failed
    <3>1. z = y
      BY <2>1 DEF ReplayDatagram
    <3> QED BY <2>1, <3>1
  <2>2. CASE ~y.failed
    <3>1. z = [net |-> ReadyDatagram(y.net, f), failed |-> Failed(y.net, f)]
      BY <2>2 DEF ReplayDatagram
    <3>2. y.net \in Holding(Y, B, g) /\ f \in AllFlows
      BY <1>1, <2>2
    <3>3. ReadyDatagram(y.net, f) \in Holding(Y \ {f}, B, g)
      BY <3>2, ReadyHolds
    <3>4. ReadyDatagram(y.net, f) \in Holding(E, B, g)
      BY <3>3, HoldingGrows
    <3>5. Failed(y.net, f) \in BOOLEAN /\ (Failed(y.net, f) => k \in UdpSources)
      BY <1>1, FlowKeys DEF Failed
    <3> HIDE DEF z
    <3>6. z.net = ReadyDatagram(y.net, f) /\ z.failed = Failed(y.net, f)
          /\ z \in [net : Holding(E, B, g), failed : BOOLEAN]
      BY <3>1, <3>4, <3>5
    <3>7. z \in H(Y \ {f})
      BY <3>3, <3>5, <3>6
    <3> QED BY <3>7 DEF z
  <2> QED BY <2>1, <2>2
<1>3. \A f \in A : \A y \in G : ReplayDatagram(y, f) \in G
  <2> SUFFICES ASSUME NEW f \in A, NEW y \in G PROVE ReplayDatagram(y, f) \in G
    OBVIOUS
  <2>1. ReplayDatagram(y, f) \in H(E \ {f})
    BY <1>2
  <2> QED BY <2>1
<1>4. start \in G /\ start \in P[{}]
  <2>1. E \ Sent({}) = E
    OBVIOUS
  <2>2. start \in [net : Holding(E, B, g), failed : BOOLEAN] /\ ~start.failed /\ start.net = r
    OBVIOUS
  <2> HIDE DEF Sent, start
  <2> QED BY <2>1, <2>2
<1>5. ASSUME NEW s \in SUBSET S, NEW i \in S \ s, NEW y \in P[s]
      PROVE  ReplayDatagram(y, q[i]) \in P[s \cup {i}]
  <2>1. q[i] \in A /\ y \in H(E \ Sent(s)) /\ E \ Sent(s) \in SUBSET E /\ s \cup {i} \in SUBSET S
    OBVIOUS
  <2>2. (E \ Sent(s)) \ {q[i]} = E \ Sent(s \cup {i})
    OBVIOUS
  <2> HIDE DEF H, Sent, A
  <2>3. ReplayDatagram(y, q[i]) \in H((E \ Sent(s)) \ {q[i]})
    BY <1>2, <2>1
  <2> QED BY <2>1, <2>2, <2>3
<1>6. end \in P[S]
  <2> HIDE DEF G, P, A, start
  <2> QED BY <1>1, <1>3, <1>4, <1>5, ReplayFollows
<1>7. end \in H({})
  <2>1. E \ Sent(S) = {}
    BY <1>1
  <2> HIDE DEF H, end
  <2> QED BY <1>6, <2>1
<1> DEFINE D == {q[i] : i \in DOMAIN q}
           F == D \cup {f \in end.net.tracked : SourceOf[f] = k}
<1>8. ReplayDatagrams(r, k, q) = IF ~end.failed THEN end.net ELSE FoldSet(CloseUdpFlow, end.net, F)
  BY DEF ReplayDatagrams
<1> HIDE DEF end
<1>9. CASE ~end.failed
  BY <1>7, <1>8, <1>9
<1>10. CASE end.failed
  <2>1. k \in UdpSources /\ end.net \in Holding(E, B, g)
    BY <1>7, <1>10
  <2>2. F \subseteq UdpFlows
    <3>1. F \subseteq AllFlows /\ \A f \in F : SourceOf[f] = k
      BY <1>1, <2>1 DEF Holding, NetRecord
    <3> HIDE DEF F
    <3> QED BY <2>1, <3>1, FlowKeys DEF AllFlows
  <2>3. E \ F = {}
    OBVIOUS
  <2> HIDE DEF F
  <2>4. FoldSet(CloseUdpFlow, end.net, F) \in Holding(E \ F, B, g)
    BY <2>1, <2>2, CloseAllHolds
  <2> QED BY <1>8, <1>10, <2>3, <2>4
<1> QED BY <1>9, <1>10

(* What the loop does with a result.                                       *)
LEMMA ResolvedHolds ==
  ASSUME NEW B, NEW g \in Nat, NEW r \in Holding({}, B, g), NEW o, o.flow \in AllFlows
  PROVE  SourceResolved(r, o) \in Holding({}, B, g)
<1> DEFINE k == SourceOf[o.flow]
           q == r.lookup[k].events
           m == Drop(r.lookup, {k})
           a == [r EXCEPT !.lookup = m, !.cached = r.cached \cup {k}]
           E == {q[i] : i \in DOMAIN q}
<1>1. r \in NetRecord /\ k \in AllSources
  BY FlowKeys DEF Holding
<1>2. PICK D \in SUBSET AllSources : r.lookup \in [D -> UdpLookup]
  BY <1>1 DEF NetRecord, UdpLookupMap
<1>3. CASE k \notin D \/ r.lookup[k].id # o.id
  BY <1>2, <1>3 DEF SourceResolved
<1>4. CASE ~(k \notin D \/ r.lookup[k].id # o.id)
  <2>1. SourceResolved(r, o) = ReplayDatagrams(a, k, q)
    BY <1>1, <1>2, <1>4 DEF SourceResolved, NetRecord
  <2>2. q \in Seq(AllFlows) /\ \A i \in DOMAIN q : SourceOf[q[i]] = k
    BY <1>2, <1>4 DEF UdpLookup, Holding, LookupsKeyed
  <2>3. m \in [D \ {k} -> UdpLookup] /\ \A i \in D \ {k} : m[i] = r.lookup[i]
    BY <1>2 DEF Drop, Restrict
  <2>4. m \in UdpLookupMap
    BY <1>2, <2>3 DEF UdpLookupMap
  <2> HIDE DEF m
  <2>5. a \in NetRecord /\ a.lookup = m /\ SameTasks(a, r) /\ SameEchoes(a, r) /\ SameFlows(a, r)
    BY <1>1, <2>4 DEF NetRecord, SameTasks, SameEchoes, SameFlows
  <2> HIDE DEF a
  <2>6. TasksKeyed(a) /\ EchoesNamed(a) /\ a.gens >= g /\ \A e \in a.echo : e \in B \/ e.id > g
    BY <2>5 DEF Holding, TasksKeyed, EchoesNamed, SameTasks, SameEchoes, SameFlows
  <2>7. LookupsKeyed(a)
    BY <1>2, <2>3, <2>5 DEF Holding, LookupsKeyed
  <2>8. ASSUME NEW x \in a.tracked \ E PROVE Held(a, x)
    <3>1. Held(r, x)
      BY <2>5 DEF Holding, SameFlows
    <3>2. WaitsFor(r, x) => WaitsFor(a, x)
      BY <1>2, <2>3, <2>5 DEF WaitsFor
    <3> QED BY <2>5, <3>1, <3>2 DEF Held, SameTasks, SameEchoes, SameFlows
  <2>9. a \in Holding(E, B, g)
    BY <2>5, <2>6, <2>7, <2>8 DEF Holding
  <2>10. E = {q[i] : i \in DOMAIN q}
    OBVIOUS
  <2> HIDE DEF E, q, k
  <2> QED BY <2>1, <2>2, <2>9, <2>10, ReplayHolds
<1> QED BY <1>3, <1>4

LEMMA EchoDataHolds ==
  ASSUME NEW B, NEW g, NEW r \in Holding({}, B, g), NEW o, o.flow \in IcmpFlows,
         \A e \in r.echo : e.id = o.id => e.flow = o.flow
  PROVE  IcmpData(r, o) \in Holding({}, B, g)
<1> DEFINE a == [r EXCEPT !.echo = {e \in @ : e.id # o.id}]
           f == o.flow
<1>1. r \in NetRecord
  BY DEF Holding
<1>2. /\ a \in NetRecord /\ a.echo = {e \in r.echo : e.id # o.id} /\ a.gens = r.gens
      /\ SameTasks(a, r) /\ SameLookups(a, r) /\ SameFlows(a, r)
  BY <1>1 DEF NetRecord, SameTasks, SameLookups, SameFlows
<1>3. IcmpData(r, o) = IF \E e \in a.echo : e.flow = f THEN a ELSE UntrackUdp(f, a)
  BY DEF IcmpData
<1> HIDE DEF a
<1>4. \A e \in r.echo \ a.echo : e.flow \in {f}
  BY <1>2
<1>5. a \in Holding({} \cup {f}, B, g)
  BY <1>2, <1>4, FewerEchoesHold
<1>6. a \in Holding({f}, B, g)
  <2>1. {} \cup {f} = {f}
    OBVIOUS
  <2> QED BY <1>5, <2>1
<1>7. f \in AllFlows /\ f \notin a.bound
  BY <1>2, FlowKeys DEF NetRecord
<1>8. CASE \E e \in a.echo : e.flow = f
  <2>1. Held(a, f)
    BY <1>8 DEF Held
  <2>2. a \in Holding({}, B, g)
    BY <1>6, <2>1 DEF Holding
  <2> QED BY <1>3, <1>8, <2>2
<1>9. CASE ~\E e \in a.echo : e.flow = f
  <2>1. UntrackUdp(f, a) \in Holding({f} \ {f}, B, g)
    BY <1>6, <1>7, UntrackHolds
  <2>2. {f} \ {f} = {}
    OBVIOUS
  <2> HIDE DEF f
  <2> QED BY <1>3, <1>9, <2>1, <2>2
<1> QED BY <1>8, <1>9

LEMMA AbandonHolds ==
  ASSUME NEW B, NEW g, NEW X, NEW r \in Holding(X, B, g), NEW f \in AllFlows
  PROVE  Abandon(r, f) \in Holding(X, B, g)
<1>1. CASE f \in UdpFlows
  <2>1. CloseUdpFlow(f, r) \in Holding(X \ {f}, B, g)
    BY <1>1, CloseUdpHolds
  <2>2. CloseUdpFlow(f, r) \in Holding(X, B, g)
    BY <2>1, HoldingGrows
  <2> QED BY <1>1, <2>2 DEF Abandon
<1>2. CASE f \notin UdpFlows
  BY <1>2 DEF Abandon
<1> QED BY <1>1, <1>2

(* Reaping: an echo that ended gives its flow up, unless another has it.   *)
LEMMA ReapEchoHolds ==
  ASSUME NEW B, NEW g, NEW X, NEW r \in Holding(X, B, g), NEW e \in EchoTask
  PROVE  ReapEcho(e, r) \in Holding(X \ {e.flow}, B, g)
<1> DEFINE f == e.flow
<1>1. f \in IcmpFlows /\ f \in AllFlows /\ f \notin r.bound
  BY FlowKeys DEF EchoTask, Holding, NetRecord
<1>2. CASE \E x \in r.echo : x.flow = f
  <2>1. Held(r, f)
    BY <1>2 DEF Held
  <2>2. r \in Holding(X \ {f}, B, g)
    BY <2>1 DEF Holding
  <2> QED BY <1>2, <2>2 DEF ReapEcho
<1>3. CASE ~\E x \in r.echo : x.flow = f
  BY <1>1, <1>3, UntrackHolds DEF ReapEcho
<1> QED BY <1>2, <1>3

LEMMA ReapEchoesHolds ==
  ASSUME NEW B, NEW g, NEW Y, NEW r \in Holding(Y, B, g), NEW S \in SUBSET EchoTask, IsFiniteSet(S),
         \A f \in Y : \E e \in S : e.flow = f
  PROVE  FoldSet(ReapEcho, r, S) \in Holding({}, B, g)
<1> DEFINE G == Holding(Y, B, g)
           Of(t) == {e.flow : e \in t}
           P == [t \in SUBSET S |-> Holding(Y \ Of(t), B, g)]
<1>1. ASSUME NEW Z, NEW e \in S, NEW y \in Holding(Z, B, g)
      PROVE  ReapEcho(e, y) \in Holding(Z \ {e.flow}, B, g) /\ ReapEcho(e, y) \in Holding(Z, B, g)
  <2>1. ReapEcho(e, y) \in Holding(Z \ {e.flow}, B, g)
    BY ReapEchoHolds
  <2> QED BY <2>1, HoldingGrows
<1>2. \A e \in S : \A y \in G : ReapEcho(e, y) \in G
  BY <1>1
<1>3. r \in P[{}]
  <2>1. Y \ Of({}) = Y
    OBVIOUS
  <2> HIDE DEF Of
  <2> QED BY <2>1
<1>4. ASSUME NEW t \in SUBSET S, NEW e \in S \ t, NEW y \in P[t]
      PROVE  ReapEcho(e, y) \in P[t \cup {e}]
  <2>1. (Y \ Of(t)) \ {e.flow} = Y \ Of(t \cup {e})
    OBVIOUS
  <2> HIDE DEF Of
  <2>2. ReapEcho(e, y) \in Holding((Y \ Of(t)) \ {e.flow}, B, g)
    BY <1>1
  <2> QED BY <2>1, <2>2
<1>5. FoldSet(ReapEcho, r, S) \in P[S]
  <2>1. r \in G
    OBVIOUS
  <2> HIDE DEF G, P
  <2> QED BY <1>2, <1>3, <1>4, <2>1, ReapEchoFollows
<1>6. Y \ Of(S) = {}
  OBVIOUS
<1> HIDE DEF Of
<1> QED BY <1>5, <1>6

LEMMA CloseSourcesHolds ==
  ASSUME NEW B, NEW g, NEW r \in Holding({}, B, g), NEW S \in SUBSET UdpSources
  PROVE  FoldSet(CloseSource, r, S) \in Holding({}, B, g)
<1> DEFINE G == Holding({}, B, g)
           P == [t \in SUBSET S |-> G]
<1>1. IsFiniteSet(S)
  <2>1. IsFiniteSet({SourceOf[f] : f \in UdpFlows})
    <3> DEFINE h == [f \in UdpFlows |-> SourceOf[f]]
    <3>1. h \in Surjection(UdpFlows, UdpSources)
      BY DEF UdpSources, Surjection
    <3> QED BY <3>1, FlowKeys, FS_Surjection DEF UdpSources
  <2> QED BY <2>1, FS_Subset DEF UdpSources
<1>2. \A k \in S : \A y \in G : CloseSource(k, y) \in G
  BY CloseSourceHolds
<1>3. r \in G /\ r \in P[{}]
  OBVIOUS
<1>4. \A t \in SUBSET S : \A k \in S \ t : \A y \in P[t] : CloseSource(k, y) \in P[t \cup {k}]
  <2> HIDE DEF G
  <2> QED BY <1>2
<1>5. FoldSet(CloseSource, r, S) \in P[S]
  <2> HIDE DEF G, P
  <2> QED BY <1>1, <1>2, <1>3, <1>4, CloseSourceFollows
<1> QED BY <1>5

(* Fields that own nothing may change, and NAT entries may leave.          *)
LEMMA OthersHold ==
  ASSUME NEW B, NEW g, NEW X, NEW r \in Holding(X, B, g), NEW a \in NetRecord,
         SameTasks(a, r), SameEchoes(a, r), SameLookups(a, r), a.tracked = r.tracked, a.nat \subseteq r.nat
  PROVE  a \in Holding(X, B, g)
<1>1. TasksKeyed(a) /\ LookupsKeyed(a) /\ EchoesNamed(a)
  BY DEF Holding, TasksKeyed, LookupsKeyed, EchoesNamed, SameTasks, SameEchoes, SameLookups
<1>2. \A x \in a.tracked \ X : Held(a, x)
  BY DEF Holding, Held, WaitsFor, SameTasks, SameEchoes, SameLookups
<1> QED BY <1>1, <1>2 DEF Holding, SameEchoes

-----------------------------------------------------------------------------
(* The steps.                                                              *)
LEMMA UdpInvFollows ==
  ASSUME UdpInv, net' \in Holding({}, net.echo, net.gens), datagrams' \in Seq(AllFlows),
         results' \in Seq(UdpResult),
         \A i \in DOMAIN results' :
           (\E j \in DOMAIN results : results'[i] = results[j]) \/ results'[i].kind # "echo"
  PROVE  UdpInv'
<1> DEFINE r == net'
<1>1. net \in NetRecord /\ r \in NetRecord /\ net.gens \in Nat /\ r.gens \in Nat /\ r.gens >= net.gens
  BY DEF UdpInv, Holding, NetRecord
<1>2. r \in Holding({}, r.echo, r.gens)
  <2> HIDE DEF r
  <2>1. r \in Holding({}, net.echo, net.gens)
    BY DEF r
  <2>2. r.gens >= r.gens /\ \A e \in r.echo : e \in r.echo \/ e.id > r.gens
    BY <1>1
  <2> QED BY <2>1, <2>2 DEF Holding
<1>3. ASSUME NEW i \in DOMAIN results', results'[i].kind = "echo"
      PROVE  /\ results'[i].id <= r.gens
             /\ \A e \in r.echo : e.id = results'[i].id => e.flow = results'[i].flow
  <2>1. PICK j \in DOMAIN results : results'[i] = results[j]
    BY <1>3
  <2>2. /\ results[j].id <= net.gens
        /\ \A e \in net.echo : e.id = results[j].id => e.flow = results[j].flow
    BY <1>3, <2>1 DEF UdpInv
  <2>3. results[j].id \in Nat
    BY DEF UdpInv, UdpResult
  <2>4. \A e \in r.echo : e \in net.echo \/ (e.id > net.gens /\ e.id \in Nat)
    BY <1>1 DEF Holding, NetRecord, EchoTask
  <2> HIDE DEF r
  <2> QED BY <1>1, <2>1, <2>2, <2>3, <2>4
<1> HIDE DEF r
<1>4. net' = r
  BY DEF r
<1> QED BY <1>2, <1>3, <1>4 DEF UdpInv

(* What a shorter or a longer channel holds.                               *)
LEMMA TailResults ==
  ASSUME UdpInv, results # <<>>, results' = Tail(results)
  PROVE  /\ results' \in Seq(UdpResult) /\ Head(results) \in UdpResult
         /\ \A i \in DOMAIN results' : \E j \in DOMAIN results : results'[i] = results[j]
<1>1. results \in Seq(UdpResult)
  BY DEF UdpInv
<1>2. /\ Tail(results) \in Seq(UdpResult) /\ Head(results) \in UdpResult
      /\ \A i \in DOMAIN Tail(results) : i + 1 \in DOMAIN results /\ Tail(results)[i] = results[i + 1]
  BY <1>1
<1> QED BY <1>2

LEMMA EmitResults ==
  ASSUME UdpInv, NEW kind, NEW f, NEW id, [kind |-> kind, flow |-> f, id |-> id] \in UdpResult,
         EmitResult(kind, f, id)
  PROVE  /\ results' \in Seq(UdpResult)
         /\ \A i \in DOMAIN results' : (\E j \in DOMAIN results : results'[i] = results[j])
                                         \/ results'[i] = [kind |-> kind, flow |-> f, id |-> id]
<1> DEFINE o == [kind |-> kind, flow |-> f, id |-> id]
<1>1. results \in Seq(UdpResult) /\ o \in UdpResult
  BY DEF UdpInv
<1>2. results' = Append(results, o)
  BY DEF EmitResult
<1> HIDE DEF o
<1>3. /\ Append(results, o) \in Seq(UdpResult)
      /\ \A i \in DOMAIN Append(results, o) :
           (i \in DOMAIN results /\ Append(results, o)[i] = results[i]) \/ Append(results, o)[i] = o
  BY <1>1
<1> QED BY <1>2, <1>3 DEF o

(* One result, whichever it is.                                            *)
LEMMA ResultKeeps ==
  ASSUME UdpInv, NEW refused \in BOOLEAN, HandleResult(refused)
  PROVE  UdpInv'
<1> DEFINE o == Head(results)
           B == net.echo
           g == net.gens
<1>1. net \in Holding({}, B, g) /\ g \in Nat /\ datagrams' \in Seq(AllFlows)
  BY DEF UdpInv, Holding, NetRecord, HandleResult
<1>2. /\ results' \in Seq(UdpResult) /\ o \in UdpResult
      /\ \A i \in DOMAIN results' : \E j \in DOMAIN results : results'[i] = results[j]
  BY TailResults DEF HandleResult
<1>3. o.kind = "echo" => \A e \in net.echo : e.id = o.id => e.flow = o.flow
  <2>1. 1 \in DOMAIN results /\ o = results[1]
    BY DEF HandleResult, UdpInv
  <2> HIDE DEF o
  <2> QED BY <2>1 DEF UdpInv
<1>4. /\ o.kind \in {"data", "closed", "bound"} => o.flow \in UdpFlows
      /\ o.kind = "echo" => o.flow \in IcmpFlows
      /\ o.flow \in AllFlows
  BY <1>2, FlowKeys DEF UdpResult
<1>5. net' = CASE o.kind = "data"     -> Deliver(net, o, refused)
               [] o.kind = "closed"   -> UdpClosed(net, o.flow)
               [] o.kind = "bound"    -> UdpBound(net, SourceOf[o.flow], refused)
               [] o.kind = "echo"     -> IcmpData(net, o)
               [] o.kind = "resolved" -> SourceResolved(net, o)
  BY DEF HandleResult
<1>6. o.kind \in {"data", "closed", "bound", "echo", "resolved"}
  BY <1>2 DEF UdpResult
<1> HIDE DEF o, B, g
<1>7. ASSUME NEW f \in UdpFlows PROVE CloseUdpFlow(f, net) \in Holding({}, B, g)
  <2>1. CloseUdpFlow(f, net) \in Holding({} \ {f}, B, g)
    BY <1>1, CloseUdpHolds
  <2>2. {} \ {f} = {}
    OBVIOUS
  <2> QED BY <2>1, <2>2
<1>8. ASSUME NEW f \in UdpFlows PROVE CloseSource(SourceOf[f], net) \in Holding({}, B, g)
  BY <1>1, FlowKeys, CloseSourceHolds
<1>9. net' \in Holding({}, B, g)
  <2>1. CASE o.kind = "data"
    <3>1. net' = Deliver(net, o, refused) /\ o.flow \in UdpFlows
      BY <1>4, <1>5, <2>1
    <3> QED BY <1>1, <1>7, <3>1 DEF Deliver
  <2>2. CASE o.kind = "closed"
    <3>1. net' = UdpClosed(net, o.flow) /\ o.flow \in UdpFlows
      BY <1>4, <1>5, <2>2
    <3> QED BY <1>7, <1>8, <3>1 DEF UdpClosed
  <2>3. CASE o.kind = "bound"
    <3>1. net' = UdpBound(net, SourceOf[o.flow], refused) /\ o.flow \in UdpFlows
      BY <1>4, <1>5, <2>3
    <3> QED BY <1>1, <1>8, <3>1 DEF UdpBound
  <2>4. CASE o.kind = "echo"
    <3>1. net' = IcmpData(net, o) /\ o.flow \in IcmpFlows
      BY <1>4, <1>5, <2>4
    <3> QED BY <1>1, <1>3, <2>4, <3>1, EchoDataHolds
  <2>5. CASE o.kind = "resolved"
    <3>1. net' = SourceResolved(net, o) /\ o.flow \in AllFlows
      BY <1>4, <1>5, <2>5
    <3> QED BY <1>1, <3>1, ResolvedHolds
  <2> QED BY <1>6, <2>1, <2>2, <2>3, <2>4, <2>5
<1> QED BY <1>1, <1>2, <1>9, UdpInvFollows DEF B, g

LEMMA DispatchUdpKeeps ==
  ASSUME UdpInv, DispatchDatagram
  PROVE  UdpInv'
<1> DEFINE f == Head(datagrams)
           B == net.echo
           g == net.gens
<1>1. net \in Holding({}, B, g) /\ g \in Nat /\ datagrams \in Seq(AllFlows) /\ results \in Seq(UdpResult)
  BY DEF UdpInv, Holding, NetRecord
<1>2. f \in AllFlows /\ datagrams' \in Seq(AllFlows) /\ results' = results
  BY <1>1 DEF DispatchDatagram
<1>3. net' = IF Waits(net, f)
             THEN IF LookupsFull(net, f) THEN Abandon(net, f) ELSE DeferDatagram(net, f)
             ELSE IF Failed(net, f) THEN Abandon(ReadyDatagram(net, f), f) ELSE ReadyDatagram(net, f)
  BY DEF DispatchDatagram
<1> HIDE DEF f, B, g
<1>4. Abandon(net, f) \in Holding({}, B, g) /\ DeferDatagram(net, f) \in Holding({}, B, g)
  BY <1>1, <1>2, AbandonHolds, DeferHolds
<1>5. ReadyDatagram(net, f) \in Holding({}, B, g)
  <2>1. ReadyDatagram(net, f) \in Holding({} \ {f}, B, g)
    BY <1>1, <1>2, ReadyHolds
  <2>2. {} \ {f} = {}
    OBVIOUS
  <2> QED BY <2>1, <2>2
<1>6. Abandon(ReadyDatagram(net, f), f) \in Holding({}, B, g)
  BY <1>2, <1>5, AbandonHolds
<1>7. net' \in Holding({}, B, g)
  BY <1>3, <1>4, <1>5, <1>6
<1> QED BY <1>1, <1>2, <1>7, UdpInvFollows DEF B, g

LEMMA ReapUdpKeeps ==
  ASSUME UdpInv, ReapUdp
  PROVE  UdpInv'
<1> DEFINE done == {k \in DOMAIN net.task : net.task[k].pc = "finished"}
           E == {e \in net.echo : e.pc = "finished"}
           Y == {e.flow : e \in E}
           a == [net EXCEPT !.echo = @ \ E]
           b == FoldSet(ReapEcho, a, E)
           B == net.echo
           g == net.gens
<1>1. net \in NetRecord /\ net \in Holding({}, B, g) /\ datagrams \in Seq(AllFlows) /\ results \in Seq(UdpResult)
  BY DEF UdpInv, Holding
<1>2. net' = FoldSet(CloseSource, b, done) /\ datagrams' = datagrams /\ results' = results
  BY DEF ReapUdp
<1>3. E \in SUBSET EchoTask /\ IsFiniteSet(E)
  <2>1. E \subseteq net.echo /\ net.echo \subseteq EchoTask /\ IsFiniteSet(net.echo)
    BY <1>1 DEF NetRecord, Holding, EchoesNamed
  <2> HIDE DEF E
  <2> QED BY <2>1, FS_Subset
<1>4. a \in Holding(Y, B, g)
  <2>1. /\ a \in NetRecord /\ a.echo = net.echo \ E /\ a.gens = net.gens
        /\ SameTasks(a, net) /\ SameLookups(a, net) /\ SameFlows(a, net)
    BY <1>1 DEF NetRecord, SameTasks, SameLookups, SameFlows
  <2>2. \A e \in net.echo \ a.echo : e.flow \in Y
    <3> HIDE DEF a, E
    <3> QED BY <2>1
  <2> HIDE DEF a, E, Y, B, g
  <2>3. a \in Holding({} \cup Y, B, g)
    BY <1>1, <2>1, <2>2, FewerEchoesHold
  <2>4. {} \cup Y = Y
    OBVIOUS
  <2> QED BY <2>3, <2>4
<1>5. \A f \in Y : \E e \in E : e.flow = f
  OBVIOUS
<1>6. done \in SUBSET UdpSources
  BY <1>1 DEF NetRecord, UdpTaskMap
<1> HIDE DEF a, E, Y, B, g, done
<1>7. b \in Holding({}, B, g)
  BY <1>3, <1>4, <1>5, ReapEchoesHolds
<1> HIDE DEF b
<1>8. net' \in Holding({}, B, g)
  BY <1>2, <1>6, <1>7, CloseSourcesHolds
<1> QED BY <1>1, <1>2, <1>8, UdpInvFollows DEF B, g

(* The table of flows, from outside the channels.                          *)
LEMMA FlowStepKeeps ==
  ASSUME UdpInv, NEW f \in AllFlows,
         ApplyUdpClose(f) \/ ClientDatagram(f) \/ SweepFlow(f) \/ RequestUdpClose(f)
  PROVE  UdpInv'
<1> DEFINE B == net.echo
           g == net.gens
<1>1. /\ net \in NetRecord /\ net \in Holding({}, B, g) /\ datagrams \in Seq(AllFlows)
      /\ results \in Seq(UdpResult) /\ {} \ {f} = {}
  BY DEF UdpInv, Holding
<1>2. results' = results /\ datagrams' \in Seq(AllFlows)
  BY <1>1, SMTT(40) DEF ApplyUdpClose, ClientDatagram, SweepFlow, RequestUdpClose
<1> HIDE DEF B, g
<1>3. CASE ApplyUdpClose(f)
  <2>1. CASE f \in UdpFlows
    <3>1. CloseUdpFlow(f, net) \in Holding({} \ {f}, B, g)
      BY <1>1, <2>1, CloseUdpHolds
    <3>2. net' \in Holding({}, B, g)
      BY <1>1, <1>3, <2>1, <3>1 DEF ApplyUdpClose
    <3> QED BY <1>1, <1>2, <3>2, UdpInvFollows DEF B, g
  <2>2. CASE f \notin UdpFlows
    <3>1. f \notin net.bound
      BY <1>1, <2>2 DEF NetRecord
    <3>2. UntrackUdp(f, net) \in Holding({} \ {f}, B, g)
      BY <1>1, <3>1, UntrackHolds
    <3>3. net' \in Holding({}, B, g)
      BY <1>1, <1>3, <2>2, <3>2 DEF ApplyUdpClose
    <3> QED BY <1>1, <1>2, <3>3, UdpInvFollows DEF B, g
  <2> QED BY <2>1, <2>2
<1>4. CASE ClientDatagram(f)
  <2> DEFINE a == [net EXCEPT !.socket[DestOf[f]] = "open"]
  <2>1. f \in UdpFlows => a \in Holding({}, B, g)
    <3> SUFFICES ASSUME f \in UdpFlows PROVE a \in Holding({}, B, g)
      OBVIOUS
    <3>1. DestOf[f] \in Range(DestOf)
      BY FlowKeys
    <3>2. /\ a \in NetRecord /\ SameTasks(a, net) /\ SameEchoes(a, net) /\ SameLookups(a, net)
          /\ a.tracked = net.tracked /\ a.nat \subseteq net.nat
      BY <1>1, <3>1 DEF NetRecord, SameTasks, SameEchoes, SameLookups
    <3> HIDE DEF a
    <3> QED BY <1>1, <3>2, OthersHold
  <2>2. net' \in Holding({}, B, g)
    BY <1>1, <1>4, <2>1 DEF ClientDatagram
  <2> QED BY <1>1, <1>2, <2>2, UdpInvFollows DEF B, g
<1>5. CASE SweepFlow(f)
  <2> DEFINE a == [net EXCEPT !.nat = @ \ {f}]
  <2>1. /\ a \in NetRecord /\ SameTasks(a, net) /\ SameEchoes(a, net) /\ SameLookups(a, net)
        /\ a.tracked = net.tracked /\ a.nat = net.nat \ {f}
    BY <1>1 DEF NetRecord, SameTasks, SameEchoes, SameLookups
  <2>2. net' = IF f \in UdpFlows THEN CloseUdpFlow(f, a) ELSE RemoveUdpFlowTask(a, f)
    BY <1>5 DEF SweepFlow
  <2> HIDE DEF a
  <2>3. a \in Holding({}, B, g)
    BY <1>1, <2>1, OthersHold
  <2>4. CASE f \in UdpFlows
    <3>1. CloseUdpFlow(f, a) \in Holding({} \ {f}, B, g)
      BY <2>3, <2>4, CloseUdpHolds
    <3>2. net' \in Holding({}, B, g)
      BY <1>1, <2>2, <2>4, <3>1
    <3> QED BY <1>1, <1>2, <3>2, UdpInvFollows DEF B, g
  <2>5. CASE f \notin UdpFlows
    <3> DEFINE b == RemoveUdpFlowTask(a, f)
    <3>1. b \in Holding({} \cup {f}, B, g) /\ SameFlows(b, a)
      BY <2>3, RemoveTaskHolds
    <3>2. net' = b
      BY <2>2, <2>5
    <3> HIDE DEF b
    <3>3. Held(b, f)
      BY <2>1, <2>5, <3>1 DEF Held, SameFlows, AllFlows
    <3>4. b \in Holding({}, B, g)
      BY <3>1, <3>3 DEF Holding
    <3> QED BY <1>1, <1>2, <3>2, <3>4, UdpInvFollows DEF B, g
  <2> QED BY <2>4, <2>5
<1>6. CASE RequestUdpClose(f)
  <2> DEFINE a == [net EXCEPT !.requested = @ \cup {f}]
  <2>1. /\ a \in NetRecord /\ SameTasks(a, net) /\ SameEchoes(a, net) /\ SameLookups(a, net)
        /\ a.tracked = net.tracked /\ a.nat \subseteq net.nat
    BY <1>1 DEF NetRecord, SameTasks, SameEchoes, SameLookups
  <2>2. net' = a
    BY <1>6 DEF RequestUdpClose
  <2> HIDE DEF a
  <2>3. net' \in Holding({}, B, g)
    BY <1>1, <2>1, <2>2, OthersHold
  <2> QED BY <1>1, <1>2, <2>3, UdpInvFollows DEF B, g
<1> QED BY <1>3, <1>4, <1>5, <1>6

LEMMA CollectKeeps ==
  ASSUME UdpInv, NEW d \in DOMAIN net.socket, CollectUdpSocket(d)
  PROVE  UdpInv'
<1> DEFINE a == [net EXCEPT !.socket[d] = "none"]
<1>1. /\ net \in NetRecord /\ net \in Holding({}, net.echo, net.gens) /\ datagrams \in Seq(AllFlows)
      /\ results \in Seq(UdpResult)
  BY DEF UdpInv, Holding
<1>2. /\ a \in NetRecord /\ SameTasks(a, net) /\ SameEchoes(a, net) /\ SameLookups(a, net)
      /\ a.tracked = net.tracked /\ a.nat \subseteq net.nat
  BY <1>1 DEF NetRecord, SameTasks, SameEchoes, SameLookups
<1>3. net' = a /\ results' = results /\ datagrams' = datagrams
  BY DEF CollectUdpSocket
<1> HIDE DEF a
<1>4. net' \in Holding({}, net.echo, net.gens)
  BY <1>1, <1>2, <1>3, OthersHold
<1> QED BY <1>1, <1>3, <1>4, UdpInvFollows

LEMMA ResolveKeeps ==
  ASSUME UdpInv, NEW k, ResolveSource(k)
  PROVE  UdpInv'
<1> DEFINE B == net.echo
           g == net.gens
           q == net.lookup[k].events
           v == [net.lookup[k] EXCEPT !.sent = TRUE]
           m == [net.lookup EXCEPT ![k] = v]
           a == [net EXCEPT !.lookup = m]
<1>1. /\ net \in NetRecord /\ net \in Holding({}, B, g) /\ datagrams \in Seq(AllFlows)
      /\ k \in DOMAIN net.lookup /\ datagrams' = datagrams
  BY DEF UdpInv, Holding, ResolveSource
<1>2. PICK D \in SUBSET AllSources : net.lookup \in [D -> UdpLookup]
  BY <1>1 DEF NetRecord, UdpLookupMap
<1>3. net.lookup[k] \in UdpLookup /\ k \in D
  BY <1>1, <1>2
<1>4. v \in UdpLookup /\ v.events = q
  BY <1>3 DEF UdpLookup
<1>5. net' = a
  BY <1>1, <1>2, <1>3 DEF ResolveSource, NetRecord, UdpLookup
<1>6. q \in Seq(AllFlows) /\ q # <<>> /\ net.lookup[k].id \in Nat
  BY <1>1, <1>3 DEF UdpLookup, Holding, LookupsKeyed
<1>7. Head(q) \in AllFlows
  <2> HIDE DEF q
  <2> QED BY <1>6
<1> HIDE DEF v
<1>8. m \in [D -> UdpLookup] /\ \A i \in D : m[i].events = net.lookup[i].events
  BY <1>2, <1>3, <1>4
<1>9. m \in UdpLookupMap
  BY <1>2, <1>8 DEF UdpLookupMap
<1> HIDE DEF m
<1>10. a \in NetRecord /\ a.lookup = m /\ SameTasks(a, net) /\ SameEchoes(a, net) /\ SameFlows(a, net)
  BY <1>1, <1>9 DEF NetRecord, SameTasks, SameEchoes, SameFlows
<1> HIDE DEF a
<1>11. TasksKeyed(a) /\ EchoesNamed(a) /\ a.gens >= g /\ \A e \in a.echo : e \in B \/ e.id > g
  BY <1>1, <1>10 DEF Holding, TasksKeyed, EchoesNamed, SameTasks, SameEchoes, SameFlows
<1>12. LookupsKeyed(a)
  BY <1>1, <1>2, <1>8, <1>10 DEF Holding, LookupsKeyed
<1>13. ASSUME NEW x \in a.tracked PROVE Held(a, x)
  <2>1. Held(net, x)
    BY <1>1, <1>10 DEF Holding, SameFlows
  <2>2. WaitsFor(net, x) => WaitsFor(a, x)
    BY <1>2, <1>8, <1>10 DEF WaitsFor
  <2> QED BY <1>10, <2>1, <2>2 DEF Held, SameTasks, SameEchoes, SameFlows
<1>14. net' \in Holding({}, B, g)
  BY <1>5, <1>10, <1>11, <1>12, <1>13 DEF Holding
<1> DEFINE o == [kind |-> "resolved", flow |-> Head(q), id |-> net.lookup[k].id]
<1>15. o \in UdpResult /\ o.kind # "echo" /\ EmitResult("resolved", Head(q), net.lookup[k].id)
  <2>1. o \in [kind : {"resolved"}, flow : AllFlows, id : Nat]
    BY <1>6, <1>7
  <2> QED BY <2>1 DEF UdpResult, ResolveSource
<1>16. /\ results' \in Seq(UdpResult)
       /\ \A i \in DOMAIN results' : (\E j \in DOMAIN results : results'[i] = results[j]) \/ results'[i] = o
  BY <1>15, EmitResults
<1> HIDE DEF o
<1>17. \A i \in DOMAIN results' :
         (\E j \in DOMAIN results : results'[i] = results[j]) \/ results'[i].kind # "echo"
  BY <1>15, <1>16
<1> QED BY <1>1, <1>14, <1>16, <1>17, UdpInvFollows DEF B, g

(* The echo ends under its own identifier.                                 *)
LEMMA PingKeeps ==
  ASSUME UdpInv, NEW e \in net.echo, NEW replied \in BOOLEAN, PingEnds(e, replied)
  PROVE  UdpInv'
<1> DEFINE d == [e EXCEPT !.pc = "finished"]
           a == [net EXCEPT !.echo = (net.echo \ {e}) \cup {d}]
           o == [kind |-> "echo", flow |-> e.flow, id |-> e.id]
<1>1. /\ net \in NetRecord /\ net \in Holding({}, net.echo, net.gens) /\ datagrams \in Seq(AllFlows)
      /\ results \in Seq(UdpResult) /\ datagrams' = datagrams
  BY DEF UdpInv, Holding, PingEnds
<1>2. e \in EchoTask /\ d \in EchoTask /\ d.flow = e.flow /\ d.id = e.id /\ e.id \in Nat /\ e.flow \in IcmpFlows
  BY <1>1 DEF NetRecord, EchoTask
<1>3. net' = a
  BY <1>1 DEF PingEnds, NetRecord
<1> HIDE DEF d
<1>4. /\ a \in NetRecord /\ a.echo = (net.echo \ {e}) \cup {d} /\ a.gens = net.gens
      /\ SameTasks(a, net) /\ SameLookups(a, net) /\ SameFlows(a, net)
  BY <1>1, <1>2 DEF NetRecord, SameTasks, SameLookups, SameFlows
<1> HIDE DEF a
<1>5. \A x \in a.echo : \E y \in net.echo : y.id = x.id /\ y.flow = x.flow
  BY <1>2, <1>4
<1>6. \A y \in net.echo : \E x \in a.echo : y.id = x.id /\ y.flow = x.flow
  BY <1>2, <1>4
<1>7. IsFiniteSet(a.echo)
  <2>1. IsFiniteSet(net.echo \ {e})
    BY <1>1, FS_Subset DEF Holding, EchoesNamed
  <2>2. IsFiniteSet((net.echo \ {e}) \cup {d})
    BY <2>1, FS_AddElement
  <2> QED BY <1>4, <2>2
<1>8. EchoesNamed(a)
  BY <1>1, <1>4, <1>5, <1>7 DEF Holding, EchoesNamed
<1>9. TasksKeyed(a) /\ LookupsKeyed(a)
  BY <1>1, <1>4 DEF Holding, TasksKeyed, LookupsKeyed, SameTasks, SameLookups, SameFlows
<1>10. \A x \in a.tracked : Held(a, x)
  BY <1>1, <1>4, <1>6 DEF Holding, Held, WaitsFor, SameTasks, SameLookups, SameFlows
<1>11. a.gens >= a.gens
  BY <1>4 DEF NetRecord
<1>12. a \in Holding({}, a.echo, a.gens)
  BY <1>4, <1>8, <1>9, <1>10, <1>11 DEF Holding
<1>13. o \in UdpResult
  <2>1. o \in [kind : {"echo"}, flow : IcmpFlows, id : Nat]
    BY <1>2
  <2> QED BY <2>1 DEF UdpResult
<1>14. /\ results' \in Seq(UdpResult)
       /\ \A i \in DOMAIN results' : (\E j \in DOMAIN results : results'[i] = results[j]) \/ results'[i] = o
  <2>1. CASE replied
    BY <1>13, <2>1, EmitResults DEF PingEnds
  <2>2. CASE ~replied
    BY <1>1, <2>2 DEF PingEnds
  <2> QED BY <2>1, <2>2
<1>15. ASSUME NEW i \in DOMAIN results', results'[i].kind = "echo"
       PROVE  /\ results'[i].id <= a.gens
              /\ \A x \in a.echo : x.id = results'[i].id => x.flow = results'[i].flow
  <2>1. CASE \E j \in DOMAIN results : results'[i] = results[j]
    BY <1>4, <1>5, <1>15, <2>1 DEF UdpInv
  <2>2. CASE results'[i] = o
    <3>1. e.id <= net.gens /\ \A y \in net.echo : y.id = e.id => y.flow = e.flow
      BY <1>1 DEF Holding, EchoesNamed
    <3> QED BY <1>4, <1>5, <2>2, <3>1
  <2> QED BY <1>14, <2>1, <2>2
<1> QED BY <1>1, <1>3, <1>12, <1>14, <1>15 DEF UdpInv

(* The proxy task of a source keeps its flows.                             *)
LEMMA TaskStepKeeps ==
  ASSUME UdpInv, NEW k \in UdpSources,
         \/ \E opened \in BOOLEAN : OpenEnds(k, opened)
         \/ TakeUdpCommand(k) \/ ServeStops(k) \/ TaskEnds(k)
         \/ \E f \in UdpFlows : RemoteDatagram(k, f) \/ EmitUdpClosed(k, f)
  PROVE  UdpInv'
<1> DEFINE B == net.echo
           g == net.gens
           t == net.task[k]
<1>1. /\ net \in NetRecord /\ net \in Holding({}, B, g) /\ datagrams \in Seq(AllFlows)
      /\ results \in Seq(UdpResult) /\ datagrams' = datagrams /\ k \in DOMAIN net.task
  BY DEF UdpInv, Holding, OpenEnds, TakeUdpCommand, ServeStops, TaskEnds, RemoteDatagram, EmitUdpClosed, Serving
<1>2. t \in UdpTask /\ t.cmds \in Seq(Commands) /\ t.first \in UdpFlows
  BY <1>1 DEF NetRecord, UdpTaskMap, UdpTask
<1>3. ASSUME NEW u, SetTask(k, u), u \in UdpTask, u.flows = t.flows
      PROVE  net' \in Holding({}, B, g)
  <2>1. net' = [net EXCEPT !.task[k] = u]
    BY <1>3 DEF SetTask
  <2> HIDE DEF B, g
  <2> QED BY <1>1, <1>3, <2>1, SameFlowsHold
<1>4. ASSUME NEW kind \in {"data", "closed", "bound"}, NEW f \in UdpFlows, EmitResult(kind, f, 0)
      PROVE  /\ results' \in Seq(UdpResult)
             /\ \A i \in DOMAIN results' :
                  (\E j \in DOMAIN results : results'[i] = results[j]) \/ results'[i].kind # "echo"
  <2> DEFINE o == [kind |-> kind, flow |-> f, id |-> 0]
  <2>1. o \in UdpResult /\ o.kind # "echo"
    BY <1>4 DEF UdpResult
  <2>2. /\ results' \in Seq(UdpResult)
        /\ \A i \in DOMAIN results' : (\E j \in DOMAIN results : results'[i] = results[j]) \/ results'[i] = o
    BY <1>4, <2>1, EmitResults
  <2> HIDE DEF o
  <2> QED BY <2>1, <2>2
<1>5. ASSUME NEW opened \in BOOLEAN, OpenEnds(k, opened) PROVE UdpInv'
  <2> DEFINE u == [t EXCEPT !.pc = IF opened THEN "serving" ELSE "finished"]
  <2>1. u \in UdpTask /\ u.flows = t.flows /\ SetTask(k, u)
    BY <1>2, <1>5 DEF UdpTask, OpenEnds
  <2>2. net' \in Holding({}, B, g)
    BY <1>3, <2>1
  <2>3. (IF opened THEN "bound" ELSE "closed") \in {"data", "closed", "bound"}
        /\ EmitResult(IF opened THEN "bound" ELSE "closed", t.first, 0)
    BY <1>5 DEF OpenEnds
  <2>4. /\ results' \in Seq(UdpResult)
        /\ \A i \in DOMAIN results' :
             (\E j \in DOMAIN results : results'[i] = results[j]) \/ results'[i].kind # "echo"
    <3> DEFINE kd == IF opened THEN "bound" ELSE "closed"
    <3>1. kd \in {"data", "closed", "bound"} /\ EmitResult(kd, t.first, 0)
      BY <2>3
    <3> HIDE DEF kd
    <3> QED BY <1>2, <1>4, <3>1
  <2> QED BY <1>1, <2>2, <2>4, UdpInvFollows
<1>6. CASE TakeUdpCommand(k)
  <2> DEFINE s == [t EXCEPT !.cmds = Tail(@)]
             c == Head(t.cmds)
             u == IF c[1] = "data" THEN [s EXCEPT !.routes = @ \cup {c[2]}]
                  ELSE IF s.routes \subseteq {c[2]}
                       THEN [s EXCEPT !.routes = {c[2]}, !.pc = "ending"]
                       ELSE [s EXCEPT !.routes = @ \ {c[2]}]
  <2>1. SetTask(k, u) /\ t.cmds # <<>> /\ results' = results
    BY <1>6 DEF TakeUdpCommand
  <2>2. c \in Commands /\ Tail(t.cmds) \in Seq(Commands)
    BY <1>2, <2>1
  <2>3. c[2] \in UdpFlows
    <3> HIDE DEF c
    <3> QED BY <2>2 DEF Commands
  <2>4. s \in UdpTask /\ s.flows = t.flows
    BY <1>2, <2>2 DEF UdpTask
  <2> HIDE DEF s, c
  <2>5. u \in UdpTask /\ u.flows = t.flows
    BY <2>3, <2>4 DEF UdpTask
  <2> HIDE DEF u
  <2>6. net' \in Holding({}, B, g)
    BY <1>3, <2>1, <2>5
  <2> QED BY <1>1, <2>1, <2>6, UdpInvFollows
<1>7. CASE ServeStops(k)
  <2> DEFINE u == [t EXCEPT !.pc = "ending"]
  <2>1. u \in UdpTask /\ u.flows = t.flows /\ SetTask(k, u) /\ results' = results
    BY <1>2, <1>7 DEF UdpTask, ServeStops
  <2>2. net' \in Holding({}, B, g)
    BY <1>3, <2>1
  <2> QED BY <1>1, <2>1, <2>2, UdpInvFollows
<1>8. CASE TaskEnds(k)
  <2> DEFINE u == [t EXCEPT !.pc = "finished", !.cmds = <<>>]
  <2>1. <<>> \in Seq(Commands)
    OBVIOUS
  <2>2. u \in UdpTask /\ u.flows = t.flows /\ SetTask(k, u) /\ results' = results
    BY <1>2, <1>8, <2>1 DEF UdpTask, TaskEnds
  <2>3. net' \in Holding({}, B, g)
    BY <1>3, <2>2
  <2> QED BY <1>1, <2>2, <2>3, UdpInvFollows
<1>9. ASSUME NEW f \in UdpFlows, RemoteDatagram(k, f) PROVE UdpInv'
  <2>1. net' = net /\ EmitResult("data", f, 0)
    BY <1>9 DEF RemoteDatagram
  <2>2. /\ results' \in Seq(UdpResult)
        /\ \A i \in DOMAIN results' :
             (\E j \in DOMAIN results : results'[i] = results[j]) \/ results'[i].kind # "echo"
    BY <1>4, <2>1
  <2> QED BY <1>1, <2>1, <2>2, UdpInvFollows
<1>10. ASSUME NEW f \in UdpFlows, EmitUdpClosed(k, f) PROVE UdpInv'
  <2> DEFINE u == [t EXCEPT !.routes = @ \ {f}]
  <2>1. u \in UdpTask /\ u.flows = t.flows /\ SetTask(k, u)
    BY <1>2, <1>10 DEF UdpTask, EmitUdpClosed
  <2>2. net' \in Holding({}, B, g)
    BY <1>3, <2>1
  <2>3. /\ results' \in Seq(UdpResult)
        /\ \A i \in DOMAIN results' :
             (\E j \in DOMAIN results : results'[i] = results[j]) \/ results'[i].kind # "echo"
    <3>1. CASE Len(results) < UdpChannelCap
      BY <1>4, <1>10, <3>1 DEF EmitUdpClosed
    <3>2. CASE ~(Len(results) < UdpChannelCap)
      BY <1>1, <1>10, <3>2 DEF EmitUdpClosed
    <3> QED BY <3>1, <3>2
  <2> QED BY <1>1, <2>2, <2>3, UdpInvFollows
<1> QED BY <1>5, <1>6, <1>7, <1>8, <1>9, <1>10

LEMMA TunUdpInitInv == TunUdpInit => UdpInv
<1> SUFFICES ASSUME TunUdpInit PROVE UdpInv
  OBVIOUS
<1>1. EmptyMap \in UdpLookupMap /\ EmptyMap \in UdpTaskMap /\ DOMAIN EmptyMap = {}
  <2>1. EmptyMap \in [{} -> UdpLookup] /\ EmptyMap \in [{} -> UdpTask] /\ DOMAIN EmptyMap = {}
    BY DEF EmptyMap
  <2> QED BY <2>1 DEF UdpLookupMap, UdpTaskMap
<1>2. /\ net.tracked = {} /\ net.bound = {} /\ net.echo = {} /\ net.gens = 0
      /\ net.task = EmptyMap /\ net.lookup = EmptyMap /\ datagrams = <<>> /\ results = <<>>
      /\ net \in NetRecord
  <2> HIDE DEF EmptyMap
  <2> QED BY <1>1 DEF TunUdpInit, NetRecord
<1>3. TasksKeyed(net)
  BY <1>1, <1>2 DEF TasksKeyed
<1>4. LookupsKeyed(net) /\ EchoesNamed(net)
  BY <1>1, <1>2, FS_EmptySet DEF LookupsKeyed, EchoesNamed
<1>5. net \in Holding({}, net.echo, net.gens)
  BY <1>2, <1>3, <1>4 DEF Holding
<1>6. datagrams \in Seq(AllFlows) /\ results \in Seq(UdpResult) /\ DOMAIN results = {}
  BY <1>2
<1> QED BY <1>5, <1>6 DEF UdpInv

LEMMA UdpStepKeeps == UdpInv /\ [TunUdpNext]_tunUdpVars => UdpInv'
<1> SUFFICES ASSUME UdpInv, [TunUdpNext]_tunUdpVars PROVE UdpInv'
  OBVIOUS
<1>1. CASE UdpLoop
  BY <1>1, DispatchUdpKeeps, ReapUdpKeeps, ResultKeeps, FlowStepKeeps, CollectKeeps DEF UdpLoop
<1>2. CASE \E f \in AllFlows : ClientDatagram(f) \/ SweepFlow(f) \/ RequestUdpClose(f)
  BY <1>2, FlowStepKeeps
<1>3. CASE \E k \in Range(SourceOf) : ResolveSource(k)
  BY <1>3, ResolveKeeps
<1>4. CASE \E e \in net.echo, replied \in BOOLEAN : PingEnds(e, replied)
  BY <1>4, PingKeeps
<1>5. CASE \E k \in UdpSources :
             \/ \E opened \in BOOLEAN : OpenEnds(k, opened)
             \/ TakeUdpCommand(k) \/ ServeStops(k) \/ TaskEnds(k)
             \/ \E f \in UdpFlows : RemoteDatagram(k, f) \/ EmitUdpClosed(k, f)
  BY <1>5, TaskStepKeeps
<1>6. CASE UNCHANGED tunUdpVars
  BY <1>6 DEF tunUdpVars, UdpInv, Holding, NetRecord, TasksKeyed, LookupsKeyed, EchoesNamed, Held, WaitsFor
<1> QED BY <1>1, <1>2, <1>3, <1>4, <1>5, <1>6 DEF TunUdpNext

LEMMA UdpInvOwned == UdpInv => UdpFlowsOwned
<1> SUFFICES ASSUME UdpInv PROVE UdpFlowsOwned
  OBVIOUS
<1>1. net \in Holding({}, net.echo, net.gens)
  BY DEF UdpInv
<1>2. UdpTasksOwned
  BY <1>1 DEF Holding, TasksKeyed, UdpTasksOwned
<1>3. \A f : WaitsFor(net, f) => f \in DeferredFlows
  BY DEF WaitsFor, DeferredFlows
<1>4. TrackedHasOwner
  BY <1>1, <1>3 DEF Holding, Held, TrackedHasOwner
<1> QED BY <1>2, <1>4 DEF UdpFlowsOwned

(* UdpFlowsOwned for every set of flows, sources and destinations and any  *)
(* capacity of the channels: however packets, results, replays, sweeps and *)
(* closes interleave in the loop task of doradus-tun, the flow index       *)
(* agrees with the tasks, no task outlives its flows, and a tracked flow   *)
(* has a task or a lookup that will end it.                                *)
THEOREM UdpFlowsAlwaysOwned == TunUdpSpec => []UdpFlowsOwned
<1>1. TunUdpInit => UdpInv
  BY TunUdpInitInv
<1>2. UdpInv /\ [TunUdpNext]_tunUdpVars => UdpInv'
  BY UdpStepKeeps
<1>3. UdpInv => UdpFlowsOwned
  BY UdpInvOwned
<1> QED BY <1>1, <1>2, <1>3, PTL DEF TunUdpSpec
=============================================================================
