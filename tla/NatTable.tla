------------------------------ MODULE NatTable ------------------------------
(***************************************************************************)
(* The endpoint-independent (full-cone) NAT table of doradus-core nat.rs.  *)
(* A binding belongs to a source, whatever the destination; the table      *)
(* keeps the bindings, the reverse index from translated endpoints to      *)
(* sources, a count of the destinations in use and lifecycle counters, and *)
(* each operation updates them one by one under a single mutex.  Calls     *)
(* that only return an error or a miss change nothing and are stuttering.  *)
(***************************************************************************)
EXTENDS Naturals, FiniteSets, Maps

CONSTANTS
  Networks,        (* Network::Tcp, Network::Udp                           *)
  Sources,         (* original source addresses                            *)
  Destinations,    (* destination addresses                                *)
  Endpoints,       (* translated addresses                                 *)
  IdleTimeout,     (* idle_timeout, non-zero                               *)
  MaxTime,         (* bound on the clock                                   *)
  MaxAllocations   (* bound on the bindings ever made                      *)

ASSUME NatOptions ==
  /\ IdleTimeout \in Nat \ {0}
  /\ MaxTime \in Nat
  /\ MaxAllocations \in Nat

BindingKeys == Networks \X Sources
EndpointKeys == Networks \X Endpoints

VARIABLES
  now,                 (* Instant::now()                                   *)
  entries,             (* NatBindingKey -> NatBinding                      *)
  translated,          (* NatEndpointKey -> NatBindingKey                  *)
  active_destinations, (* destinations of all bindings                     *)
  allocations,         (* counters of NatMetrics                           *)
  expired_bindings,
  explicit_closes

vars == <<now, entries, translated, active_destinations,
          allocations, expired_bindings, explicit_closes>>

Binding == [translated: Endpoints, last_seen: Nat, destinations: SUBSET Destinations]

-----------------------------------------------------------------------------
(* NatEntry::is_expired *)
IsExpired(k) == now - entries[k].last_seen >= IdleTimeout

ExpiredKeys == {k \in DOMAIN entries : IsExpired(k)}

EndpointOf(k) == <<k[1], entries[k].translated>>

(* binding.destinations.len(), over the bindings of K.                     *)
DestinationCount(K) ==
  SumFunction([k \in K |-> Cardinality(entries[k].destinations)])

(* NatState::remove_binding for every key of K.                            *)
RemoveBindings(K) ==
  /\ entries' = Drop(entries, K)
  /\ translated' = Drop(translated, {EndpointOf(k) : k \in K})
  /\ active_destinations' = active_destinations - DestinationCount(K)

Expire(K) ==
  /\ RemoveBindings(K)
  /\ expired_bindings' = expired_bindings + Cardinality(K)
  /\ UNCHANGED <<now, allocations, explicit_closes>>

(* Mutant of CloseBinding: the close is not counted.                       *)
CloseUncounted(k) ==
  /\ RemoveBindings({k})
  /\ UNCHANGED <<now, allocations, expired_bindings, explicit_closes>>

CloseBinding(k) ==
  /\ RemoveBindings({k})
  /\ explicit_closes' = explicit_closes + 1
  /\ UNCHANGED <<now, allocations, expired_bindings>>

(* Mutant of Use: a destination in use is counted again.                   *)
UseRecounted(k, d) ==
  /\ entries' = [entries EXCEPT ![k].last_seen = now,
                               ![k].destinations = @ \cup {d}]
  /\ active_destinations' = active_destinations + 1
  /\ UNCHANGED <<now, translated, allocations, expired_bindings, explicit_closes>>

(* The binding is used for destination d: last_seen and the destinations.  *)
Use(k, d) ==
  /\ entries' = [entries EXCEPT
                   ![k].last_seen = now,
                   ![k].destinations = @ \cup {d}]
  /\ active_destinations' = active_destinations
       + (IF d \in entries[k].destinations THEN 0 ELSE 1)
  /\ UNCHANGED <<now, translated, allocations, expired_bindings, explicit_closes>>

Refresh(k) ==
  /\ entries' = [entries EXCEPT ![k].last_seen = now]
  /\ UNCHANGED <<now, translated, active_destinations,
                 allocations, expired_bindings, explicit_closes>>

-----------------------------------------------------------------------------
(* insert, the source has a binding (expired or not): it must already use  *)
(* the endpoint.                                                           *)
InsertReuse(k, d, e) ==
  /\ k \in DOMAIN entries
  /\ entries[k].translated = e
  /\ Use(k, d)

(* Mutant of EndpointIsFree: the owner of the endpoint is not looked up.   *)
AnyEndpoint(k, e) == TRUE

(* insert, the source has none: the endpoint must not be owned.            *)
EndpointIsFree(k, e) ==
  <<k[1], e>> \in DOMAIN translated => translated[<<k[1], e>>] = k

InsertNew(k, d, e) ==
  /\ k \notin DOMAIN entries
  /\ EndpointIsFree(k, e)
  /\ allocations < MaxAllocations
  /\ entries' = Put(entries, k, [translated |-> e, last_seen |-> now,
                                 destinations |-> {d}])
  /\ translated' = Put(translated, <<k[1], e>>, k)
  /\ active_destinations' = active_destinations + 1
  /\ allocations' = allocations + 1
  /\ UNCHANGED <<now, expired_bindings, explicit_closes>>

(* touch *)
Touch(k, d) ==
  /\ k \in DOMAIN entries
  /\ IF IsExpired(k) THEN Expire({k}) ELSE Use(k, d)

(* Mutant of BindTranslated: the placeholder stays in the reverse index.   *)
BindKeepingPlaceholder(k, e) ==
  /\ k \in DOMAIN entries
  /\ EndpointIsFree(k, e)
  /\ entries' = [entries EXCEPT ![k].translated = e, ![k].last_seen = now]
  /\ translated' = Put(translated, <<k[1], e>>, k)
  /\ UNCHANGED <<now, active_destinations,
                 allocations, expired_bindings, explicit_closes>>

(* bind_translated: the source moves from its placeholder to the endpoint  *)
(* its transport acquired.                                                 *)
BindTranslated(k, e) ==
  /\ k \in DOMAIN entries
  /\ \/ /\ IsExpired(k)
        /\ Expire({k})
     \/ /\ ~IsExpired(k)
        /\ entries[k].translated = e
        /\ Refresh(k)
     \/ /\ ~IsExpired(k)
        /\ entries[k].translated # e
        /\ EndpointIsFree(k, e)
        /\ entries' = [entries EXCEPT ![k].translated = e, ![k].last_seen = now]
        /\ translated' = Put(Drop(translated, {EndpointOf(k)}), <<k[1], e>>, k)
        /\ UNCHANGED <<now, active_destinations,
                       allocations, expired_bindings, explicit_closes>>

(* Mutants of RemoveDestination: the last destination leaves the binding   *)
(* open; or a destination that is not in use is subtracted.                *)
RemoveWithoutClosing(k, d) ==
  /\ k \in DOMAIN entries
  /\ d \in entries[k].destinations
  /\ entries' = [entries EXCEPT ![k].destinations = @ \ {d}]
  /\ active_destinations' = active_destinations - 1
  /\ UNCHANGED <<now, translated, allocations, expired_bindings, explicit_closes>>
RemoveUnchecked(k, d) ==
  /\ k \in DOMAIN entries
  /\ entries' = [entries EXCEPT ![k].destinations = @ \ {d}]
  /\ active_destinations' = active_destinations - 1
  /\ UNCHANGED <<now, translated, allocations, expired_bindings, explicit_closes>>

(* remove: one destination leaves; the last one closes the binding.        *)
RemoveDestination(k, d) ==
  /\ k \in DOMAIN entries
  /\ IF entries[k].destinations \subseteq {d}
     THEN CloseBinding(k)
     ELSE /\ entries' = [entries EXCEPT ![k].destinations = @ \ {d}]
          /\ active_destinations' = active_destinations
               - (IF d \in entries[k].destinations THEN 1 ELSE 0)
          /\ UNCHANGED <<now, translated, allocations, expired_bindings,
                         explicit_closes>>

RemoveSource(k) ==
  /\ k \in DOMAIN entries
  /\ CloseBinding(k)

(* sweep_keys *)
Sweep ==
  /\ ExpiredKeys # {}
  /\ Expire(ExpiredKeys)

(* lookup_translated: a packet from any peer to the endpoint keeps the     *)
(* binding alive.                                                          *)
LookupTranslated(ep) ==
  /\ ep \in DOMAIN translated
  /\ translated[ep] \in DOMAIN entries
  /\ IF IsExpired(translated[ep]) THEN Expire({translated[ep]})
                                  ELSE Refresh(translated[ep])

(* lookup_source expires, and does not refresh.                            *)
LookupSource(k) ==
  /\ k \in DOMAIN entries
  /\ IsExpired(k)
  /\ Expire({k})

Tick ==
  /\ now < MaxTime
  /\ now' = now + 1
  /\ UNCHANGED <<entries, translated, active_destinations,
                 allocations, expired_bindings, explicit_closes>>

-----------------------------------------------------------------------------
Init ==
  /\ now = 0
  /\ entries = EmptyMap
  /\ translated = EmptyMap
  /\ active_destinations = 0
  /\ allocations = 0
  /\ expired_bindings = 0
  /\ explicit_closes = 0

Next ==
  \/ \E k \in BindingKeys, d \in Destinations :
       \/ \E e \in Endpoints : InsertReuse(k, d, e) \/ InsertNew(k, d, e)
       \/ Touch(k, d)
       \/ RemoveDestination(k, d)
  \/ \E k \in BindingKeys :
       \/ \E e \in Endpoints : BindTranslated(k, e)
       \/ RemoveSource(k)
       \/ LookupSource(k)
  \/ \E ep \in EndpointKeys : LookupTranslated(ep)
  \/ Sweep
  \/ Tick

Spec == Init /\ [][Next]_vars
-----------------------------------------------------------------------------
TableShape ==
  /\ now \in Nat
  /\ DOMAIN entries \subseteq BindingKeys
  /\ entries \in [DOMAIN entries -> Binding]
  /\ DOMAIN translated \subseteq EndpointKeys
  /\ translated \in [DOMAIN translated -> BindingKeys]
  /\ allocations \in Nat /\ expired_bindings \in Nat /\ explicit_closes \in Nat

TypeOK == TableShape /\ active_destinations \in Nat

(* The table and its reverse index describe the same bindings: a packet to *)
(* a translated endpoint reaches the one source that is translated to it,  *)
(* and no endpoint is lost when a binding expires, closes or moves.        *)
IndexesAgree ==
  /\ \A k \in DOMAIN entries :
       /\ EndpointOf(k) \in DOMAIN translated
       /\ translated[EndpointOf(k)] = k
  /\ \A ep \in DOMAIN translated :
       /\ translated[ep] \in DOMAIN entries
       /\ EndpointOf(translated[ep]) = ep

(* active_destinations, kept by increments and decrements in six places,   *)
(* is the number of destinations the bindings hold, so the decrement of    *)
(* remove_binding cannot underflow.                                        *)
DestinationsCounted == active_destinations = DestinationCount(DOMAIN entries)

(* Every binding that was allocated is live, expired or closed, each       *)
(* exactly once: the gauges and the counters of NatStats agree.            *)
LifecycleConserved ==
  allocations = Cardinality(DOMAIN entries) + expired_bindings + explicit_closes

(* A binding always has a destination: a source nobody uses is closed.     *)
NoIdleBinding == \A k \in DOMAIN entries : entries[k].destinations # {}

(* The table, its reverse index and its counters describe the same bindings, *)
(* each with a destination, through expiry, closing and moves.             *)
NatConsistent == IndexesAgree /\ LifecycleConserved /\ NoIdleBinding

(* No operation takes an endpoint from the source that owns it: in one     *)
(* step an endpoint keeps its owner or becomes free.                       *)
OwnerKept ==
  \A ep \in DOMAIN translated \cap DOMAIN translated' : translated'[ep] = translated[ep]

NoEndpointStolen == [][OwnerKept]_vars
=============================================================================
