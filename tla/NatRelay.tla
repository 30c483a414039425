------------------------------ MODULE NatRelay ------------------------------
(***************************************************************************)
(* UdpNatRelay of doradus-core nat.rs: a socket that carries one full-cone *)
(* source and records it in the shared NAT table.  A relay is named by the *)
(* endpoint its socket is bound to.  Its own mapping is under a lock of    *)
(* the relay, the table under another: send_to holds the first over two    *)
(* uses of the second, and other relays come between them.                 *)
(***************************************************************************)
EXTENDS NatTable

CONSTANT udp    (* Network::Udp                                            *)

ASSUME RelayNetwork == udp \in Networks

VARIABLES
  mapping,      (* relay -> the NatKey it owns, or nothing                 *)
  sending,      (* relay -> the send_to between touch and insert           *)
  sweeping,     (* relay -> its sweep is between sweep and the lookup      *)
  receiving,    (* relay -> the recv_from after it read the mapping        *)
  releasing     (* relay -> the source a close took and has yet to remove  *)

relayVars == <<vars, mapping, sending, sweeping, receiving, releasing>>

NoKey == <<>>
Idle == <<>>

(* A NatKey is a source and the destination last used.                     *)
SourceKey(m) == m[1]

Assign(r, m) == mapping' = [mapping EXCEPT ![r] = m]

(* send_to and sweep hold the lock of the mapping over two table calls.    *)
Locked(r) == sending[r] # Idle \/ sweeping[r]

(* send_to up to touch: another source is refused, a binding of another    *)
(* endpoint is used and then refused, an expired one is dropped.           *)
RelaySend(r, s, d) ==
  LET k == <<udp, s>> IN
  /\ ~Locked(r)
  /\ mapping[r] # NoKey => SourceKey(mapping[r]) = k
  /\ IF k \in DOMAIN entries /\ ~IsExpired(k)
     THEN /\ Use(k, d)
          /\ IF entries[k].translated = r THEN Assign(r, <<k, d>>) ELSE UNCHANGED mapping
          /\ UNCHANGED sending
     ELSE /\ sending' = [sending EXCEPT ![r] = <<k, d>>]
          /\ UNCHANGED mapping
          /\ IF k \in DOMAIN entries THEN Expire({k}) ELSE UNCHANGED vars
  /\ UNCHANGED <<sweeping, receiving, releasing>>

(* ... and from insert on; the lock of the mapping is still held, so the   *)
(* mapping is written before anyone can read it.                           *)
RelayInsert(r) ==
  LET k == sending[r][1]  d == sending[r][2] IN
  /\ sending[r] # Idle
  /\ sending' = [sending EXCEPT ![r] = Idle]
  /\ \/ (InsertReuse(k, d, r) \/ InsertNew(k, d, r)) /\ Assign(r, <<k, d>>)
     \/ /\ IF k \in DOMAIN entries THEN entries[k].translated # r
           ELSE ~EndpointIsFree(k, r) \/ allocations = MaxAllocations
        /\ UNCHANGED <<vars, mapping>>
  /\ UNCHANGED <<sweeping, receiving, releasing>>

(* lookup_translated of the relay's own endpoint: a live binding is        *)
(* refreshed, an expired one removed.                                      *)
EndpointLives(r) ==
  LET ep == <<udp, r>> IN
  /\ ep \in DOMAIN translated /\ translated[ep] \in DOMAIN entries
  /\ ~IsExpired(translated[ep])

LookupOwn(r) == LookupTranslated(<<udp, r>>) \/ (<<udp, r>> \notin DOMAIN translated /\ UNCHANGED vars)

(* recv_from: the mapping is copied; without one the packet is refused.    *)
RelayReceive(r) ==
  /\ ~Locked(r)
  /\ receiving[r] = Idle /\ mapping[r] # NoKey
  /\ receiving' = [receiving EXCEPT ![r] = <<"lookup", mapping[r]>>]
  /\ UNCHANGED <<vars, mapping, sending, sweeping, releasing>>

(* ... its endpoint is looked up, whoever it carries by now ...            *)
RelayLookup(r) ==
  /\ receiving[r] # Idle /\ receiving[r][1] = "lookup"
  /\ LookupOwn(r)
  /\ receiving' = [receiving EXCEPT ![r] =
       IF EndpointLives(r) THEN <<"touch", @[2]>> ELSE Idle]
  /\ UNCHANGED <<mapping, sending, sweeping, releasing>>

(* ... and the binding of the copy is touched, wherever it is by now.      *)
RelayTouch(r) ==
  LET m == receiving[r][2] IN
  /\ receiving[r] # Idle /\ receiving[r][1] = "touch"
  /\ IF SourceKey(m) \in DOMAIN entries THEN Touch(SourceKey(m), m[2]) ELSE UNCHANGED vars
  /\ receiving' = [receiving EXCEPT ![r] = Idle]
  /\ UNCHANGED <<mapping, sending, sweeping, releasing>>

(* sweep: when something expired and the relay has a mapping ...           *)
RelaySweep(r) ==
  /\ ~Locked(r)
  /\ Sweep
  /\ sweeping' = [sweeping EXCEPT ![r] = (mapping[r] # NoKey)]
  /\ UNCHANGED <<mapping, sending, receiving, releasing>>

(* ... it is forgotten unless its endpoint still carries a binding, which  *)
(* the lookup refreshes.                                                   *)
RelaySweepLookup(r) ==
  /\ sweeping[r]
  /\ LookupOwn(r)
  /\ IF EndpointLives(r) THEN UNCHANGED mapping ELSE Assign(r, NoKey)
  /\ sweeping' = [sweeping EXCEPT ![r] = FALSE]
  /\ UNCHANGED <<sending, receiving, releasing>>

(* close and Drop: the mapping is taken, its lock is let go ...  One close *)
(* of a relay is under way at a time.                                      *)
RelayClose(r) ==
  /\ ~Locked(r)
  /\ releasing[r] = NoKey /\ mapping[r] # NoKey
  /\ releasing' = [releasing EXCEPT ![r] = SourceKey(mapping[r])]
  /\ Assign(r, NoKey)
  /\ UNCHANGED <<vars, sending, sweeping, receiving>>

(* Mutant of RelayRelease: the table keeps the source.                     *)
RelayForget(r) ==
  /\ releasing[r] # NoKey
  /\ releasing' = [releasing EXCEPT ![r] = NoKey]
  /\ UNCHANGED <<vars, mapping, sending, sweeping, receiving>>

(* ... and then remove_source, whoever binds the source by now.            *)
RelayRelease(r) ==
  /\ releasing[r] # NoKey
  /\ releasing' = [releasing EXCEPT ![r] = NoKey]
  /\ IF releasing[r] \in DOMAIN entries THEN CloseBinding(releasing[r]) ELSE UNCHANGED vars
  /\ UNCHANGED <<mapping, sending, sweeping, receiving>>

-----------------------------------------------------------------------------
RelayInit ==
  /\ Init
  /\ mapping = [r \in Endpoints |-> NoKey]
  /\ sending = [r \in Endpoints |-> Idle]
  /\ sweeping = [r \in Endpoints |-> FALSE]
  /\ receiving = [r \in Endpoints |-> Idle]
  /\ releasing = [r \in Endpoints |-> NoKey]

RelayNext ==
  \/ \E r \in Endpoints :
       \/ \E s \in Sources, d \in Destinations : RelaySend(r, s, d)
       \/ RelayInsert(r)
       \/ RelayReceive(r) \/ RelayLookup(r) \/ RelayTouch(r)
       \/ RelaySweep(r) \/ RelaySweepLookup(r)
       \/ RelayClose(r) \/ RelayRelease(r)
  \/ Tick /\ UNCHANGED <<mapping, sending, sweeping, receiving, releasing>>

RelaySpec == RelayInit /\ [][RelayNext]_relayVars

-----------------------------------------------------------------------------
(* Every binding of a relay's endpoint is one the relay has yet to         *)
(* release: the source of its mapping, or the one a close has taken and is *)
(* about to remove.  So once a close has returned, a relay without a       *)
(* mapping leaves no binding on its endpoint, even when bindings expire,   *)
(* sources move between relays and sends, receives and sweeps of the same  *)
(* relay come between the locks it takes.                                  *)
BindingsHaveOwner ==
  \A k \in DOMAIN entries :
    LET r == entries[k].translated IN
    r \in Endpoints =>
      \/ mapping[r] # NoKey /\ SourceKey(mapping[r]) = k
      \/ releasing[r] = k
=============================================================================
