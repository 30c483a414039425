----------------------------- MODULE FakeIpPool -----------------------------
(***************************************************************************)
(* The persistent FakeIP pool of doradus-store (fakeip_pool_v4.rs over     *)
(* fakeip_store.rs).  A DNS answer hands a client a synthetic address; the *)
(* packets the client later sends to it are mapped back to the domain      *)
(* through the reverse index, so an address must not change owner while a  *)
(* client may still hold it, whatever expiry, eviction, storage errors and *)
(* restarts do.                                                            *)
(*                                                                         *)
(* Every public operation runs under the pool's async mutex and the        *)
(* ConfigStore calls inside it are synchronous SQLite transactions, so an  *)
(* operation is one action; a storage error between two transactions of an *)
(* operation is an action of its own, and a crash forgets the memory half  *)
(* of the state.  Addresses are offsets from config.start.                 *)
(***************************************************************************)
EXTENDS Naturals, FiniteSets, Maps

CONSTANTS
  Domains,        (* domain names clients ask for                          *)
  Size,           (* config.size(): number of addresses of the range       *)
  MaxEntries,     (* options.max_entries                                   *)
  TtlSeconds,     (* options.ttl_seconds                                   *)
  TouchInterval,  (* options.touch_interval_seconds                        *)
  MaxTime         (* bound on the wall clock                               *)

(* What open_with_prefix validates before it builds a pool.                *)
ASSUME PoolOptions ==
  /\ Size \in Nat \ {0}
  /\ MaxEntries \in 1 .. Size
  /\ TtlSeconds \in Nat \ {0}
  /\ TouchInterval \in Nat \ {0}
  /\ MaxTime \in Nat

(* A database holds finitely many rows.                                    *)
ASSUME FiniteDomains == IsFiniteSet(Domains)

Addresses == 0 .. Size - 1
Outside == Size         (* any value the range does not contain             *)
NoCursor == Size + 1    (* no cursor row / no legacy cursor key             *)

VARIABLES
  now,       (* unix_now(), the wall clock                                 *)
  up,        (* the process runs with the pool open                        *)
  (* struct State, lost by a crash *)
  next,      (* ring cursor                                                *)
  forward,   (* domain -> Mapping4                                         *)
  reverse,   (* address -> domain                                          *)
  reserved,  (* address -> last_used_at of a row of an overlapping prefix  *)
  (* SQLite, survives a crash *)
  rows,      (* fakeip_entries of this prefix: domain -> row               *)
  cursor,    (* fakeip_cursors row of this prefix                          *)
  foreign,   (* rows of other prefixes inside the range: address -> time   *)
  legacy,    (* key/value mappings "fakeip/map/": domain -> address        *)
  legacyNext,(* key "fakeip/next"                                          *)
  (* history *)
  answered   (* address -> the last answer a client got for it             *)

memory  == <<up, next, forward, reverse, reserved>>
durable == <<rows, cursor, foreign, legacy, legacyNext>>
vars    == <<now, memory, durable, answered>>

Mapping == [address: Addresses, last_used_at: Nat, persisted_last_used_at: Nat]
Row     == [address: Addresses, last_used_at: Nat]
Answer  == [domain: Domains, at: Nat]

-----------------------------------------------------------------------------
(* fn expired_at *)
Expired(t) == now >= t /\ now - t >= TtlSeconds

(* The first step of allocate_at: reserved.retain(|t| !expired_at(t)).     *)
UnexpiredReserved == Drop(reserved, {a \in DOMAIN reserved : Expired(reserved[a])})

ExpiredDomains == {d \in DOMAIN forward : Expired(forward[d].last_used_at)}

AddressesOf(f, D) == {f[d].address : d \in D}

(* The client receives address a for d; the promise about a former owner   *)
(* of a ends with it.                                                      *)
Tell(d, a) == answered' = Put(answered, a, [domain |-> d, at |-> now])

-----------------------------------------------------------------------------
(* Mutant of TouchDue: the use is written one second too late.             *)
TouchDueLate(d) == now > forward[d].persisted_last_used_at + TouchInterval

(* allocate_at, the domain has a live mapping: the use is remembered in    *)
(* memory, and written to the row only once per touch interval.            *)
TouchDue(d) == now >= forward[d].persisted_last_used_at + TouchInterval

AllocateHit(d) ==
  /\ up /\ d \in DOMAIN forward \ ExpiredDomains
  /\ reserved' = UnexpiredReserved
  /\ IF TouchDue(d)
     THEN /\ rows' = IF d \in DOMAIN rows
                     THEN [rows EXCEPT ![d].last_used_at = now] ELSE rows
          /\ forward' = [forward EXCEPT ![d].last_used_at = now,
                                        ![d].persisted_last_used_at = now]
     ELSE /\ forward' = [forward EXCEPT ![d].last_used_at = now]
          /\ UNCHANGED rows
  /\ Tell(d, forward[d].address)
  /\ UNCHANGED <<now, up, next, reverse, cursor, foreign, legacy, legacyNext>>

(* The first transaction of an allocation fails (the touch, the delete of  *)
(* the expired mapping, the sweep or the replacement): the caller gets the *)
(* error, and only the quarantine was purged.                              *)
AllocateFirstTransactionFails(d) ==
  /\ up
  /\ d \in DOMAIN forward \ ExpiredDomains => TouchDue(d)
  /\ reserved' = UnexpiredReserved
  /\ UNCHANGED <<now, up, next, forward, reverse, durable, answered>>

-----------------------------------------------------------------------------
(* allocate_at, no live mapping: expired mappings leave the store and the  *)
(* indexes, then the domain takes the address of the least recently used   *)
(* mapping when the pool is full, else the first free address at or after  *)
(* the cursor.                                                             *)
Full(f) == Cardinality(DOMAIN f) >= MaxEntries

LeastRecentlyUsed(f) ==
  {v \in DOMAIN f : \A d \in DOMAIN f : f[v].last_used_at <= f[d].last_used_at}

(* Mutants of Free: the quarantine, or the index of the owners, is not     *)
(* looked up.                                                              *)
FreeIgnoringReserved(rev, res) == {a \in Addresses : a \notin DOMAIN rev}
FreeIgnoringOwners(rev, res) == {a \in Addresses : a \notin DOMAIN res}

Free(rev, res) == {a \in Addresses : a \notin DOMAIN rev /\ a \notin DOMAIN res}

(* The scan of the ring from the cursor: nothing free is skipped.          *)
FirstFree(rev, res, a) ==
  \E offset \in Addresses :
    /\ a = (next + offset) % Size
    /\ a \in Free(rev, res)
    /\ \A o \in Addresses : o < offset => (next + o) % Size \notin Free(rev, res)

(* Mutant of ReplaceEntry: a stale owner of the address keeps its row.     *)
ReplaceEntryOnly(table, d, a, evicted) ==
  Put(table, d, [address |-> a, last_used_at |-> now])

(* replace_fakeip_entry: one transaction deletes the rows of the domain,   *)
(* of the evicted domain and of any stale owner of the address, inserts    *)
(* the new row and moves the cursor.                                       *)
ReplaceEntry(table, d, a, evicted) ==
  Put(Drop(table, {d} \cup evicted
                  \cup {e \in DOMAIN table : table[e].address = a}),
      d, [address |-> a, last_used_at |-> now])

(* Mutant of Install: the evicted mapping stays in the forward index.      *)
InstallKeepingEvicted(f, rev, d, a, evicted) ==
  /\ next' = (a + 1) % Size
  /\ cursor' = next'
  /\ rows' = ReplaceEntry(Drop(rows, ExpiredDomains), d, a, evicted)
  /\ reverse' = Put(Drop(rev, AddressesOf(f, evicted)), a, d)
  /\ forward' = Put(f, d, [address |-> a, last_used_at |-> now,
                           persisted_last_used_at |-> now])
  /\ Tell(d, a)

Install(f, rev, d, a, evicted) ==
  /\ next' = (a + 1) % Size
  /\ cursor' = next'
  /\ rows' = ReplaceEntry(Drop(rows, ExpiredDomains), d, a, evicted)
  /\ reverse' = Put(Drop(rev, AddressesOf(f, evicted)), a, d)
  /\ forward' = Put(Drop(f, evicted), d,
                    [address |-> a, last_used_at |-> now,
                     persisted_last_used_at |-> now])
  /\ Tell(d, a)

AllocateMiss(d) ==
  LET f   == Drop(forward, ExpiredDomains)
      rev == Drop(reverse, AddressesOf(forward, ExpiredDomains))
      res == UnexpiredReserved
  IN /\ up /\ d \notin DOMAIN f
     /\ reserved' = res
     /\ \/ /\ Full(f)
           /\ \E v \in LeastRecentlyUsed(f) : Install(f, rev, d, f[v].address, {v})
        \/ /\ ~Full(f)
           /\ \E a \in Addresses : FirstFree(rev, res, a) /\ Install(f, rev, d, a, {})
     /\ UNCHANGED <<now, up, foreign, legacy, legacyNext>>

(* "FakeIP pool is exhausted", or the replace transaction fails: the       *)
(* expired mappings are gone already and the caller gets an error.         *)
AllocateFails(d) ==
  LET f == Drop(forward, ExpiredDomains)
  IN /\ up /\ d \notin DOMAIN f
     /\ reserved' = UnexpiredReserved
     /\ forward' = f
     /\ reverse' = Drop(reverse, AddressesOf(forward, ExpiredDomains))
     /\ rows' = Drop(rows, ExpiredDomains)
     /\ UNCHANGED <<now, up, next, cursor, foreign, legacy, legacyNext, answered>>

(* The transaction that sweeps the other expired mappings fails after the  *)
(* expired mapping of the domain itself was deleted.                       *)
AllocateSweepFails(d) ==
  /\ up /\ d \in ExpiredDomains /\ ExpiredDomains # {d}
  /\ reserved' = UnexpiredReserved
  /\ forward' = Drop(forward, {d})
  /\ reverse' = Drop(reverse, {forward[d].address})
  /\ rows' = Drop(rows, {d})
  /\ UNCHANGED <<now, up, next, cursor, foreign, legacy, legacyNext, answered>>

-----------------------------------------------------------------------------
(* release: the row goes first, then both indexes.  The promise to the     *)
(* clients of the address ends by request.                                 *)
Release(d) ==
  /\ up /\ d \in DOMAIN forward
  /\ rows' = Drop(rows, {d})
  /\ forward' = Drop(forward, {d})
  /\ reverse' = Drop(reverse, {forward[d].address})
  /\ answered' = Drop(answered, {forward[d].address})
  /\ UNCHANGED <<now, up, next, reserved, cursor, foreign, legacy, legacyNext>>

(* flush_touches: every delayed use is written in one transaction.         *)
FlushTouches ==
  LET due == {d \in DOMAIN forward :
                forward[d].last_used_at # forward[d].persisted_last_used_at}
  IN /\ up /\ due # {}
     /\ rows' = [d \in DOMAIN rows |->
                   IF d \in due
                   THEN [rows[d] EXCEPT !.last_used_at = forward[d].last_used_at]
                   ELSE rows[d]]
     /\ forward' = [d \in DOMAIN forward |->
                      [forward[d] EXCEPT !.persisted_last_used_at =
                                           forward[d].last_used_at]]
     /\ UNCHANGED <<now, up, next, reverse, reserved, cursor, foreign,
                    legacy, legacyNext, answered>>

-----------------------------------------------------------------------------
(* load_legacy_v4: the key/value mappings inside the range; of the keys    *)
(* that share an address one is taken, the first the store lists.          *)
LegacyEntries ==
  LET inRange == {d \in DOMAIN legacy : legacy[d] \in Addresses}
  IN {[d \in K |-> [address |-> legacy[d], last_used_at |-> now]] :
        K \in {K \in SUBSET inRange :
                 /\ \A d, e \in K : legacy[d] = legacy[e] => d = e
                 /\ \A d \in inRange : \E e \in K : legacy[d] = legacy[e]}}

TypedEntriesAbsent == DOMAIN rows = {}

SourceEntries == IF TypedEntriesAbsent THEN LegacyEntries ELSE {rows}

Quarantine == Drop(foreign, {a \in DOMAIN foreign : Expired(foreign[a])})

Usable(src) == {d \in DOMAIN src : src[d].address \notin DOMAIN Quarantine}
Dead(src) == {d \in Usable(src) : Expired(src[d].last_used_at)}
Live(src) == Usable(src) \ Dead(src)

(* Mutant of IsTrim: an over-full table is loaded as it is.                *)
NoTrim(src, T) == T = {}

(* Over capacity the least recently used entries are trimmed.              *)
IsTrim(src, T) ==
  /\ T \in SUBSET Live(src)
  /\ Cardinality(T) = IF Cardinality(Live(src)) > MaxEntries
                      THEN Cardinality(Live(src)) - MaxEntries ELSE 0
  /\ \A t \in T, k \in Live(src) \ T : src[t].last_used_at <= src[k].last_used_at

(* Mutant of LoadedCursor: the loaded cursor is not normalised.            *)
RawCursor ==
  IF cursor # NoCursor THEN cursor
  ELSE IF TypedEntriesAbsent THEN legacyNext ELSE NoCursor

(* normalize_next_v4 of the typed cursor, else of the legacy one.          *)
LoadedCursor ==
  LET raw == IF cursor # NoCursor THEN cursor
             ELSE IF TypedEntriesAbsent THEN legacyNext ELSE NoCursor
  IN IF raw \in Addresses THEN raw ELSE 0

(* open_with_prefix: memory is rebuilt from the rows; a pool whose typed   *)
(* table is empty takes over the legacy keys and deletes them in the       *)
(* transaction that writes the typed rows.                                 *)
Open ==
  /\ ~up
  /\ \E src \in SourceEntries : \E T \in SUBSET Domains :
       LET kept == Live(src) \ T
           imports == TypedEntriesAbsent /\ (kept # {} \/ DOMAIN legacy # {})
       IN /\ IsTrim(src, T)
          /\ up' = TRUE
          /\ next' = LoadedCursor
          /\ reserved' = Quarantine
          /\ forward' = [d \in kept |->
                           [address |-> src[d].address,
                            last_used_at |-> src[d].last_used_at,
                            persisted_last_used_at |-> src[d].last_used_at]]
          /\ reverse' = [a \in AddressesOf(src, kept) |->
                           CHOOSE d \in kept : src[d].address = a]
          /\ rows' = IF TypedEntriesAbsent
                     THEN [d \in kept |-> src[d]] ELSE Drop(rows, Dead(src) \cup T)
          /\ cursor' = IF imports THEN LoadedCursor ELSE cursor
          /\ legacy' = IF imports THEN EmptyMap ELSE legacy
          /\ legacyNext' = IF imports THEN NoCursor ELSE legacyNext
          /\ answered' = Drop(answered, AddressesOf(src, T))
  /\ UNCHANGED <<now, foreign>>

(* The process stops, or storage fails, after the expired rows were        *)
(* deleted and before the pool is open.                                    *)
OpenInterrupted ==
  /\ ~up /\ ~TypedEntriesAbsent
  /\ rows' = Drop(rows, Dead(rows))
  /\ UNCHANGED <<now, memory, cursor, foreign, legacy, legacyNext, answered>>

Crash ==
  /\ up
  /\ up' = FALSE
  /\ next' = 0
  /\ forward' = EmptyMap
  /\ reverse' = EmptyMap
  /\ reserved' = EmptyMap
  /\ UNCHANGED <<now, durable, answered>>

Tick ==
  /\ now < MaxTime
  /\ now' = now + 1
  /\ UNCHANGED <<memory, durable, answered>>

-----------------------------------------------------------------------------
PartialMaps(K, V) == UNION {[S -> V] : S \in SUBSET K}

(* The UNIQUE(family, prefix, ip) index of fakeip_entries.                 *)
UniqueAddresses(table) ==
  \A d, e \in DOMAIN table : table[d].address = table[e].address => d = e

(* The process starts on a database an earlier run left behind.            *)
Init ==
  /\ now \in 0 .. MaxTime
  /\ up = FALSE
  /\ next = 0
  /\ forward = EmptyMap
  /\ reverse = EmptyMap
  /\ reserved = EmptyMap
  /\ rows \in {r \in PartialMaps(Domains, [address: Addresses, last_used_at: 0 .. now]) :
                 UniqueAddresses(r)}
  /\ cursor \in Addresses \cup {Outside, NoCursor}
  /\ foreign \in PartialMaps(Addresses, 0 .. now)
  /\ legacy \in PartialMaps(Domains, Addresses \cup {Outside})
  /\ legacyNext \in Addresses \cup {Outside, NoCursor}
  /\ answered = EmptyMap

Allocate(d) ==
  \/ AllocateHit(d)
  \/ AllocateFirstTransactionFails(d)
  \/ AllocateMiss(d)
  \/ AllocateFails(d)
  \/ AllocateSweepFails(d)

Next ==
  \/ \E d \in Domains : Allocate(d) \/ Release(d)
  \/ FlushTouches
  \/ Open
  \/ OpenInterrupted
  \/ Crash
  \/ Tick

Spec == Init /\ [][Next]_vars
-----------------------------------------------------------------------------
TypeOK ==
  /\ now \in Nat
  /\ up \in BOOLEAN
  /\ next \in Addresses
  /\ DOMAIN forward \subseteq Domains /\ forward \in [DOMAIN forward -> Mapping]
  /\ DOMAIN reverse \subseteq Addresses /\ reverse \in [DOMAIN reverse -> Domains]
  /\ DOMAIN reserved \subseteq Addresses /\ reserved \in [DOMAIN reserved -> Nat]
  /\ DOMAIN rows \subseteq Domains /\ rows \in [DOMAIN rows -> Row]
  /\ cursor \in Addresses \cup {Outside, NoCursor}
  /\ DOMAIN foreign \subseteq Addresses /\ foreign \in [DOMAIN foreign -> Nat]
  /\ DOMAIN legacy \subseteq Domains
  /\ legacy \in [DOMAIN legacy -> Addresses \cup {Outside}]
  /\ legacyNext \in Addresses \cup {Outside, NoCursor}
  /\ DOMAIN answered \subseteq Addresses /\ answered \in [DOMAIN answered -> Answer]

(* The two in-memory indexes are inverse to each other: no address serves  *)
(* two domains and no reverse entry outlives its mapping, although every   *)
(* operation of fakeip_pool_v4.rs updates them separately.                 *)
IndexesAgree ==
  /\ \A d \in DOMAIN forward :
       /\ forward[d].address \in DOMAIN reverse
       /\ reverse[forward[d].address] = d
  /\ \A a \in DOMAIN reverse :
       /\ reverse[a] \in DOMAIN forward
       /\ forward[reverse[a]].address = a

(* What memory serves is on disk: every mapping has its row, at the same   *)
(* address, with the time memory believes it persisted, which lags the     *)
(* last use by less than a touch interval; no two rows share an address.   *)
MemoryIsDurable ==
  /\ UniqueAddresses(rows)
  /\ \A d \in DOMAIN forward :
       /\ d \in DOMAIN rows
       /\ rows[d].address = forward[d].address
       /\ rows[d].last_used_at = forward[d].persisted_last_used_at
       /\ forward[d].last_used_at < forward[d].persisted_last_used_at + TouchInterval

(* An address a client was given resolves back to the domain it was given  *)
(* for, for a TTL less one touch interval after the answer, across expiry  *)
(* sweeps, storage errors, crashes and reopenings.  The promise ends early *)
(* only by release or by eviction of a full pool.                          *)
AnswersStayResolvable ==
  \A a \in DOMAIN answered :
    up /\ now + TouchInterval <= answered[a].at + TtlSeconds
      => a \in DOMAIN reverse /\ reverse[a] = answered[a].domain

(* The comment of list_fakeip_entries_in_range: an address that a row of   *)
(* an overlapping prefix still owns is never handed out.                   *)
QuarantineRespected ==
  \A a \in DOMAIN reverse : a \in DOMAIN foreign => Expired(foreign[a])

(* The pool never holds more mappings than options.max_entries, whatever   *)
(* the tables held when it was opened.                                     *)
CapacityRespected == Cardinality(DOMAIN forward) <= MaxEntries

(* An open pool is within what its options and the tables allow, whatever  *)
(* they held when it was opened: the cursor in range, the indexes inverse, *)
(* no quarantined address in use, no mapping over the limit.               *)
PoolConsistent == TypeOK /\ IndexesAgree /\ QuarantineRespected /\ CapacityRespected

(* A step of a running pool gives an address to another domain only when   *)
(* its owner expired, or when the pool is full and the owner is the least  *)
(* recently used of the mappings that are not expired.                     *)
RebindIsExpiryOrLru ==
  \A a \in DOMAIN reverse \cap DOMAIN reverse' :
    reverse'[a] # reverse[a] =>
      \/ reverse[a] \in ExpiredDomains
      \/ LET live == Drop(forward, ExpiredDomains)
         IN Full(live) /\ reverse[a] \in LeastRecentlyUsed(live)

NoEarlyRebind == [][RebindIsExpiryOrLru]_vars
=============================================================================
