-------------------------- MODULE FakeIpPoolProofs --------------------------
(***************************************************************************)
(* What the FakeIP pool keeps for every range, capacity, TTL and touch     *)
(* interval, through any number of allocations, expiries, storage errors,  *)
(* crashes and reopenings.                                                 *)
(***************************************************************************)
EXTENDS FakeIpView, FakeIpImport, FiniteSetTheorems, TLAPS

(* The tables of the pool, in memory (f, rev) and on disk (tbl).           *)
Shape(f, rev, tbl) ==
  /\ DOMAIN f \subseteq Domains /\ f \in [DOMAIN f -> Mapping]
  /\ DOMAIN rev \subseteq Addresses /\ rev \in [DOMAIN rev -> Domains]
  /\ DOMAIN tbl \subseteq Domains /\ tbl \in [DOMAIN tbl -> Row]

Agree(f, rev) ==
  /\ \A d \in DOMAIN f : f[d].address \in DOMAIN rev /\ rev[f[d].address] = d
  /\ \A a \in DOMAIN rev : rev[a] \in DOMAIN f /\ f[rev[a]].address = a

Durable(f, tbl) ==
  /\ UniqueAddresses(tbl)
  /\ \A d \in DOMAIN f :
       /\ d \in DOMAIN tbl
       /\ tbl[d].address = f[d].address
       /\ tbl[d].last_used_at = f[d].persisted_last_used_at
       /\ f[d].last_used_at < f[d].persisted_last_used_at + TouchInterval

Tables(f, rev, tbl) == Shape(f, rev, tbl) /\ Agree(f, rev) /\ Durable(f, tbl)

(* What holds of memory and rows even where the indexes disagree.          *)
Sound == TypeOK /\ UniqueAddresses(rows)

(* The addresses of the prefix are natural numbers, so a cursor is one.    *)
LEMMA AddressesAreNaturals == Addresses \subseteq Nat
BY PoolOptions DEF Addresses

-----------------------------------------------------------------------------
(* Mappings that leave both indexes and the table together, as expired and *)
(* released ones do, leave the tables consistent.                          *)
LEMMA DropKeepsTables ==
  ASSUME NEW f, NEW rev, NEW tbl, Tables(f, rev, tbl), NEW E \in SUBSET DOMAIN f
  PROVE  Tables(Drop(f, E), Drop(rev, AddressesOf(f, E)), Drop(tbl, E))
<1> USE DEF Tables, Drop, Restrict, AddressesOf
<1>1. Shape(Drop(f, E), Drop(rev, AddressesOf(f, E)), Drop(tbl, E))
  BY DEF Shape
<1>2. Agree(Drop(f, E), Drop(rev, AddressesOf(f, E)))
  BY DEF Agree
<1>3. Durable(Drop(f, E), Drop(tbl, E))
  BY DEF Durable, UniqueAddresses
<1> QED BY <1>1, <1>2, <1>3

(* A domain without a mapping takes an address nobody else holds once the  *)
(* evicted mappings are gone: replace_fakeip_entry and the update of both  *)
(* indexes leave the tables consistent.                                    *)
LEMMA InstallKeepsTables ==
  ASSUME NEW f, NEW rev, NEW tbl, Tables(f, rev, tbl), now \in Nat,
         NEW evicted \in SUBSET DOMAIN f,
         NEW d \in Domains, d \notin DOMAIN f,
         NEW a \in Addresses, a \notin DOMAIN rev \ AddressesOf(f, evicted)
  PROVE  Tables(Put(Drop(f, evicted), d,
                    [address |-> a, last_used_at |-> now, persisted_last_used_at |-> now]),
                Put(Drop(rev, AddressesOf(f, evicted)), a, d),
                ReplaceEntry(tbl, d, a, evicted))
<1> DEFINE m  == [address |-> a, last_used_at |-> now, persisted_last_used_at |-> now]
           F  == Put(Drop(f, evicted), d, m)
           R  == Put(Drop(rev, AddressesOf(f, evicted)), a, d)
           T  == ReplaceEntry(tbl, d, a, evicted)
           gone == {d} \cup evicted \cup {e \in DOMAIN tbl : tbl[e].address = a}
<1>1. /\ DOMAIN F = (DOMAIN f \ evicted) \cup {d} /\ F[d] = m
      /\ \A x \in DOMAIN f \ evicted : F[x] = f[x]
  BY DEF Put, Drop, Restrict
<1>2. /\ DOMAIN R = (DOMAIN rev \ AddressesOf(f, evicted)) \cup {a} /\ R[a] = d
      /\ \A x \in DOMAIN rev \ AddressesOf(f, evicted) : R[x] = rev[x]
  BY DEF Put, Drop, Restrict
<1>3. /\ DOMAIN T = (DOMAIN tbl \ gone) \cup {d}
      /\ T[d] = [address |-> a, last_used_at |-> now]
      /\ \A x \in DOMAIN tbl \ gone : T[x] = tbl[x]
  BY DEF ReplaceEntry, Put, Drop, Restrict
<1>4. Shape(F, R, T)
  BY DEF Tables, Shape, ReplaceEntry, Put, Drop, Restrict, Mapping, Row
(* The mappings that stay hold other addresses: a has no owner but an      *)
(* evicted one.                                                            *)
<1>5. \A x \in DOMAIN f \ evicted : /\ f[x].address # a
                                    /\ f[x].address \notin AddressesOf(f, evicted)
  BY DEF Tables, Agree, AddressesOf
<1> HIDE DEF F, R, T, gone
<1>6. Agree(F, R)
  BY <1>1, <1>2, <1>5 DEF Tables, Agree, AddressesOf
<1>7. Durable(F, T)
  <2>1. \A x \in DOMAIN tbl \ gone : tbl[x].address # a
    BY DEF gone
  <2>2. UniqueAddresses(T)
    BY <1>3, <2>1 DEF Tables, Durable, UniqueAddresses
  <2>3. \A x \in DOMAIN f \ evicted : x \in DOMAIN tbl \ gone /\ x # d
    BY <1>5 DEF Tables, Durable, gone
  <2>4. now < now + TouchInterval
    BY PoolOptions
  <2> QED BY <1>1, <1>3, <2>2, <2>3, <2>4 DEF Tables, Durable
<1> QED BY <1>4, <1>6, <1>7 DEF Tables, F, R, T

-----------------------------------------------------------------------------
(* Unexpired rows of overlapping prefixes are in the quarantine of an open *)
(* pool, and no address that is served is theirs.                          *)
Quarantined ==
  /\ up => \A a \in DOMAIN foreign :
             ~Expired(foreign[a]) => a \in DOMAIN reserved /\ reserved[a] = foreign[a]
  /\ QuarantineRespected

(* What stands behind an answer that is still promised: a row young enough *)
(* to survive a reopening, at an address the quarantine does not claim,    *)
(* and in an open pool the mapping itself.                                 *)
Promised(a, ans) == now + TouchInterval <= ans[a].at + TtlSeconds

Backed(f, tbl, ans, open) ==
  \A a \in DOMAIN ans : Promised(a, ans) =>
    LET d == ans[a].domain
    IN /\ d \in DOMAIN tbl /\ tbl[d].address = a
       /\ ans[a].at < tbl[d].last_used_at + TouchInterval
       /\ a \in DOMAIN foreign => Expired(foreign[a])
       /\ open => /\ d \in DOMAIN f /\ f[d].address = a
                  /\ ans[a].at < f[d].last_used_at + TouchInterval

Inv ==
  /\ TypeOK
  /\ Tables(forward, reverse, rows)
  /\ Quarantined
  /\ CapacityRespected
  /\ Backed(forward, rows, answered, up)

(* Nothing young enough to be promised has expired.                        *)
LEMMA PromisedIsUnexpired ==
  ASSUME TypeOK, NEW a \in DOMAIN answered, Promised(a, answered),
         NEW t \in Nat, answered[a].at < t + TouchInterval
  PROVE  ~Expired(t)
<1>1. answered[a].at \in Nat
  BY DEF TypeOK, Answer
<1> QED BY <1>1, PoolOptions DEF TypeOK, Promised, Expired

(* The purge of the quarantine keeps every unexpired address.              *)
LEMMA PurgeKeepsQuarantine ==
  ASSUME TypeOK
  PROVE  /\ DOMAIN UnexpiredReserved \subseteq Addresses
         /\ UnexpiredReserved \in [DOMAIN UnexpiredReserved -> Nat]
         /\ \A a \in DOMAIN reserved : ~Expired(reserved[a]) =>
              a \in DOMAIN UnexpiredReserved /\ UnexpiredReserved[a] = reserved[a]
BY DEF TypeOK, UnexpiredReserved, Drop, Restrict

(* The mapping behind a promised answer is not among the expired ones.     *)
LEMMA PromisedIsLive ==
  ASSUME TypeOK, Backed(forward, rows, answered, up), up,
         NEW a \in DOMAIN answered, Promised(a, answered)
  PROVE  answered[a].domain \in DOMAIN forward \ ExpiredDomains
<1>1. /\ answered[a].domain \in DOMAIN forward
      /\ answered[a].at < forward[answered[a].domain].last_used_at + TouchInterval
  BY DEF Backed
<1>2. forward[answered[a].domain].last_used_at \in Nat
  BY <1>1 DEF TypeOK, Mapping
<1> QED BY <1>1, <1>2, PromisedIsUnexpired DEF ExpiredDomains

-----------------------------------------------------------------------------
(* Mappings leave the pool: Inv survives if no promised answer is theirs.  *)
LEMMA ShrinkKeepsInv ==
  ASSUME Inv, up, NEW E \in SUBSET DOMAIN forward, NEW A,
         forward' = Drop(forward, E),
         reverse' = Drop(reverse, AddressesOf(forward, E)),
         rows' = Drop(rows, E),
         reserved' \in {reserved, UnexpiredReserved},
         answered' = Drop(answered, A),
         \A a \in DOMAIN answered \ A : Promised(a, answered) => answered[a].domain \notin E,
         UNCHANGED <<now, up, next, cursor, foreign, legacy, legacyNext>>
  PROVE  Inv'
<1>1. Tables(forward, reverse, rows)'
  BY DropKeepsTables DEF Inv
<1>2. TypeOK'
  <2>1. Shape(forward, reverse, rows)'
    BY <1>1 DEF Tables
  <2>2. DOMAIN reserved' \subseteq Addresses /\ reserved' \in [DOMAIN reserved' -> Nat]
    BY PurgeKeepsQuarantine DEF Inv, TypeOK
  <2>3. DOMAIN answered' \subseteq Addresses /\ answered' \in [DOMAIN answered' -> Answer]
    BY DEF Inv, TypeOK, Drop, Restrict
  <2> QED BY <2>1, <2>2, <2>3 DEF Inv, TypeOK, Shape
<1>3. Quarantined'
  <2>1. DOMAIN reverse' \subseteq DOMAIN reverse
    BY DEF Drop, Restrict
  <2>2. \A a \in DOMAIN foreign : Expired(foreign[a])' <=> Expired(foreign[a])
    BY DEF Expired
  <2>3. QuarantineRespected'
    BY <2>1, <2>2 DEF Inv, Quarantined, QuarantineRespected
  <2>4. up' => \A a \in DOMAIN foreign' :
          ~Expired(foreign[a])' => a \in DOMAIN reserved' /\ reserved'[a] = foreign'[a]
    BY <2>2, PurgeKeepsQuarantine DEF Inv, Quarantined
  <2> QED BY <2>3, <2>4 DEF Quarantined
<1>4. CapacityRespected'
  <2>1. IsFiniteSet(DOMAIN forward)
    BY FiniteDomains, FS_Subset DEF Inv, TypeOK
  <2>2. DOMAIN forward' \in SUBSET DOMAIN forward
    BY DEF Drop, Restrict
  <2>3. Cardinality(DOMAIN forward') <= Cardinality(DOMAIN forward)
    BY <2>1, <2>2, FS_Subset
  <2>4. Cardinality(DOMAIN forward) \in Nat /\ Cardinality(DOMAIN forward') \in Nat
    BY <2>1, <2>2, FS_Subset, FS_CardinalityType
  <2> QED BY <2>3, <2>4, PoolOptions DEF Inv, CapacityRespected
<1>5. Backed(forward, rows, answered, up)'
  <2> SUFFICES ASSUME NEW a \in DOMAIN answered', Promised(a, answered)'
               PROVE  LET d == answered'[a].domain
                      IN /\ d \in DOMAIN rows' /\ rows'[d].address = a
                         /\ answered'[a].at < rows'[d].last_used_at + TouchInterval
                         /\ a \in DOMAIN foreign' => Expired(foreign[a])'
                         /\ d \in DOMAIN forward' /\ forward'[d].address = a
                         /\ answered'[a].at < forward'[d].last_used_at + TouchInterval
    BY DEF Backed
  <2>1. /\ a \in DOMAIN answered \ A /\ answered'[a] = answered[a]
        /\ Promised(a, answered)
    BY DEF Drop, Restrict, Promised
  <2>2. answered[a].domain \notin E
    BY <2>1
  <2>3. Expired(foreign[a])' <=> Expired(foreign[a])
    BY DEF Expired
  <2> QED BY <2>1, <2>2, <2>3 DEF Inv, Backed, Drop, Restrict
<1> QED BY <1>1, <1>2, <1>3, <1>4, <1>5 DEF Inv

(* release takes one mapping and its row, and withdraws its promise.       *)
LEMMA ReleaseKeepsInv ==
  ASSUME Inv, NEW d \in Domains, Release(d)
  PROVE  Inv'
<1>1. /\ up /\ {d} \in SUBSET DOMAIN forward
      /\ AddressesOf(forward, {d}) = {forward[d].address}
  BY DEF Release, AddressesOf
<1>2. \A a \in DOMAIN answered \ {forward[d].address} :
        Promised(a, answered) => answered[a].domain \notin {d}
  BY <1>1 DEF Inv, Backed
<1> QED BY <1>1, <1>2, ShrinkKeepsInv DEF Release

(* An exhausted pool or a failed install has only swept what expired.      *)
LEMMA AllocateFailsKeepsInv ==
  ASSUME Inv, NEW d \in Domains, AllocateFails(d)
  PROVE  Inv'
<1>1. up /\ ExpiredDomains \in SUBSET DOMAIN forward
  BY DEF AllocateFails, ExpiredDomains
<1>2. \A a \in DOMAIN answered \ {} :
        Promised(a, answered) => answered[a].domain \notin ExpiredDomains
  BY <1>1, PromisedIsLive DEF Inv
<1>3. answered' = Drop(answered, {})
  BY DEF AllocateFails, Inv, TypeOK, Drop, Restrict
<1> QED BY <1>1, <1>2, <1>3, ShrinkKeepsInv DEF AllocateFails

(* A failed sweep leaves an allocation with only its own domain deleted.   *)
LEMMA AllocateSweepFailsKeepsInv ==
  ASSUME Inv, NEW d \in Domains, AllocateSweepFails(d)
  PROVE  Inv'
<1>1. /\ up /\ {d} \in SUBSET DOMAIN forward /\ d \in ExpiredDomains
      /\ AddressesOf(forward, {d}) = {forward[d].address}
  BY DEF AllocateSweepFails, ExpiredDomains, AddressesOf
<1>2. \A a \in DOMAIN answered \ {} :
        Promised(a, answered) => answered[a].domain \notin {d}
  BY <1>1, PromisedIsLive DEF Inv
<1>3. answered' = Drop(answered, {})
  BY DEF AllocateSweepFails, Inv, TypeOK, Drop, Restrict
<1> QED BY <1>1, <1>2, <1>3, ShrinkKeepsInv DEF AllocateSweepFails

(* An allocation whose first transaction fails has purged the quarantine.  *)
LEMMA AllocateFirstFailsKeepsInv ==
  ASSUME Inv, NEW d \in Domains, AllocateFirstTransactionFails(d)
  PROVE  Inv'
<1>1. /\ up /\ {} \in SUBSET DOMAIN forward
      /\ forward' = Drop(forward, {}) /\ rows' = Drop(rows, {})
      /\ reverse' = Drop(reverse, AddressesOf(forward, {}))
      /\ answered' = Drop(answered, {})
  BY DEF AllocateFirstTransactionFails, Inv, TypeOK, Drop, Restrict, AddressesOf, durable
<1> QED BY <1>1, ShrinkKeepsInv DEF AllocateFirstTransactionFails, durable

-----------------------------------------------------------------------------
(* A hit renews the mapping in memory, and the row once per interval.      *)
LEMMA AllocateHitKeepsInv ==
  ASSUME Inv, NEW d \in Domains, AllocateHit(d)
  PROVE  Inv'
<1> DEFINE a == forward[d].address
<1>1. /\ up /\ d \in DOMAIN forward /\ d \in DOMAIN rows /\ now \in Nat
      /\ a \in Addresses /\ rows[d].address = a
      /\ rows[d].last_used_at = forward[d].persisted_last_used_at
      /\ forward[d].persisted_last_used_at \in Nat
      /\ now < now + TouchInterval
  BY PoolOptions DEF AllocateHit, Inv, TypeOK, Tables, Durable, Mapping
<1>2. /\ DOMAIN forward' = DOMAIN forward /\ forward' \in [DOMAIN forward -> Mapping]
      /\ DOMAIN rows' = DOMAIN rows /\ rows' \in [DOMAIN rows -> Row]
      /\ \A x \in DOMAIN forward : forward'[x].address = forward[x].address
      /\ \A x \in DOMAIN rows : rows'[x].address = rows[x].address
      /\ \A x \in DOMAIN forward : x # d => forward'[x] = forward[x]
      /\ \A x \in DOMAIN rows : x # d => rows'[x] = rows[x]
      /\ forward'[d].last_used_at = now
      /\ rows'[d].last_used_at = forward'[d].persisted_last_used_at
      /\ now < rows'[d].last_used_at + TouchInterval
  <2>1. CASE TouchDue(d)
    <3>1. /\ rows' = [rows EXCEPT ![d].last_used_at = now]
          /\ forward' = [forward EXCEPT ![d].last_used_at = now,
                                        ![d].persisted_last_used_at = now]
      BY <1>1, <2>1 DEF AllocateHit
    <3> QED BY <3>1, <1>1 DEF Inv, TypeOK, Mapping, Row
  <2>2. CASE ~TouchDue(d)
    <3>1. /\ rows' = rows
          /\ forward' = [forward EXCEPT ![d].last_used_at = now]
      BY <2>2 DEF AllocateHit
    <3>2. now < rows[d].last_used_at + TouchInterval
      BY <1>1, <2>2, PoolOptions DEF TouchDue
    <3> QED BY <3>1, <3>2, <1>1 DEF Inv, TypeOK, Mapping, Row
  <2> QED BY <2>1, <2>2
<1>3. /\ reverse' = reverse /\ reserved' = UnexpiredReserved
      /\ answered' = Put(answered, a, [domain |-> d, at |-> now])
      /\ UNCHANGED <<now, up, next, cursor, foreign, legacy, legacyNext>>
  BY DEF AllocateHit, Tell
<1>4. TypeOK'
  <2>1. DOMAIN answered' \subseteq Addresses /\ answered' \in [DOMAIN answered' -> Answer]
    BY <1>1, <1>3 DEF Inv, TypeOK, Put, Answer
  <2> QED BY <1>2, <1>3, <2>1, PurgeKeepsQuarantine DEF Inv, TypeOK
<1>5. Tables(forward, reverse, rows)'
  <2>1. Shape(forward, reverse, rows)'
    BY <1>4 DEF TypeOK, Shape
  <2>2. Agree(forward, reverse)'
    BY <1>2, <1>3 DEF Inv, Tables, Agree
  <2>3. Durable(forward, rows)'
    BY <1>1, <1>2 DEF Inv, Tables, Durable, UniqueAddresses
  <2> QED BY <2>1, <2>2, <2>3 DEF Tables
<1>6. \A x \in DOMAIN foreign : Expired(foreign[x])' <=> Expired(foreign[x])
  BY <1>3 DEF Expired
<1>7. Quarantined'
  BY <1>3, <1>6, PurgeKeepsQuarantine DEF Inv, Quarantined, QuarantineRespected
<1>8. CapacityRespected'
  BY <1>2 DEF Inv, CapacityRespected
<1>9. Backed(forward, rows, answered, up)'
  <2>1. a \in DOMAIN foreign => Expired(foreign[a])
    BY <1>1 DEF Inv, Tables, Agree, Quarantined, QuarantineRespected
  <2>2. answered'[a] = [domain |-> d, at |-> now]
    BY <1>3 DEF Put
  <2>3. \A x \in DOMAIN answered' : x # a => x \in DOMAIN answered /\ answered'[x] = answered[x]
    BY <1>3 DEF Put
  (* The promises on other addresses are about other domains.              *)
  <2>4. \A x \in DOMAIN answered : x # a /\ Promised(x, answered) => answered[x].domain # d
    BY <1>1 DEF Inv, Backed
  <2>5. \A x \in DOMAIN answered' : x # a /\ Promised(x, answered)' => Promised(x, answered)
    BY <1>3, <2>3 DEF Promised
  <2>6. rows'[d].address = a /\ forward'[d].address = a
    BY <1>1, <1>2
  <2> HIDE DEF a
  <2> SUFFICES ASSUME NEW x \in DOMAIN answered', Promised(x, answered)'
               PROVE  LET e == answered'[x].domain
                      IN /\ e \in DOMAIN rows' /\ rows'[e].address = x
                         /\ answered'[x].at < rows'[e].last_used_at + TouchInterval
                         /\ x \in DOMAIN foreign' => Expired(foreign[x])'
                         /\ e \in DOMAIN forward' /\ forward'[e].address = x
                         /\ answered'[x].at < forward'[e].last_used_at + TouchInterval
    BY DEF Backed
  <2>7. CASE x # a
    BY <1>1, <1>2, <1>3, <1>6, <2>3, <2>4, <2>5, <2>7 DEF Inv, Backed
  <2>8. CASE x = a
    <3>1. answered'[x].domain = d /\ answered'[x].at = now
      BY <2>2, <2>8
    <3>2. d \in DOMAIN rows' /\ d \in DOMAIN forward' /\ now < now + TouchInterval
      BY <1>1, <1>2
    <3>3. x \in DOMAIN foreign' => Expired(foreign[x])'
      BY <1>3, <1>6, <2>1, <2>8
    <3> QED BY <1>2, <2>6, <2>8, <3>1, <3>2, <3>3
  <2> QED BY <2>7, <2>8
<1> QED BY <1>4, <1>5, <1>7, <1>8, <1>9 DEF Inv

(* flush_touches writes what memory knows.                                 *)
LEMMA FlushKeepsInv ==
  ASSUME Inv, FlushTouches
  PROVE  Inv'
<1> DEFINE due == {d \in DOMAIN forward :
                     forward[d].last_used_at # forward[d].persisted_last_used_at}
<1>1. /\ DOMAIN rows' = DOMAIN rows /\ DOMAIN forward' = DOMAIN forward
      /\ \A d \in DOMAIN rows : rows'[d] =
           IF d \in due THEN [rows[d] EXCEPT !.last_used_at = forward[d].last_used_at]
                        ELSE rows[d]
      /\ \A d \in DOMAIN forward :
           forward'[d] = [forward[d] EXCEPT !.persisted_last_used_at = forward[d].last_used_at]
      /\ forward' = [d \in DOMAIN forward |-> forward'[d]]
      /\ rows' = [d \in DOMAIN rows |-> rows'[d]]
      /\ UNCHANGED <<now, up, next, reverse, reserved, cursor, foreign,
                     legacy, legacyNext, answered>>
  BY DEF FlushTouches
<1>2. \A d \in DOMAIN forward :
        /\ forward'[d] \in Mapping
        /\ forward'[d].address = forward[d].address
        /\ forward'[d].last_used_at = forward[d].last_used_at
        /\ forward'[d].persisted_last_used_at = forward[d].last_used_at
  BY <1>1 DEF Inv, TypeOK, Mapping
<1>3. \A d \in DOMAIN rows :
        /\ rows'[d] \in Row
        /\ rows'[d].address = rows[d].address
        /\ d \in DOMAIN forward => rows'[d].last_used_at = forward[d].last_used_at
        /\ d \notin DOMAIN forward => rows'[d] = rows[d]
  BY <1>1 DEF Inv, TypeOK, Mapping, Row, Tables, Durable
<1> HIDE DEF due
<1>4. TypeOK'
  BY <1>1, <1>2, <1>3 DEF Inv, TypeOK
<1>5. Tables(forward, reverse, rows)'
  <2>1. Shape(forward, reverse, rows)'
    BY <1>4 DEF TypeOK, Shape
  <2>2. Agree(forward, reverse)'
    BY <1>1, <1>2 DEF Inv, Tables, Agree
  <2>3. \A d \in DOMAIN forward : forward[d].last_used_at < forward[d].last_used_at + TouchInterval
    BY PoolOptions DEF Inv, TypeOK, Mapping
  <2>4. Durable(forward, rows)'
    BY <1>1, <1>2, <1>3, <2>3 DEF Inv, Tables, Durable, UniqueAddresses
  <2> QED BY <2>1, <2>2, <2>4 DEF Tables
<1>6. \A x \in DOMAIN foreign : Expired(foreign[x])' <=> Expired(foreign[x])
  BY <1>1 DEF Expired
<1>7. Quarantined' /\ CapacityRespected'
  BY <1>1, <1>6 DEF Inv, Quarantined, QuarantineRespected, CapacityRespected
<1>8. Backed(forward, rows, answered, up)'
  <2> SUFFICES ASSUME NEW a \in DOMAIN answered, Promised(a, answered)
               PROVE  LET d == answered[a].domain
                      IN /\ d \in DOMAIN rows /\ rows'[d].address = a
                         /\ answered[a].at < rows'[d].last_used_at + TouchInterval
                         /\ a \in DOMAIN foreign => Expired(foreign[a])
                         /\ up => /\ d \in DOMAIN forward /\ forward'[d].address = a
                                  /\ answered[a].at < forward'[d].last_used_at + TouchInterval
    BY <1>1, <1>6 DEF Backed, Promised
  <2>1. up
    BY DEF FlushTouches
  <2> QED BY <1>2, <1>3, <2>1 DEF Inv, Backed
<1> QED BY <1>4, <1>5, <1>7, <1>8 DEF Inv

-----------------------------------------------------------------------------
(* A miss installs the domain at a free address, or at the address of the  *)
(* evicted mapping.  In both cases nobody else holds the address, it is    *)
(* not quarantined, and the pool stays within its capacity.                *)
LEMMA InstallKeepsInv ==
  ASSUME Inv, up,
         NEW f, f = Drop(forward, ExpiredDomains),
         NEW rev, rev = Drop(reverse, AddressesOf(forward, ExpiredDomains)),
         NEW d \in Domains, d \notin DOMAIN f,
         NEW evicted \in SUBSET DOMAIN f,
         NEW a \in Addresses, a \notin DOMAIN rev \ AddressesOf(f, evicted),
         a \in DOMAIN foreign => Expired(foreign[a]),
         Cardinality((DOMAIN f \ evicted) \cup {d}) <= MaxEntries,
         \A x \in AddressesOf(f, evicted) : x = a,
         reserved' = UnexpiredReserved,
         Install(f, rev, d, a, evicted),
         UNCHANGED <<now, up, foreign, legacy, legacyNext>>
  PROVE  Inv'
<1> DEFINE tbl == Drop(rows, ExpiredDomains)
<1>1. Tables(f, rev, tbl)
  <2>1. ExpiredDomains \in SUBSET DOMAIN forward
    BY DEF ExpiredDomains
  <2> QED BY <2>1, DropKeepsTables DEF Inv
<1>2. Tables(forward, reverse, rows)'
  <2>1. now \in Nat
    BY DEF Inv, TypeOK
  <2> QED BY <1>1, <2>1, InstallKeepsTables DEF Install
<1>3. TypeOK'
  <2>1. next' \in Addresses
    BY PoolOptions, AddressesAreNaturals DEF Install, Addresses
  <2>2. DOMAIN answered' \subseteq Addresses /\ answered' \in [DOMAIN answered' -> Answer]
    BY DEF Install, Tell, Put, Inv, TypeOK, Answer
  <2>3. cursor' \in Addresses
    BY <2>1 DEF Install
  <2>4. Shape(forward, reverse, rows)'
    BY <1>2 DEF Tables
  <2> QED BY <2>1, <2>2, <2>3, <2>4, PurgeKeepsQuarantine DEF Shape, Inv, TypeOK
<1>4. \A x \in DOMAIN foreign : Expired(foreign[x])' <=> Expired(foreign[x])
  BY DEF Expired
<1>5. Quarantined'
  <2>1. DOMAIN reverse' \subseteq DOMAIN reverse \cup {a}
    BY DEF Install, Put, Drop, Restrict
  <2>2. QuarantineRespected'
    BY <1>4, <2>1 DEF Inv, Quarantined, QuarantineRespected
  <2> QED BY <1>4, <2>2, PurgeKeepsQuarantine DEF Inv, Quarantined
<1>6. CapacityRespected'
  <2>1. DOMAIN forward' = (DOMAIN f \ evicted) \cup {d}
    BY DEF Install, Put, Drop, Restrict
  <2> QED BY <2>1 DEF CapacityRespected
<1>7. Backed(forward, rows, answered, up)'
  <2>1. answered' = Put(answered, a, [domain |-> d, at |-> now])
    BY DEF Install, Tell
  <2> SUFFICES ASSUME NEW x \in DOMAIN answered', Promised(x, answered)'
               PROVE  LET e == answered'[x].domain
                      IN /\ e \in DOMAIN rows' /\ rows'[e].address = x
                         /\ answered'[x].at < rows'[e].last_used_at + TouchInterval
                         /\ x \in DOMAIN foreign' => Expired(foreign[x])'
                         /\ e \in DOMAIN forward' /\ forward'[e].address = x
                         /\ answered'[x].at < forward'[e].last_used_at + TouchInterval
    BY DEF Backed
  <2>2. CASE x = a
    <3>1. answered'[x] = [domain |-> d, at |-> now]
      BY <2>1, <2>2 DEF Put
    <3>2. /\ d \in DOMAIN forward' /\ d \in DOMAIN rows'
          /\ forward'[d] = [address |-> a, last_used_at |-> now, persisted_last_used_at |-> now]
          /\ rows'[d] = [address |-> a, last_used_at |-> now]
      BY DEF Install, Put, ReplaceEntry
    <3>3. now < now + TouchInterval
      BY PoolOptions DEF Inv, TypeOK
    <3> QED BY <1>4, <2>2, <3>1, <3>2, <3>3
  <2>3. CASE x # a
    <3> DEFINE e == answered[x].domain
    <3>1. x \in DOMAIN answered /\ answered'[x] = answered[x] /\ Promised(x, answered)
      BY <2>1, <2>3 DEF Put, Promised
    <3>2. e \in DOMAIN forward \ ExpiredDomains
      BY <3>1, PromisedIsLive DEF Inv
    <3>3. /\ e \in DOMAIN rows /\ rows[e].address = x /\ forward[e].address = x
          /\ answered[x].at < rows[e].last_used_at + TouchInterval
          /\ answered[x].at < forward[e].last_used_at + TouchInterval
          /\ x \in DOMAIN foreign => Expired(foreign[x])
      BY <3>1 DEF Inv, Backed
    <3>4. e \in DOMAIN f /\ f[e] = forward[e] /\ e # d /\ e \notin evicted
      BY <2>3, <3>2, <3>3 DEF Drop, Restrict, AddressesOf
    <3>5. e \in DOMAIN forward' /\ forward'[e] = forward[e]
      BY <3>4 DEF Install, Put, Drop, Restrict
    <3>6. e \in DOMAIN rows' /\ rows'[e] = rows[e]
      BY <2>3, <3>2, <3>3, <3>4 DEF Install, ReplaceEntry, Put, Drop, Restrict
    <3> QED BY <1>4, <3>1, <3>3, <3>5, <3>6
  <2> QED BY <2>2, <2>3
<1> QED BY <1>2, <1>3, <1>5, <1>6, <1>7 DEF Inv

(* A miss sweeps, evicts if the pool is full, and installs its domain.     *)
LEMMA AllocateMissKeepsInv ==
  ASSUME Inv, NEW d \in Domains, AllocateMiss(d)
  PROVE  Inv'
<1> DEFINE f   == Drop(forward, ExpiredDomains)
           rev == Drop(reverse, AddressesOf(forward, ExpiredDomains))
           res == UnexpiredReserved
<1>1. /\ up /\ d \notin DOMAIN f /\ reserved' = res
      /\ UNCHANGED <<now, up, foreign, legacy, legacyNext>>
  BY DEF AllocateMiss
<1>2. /\ DOMAIN f \subseteq DOMAIN forward /\ DOMAIN rev \subseteq DOMAIN reverse
      /\ \A x \in DOMAIN f : f[x] = forward[x]
  BY DEF Drop, Restrict
<1>3. /\ IsFiniteSet(DOMAIN f) /\ Cardinality(DOMAIN f) \in Nat
      /\ Cardinality(DOMAIN f) <= MaxEntries
  <2>1. IsFiniteSet(DOMAIN forward)
    BY FiniteDomains, FS_Subset DEF Inv, TypeOK
  <2>2. /\ IsFiniteSet(DOMAIN f) /\ Cardinality(DOMAIN f) <= Cardinality(DOMAIN forward)
        /\ Cardinality(DOMAIN f) \in Nat /\ Cardinality(DOMAIN forward) \in Nat
    BY <1>2, <2>1, FS_Subset, FS_CardinalityType
  <2> QED BY <2>2, PoolOptions DEF Inv, CapacityRespected
<1>4. CASE Full(f) /\ \E v \in LeastRecentlyUsed(f) : Install(f, rev, d, f[v].address, {v})
  <2>1. PICK v \in LeastRecentlyUsed(f) : Install(f, rev, d, f[v].address, {v})
    BY <1>4
  <2>2. v \in DOMAIN f /\ {v} \in SUBSET DOMAIN f
    BY DEF LeastRecentlyUsed
  <2>3. f[v].address \in Addresses /\ AddressesOf(f, {v}) = {f[v].address}
    BY <1>2, <2>2 DEF Inv, TypeOK, Mapping, AddressesOf
  <2>4. f[v].address \in DOMAIN foreign => Expired(foreign[f[v].address])
    BY <1>2, <2>2 DEF Inv, Tables, Agree, Quarantined, QuarantineRespected
  <2>5. Cardinality((DOMAIN f \ {v}) \cup {d}) <= MaxEntries
    <3>1. /\ IsFiniteSet(DOMAIN f \ {v})
          /\ Cardinality(DOMAIN f \ {v}) = Cardinality(DOMAIN f) - 1
      BY <1>3, <2>2, FS_RemoveElement
    <3>2. Cardinality((DOMAIN f \ {v}) \cup {d}) = Cardinality(DOMAIN f \ {v}) + 1
      BY <1>1, <3>1, FS_AddElement
    <3> QED BY <1>3, <3>1, <3>2, PoolOptions
  <2> HIDE DEF f, rev, res
  <2> QED BY <1>1, <2>1, <2>2, <2>3, <2>4, <2>5, InstallKeepsInv DEF f, rev, res
<1>5. CASE ~Full(f) /\ \E a \in Addresses : FirstFree(rev, res, a) /\ Install(f, rev, d, a, {})
  <2>1. PICK a \in Addresses : FirstFree(rev, res, a) /\ Install(f, rev, d, a, {})
    BY <1>5
  <2>2. a \notin DOMAIN rev /\ a \notin DOMAIN res
    BY <2>1 DEF FirstFree, Free
  <2>3. a \in DOMAIN foreign => Expired(foreign[a])
    BY <1>1, <2>2, PurgeKeepsQuarantine DEF Inv, Quarantined
  <2>4. {} \in SUBSET DOMAIN f /\ AddressesOf(f, {}) = {}
    BY DEF AddressesOf
  <2>5. Cardinality((DOMAIN f \ {}) \cup {d}) <= MaxEntries
    <3>1. DOMAIN f \ {} = DOMAIN f
      OBVIOUS
    <3>2. Cardinality(DOMAIN f \cup {d}) = Cardinality(DOMAIN f) + 1
      BY <1>1, <1>3, FS_AddElement
    <3>3. Cardinality(DOMAIN f) < MaxEntries
      BY <1>3, <1>5, PoolOptions DEF Full
    <3> QED BY <1>3, <3>1, <3>2, <3>3, PoolOptions
  <2> HIDE DEF f, rev, res
  <2> QED BY <1>1, <2>1, <2>2, <2>3, <2>4, <2>5, InstallKeepsInv DEF f, rev, res
<1> QED BY <1>4, <1>5 DEF AllocateMiss

-----------------------------------------------------------------------------
(* The legacy keys that open_with_prefix takes over are a table of rows:   *)
(* one domain per address, inside the range.                               *)
LEMMA SourceIsATable ==
  ASSUME Sound, NEW src \in SourceEntries
  PROVE  /\ DOMAIN src \subseteq Domains /\ src \in [DOMAIN src -> Row]
         /\ UniqueAddresses(src)
         /\ ~TypedEntriesAbsent => src = rows
<1>1. CASE ~TypedEntriesAbsent
  BY <1>1 DEF SourceEntries, Sound, TypeOK
<1>2. CASE TypedEntriesAbsent
  <2> DEFINE inRange == {d \in DOMAIN legacy : legacy[d] \in Addresses}
  <2>1. PICK K \in SUBSET inRange :
          /\ \A d, e \in K : legacy[d] = legacy[e] => d = e
          /\ src = [d \in K |-> [address |-> legacy[d], last_used_at |-> now]]
    BY <1>2 DEF SourceEntries, LegacyEntries
  <2>2. now \in Nat /\ DOMAIN legacy \subseteq Domains
    BY DEF Sound, TypeOK
  <2> QED BY <1>2, <2>1, <2>2 DEF Row, UniqueAddresses
<1> QED BY <1>1, <1>2

(* The trim leaves no more than max_entries.                               *)
LEMMA TrimmedFits ==
  ASSUME NEW src, DOMAIN src \subseteq Domains, NEW T, IsTrim(src, T)
  PROVE  Cardinality(Live(src) \ T) <= MaxEntries
<1>1. IsFiniteSet(Live(src)) /\ T \in SUBSET Live(src)
  BY FiniteDomains, FS_Subset DEF Live, Usable, IsTrim
<1>2. /\ IsFiniteSet(T) /\ Cardinality(T) \in Nat /\ Cardinality(Live(src)) \in Nat
      /\ Live(src) \cap T = T
  BY <1>1, FS_Subset, FS_CardinalityType
<1>3. Cardinality(Live(src) \ T) = Cardinality(Live(src)) - Cardinality(T)
  BY <1>1, <1>2, FS_Difference
<1> QED BY <1>2, <1>3, PoolOptions DEF IsTrim

(* open_with_prefix rebuilds consistent tables from any rows that share no *)
(* address.                                                                *)
LEMMA OpenRebuilds ==
  ASSUME Sound, Open
  PROVE  TypeOK' /\ Tables(forward, reverse, rows)'
<1>1. PICK src \in SourceEntries, T \in SUBSET Domains :
        LET kept == Live(src) \ T
            imports == TypedEntriesAbsent /\ (kept # {} \/ DOMAIN legacy # {})
        IN /\ IsTrim(src, T)
           /\ up' = TRUE
           /\ next' = LoadedCursor
           /\ reserved' = Quarantine
           /\ forward' = [d \in kept |->
                            [address |-> src[d].address,
                             last_used_at |-> src[d].last_used_at,
                             persisted_last_used_at |-> src[d].last_used_at]]
           /\ reverse' = [a \in AddressesOf(src, kept) |->
                            CHOOSE d \in kept : src[d].address = a]
           /\ rows' = IF TypedEntriesAbsent
                      THEN [d \in kept |-> src[d]] ELSE Drop(rows, Dead(src) \cup T)
           /\ cursor' = IF imports THEN LoadedCursor ELSE cursor
           /\ legacy' = IF imports THEN EmptyMap ELSE legacy
           /\ legacyNext' = IF imports THEN NoCursor ELSE legacyNext
           /\ answered' = Drop(answered, AddressesOf(src, T))
  BY DEF Open
<1> DEFINE kept == Live(src) \ T
<1>2. now' = now /\ foreign' = foreign
  BY DEF Open
<1>3. /\ DOMAIN src \subseteq Domains /\ src \in [DOMAIN src -> Row] /\ UniqueAddresses(src)
      /\ ~TypedEntriesAbsent => src = rows
  BY SourceIsATable
<1>4. /\ kept \subseteq DOMAIN src
      /\ \A d \in kept : d \notin Dead(src) /\ src[d].address \notin DOMAIN Quarantine
      /\ \A d \in kept : /\ src[d].address \in Addresses /\ src[d].last_used_at \in Nat
                         /\ src[d].last_used_at < src[d].last_used_at + TouchInterval
  BY <1>3, PoolOptions DEF Live, Usable, Row
<1>5. /\ DOMAIN reverse' = AddressesOf(src, kept)
      /\ \A a \in DOMAIN reverse' : reverse'[a] \in kept /\ src[reverse'[a]].address = a
  BY <1>1 DEF AddressesOf
<1>6. /\ DOMAIN forward' = kept
      /\ \A d \in kept : /\ forward'[d].address = src[d].address
                         /\ forward'[d].last_used_at = src[d].last_used_at
                         /\ forward'[d].persisted_last_used_at = src[d].last_used_at
  BY <1>1
<1>7. /\ DOMAIN rows' \subseteq Domains /\ rows' \in [DOMAIN rows' -> Row]
      /\ UniqueAddresses(rows')
      /\ kept \subseteq DOMAIN rows'
      /\ \A d \in kept : rows'[d] = src[d]
  <2>1. CASE TypedEntriesAbsent
    BY <1>1, <1>3, <1>4, <2>1 DEF UniqueAddresses
  <2>2. CASE ~TypedEntriesAbsent
    BY <1>1, <1>3, <1>4, <2>2 DEF UniqueAddresses, Drop, Restrict
  <2> QED BY <2>1, <2>2
<1>8. Shape(forward, reverse, rows)'
  <2>1. forward' \in [kept -> Mapping]
    BY <1>1, <1>4 DEF Mapping
  <2>2. DOMAIN reverse' \subseteq Addresses
    BY <1>4, <1>5 DEF AddressesOf
  <2>3. reverse' \in [DOMAIN reverse' -> Domains]
    BY <1>1, <1>3, <1>4, <1>5
  <2> QED BY <1>3, <1>4, <1>6, <1>7, <2>1, <2>2, <2>3 DEF Shape
<1>9. Tables(forward, reverse, rows)'
  <2>1. Agree(forward, reverse)'
    <3>1. \A d \in kept : src[d].address \in DOMAIN reverse'
      BY <1>5 DEF AddressesOf
    <3>2. \A d \in kept : reverse'[src[d].address] = d
      BY <1>3, <1>4, <1>5, <3>1 DEF UniqueAddresses
    <3> QED BY <1>5, <1>6, <3>1, <3>2 DEF Agree
  <2>2. Durable(forward, rows)'
    BY <1>4, <1>6, <1>7 DEF Durable
  <2> QED BY <1>8, <2>1, <2>2 DEF Tables
<1>10. TypeOK'
  <2>1. LoadedCursor \in Addresses
    BY PoolOptions DEF LoadedCursor, Addresses
  <2>2. DOMAIN reserved' \subseteq Addresses /\ reserved' \in [DOMAIN reserved' -> Nat]
    BY <1>1 DEF Sound, TypeOK, Quarantine, Drop, Restrict
  <2>3. DOMAIN answered' \subseteq Addresses /\ answered' \in [DOMAIN answered' -> Answer]
    BY <1>1 DEF Sound, TypeOK, Drop, Restrict
  <2>4. /\ DOMAIN legacy' \subseteq Domains
        /\ legacy' \in [DOMAIN legacy' -> Addresses \cup {Outside}]
    BY <1>1 DEF Sound, TypeOK, EmptyMap
  <2>5. cursor' \in Addresses \cup {Outside, NoCursor} /\ legacyNext' \in Addresses \cup {Outside, NoCursor}
    BY <1>1, <2>1 DEF Sound, TypeOK
  <2> QED BY <1>1, <1>2, <1>8, <2>1, <2>2, <2>3, <2>4, <2>5 DEF Sound, TypeOK, Shape
<1> QED BY <1>9, <1>10

(* open_with_prefix rebuilds consistent tables from any database.          *)
LEMMA OpenKeepsInv ==
  ASSUME Inv, Open
  PROVE  Inv'
<1>1. PICK src \in SourceEntries, T \in SUBSET Domains :
        LET kept == Live(src) \ T
            imports == TypedEntriesAbsent /\ (kept # {} \/ DOMAIN legacy # {})
        IN /\ IsTrim(src, T)
           /\ up' = TRUE
           /\ next' = LoadedCursor
           /\ reserved' = Quarantine
           /\ forward' = [d \in kept |->
                            [address |-> src[d].address,
                             last_used_at |-> src[d].last_used_at,
                             persisted_last_used_at |-> src[d].last_used_at]]
           /\ reverse' = [a \in AddressesOf(src, kept) |->
                            CHOOSE d \in kept : src[d].address = a]
           /\ rows' = IF TypedEntriesAbsent
                      THEN [d \in kept |-> src[d]] ELSE Drop(rows, Dead(src) \cup T)
           /\ cursor' = IF imports THEN LoadedCursor ELSE cursor
           /\ legacy' = IF imports THEN EmptyMap ELSE legacy
           /\ legacyNext' = IF imports THEN NoCursor ELSE legacyNext
           /\ answered' = Drop(answered, AddressesOf(src, T))
  BY DEF Open
<1> DEFINE kept == Live(src) \ T
<1>2. now' = now /\ foreign' = foreign
  BY DEF Open
<1>3. /\ DOMAIN src \subseteq Domains /\ src \in [DOMAIN src -> Row] /\ UniqueAddresses(src)
      /\ ~TypedEntriesAbsent => src = rows
  BY SourceIsATable DEF Sound, Inv, Tables, Durable
<1>4. /\ kept \subseteq DOMAIN src
      /\ \A d \in kept : d \notin Dead(src) /\ src[d].address \notin DOMAIN Quarantine
      /\ \A d \in kept : /\ src[d].address \in Addresses /\ src[d].last_used_at \in Nat
                         /\ src[d].last_used_at < src[d].last_used_at + TouchInterval
  BY <1>3, PoolOptions DEF Live, Usable, Row
<1>5. /\ DOMAIN reverse' = AddressesOf(src, kept)
      /\ \A a \in DOMAIN reverse' : reverse'[a] \in kept /\ src[reverse'[a]].address = a
  BY <1>1 DEF AddressesOf
<1>6. /\ DOMAIN forward' = kept
      /\ \A d \in kept : /\ forward'[d].address = src[d].address
                         /\ forward'[d].last_used_at = src[d].last_used_at
                         /\ forward'[d].persisted_last_used_at = src[d].last_used_at
  BY <1>1
<1>7. /\ DOMAIN rows' \subseteq Domains /\ rows' \in [DOMAIN rows' -> Row]
      /\ UniqueAddresses(rows')
      /\ kept \subseteq DOMAIN rows'
      /\ \A d \in kept : rows'[d] = src[d]
  <2>1. CASE TypedEntriesAbsent
    BY <1>1, <1>3, <1>4, <2>1 DEF UniqueAddresses
  <2>2. CASE ~TypedEntriesAbsent
    BY <1>1, <1>3, <1>4, <2>2 DEF UniqueAddresses, Drop, Restrict
  <2> QED BY <2>1, <2>2
<1>9. TypeOK' /\ Tables(forward, reverse, rows)'
  BY OpenRebuilds DEF Sound, Inv, Tables, Durable
<1>11. \A x \in DOMAIN foreign : Expired(foreign[x])' <=> Expired(foreign[x])
  BY <1>2 DEF Expired
<1>12. Quarantined'
  <2>1. \A a \in DOMAIN foreign : ~Expired(foreign[a]) =>
          a \in DOMAIN Quarantine /\ Quarantine[a] = foreign[a]
    BY DEF Quarantine, Drop, Restrict
  <2>2. \A a \in DOMAIN reverse' : a \notin DOMAIN Quarantine
    BY <1>4, <1>5
  <2> QED BY <1>1, <1>2, <1>11, <2>1, <2>2 DEF Quarantined, QuarantineRespected
<1>13. CapacityRespected'
  BY <1>1, <1>3, <1>6, TrimmedFits DEF CapacityRespected
(* The row behind a promised answer is unexpired and not quarantined, so   *)
(* it is loaded, unless the trim takes the promise back.                   *)
<1>14. Backed(forward, rows, answered, up)'
  <2> SUFFICES ASSUME NEW x \in DOMAIN answered', Promised(x, answered)'
               PROVE  LET e == answered'[x].domain
                      IN /\ e \in DOMAIN rows' /\ rows'[e].address = x
                         /\ answered'[x].at < rows'[e].last_used_at + TouchInterval
                         /\ x \in DOMAIN foreign' => Expired(foreign[x])'
                         /\ e \in DOMAIN forward' /\ forward'[e].address = x
                         /\ answered'[x].at < forward'[e].last_used_at + TouchInterval
    BY DEF Backed
  <2> DEFINE e == answered[x].domain
  <2>1. /\ x \in DOMAIN answered \ AddressesOf(src, T) /\ answered'[x] = answered[x]
        /\ Promised(x, answered)
    BY <1>1, <1>2 DEF Drop, Restrict, Promised
  <2>2. /\ e \in DOMAIN rows /\ rows[e].address = x
        /\ answered[x].at < rows[e].last_used_at + TouchInterval
        /\ x \in DOMAIN foreign => Expired(foreign[x])
    BY <2>1 DEF Inv, Backed
  <2>3. src = rows
    BY <1>3, <2>2 DEF TypedEntriesAbsent
  <2>4. ~Expired(rows[e].last_used_at)
    BY <2>1, <2>2, PromisedIsUnexpired DEF Inv, TypeOK, Row
  <2>5. x \notin DOMAIN Quarantine
    BY <2>2 DEF Quarantine, Drop, Restrict
  <2>6. e \in kept
    BY <2>1, <2>2, <2>3, <2>4, <2>5 DEF Live, Dead, Usable, AddressesOf
  <2> QED BY <1>2, <1>6, <1>7, <1>11, <2>1, <2>2, <2>3, <2>6
<1> QED BY <1>9, <1>12, <1>13, <1>14 DEF Inv

-----------------------------------------------------------------------------
(* A process that is down serves nothing.                                  *)
Closed == ~up => DOMAIN forward = {} /\ DOMAIN reverse = {}

(* A pool that is not open has empty indexes in memory.                    *)
LEMMA StepKeepsClosed == Closed /\ [Next]_vars => Closed'
<1> SUFFICES ASSUME Closed, [Next]_vars PROVE Closed'
  OBVIOUS
<1> USE DEF Closed
<1>1. ASSUME NEW d \in Domains, Allocate(d) PROVE Closed'
  BY <1>1 DEF Allocate, AllocateHit, AllocateFirstTransactionFails, AllocateMiss,
              AllocateFails, AllocateSweepFails
<1>2. ASSUME NEW d \in Domains, Release(d) PROVE Closed'
  BY <1>2 DEF Release
<1>3. CASE FlushTouches
  BY <1>3 DEF FlushTouches
<1>4. CASE Open
  BY <1>4 DEF Open
<1>5. CASE OpenInterrupted
  BY <1>5 DEF OpenInterrupted, memory
<1>6. CASE Crash
  BY <1>6 DEF Crash, EmptyMap
<1>7. CASE Tick
  BY <1>7 DEF Tick, memory
<1>8. CASE UNCHANGED vars
  BY <1>8 DEF vars, memory
<1> QED BY <1>1, <1>2, <1>3, <1>4, <1>5, <1>6, <1>7, <1>8 DEF Next

(* Only expired rows are deleted before the pool opens.                    *)
LEMMA OpenInterruptedKeepsInv ==
  ASSUME Inv, Closed, OpenInterrupted
  PROVE  Inv'
<1>1. /\ ~up /\ rows' = Drop(rows, Dead(rows))
      /\ UNCHANGED <<now, up, next, forward, reverse, reserved, cursor, foreign,
                     legacy, legacyNext, answered>>
  BY DEF OpenInterrupted, memory
<1>2. DOMAIN forward = {}
  BY <1>1 DEF Closed
<1>3. /\ DOMAIN rows' = DOMAIN rows \ Dead(rows)
      /\ \A d \in DOMAIN rows' : rows'[d] = rows[d]
      /\ rows' \in [DOMAIN rows' -> Row]
  BY <1>1 DEF Inv, TypeOK, Drop, Restrict
<1>4. TypeOK'
  BY <1>1, <1>3 DEF Inv, TypeOK
<1>5. Tables(forward, reverse, rows)'
  BY <1>1, <1>2, <1>3, <1>4 DEF Inv, TypeOK, Tables, Shape, Agree, Durable, UniqueAddresses
<1>6. \A x \in DOMAIN foreign : Expired(foreign[x])' <=> Expired(foreign[x])
  BY <1>1 DEF Expired
<1>7. Quarantined' /\ CapacityRespected'
  BY <1>1, <1>6 DEF Inv, Quarantined, QuarantineRespected, CapacityRespected
<1>8. Backed(forward, rows, answered, up)'
  <2>1. ASSUME NEW a \in DOMAIN answered, Promised(a, answered)
        PROVE  answered[a].domain \in DOMAIN rows'
    <3>1. /\ answered[a].domain \in DOMAIN rows
          /\ answered[a].at < rows[answered[a].domain].last_used_at + TouchInterval
      BY <2>1 DEF Inv, Backed
    <3>2. ~Expired(rows[answered[a].domain].last_used_at)
      BY <2>1, <3>1, PromisedIsUnexpired DEF Inv, TypeOK, Row
    <3> QED BY <1>3, <3>1, <3>2 DEF Dead
  <2>2. \A a \in DOMAIN answered : Promised(a, answered)' <=> Promised(a, answered)
    BY <1>1 DEF Promised
  <2> QED BY <1>1, <1>3, <1>6, <2>1, <2>2 DEF Inv, Backed
<1> QED BY <1>4, <1>5, <1>7, <1>8 DEF Inv

(* A crash empties memory; every promise is still backed by its row.       *)
LEMMA CrashKeepsInv ==
  ASSUME Inv, Crash
  PROVE  Inv'
<1>1. /\ up' = FALSE /\ next' = 0
      /\ forward' = EmptyMap /\ reverse' = EmptyMap /\ reserved' = EmptyMap
      /\ UNCHANGED <<now, rows, cursor, foreign, legacy, legacyNext, answered>>
  BY DEF Crash, durable
<1>2. 0 \in Addresses /\ DOMAIN EmptyMap = {}
  BY PoolOptions DEF Addresses, EmptyMap
<1>3. TypeOK'
  BY <1>1, <1>2 DEF Inv, TypeOK, EmptyMap
<1>4. Tables(forward, reverse, rows)'
  BY <1>1, <1>2, <1>3 DEF Inv, TypeOK, Tables, Shape, Agree, Durable
<1>5. CapacityRespected'
  BY <1>1, <1>2, FS_EmptySet, PoolOptions DEF CapacityRespected
<1>6. Quarantined'
  BY <1>1, <1>2 DEF Quarantined, QuarantineRespected
<1>7. Backed(forward, rows, answered, up)'
  <2>1. \A a \in DOMAIN answered : Promised(a, answered)' <=> Promised(a, answered)
    BY <1>1 DEF Promised
  <2>2. \A x \in DOMAIN foreign : Expired(foreign[x])' <=> Expired(foreign[x])
    BY <1>1 DEF Expired
  <2> QED BY <1>1, <2>1, <2>2 DEF Inv, Backed
<1> QED BY <1>3, <1>4, <1>5, <1>6, <1>7 DEF Inv

(* Time takes promises away and expires, and does nothing else.            *)
LEMMA TickKeepsInv ==
  ASSUME Inv, Tick
  PROVE  Inv'
<1>1. /\ now \in Nat /\ now' = now + 1
      /\ UNCHANGED <<up, next, forward, reverse, reserved, rows, cursor, foreign,
                     legacy, legacyNext, answered>>
  BY DEF Tick, memory, durable, Inv, TypeOK
<1>2. TypeOK' /\ Tables(forward, reverse, rows)' /\ CapacityRespected'
  BY <1>1 DEF Inv, TypeOK, Tables, Shape, Agree, Durable, UniqueAddresses, CapacityRespected
<1>3. \A x \in DOMAIN foreign : Expired(foreign[x]) => Expired(foreign[x])'
  BY <1>1, PoolOptions DEF Expired, Inv, TypeOK
<1>4. Quarantined'
  BY <1>1, <1>3 DEF Inv, Quarantined, QuarantineRespected
<1>5. \A a \in DOMAIN answered : Promised(a, answered)' => Promised(a, answered)
  BY <1>1, PoolOptions DEF Promised, Inv, TypeOK, Answer
<1>6. Backed(forward, rows, answered, up)'
  BY <1>1, <1>3, <1>5 DEF Inv, Backed
<1> QED BY <1>2, <1>4, <1>6 DEF Inv

(* A step that changes nothing keeps the invariant.                        *)
LEMMA StutterKeepsInv ==
  ASSUME Inv, UNCHANGED vars
  PROVE  Inv'
BY DEF Inv, vars, memory, durable, TypeOK, Tables, Shape, Agree, Durable, UniqueAddresses,
       Quarantined, QuarantineRespected, CapacityRespected, Backed, Promised, Expired

(* Every action of the pool keeps the inductive invariant.                 *)
LEMMA StepKeepsInv == Inv /\ Closed /\ [Next]_vars => Inv'
<1> SUFFICES ASSUME Inv, Closed, [Next]_vars PROVE Inv'
  OBVIOUS
<1>1. ASSUME NEW d \in Domains, Allocate(d) PROVE Inv'
  BY <1>1, AllocateHitKeepsInv, AllocateFirstFailsKeepsInv, AllocateMissKeepsInv,
     AllocateFailsKeepsInv, AllocateSweepFailsKeepsInv DEF Allocate
<1>2. ASSUME NEW d \in Domains, Release(d) PROVE Inv'
  BY <1>2, ReleaseKeepsInv
<1>3. CASE FlushTouches
  BY <1>3, FlushKeepsInv
<1>4. CASE Open
  BY <1>4, OpenKeepsInv
<1>5. CASE OpenInterrupted
  BY <1>5, OpenInterruptedKeepsInv
<1>6. CASE Crash
  BY <1>6, CrashKeepsInv
<1>7. CASE Tick
  BY <1>7, TickKeepsInv
<1>8. CASE UNCHANGED vars
  BY <1>8, StutterKeepsInv
<1> QED BY <1>1, <1>2, <1>3, <1>4, <1>5, <1>6, <1>7, <1>8 DEF Next

(* The invariant holds of the database before the first open.              *)
LEMMA InitEstablishesInv == Init => Inv /\ Closed
<1> SUFFICES ASSUME Init PROVE Inv /\ Closed
  OBVIOUS
<1>1. /\ now \in Nat /\ up = FALSE /\ next = 0 /\ 0 \in Addresses
      /\ forward = EmptyMap /\ reverse = EmptyMap /\ reserved = EmptyMap
      /\ answered = EmptyMap /\ DOMAIN EmptyMap = {}
  BY PoolOptions DEF Init, Addresses, EmptyMap
<1>2. /\ DOMAIN rows \subseteq Domains /\ rows \in [DOMAIN rows -> Row]
      /\ UniqueAddresses(rows)
  <2>1. rows \in PartialMaps(Domains, [address: Addresses, last_used_at: 0 .. now])
    BY DEF Init
  <2>2. PICK S \in SUBSET Domains : rows \in [S -> [address: Addresses, last_used_at: 0 .. now]]
    BY <2>1 DEF PartialMaps
  <2> QED BY <1>1, <2>2 DEF Init, Row
<1>3. DOMAIN foreign \subseteq Addresses /\ foreign \in [DOMAIN foreign -> Nat]
  <2>1. PICK S \in SUBSET Addresses : foreign \in [S -> 0 .. now]
    BY DEF Init, PartialMaps
  <2> QED BY <1>1, <2>1
<1>4. DOMAIN legacy \subseteq Domains /\ legacy \in [DOMAIN legacy -> Addresses \cup {Outside}]
  <2>1. PICK S \in SUBSET Domains : legacy \in [S -> Addresses \cup {Outside}]
    BY DEF Init, PartialMaps
  <2> QED BY <2>1
<1>5. TypeOK
  BY <1>1, <1>2, <1>3, <1>4 DEF Init, TypeOK, EmptyMap
<1>6. Tables(forward, reverse, rows)
  BY <1>1, <1>2, <1>5 DEF TypeOK, Tables, Shape, Agree, Durable
<1>7. CapacityRespected
  BY <1>1, FS_EmptySet, PoolOptions DEF CapacityRespected
<1>8. Quarantined /\ Backed(forward, rows, answered, up) /\ Closed
  BY <1>1 DEF Quarantined, QuarantineRespected, Backed, Closed
<1> QED BY <1>5, <1>6, <1>7, <1>8 DEF Inv

(* The inductive invariant holds throughout.                               *)
LEMMA InvHolds == Spec => [](Inv /\ Closed)
<1>1. (Inv /\ Closed) /\ [Next]_vars => (Inv /\ Closed)'
  BY StepKeepsInv, StepKeepsClosed
<1> QED BY InitEstablishesInv, <1>1, PTL DEF Spec

-----------------------------------------------------------------------------
(* Only a miss changes the owner of an address that stays served, and it   *)
(* takes a free one or the least recently used.                            *)
LEMMA StepRebinds == Inv /\ Closed /\ [Next]_vars => RebindIsExpiryOrLru
<1> SUFFICES ASSUME Inv, Closed, [Next]_vars,
                    NEW a \in DOMAIN reverse, a \in DOMAIN reverse',
                    reverse'[a] # reverse[a]
             PROVE  \/ reverse[a] \in ExpiredDomains
                    \/ LET live == Drop(forward, ExpiredDomains)
                       IN Full(live) /\ reverse[a] \in LeastRecentlyUsed(live)
  BY DEF RebindIsExpiryOrLru
<1>1. up
  BY DEF Closed
<1>2. ASSUME NEW d \in Domains, AllocateMiss(d)
      PROVE  \/ reverse[a] \in ExpiredDomains
             \/ LET live == Drop(forward, ExpiredDomains)
                IN Full(live) /\ reverse[a] \in LeastRecentlyUsed(live)
  <2> DEFINE f   == Drop(forward, ExpiredDomains)
             rev == Drop(reverse, AddressesOf(forward, ExpiredDomains))
  <2>1. a \in DOMAIN rev \/ reverse[a] \in ExpiredDomains
    <3>1. ExpiredDomains \subseteq DOMAIN forward
      BY DEF ExpiredDomains
    <3> QED BY <3>1 DEF Drop, Restrict, AddressesOf, Inv, Tables, Agree
  <2>2. a \in DOMAIN rev => rev[a] = reverse[a]
    BY DEF Drop, Restrict
  <2>3. ASSUME NEW x \in Addresses, FirstFree(rev, UnexpiredReserved, x),
               Install(f, rev, d, x, {}), a \in DOMAIN rev
        PROVE  FALSE
    <3>1. x \notin DOMAIN rev
      BY <2>3 DEF FirstFree, Free
    <3> QED BY <2>2, <2>3, <3>1 DEF Install, Put, Drop, Restrict, AddressesOf
  <2>4. ASSUME NEW v \in LeastRecentlyUsed(f), Install(f, rev, d, f[v].address, {v}),
               a \in DOMAIN rev
        PROVE  reverse[a] = v
    <3>1. v \in DOMAIN f /\ f[v] = forward[v] /\ v \in DOMAIN forward
      BY DEF LeastRecentlyUsed, Drop, Restrict
    <3>2. a = f[v].address
      BY <2>2, <2>4 DEF Install, Put, Drop, Restrict, AddressesOf
    <3> QED BY <3>1, <3>2 DEF Inv, Tables, Agree
  <2> QED BY <1>2, <2>1, <2>3, <2>4 DEF AllocateMiss
<1>3. ASSUME NEW d \in Domains, Allocate(d), ~AllocateMiss(d) PROVE FALSE
  BY <1>3 DEF Allocate, AllocateHit, AllocateFirstTransactionFails, AllocateFails,
              AllocateSweepFails, Drop, Restrict
<1>4. ASSUME NEW d \in Domains, Release(d) PROVE FALSE
  BY <1>4 DEF Release, Drop, Restrict
<1>5. ~(FlushTouches \/ OpenInterrupted \/ Tick \/ UNCHANGED vars)
  BY DEF FlushTouches, OpenInterrupted, Tick, vars, memory
<1>6. ~Open
  BY <1>1 DEF Open
<1>7. ~Crash
  BY DEF Crash, EmptyMap
<1> QED BY <1>2, <1>3, <1>4, <1>5, <1>6, <1>7 DEF Next

-----------------------------------------------------------------------------
(* Every state of the pool is well formed: the loaded cursor is inside the *)
(* range, and the indexes, the rows and the quarantine hold addresses of   *)
(* it.                                                                     *)
THEOREM PoolTypeCorrect == Spec => []TypeOK
<1>1. Inv => TypeOK
  BY DEF Inv
<1> QED BY InvHolds, <1>1, PTL

(* The forward and the reverse index are inverse to each other, through    *)
(* eviction, expiry, failed transactions and reopening.                    *)
THEOREM IndexesAlwaysAgree == Spec => []IndexesAgree
<1>1. Inv => IndexesAgree
  BY DEF Inv, Tables, Agree, IndexesAgree
<1> QED BY InvHolds, <1>1, PTL

(* Every mapping that is served has its row, with the time memory believes *)
(* it wrote, and the last use is ahead of it by less than the touch        *)
(* interval.                                                               *)
THEOREM MemoryIsAlwaysDurable == Spec => []MemoryIsDurable
<1>1. Inv => MemoryIsDurable
  BY DEF Inv, Tables, Durable, MemoryIsDurable
<1> QED BY InvHolds, <1>1, PTL

(* No address is served that an unexpired row of an overlapping prefix     *)
(* owns.                                                                   *)
THEOREM QuarantineIsRespected == Spec => []QuarantineRespected
<1>1. Inv => QuarantineRespected
  BY DEF Inv, Quarantined
<1> QED BY InvHolds, <1>1, PTL

(* The pool never exceeds options.max_entries.                             *)
THEOREM CapacityIsRespected == Spec => []CapacityRespected
<1>1. Inv => CapacityRespected
  BY DEF Inv
<1> QED BY InvHolds, <1>1, PTL

(* An answer resolves back to its domain for a TTL less one touch          *)
(* interval, whatever expires, fails or crashes in between.                *)
THEOREM AnswersAreResolvable == Spec => []AnswersStayResolvable
<1>1. Inv => AnswersStayResolvable
  BY DEF Inv, Backed, Promised, Tables, Agree, AnswersStayResolvable
<1> QED BY InvHolds, <1>1, PTL

(* An address changes owner in one step only by expiry, or by eviction of  *)
(* the least recently used mapping of a full pool.                         *)
THEOREM RebindsAreLegal == Spec => NoEarlyRebind
<1>1. Inv /\ Closed /\ [Next]_vars => [RebindIsExpiryOrLru]_vars
  BY StepRebinds
<1> QED BY InvHolds, <1>1, PTL DEF Spec, NoEarlyRebind

(* An open pool stays within its options and what the tables allow: the    *)
(* four parts hold of every state of allocate_at, release and open.        *)
THEOREM PoolIsConsistent == Spec => []PoolConsistent
<1> QED BY PoolTypeCorrect, IndexesAlwaysAgree, QuarantineIsRespected, CapacityIsRespected,
           PTL DEF PoolConsistent

-----------------------------------------------------------------------------
(* The reverse view.  An answer that the pool still holds is served from a *)
(* copy of the reverse index.                                              *)
Standing(a) == a \in DOMAIN answered /\ a \in DOMAIN reverse /\ answered[a].domain = reverse[a]
Serves(m, a) == a \in DOMAIN m /\ m[a] = reverse[a]

(* Some query will still bring a view that serves the address: one that    *)
(* has not copied the index, or one with such a copy.                      *)
Coming(a) == \E t \in Tasks : pc[t] = "snapshot" \/ (pc[t] = "publish" /\ Serves(copy[t], a))

(* A query that was not overtaken publishes a copy that serves every       *)
(* standing answer, unless a better one is coming; and so does the view.   *)
ViewInv ==
  /\ pc \in [Tasks -> {"idle", "snapshot", "publish"}] /\ DOMAIN copy = Tasks
  /\ ~up => \A t \in Tasks : pc[t] = "idle"
  /\ up => \A a : Standing(a) =>
       /\ \A t \in Tasks : pc[t] = "publish" /\ t \notin behind => Serves(copy[t], a) \/ Coming(a)
       /\ stale \/ Serves(view, a) \/ Coming(a)

(* A step of the pool that answers no client, in which some standing       *)
(* answers may end, leaves the rest as they were.                          *)
LEMMA PoolStepKeepsView ==
  ASSUME ViewInv, UNCHANGED viewVars, up' = up,
         \A a : Standing(a)' => Standing(a) /\ reverse'[a] = reverse[a]
  PROVE  ViewInv'
<1>1. UNCHANGED <<view, pc, copy, behind, stale>>
  BY DEF viewVars
<1>2. \A a, m : Standing(a)' => (Serves(m, a) => a \in DOMAIN m /\ m[a] = reverse'[a])
  BY DEF Serves
<1>3. ASSUME up', NEW a, Standing(a)'
      PROVE  /\ \A t \in Tasks : pc'[t] = "publish" /\ t \notin behind' => Serves(copy[t], a)' \/ Coming(a)'
             /\ stale' \/ Serves(view, a)' \/ Coming(a)'
  <2>1. Standing(a) /\ reverse'[a] = reverse[a]
    BY <1>3
  <2>2. Coming(a) => Coming(a)'
    BY <1>1, <2>1 DEF Coming, Serves
  <2> QED BY <1>1, <1>3, <2>1, <2>2 DEF ViewInv, Serves
<1> QED BY <1>1, <1>3 DEF ViewInv

(* A query that is to copy the index makes up for everything.              *)
LEMMA SnapshotPending ==
  ASSUME ViewInv, NEW t \in Tasks, pc' = [pc EXCEPT ![t] = "snapshot"], up', copy' = copy
  PROVE  ViewInv'
<1>1. pc' \in [Tasks -> {"idle", "snapshot", "publish"}] /\ pc'[t] = "snapshot"
  BY DEF ViewInv
<1>2. \A a : Coming(a)'
  BY <1>1 DEF Coming
<1> QED BY <1>1, <1>2 DEF ViewInv

LEMMA ReadKeepsView ==
  ASSUME ViewInv, NEW t \in Tasks, ReadSnapshot(t)
  PROVE  ViewInv'
<1>1. /\ pc' \in [Tasks -> {"idle", "snapshot", "publish"}] /\ pc'[t] = "publish"
      /\ DOMAIN copy' = Tasks /\ copy'[t] = reverse /\ up' /\ reverse' = reverse /\ answered' = answered
  BY DEF ViewInv, ReadSnapshot, vars, memory
<1>2. \A a : Standing(a)' => Coming(a)'
  BY <1>1 DEF Coming, Serves, Standing
<1> QED BY <1>1, <1>2 DEF ViewInv

LEMMA PublishKeepsView ==
  ASSUME ViewInv, NEW t \in Tasks, PublishView(t)
  PROVE  ViewInv'
<1>1. /\ pc' \in [Tasks -> {"idle", "snapshot", "publish"}] /\ pc'[t] = "idle" /\ pc[t] = "publish"
      /\ DOMAIN copy' = Tasks /\ view' = copy[t] /\ up /\ up' /\ reverse' = reverse /\ answered' = answered
      /\ \A u \in Tasks : u # t => pc'[u] = pc[u] /\ copy'[u] = copy[u]
      /\ \A u \in Tasks : u # t /\ pc[u] = "publish" => u \in behind'
  BY DEF ViewInv, PublishView, vars, memory
<1>2. stale' <=> t \in behind
  BY DEF PublishView
<1>3. ASSUME NEW a, Standing(a)'
      PROVE  /\ \A u \in Tasks : pc'[u] = "publish" /\ u \notin behind' => Serves(copy[u], a)' \/ Coming(a)'
             /\ stale' \/ Serves(view, a)' \/ Coming(a)'
  <2>1. \A u \in Tasks : pc'[u] = "publish" => u \in behind'
    BY <1>1
  <2>2. CASE t \in behind
    BY <1>2, <2>1, <2>2
  <2>3. CASE t \notin behind
    <3>1. Standing(a)
      BY <1>1, <1>3 DEF Standing
    <3>2. Serves(copy[t], a) \/ Coming(a)
      BY <1>1, <2>3, <3>1 DEF ViewInv
    <3>3. CASE Serves(copy[t], a)
      BY <1>1, <2>1, <3>3 DEF Serves
    <3>4. CASE Coming(a) /\ ~Serves(copy[t], a)
      <4>1. PICK u \in Tasks : pc[u] = "snapshot" \/ (pc[u] = "publish" /\ Serves(copy[u], a))
        BY <3>4 DEF Coming
      <4>2. u # t
        BY <1>1, <3>4, <4>1
      <4>3. Coming(a)'
        BY <1>1, <4>1, <4>2 DEF Coming, Serves
      <4> QED BY <2>1, <4>3
    <3> QED BY <3>2, <3>3, <3>4
  <2> QED BY <2>2, <2>3
<1> QED BY <1>1, <1>3 DEF ViewInv

LEMMA OpenKeepsView ==
  ASSUME ViewInv, OpenWithSelector
  PROVE  ViewInv'
<1>1. ~up /\ view' = reverse' /\ UNCHANGED <<pc, copy, behind, stale>>
  BY DEF OpenWithSelector, Open
<1>2. \A t \in Tasks : pc'[t] = "idle"
  BY <1>1 DEF ViewInv
<1>3. \A a : Standing(a)' => Serves(view, a)'
  BY <1>1 DEF Standing, Serves
<1> QED BY <1>1, <1>2, <1>3 DEF ViewInv

LEMMA CrashKeepsView ==
  ASSUME ViewInv, CrashWithQueries
  PROVE  ViewInv'
BY DEF ViewInv, CrashWithQueries, Crash

LEMMA ViewStepKeeps == ViewInv /\ [ViewNext]_allVars => ViewInv'
<1> SUFFICES ASSUME ViewInv, [ViewNext]_allVars PROVE ViewInv'
  OBVIOUS
<1>1. ASSUME NEW t \in Tasks, NEW d \in Domains, QueryAddress(t, d) PROVE ViewInv'
  <2>1. pc' = [pc EXCEPT ![t] = "snapshot"] /\ copy' = copy /\ up'
    BY <1>1 DEF QueryAddress, AllocateHit, AllocateMiss
  <2> QED BY <2>1, SnapshotPending
<1>2. ASSUME NEW t \in Tasks, QueryPtr(t) PROVE ViewInv'
  <2>1. pc' = [pc EXCEPT ![t] = "snapshot"] /\ copy' = copy /\ up'
    BY <1>2 DEF QueryPtr, vars, memory
  <2> QED BY <2>1, SnapshotPending
<1>3. ASSUME NEW t \in Tasks, NEW d \in Domains, QueryFails(t, d) PROVE ViewInv'
  <2>1. UNCHANGED viewVars /\ up' = up /\ answered' = answered
    BY <1>3 DEF QueryFails, AllocateFirstTransactionFails, AllocateFails, AllocateSweepFails, durable
  <2>2. \E K : reverse' = reverse \/ reverse' = Drop(reverse, K)
    BY <1>3 DEF QueryFails, AllocateFirstTransactionFails, AllocateFails, AllocateSweepFails
  <2>3. \A a : a \in DOMAIN reverse' => a \in DOMAIN reverse /\ reverse'[a] = reverse[a]
    BY <2>2 DEF Drop, Restrict
  <2> QED BY <2>1, <2>3, PoolStepKeepsView DEF Standing
<1>4. ASSUME (Tick /\ UNCHANGED viewVars) \/ UNCHANGED allVars PROVE ViewInv'
  <2>1. UNCHANGED viewVars /\ up' = up /\ reverse' = reverse /\ answered' = answered
    BY <1>4 DEF Tick, allVars, vars, memory
  <2> QED BY <2>1, PoolStepKeepsView DEF Standing
<1> QED BY <1>1, <1>2, <1>3, <1>4, ReadKeepsView, PublishKeepsView, OpenKeepsView, CrashKeepsView DEF ViewNext

(* However many queries copy and publish the reverse index at once, with   *)
(* no lock over the three steps: when they have all returned and the last  *)
(* to publish had not been overtaken, the packet plane resolves every      *)
(* answer that stands (FakeIpPools::snapshot).                             *)
THEOREM ViewAlwaysServes == ViewSpec => []ViewServesAnswers
<1>1. ViewInit => ViewInv
  BY DEF ViewInit, Init, ViewInv
<1>2. ViewInv => ViewServesAnswers
  <2> SUFFICES ASSUME ViewInv, up, ~stale, \A t \in Tasks : pc[t] = "idle",
                      NEW a \in DOMAIN answered \cap DOMAIN reverse, answered[a].domain = reverse[a]
               PROVE  a \in DOMAIN view /\ view[a] = reverse[a]
    BY DEF ViewServesAnswers
  <2>1. Standing(a) /\ ~Coming(a)
    BY DEF Standing, Coming
  <2> QED BY <2>1 DEF ViewInv, Serves
<1> QED BY <1>1, <1>2, ViewStepKeeps, PTL DEF ViewSpec

(* The queries use the pool as it may be used: whatever they interleave,   *)
(* the pool under them behaves as the pool alone, so that all that is      *)
(* proved of it holds there too.                                           *)
THEOREM QueriesImplementPool == ViewSpec => Spec
<1>1. ViewInit => Init
  BY DEF ViewInit
<1>2. [ViewNext]_allVars => [Next]_vars
  <2> SUFFICES ASSUME [ViewNext]_allVars PROVE [Next]_vars
    OBVIOUS
  <2>1. ASSUME NEW t \in Tasks, NEW d \in Domains, QueryAddress(t, d) \/ QueryFails(t, d) PROVE [Next]_vars
    BY <2>1 DEF QueryAddress, QueryFails, Next, Allocate
  <2>2. ASSUME NEW t \in Tasks, QueryPtr(t) \/ ReadSnapshot(t) \/ PublishView(t) PROVE [Next]_vars
    BY <2>2 DEF QueryPtr, ReadSnapshot, PublishView
  <2>3. CASE OpenWithSelector \/ CrashWithQueries \/ Tick
    BY <2>3 DEF OpenWithSelector, CrashWithQueries, Next
  <2>4. CASE UNCHANGED allVars
    BY <2>4 DEF allVars
  <2> QED BY <2>1, <2>2, <2>3, <2>4 DEF ViewNext
<1> QED BY <1>1, <1>2, PTL DEF ViewSpec, Spec

-----------------------------------------------------------------------------
(* The import.  The merge that the transaction wrote and memory has yet to follow: the  *)
(* exported rows are new, every other mapping has its row.                 *)
Merged ==
  /\ Agree(forward, reverse) /\ UniqueAddresses(rows)
  /\ \A d \in DOMAIN Export : d \in DOMAIN rows /\ rows[d] = [address |-> Export[d], last_used_at |-> now]
  /\ \A d \in DOMAIN Export : ~Conflict(d, "reverse") /\ ~Conflict(d, "forward")
  /\ \A d \in DOMAIN forward \ DOMAIN Export :
       /\ d \in DOMAIN rows
       /\ rows[d].address = forward[d].address
       /\ rows[d].last_used_at = forward[d].persisted_last_used_at
       /\ forward[d].last_used_at < forward[d].persisted_last_used_at + TouchInterval

(* While no other operation ran during an import, what it has looked up    *)
(* still holds.                                                            *)
ImportInv ==
  /\ Sound /\ Closed
  /\ stage \in {"idle", "validate", "apply"} /\ (stage # "idle" => up)
  /\ ~overlapped =>
       /\ stage # "apply" => Tables(forward, reverse, rows)
       /\ stage = "validate" =>
            \A d \in DOMAIN Export, index \in {"reverse", "forward"} :
              <<d, index>> \notin unchecked => ~Conflict(d, index)
       /\ stage = "apply" => Merged

-----------------------------------------------------------------------------
(* The rows replace_fakeip_entry leaves share no address.                  *)
LEMMA ReplaceKeepsUnique ==
  ASSUME NEW tbl, DOMAIN tbl \subseteq Domains, tbl \in [DOMAIN tbl -> Row], UniqueAddresses(tbl),
         now \in Nat, NEW d \in Domains, NEW a \in Addresses, NEW evicted
  PROVE  LET T == ReplaceEntry(tbl, d, a, evicted)
         IN DOMAIN T \subseteq Domains /\ T \in [DOMAIN T -> Row] /\ UniqueAddresses(T)
BY DEF ReplaceEntry, Put, Drop, Restrict, UniqueAddresses, Row

(* Fewer rows share no address either.                                     *)
LEMMA DropKeepsUnique ==
  ASSUME NEW tbl, DOMAIN tbl \subseteq Domains, tbl \in [DOMAIN tbl -> Row], UniqueAddresses(tbl), NEW E
  PROVE  LET T == Drop(tbl, E)
         IN DOMAIN T \subseteq Domains /\ T \in [DOMAIN T -> Row] /\ UniqueAddresses(T)
BY DEF Drop, Restrict, UniqueAddresses

(* A miss whose indexes need not agree: the new mapping is well formed.    *)
LEMMA InstallKeepsSound ==
  ASSUME Sound, NEW d \in Domains, NEW a \in Addresses, NEW evicted,
         NEW f, f = Drop(forward, ExpiredDomains),
         NEW rev, rev = Drop(reverse, AddressesOf(forward, ExpiredDomains)),
         Install(f, rev, d, a, evicted), reserved' = UnexpiredReserved,
         UNCHANGED <<now, up, foreign, legacy, legacyNext>>
  PROVE  Sound'
<1>1. next' \in Addresses /\ cursor' \in Addresses
  BY PoolOptions, AddressesAreNaturals DEF Install, Addresses
<1>2. DOMAIN answered' \subseteq Addresses /\ answered' \in [DOMAIN answered' -> Answer]
  BY DEF Install, Tell, Put, Sound, TypeOK, Answer
<1>3. DOMAIN rows' \subseteq Domains /\ rows' \in [DOMAIN rows' -> Row] /\ UniqueAddresses(rows')
  <2> DEFINE tbl == Drop(rows, ExpiredDomains)
  <2>1. DOMAIN tbl \subseteq Domains /\ tbl \in [DOMAIN tbl -> Row] /\ UniqueAddresses(tbl)
    BY DropKeepsUnique DEF Sound, TypeOK
  <2>2. rows' = ReplaceEntry(tbl, d, a, evicted) /\ now \in Nat
    BY DEF Install, Sound, TypeOK
  <2> HIDE DEF tbl
  <2> QED BY <2>1, <2>2, ReplaceKeepsUnique
<1>4. /\ DOMAIN forward' \subseteq Domains /\ forward' \in [DOMAIN forward' -> Mapping]
      /\ DOMAIN reverse' \subseteq Addresses /\ reverse' \in [DOMAIN reverse' -> Domains]
  <2> DEFINE m == [address |-> a, last_used_at |-> now, persisted_last_used_at |-> now]
             F == Drop(f, evicted)
             R == Drop(rev, AddressesOf(f, evicted))
  <2>1. m \in Mapping
    BY DEF Sound, TypeOK, Mapping
  <2>2. /\ DOMAIN F \subseteq Domains /\ F \in [DOMAIN F -> Mapping]
        /\ DOMAIN R \subseteq Addresses /\ R \in [DOMAIN R -> Domains]
    BY DEF Drop, Restrict, Sound, TypeOK
  <2>3. forward' = Put(F, d, m) /\ reverse' = Put(R, a, d)
    BY DEF Install
  <2> HIDE DEF m, F, R
  <2> QED BY <2>1, <2>2, <2>3 DEF Put
<1> QED BY <1>1, <1>2, <1>3, <1>4, PurgeKeepsQuarantine DEF Sound, TypeOK

(* Any operation of the pool keeps memory and rows well formed, also where *)
(* an import has left the two indexes in disagreement.                     *)
LEMMA AllocateKeepsSound ==
  ASSUME Sound, NEW d \in Domains, Allocate(d)
  PROVE  Sound'
<1>1. CASE AllocateHit(d)
  <2>1. d \in DOMAIN forward /\ now \in Nat /\ forward[d] \in Mapping /\ forward[d].address \in Addresses
    BY <1>1 DEF AllocateHit, Sound, TypeOK, Mapping
  <2>2. DOMAIN rows' = DOMAIN rows /\ rows' \in [DOMAIN rows -> Row] /\ UniqueAddresses(rows')
    <3>1. rows' = rows \/ (d \in DOMAIN rows /\ rows' = [rows EXCEPT ![d].last_used_at = now])
      BY <1>1 DEF AllocateHit
    <3> QED BY <2>1, <3>1 DEF Sound, TypeOK, Row, UniqueAddresses
  <2>3. DOMAIN forward' = DOMAIN forward /\ forward' \in [DOMAIN forward -> Mapping]
    <3>1. \/ forward' = [forward EXCEPT ![d].last_used_at = now, ![d].persisted_last_used_at = now]
          \/ forward' = [forward EXCEPT ![d].last_used_at = now]
      BY <1>1 DEF AllocateHit
    <3> QED BY <2>1, <3>1 DEF Sound, TypeOK, Mapping
  <2>4. DOMAIN answered' \subseteq Addresses /\ answered' \in [DOMAIN answered' -> Answer]
    BY <1>1, <2>1 DEF AllocateHit, Tell, Put, Sound, TypeOK, Answer
  <2> QED BY <1>1, <2>2, <2>3, <2>4, PurgeKeepsQuarantine DEF Sound, TypeOK, AllocateHit
<1>2. CASE AllocateFirstTransactionFails(d)
  BY <1>2, PurgeKeepsQuarantine DEF Sound, TypeOK, AllocateFirstTransactionFails, durable
<1>3. CASE AllocateMiss(d)
  <2> DEFINE f   == Drop(forward, ExpiredDomains)
             rev == Drop(reverse, AddressesOf(forward, ExpiredDomains))
  <2>1. /\ reserved' = UnexpiredReserved /\ UNCHANGED <<now, up, foreign, legacy, legacyNext>>
        /\ \/ \E v \in LeastRecentlyUsed(f) : Install(f, rev, d, f[v].address, {v})
           \/ \E a \in Addresses : Install(f, rev, d, a, {})
    BY <1>3 DEF AllocateMiss
  <2>2. \A v \in LeastRecentlyUsed(f) : f[v].address \in Addresses
    BY DEF LeastRecentlyUsed, Drop, Restrict, Sound, TypeOK, Mapping
  <2>3. \E a \in Addresses : \E evicted : Install(f, rev, d, a, evicted)
    BY <2>1, <2>2
  <2> HIDE DEF f, rev
  <2> QED BY <2>1, <2>3, InstallKeepsSound DEF f, rev
<1>4. CASE AllocateFails(d)
  <2>1. DOMAIN rows' \subseteq Domains /\ rows' \in [DOMAIN rows' -> Row] /\ UniqueAddresses(rows')
    BY <1>4, DropKeepsUnique DEF AllocateFails, Sound, TypeOK
  <2> QED BY <1>4, <2>1, PurgeKeepsQuarantine DEF Sound, TypeOK, AllocateFails, Drop, Restrict
<1>5. CASE AllocateSweepFails(d)
  <2>1. DOMAIN rows' \subseteq Domains /\ rows' \in [DOMAIN rows' -> Row] /\ UniqueAddresses(rows')
    BY <1>5, DropKeepsUnique DEF AllocateSweepFails, Sound, TypeOK
  <2> QED BY <1>5, <2>1, PurgeKeepsQuarantine DEF Sound, TypeOK, AllocateSweepFails, Drop, Restrict
<1> QED BY <1>1, <1>2, <1>3, <1>4, <1>5 DEF Allocate

LEMMA ReleaseKeepsSound ==
  ASSUME Sound, NEW d \in Domains, Release(d)
  PROVE  Sound'
<1>1. DOMAIN rows' \subseteq Domains /\ rows' \in [DOMAIN rows' -> Row] /\ UniqueAddresses(rows')
  BY DropKeepsUnique DEF Release, Sound, TypeOK
<1> QED BY <1>1 DEF Sound, TypeOK, Release, Drop, Restrict

LEMMA FlushKeepsSound ==
  ASSUME Sound, FlushTouches
  PROVE  Sound'
<1>1. /\ DOMAIN rows' = DOMAIN rows /\ DOMAIN forward' = DOMAIN forward
      /\ \A d \in DOMAIN rows : \/ rows'[d] = rows[d]
                                \/ /\ d \in DOMAIN forward
                                   /\ rows'[d] = [rows[d] EXCEPT !.last_used_at = forward[d].last_used_at]
      /\ \A d \in DOMAIN forward :
           forward'[d] = [forward[d] EXCEPT !.persisted_last_used_at = forward[d].last_used_at]
      /\ forward' = [d \in DOMAIN forward |-> forward'[d]]
      /\ rows' = [d \in DOMAIN rows |-> rows'[d]]
      /\ UNCHANGED <<now, up, next, reverse, reserved, cursor, foreign, legacy, legacyNext, answered>>
  BY DEF FlushTouches
<1>2. \A d \in DOMAIN forward : forward'[d] \in Mapping
  BY <1>1 DEF Sound, TypeOK, Mapping
<1>3. \A d \in DOMAIN rows : rows'[d] \in Row /\ rows'[d].address = rows[d].address
  BY <1>1 DEF Sound, TypeOK, Mapping, Row
<1>4. TypeOK'
  BY <1>1, <1>2, <1>3 DEF Sound, TypeOK
<1> QED BY <1>1, <1>3, <1>4 DEF Sound, UniqueAddresses

-----------------------------------------------------------------------------
(* Where the tables are consistent, an operation of the pool leaves them   *)
(* so, whatever the capacity and the quarantine.                           *)
Whole == TypeOK /\ Tables(forward, reverse, rows)

LEMMA ShrinkKeepsTables ==
  ASSUME Whole, NEW E \in SUBSET DOMAIN forward,
         forward' = Drop(forward, E), reverse' = Drop(reverse, AddressesOf(forward, E)), rows' = Drop(rows, E)
  PROVE  Tables(forward, reverse, rows)'
BY DropKeepsTables DEF Whole

LEMMA HitKeepsTables ==
  ASSUME Whole, NEW d \in Domains, AllocateHit(d), TypeOK'
  PROVE  Tables(forward, reverse, rows)'
<1>1. /\ d \in DOMAIN forward /\ d \in DOMAIN rows /\ now \in Nat /\ reverse' = reverse
      /\ rows[d].last_used_at = forward[d].persisted_last_used_at
      /\ forward[d].persisted_last_used_at \in Nat
      /\ now < now + TouchInterval
  BY PoolOptions DEF AllocateHit, Whole, TypeOK, Tables, Durable, Mapping
<1>2. /\ DOMAIN forward' = DOMAIN forward /\ DOMAIN rows' = DOMAIN rows
      /\ \A x \in DOMAIN forward : forward'[x].address = forward[x].address
      /\ \A x \in DOMAIN rows : rows'[x].address = rows[x].address
      /\ \A x \in DOMAIN forward : x # d => forward'[x] = forward[x]
      /\ \A x \in DOMAIN rows : x # d => rows'[x] = rows[x]
      /\ forward'[d].last_used_at = now
      /\ rows'[d].last_used_at = forward'[d].persisted_last_used_at
      /\ now < rows'[d].last_used_at + TouchInterval
  <2>1. CASE TouchDue(d)
    <3>1. /\ rows' = [rows EXCEPT ![d].last_used_at = now]
          /\ forward' = [forward EXCEPT ![d].last_used_at = now,
                                        ![d].persisted_last_used_at = now]
      BY <1>1, <2>1 DEF AllocateHit
    <3> QED BY <3>1, <1>1 DEF Whole, TypeOK, Mapping, Row
  <2>2. CASE ~TouchDue(d)
    <3>1. rows' = rows /\ forward' = [forward EXCEPT ![d].last_used_at = now]
      BY <2>2 DEF AllocateHit
    <3>2. now < rows[d].last_used_at + TouchInterval
      BY <1>1, <2>2, PoolOptions DEF TouchDue
    <3> QED BY <3>1, <3>2, <1>1 DEF Whole, TypeOK, Mapping, Row
  <2> QED BY <2>1, <2>2
<1>3. Shape(forward, reverse, rows)'
  BY DEF TypeOK, Shape
<1>4. Agree(forward, reverse)'
  BY <1>1, <1>2 DEF Whole, Tables, Agree
<1>5. Durable(forward, rows)'
  BY <1>1, <1>2 DEF Whole, Tables, Durable, UniqueAddresses
<1> QED BY <1>3, <1>4, <1>5 DEF Tables

LEMMA MissKeepsTables ==
  ASSUME Whole, NEW d \in Domains, AllocateMiss(d)
  PROVE  Tables(forward, reverse, rows)'
<1> DEFINE f   == Drop(forward, ExpiredDomains)
           rev == Drop(reverse, AddressesOf(forward, ExpiredDomains))
           tbl == Drop(rows, ExpiredDomains)
<1>1. Tables(f, rev, tbl)
  <2>1. ExpiredDomains \in SUBSET DOMAIN forward
    BY DEF ExpiredDomains
  <2> QED BY <2>1, DropKeepsTables DEF Whole
<1>2. d \notin DOMAIN f /\ now \in Nat
  BY DEF AllocateMiss, Whole, TypeOK
<1>3. PICK a \in Addresses, evicted \in SUBSET DOMAIN f :
        /\ a \notin DOMAIN rev \ AddressesOf(f, evicted)
        /\ Install(f, rev, d, a, evicted)
  <2>1. CASE \E v \in LeastRecentlyUsed(f) : Install(f, rev, d, f[v].address, {v})
    <3>1. PICK v \in LeastRecentlyUsed(f) : Install(f, rev, d, f[v].address, {v})
      BY <2>1
    <3>2. {v} \in SUBSET DOMAIN f /\ f[v].address \in Addresses /\ f[v].address \in AddressesOf(f, {v})
      BY DEF LeastRecentlyUsed, AddressesOf, Drop, Restrict, Whole, TypeOK, Mapping
    <3> QED BY <3>1, <3>2
  <2>2. CASE \E a \in Addresses : FirstFree(rev, UnexpiredReserved, a) /\ Install(f, rev, d, a, {})
    <3>1. PICK a \in Addresses : FirstFree(rev, UnexpiredReserved, a) /\ Install(f, rev, d, a, {})
      BY <2>2
    <3>2. a \notin DOMAIN rev /\ {} \in SUBSET DOMAIN f
      BY <3>1 DEF FirstFree, Free
    <3> QED BY <3>1, <3>2
  <2> QED BY <2>1, <2>2 DEF AllocateMiss
<1> HIDE DEF f, rev, tbl
<1> QED BY <1>1, <1>2, <1>3, InstallKeepsTables DEF Install, tbl

LEMMA PoolKeepsTables ==
  ASSUME Whole, TypeOK', FlushTouches \/ \E d \in Domains : Allocate(d) \/ Release(d)
  PROVE  Tables(forward, reverse, rows)'
<1>1. ASSUME NEW d \in Domains, AllocateFirstTransactionFails(d) PROVE Tables(forward, reverse, rows)'
  BY <1>1 DEF AllocateFirstTransactionFails, durable, Whole
<1>2. ASSUME NEW d \in Domains, AllocateFails(d) PROVE Tables(forward, reverse, rows)'
  BY <1>2, ShrinkKeepsTables DEF AllocateFails, ExpiredDomains
<1>3. ASSUME NEW d \in Domains, AllocateSweepFails(d) \/ Release(d) PROVE Tables(forward, reverse, rows)'
  <2>1. {d} \in SUBSET DOMAIN forward /\ AddressesOf(forward, {d}) = {forward[d].address}
    BY <1>3 DEF AllocateSweepFails, Release, ExpiredDomains, AddressesOf
  <2> QED BY <1>3, <2>1, ShrinkKeepsTables DEF AllocateSweepFails, Release
<1>4. CASE FlushTouches
  <2> DEFINE due == {d \in DOMAIN forward :
                       forward[d].last_used_at # forward[d].persisted_last_used_at}
  <2>1. /\ DOMAIN rows' = DOMAIN rows /\ DOMAIN forward' = DOMAIN forward /\ reverse' = reverse
        /\ \A d \in DOMAIN rows : rows'[d] =
             IF d \in due THEN [rows[d] EXCEPT !.last_used_at = forward[d].last_used_at]
                          ELSE rows[d]
        /\ \A d \in DOMAIN forward :
             forward'[d] = [forward[d] EXCEPT !.persisted_last_used_at = forward[d].last_used_at]
    BY <1>4 DEF FlushTouches
  <2>2. \A d \in DOMAIN forward :
          /\ forward'[d].address = forward[d].address
          /\ forward'[d].last_used_at = forward[d].last_used_at
          /\ forward'[d].persisted_last_used_at = forward[d].last_used_at
          /\ forward[d].last_used_at < forward[d].last_used_at + TouchInterval
    BY <2>1, PoolOptions DEF Whole, TypeOK, Mapping
  <2>3. \A d \in DOMAIN rows :
          /\ rows'[d].address = rows[d].address
          /\ d \in DOMAIN forward => rows'[d].last_used_at = forward[d].last_used_at
    BY <2>1 DEF Whole, TypeOK, Mapping, Row, Tables, Durable
  <2> HIDE DEF due
  <2>4. Shape(forward, reverse, rows)'
    BY DEF TypeOK, Shape
  <2>5. Agree(forward, reverse)'
    BY <2>1, <2>2 DEF Whole, Tables, Agree
  <2>6. Durable(forward, rows)'
    BY <2>1, <2>2, <2>3 DEF Whole, Tables, Durable, UniqueAddresses
  <2> QED BY <2>4, <2>5, <2>6 DEF Tables
<1> QED BY <1>1, <1>2, <1>3, <1>4, HitKeepsTables, MissKeepsTables DEF Allocate

-----------------------------------------------------------------------------
(* The steps of import_legacy.                                             *)
LEMMA BeginKeeps == ImportInv /\ BeginImport => ImportInv'
<1> SUFFICES ASSUME ImportInv, BeginImport PROVE ImportInv'
  OBVIOUS
<1>1. /\ UNCHANGED vars /\ overlapped' = overlapped /\ stage' = "validate" /\ stage = "idle" /\ up
      /\ unchecked' = (DOMAIN Export) \X {"reverse", "forward"}
  BY DEF BeginImport
<1>2. Sound' /\ Closed' /\ up' /\ (~overlapped' => Tables(forward, reverse, rows)')
  BY <1>1 DEF ImportInv, Sound, TypeOK, Closed, UniqueAddresses, vars, memory, durable
<1> QED BY <1>1, <1>2 DEF ImportInv

LEMMA ValidateKeeps ==
  ASSUME ImportInv, NEW d \in Domains, NEW index \in {"reverse", "forward"}, ValidateEntry(d, index)
  PROVE  ImportInv'
<1>1. /\ UNCHANGED vars /\ overlapped' = overlapped /\ stage = "validate" /\ up
      /\ \/ stage' = "idle"
         \/ /\ stage' = "validate" /\ ~Conflict(d, index)
            /\ unchecked' = unchecked \ {<<d, index>>}
  BY DEF ValidateEntry
<1>2. Sound' /\ Closed' /\ up' /\ (~overlapped' => Tables(forward, reverse, rows)')
  BY <1>1 DEF ImportInv, Sound, TypeOK, Closed, UniqueAddresses, vars, memory, durable
<1>3. \A e \in DOMAIN Export, i \in {"reverse", "forward"} : Conflict(e, i)' <=> Conflict(e, i)
  BY <1>1 DEF Conflict, vars, memory
<1>4. ASSUME ~overlapped, stage' = "validate", NEW e \in DOMAIN Export, NEW i \in {"reverse", "forward"},
             <<e, i>> \notin unchecked'
      PROVE  ~Conflict(e, i)'
  <2>1. CASE <<e, i>> \in unchecked
    <3>1. e = d /\ i = index
      BY <1>1, <1>4, <2>1
    <3> QED BY <1>1, <1>3, <1>4, <3>1
  <2>2. CASE <<e, i>> \notin unchecked
    BY <1>1, <1>3, <1>4, <2>2 DEF ImportInv
  <2> QED BY <2>1, <2>2
<1> QED BY <1>1, <1>2, <1>4 DEF ImportInv

(* A database that has the marker, or a failed transaction: nothing is     *)
(* written.                                                                *)
LEMMA IdleKeeps ==
  ASSUME ImportInv, up, stage = "validate", stage' = "idle", UNCHANGED <<vars, overlapped>>
  PROVE  ImportInv'
<1>1. Sound' /\ Closed' /\ (~overlapped' => Tables(forward, reverse, rows)')
  BY DEF ImportInv, Sound, TypeOK, Closed, UniqueAddresses, vars, memory, durable
<1> QED BY <1>1 DEF ImportInv

(* The transaction.  No entry conflicts with the indexes, so the rows that *)
(* INSERT OR REPLACE deletes are of domains memory does not serve.         *)
LEMMA CommitKeeps ==
  ASSUME ExportIsValid, ImportInv, CommitImport
  PROVE  ImportInv'
<1>1. CASE marked
  BY <1>1, IdleKeeps DEF CommitImport, vars, memory, durable
<1>2. CASE ~marked
  <2> DEFINE kept == {d \in DOMAIN rows : \A e \in DOMAIN Export : rows[d].address # Export[e]}
  <2>1. /\ stage' = "apply" /\ stage = "validate" /\ up /\ unchecked = {} /\ cursor' = ExportNext
        /\ rows' = [d \in kept \cup DOMAIN Export |->
                      IF d \in DOMAIN Export THEN [address |-> Export[d], last_used_at |-> now]
                      ELSE rows[d]]
        /\ UNCHANGED <<now, up, next, forward, reverse, reserved, foreign, legacy, legacyNext, answered, overlapped>>
    BY <1>2 DEF CommitImport, memory
  <2>2. TypeOK /\ UniqueAddresses(rows) /\ now \in Nat
    BY DEF ImportInv, Sound, TypeOK
  <2>3. /\ DOMAIN rows' = kept \cup DOMAIN Export
        /\ \A d \in DOMAIN Export : rows'[d] = [address |-> Export[d], last_used_at |-> now]
        /\ \A d \in kept \ DOMAIN Export : rows'[d] = rows[d]
    BY <2>1
  <2>4. \A d \in DOMAIN rows' : rows'[d] \in Row
    BY <2>2, <2>3 DEF ExportIsValid, TypeOK, Row
  <2>5. DOMAIN rows' \subseteq Domains /\ rows' \in [DOMAIN rows' -> Row]
    BY <2>1, <2>2, <2>3, <2>4 DEF ExportIsValid, TypeOK
  <2>6. UniqueAddresses(rows')
    BY <2>2, <2>3 DEF ExportIsValid, UniqueAddresses
  <2>7. TypeOK'
    BY <2>1, <2>2, <2>5 DEF TypeOK, ExportIsValid
  <2>8. ASSUME ~overlapped PROVE Merged'
    <3>1. Tables(forward, reverse, rows)
      BY <2>1, <2>8 DEF ImportInv
    <3>2. \A d \in DOMAIN Export : ~Conflict(d, "reverse") /\ ~Conflict(d, "forward")
      BY <2>1, <2>8 DEF ImportInv
    <3>3. \A d \in DOMAIN forward \ DOMAIN Export : d \in kept
      BY <3>1, <3>2 DEF Tables, Agree, Durable, Conflict
    <3>4. \A d \in DOMAIN forward \ DOMAIN Export :
            /\ d \in DOMAIN rows' /\ rows'[d].address = forward[d].address
            /\ rows'[d].last_used_at = forward[d].persisted_last_used_at
            /\ forward[d].last_used_at < forward[d].persisted_last_used_at + TouchInterval
      BY <2>3, <3>1, <3>3 DEF Tables, Durable
    <3>5. \A d \in DOMAIN Export : ~Conflict(d, "reverse")' /\ ~Conflict(d, "forward")'
      BY <2>1, <3>2 DEF Conflict
    <3>6. Agree(forward, reverse)'
      BY <2>1, <3>1 DEF Tables
    <3> QED BY <2>1, <2>3, <2>6, <3>4, <3>5, <3>6 DEF Merged
  <2>9. Closed'
    BY <2>1 DEF Closed
  <2> QED BY <2>1, <2>6, <2>7, <2>8, <2>9 DEF ImportInv, Sound
<1> QED BY <1>1, <1>2

(* Memory follows: the exported mappings are new or were the same.         *)
LEMMA ApplyKeeps ==
  ASSUME ExportIsValid, ImportInv, ApplyImport
  PROVE  ImportInv'
<1>1. /\ stage' = "idle" /\ stage = "apply" /\ up /\ next' = ExportNext
      /\ UNCHANGED <<now, up, reserved, rows, cursor, foreign, legacy, legacyNext, answered, overlapped>>
  BY DEF ApplyImport, durable
<1>2. /\ DOMAIN forward' = DOMAIN forward \cup DOMAIN Export
      /\ forward' = [d \in DOMAIN forward' |-> forward'[d]]
      /\ \A d \in DOMAIN Export :
           forward'[d] = [address |-> Export[d], last_used_at |-> now, persisted_last_used_at |-> now]
      /\ \A d \in DOMAIN forward \ DOMAIN Export : forward'[d] = forward[d]
  BY DEF ApplyImport
<1>3. /\ DOMAIN reverse' = DOMAIN reverse \cup {Export[d] : d \in DOMAIN Export}
      /\ reverse' = [a \in DOMAIN reverse' |-> reverse'[a]]
      /\ \A d \in DOMAIN Export : reverse'[Export[d]] = d
      /\ \A a \in DOMAIN reverse : (\A d \in DOMAIN Export : Export[d] # a) => reverse'[a] = reverse[a]
  <2> DEFINE R(a) == IF \E d \in DOMAIN Export : Export[d] = a
                     THEN CHOOSE d \in DOMAIN Export : Export[d] = a ELSE reverse[a]
  <2>1. reverse' = [a \in DOMAIN reverse \cup {Export[d] : d \in DOMAIN Export} |-> R(a)]
    BY DEF ApplyImport
  <2>2. \A d \in DOMAIN Export : R(Export[d]) = d
    BY DEF ExportIsValid
  <2>3. \A a \in DOMAIN reverse : (\A d \in DOMAIN Export : Export[d] # a) => R(a) = reverse[a]
    OBVIOUS
  <2> HIDE DEF R
  <2> QED BY <2>1, <2>2, <2>3
<1>4. TypeOK /\ UniqueAddresses(rows) /\ now \in Nat
  BY DEF ImportInv, Sound, TypeOK
<1>5. \A d \in DOMAIN forward' : forward'[d] \in Mapping
  BY <1>2, <1>4 DEF ExportIsValid, TypeOK, Mapping
<1>6. \A a \in DOMAIN reverse' : reverse'[a] \in Domains
  BY <1>3, <1>4 DEF ExportIsValid, TypeOK
<1>7. DOMAIN forward' \subseteq Domains /\ DOMAIN reverse' \subseteq Addresses
  BY <1>2, <1>3, <1>4 DEF ExportIsValid, TypeOK
<1>8. TypeOK'
  BY <1>1, <1>2, <1>3, <1>4, <1>5, <1>6, <1>7 DEF TypeOK, ExportIsValid
<1>9. Sound' /\ Closed'
  BY <1>1, <1>4, <1>8 DEF Sound, Closed
<1>10. ASSUME ~overlapped PROVE Tables(forward, reverse, rows)'
  <2>1. Merged
    BY <1>1, <1>10 DEF ImportInv
  <2>2. Shape(forward, reverse, rows)'
    BY <1>8 DEF TypeOK, Shape
  <2>3. Agree(forward, reverse)'
    <3>1. ASSUME NEW d \in DOMAIN forward' PROVE forward'[d].address \in DOMAIN reverse' /\ reverse'[forward'[d].address] = d
      <4>1. CASE d \in DOMAIN Export
        BY <1>2, <1>3, <4>1
      <4>2. CASE d \notin DOMAIN Export
        <5>1. /\ d \in DOMAIN forward /\ forward'[d] = forward[d]
              /\ forward[d].address \in DOMAIN reverse /\ reverse[forward[d].address] = d
          BY <1>2, <4>2, <2>1 DEF Merged, Agree
        <5>2. \A e \in DOMAIN Export : Export[e] # forward[d].address
          BY <4>2, <5>1, <2>1 DEF Merged, Conflict
        <5> QED BY <1>3, <5>1, <5>2
      <4> QED BY <4>1, <4>2
    <3>2. ASSUME NEW a \in DOMAIN reverse' PROVE reverse'[a] \in DOMAIN forward' /\ forward'[reverse'[a]].address = a
      <4>1. CASE \E d \in DOMAIN Export : Export[d] = a
        BY <1>2, <1>3, <4>1
      <4>2. CASE \A d \in DOMAIN Export : Export[d] # a
        <5>1. /\ a \in DOMAIN reverse /\ reverse'[a] = reverse[a]
              /\ reverse[a] \in DOMAIN forward /\ forward[reverse[a]].address = a
          BY <1>3, <4>2, <2>1 DEF Merged, Agree
        <5>2. reverse[a] \notin DOMAIN Export
          BY <4>2, <5>1, <2>1 DEF Merged, Conflict
        <5> QED BY <1>2, <5>1, <5>2
      <4> QED BY <4>1, <4>2
    <3> QED BY <3>1, <3>2 DEF Agree
  <2>4. Durable(forward, rows)'
    <3>1. now < now + TouchInterval
      BY <1>4, PoolOptions
    <3>2. ASSUME NEW d \in DOMAIN forward'
          PROVE  /\ d \in DOMAIN rows /\ rows[d].address = forward'[d].address
                 /\ rows[d].last_used_at = forward'[d].persisted_last_used_at
                 /\ forward'[d].last_used_at < forward'[d].persisted_last_used_at + TouchInterval
      <4>1. CASE d \in DOMAIN Export
        <5>1. d \in DOMAIN rows /\ rows[d] = [address |-> Export[d], last_used_at |-> now]
          BY <2>1, <4>1 DEF Merged
        <5>2. forward'[d] = [address |-> Export[d], last_used_at |-> now, persisted_last_used_at |-> now]
          BY <1>2, <4>1
        <5> QED BY <3>1, <5>1, <5>2
      <4>2. CASE d \notin DOMAIN Export
        BY <1>2, <2>1, <4>2 DEF Merged
      <4> QED BY <4>1, <4>2
    <3> QED BY <1>1, <1>4, <3>2 DEF Durable
  <2> QED BY <2>2, <2>3, <2>4 DEF Tables
<1> QED BY <1>1, <1>9, <1>10 DEF ImportInv

-----------------------------------------------------------------------------
(* Any other operation of the pool: during an import it is an overlap, and *)
(* nothing more is promised until the next start.                          *)
LEMMA PoolOperationKeeps == ImportInv /\ PoolOperation => ImportInv'
<1> SUFFICES ASSUME ImportInv, PoolOperation PROVE ImportInv'
  OBVIOUS
<1>1. /\ UNCHANGED <<stage, unchecked, marked>>
      /\ overlapped' <=> (overlapped \/ stage # "idle")
      /\ FlushTouches \/ \E d \in Domains : Allocate(d) \/ Release(d)
  BY DEF PoolOperation
<1>2. Sound'
  BY <1>1, AllocateKeepsSound, ReleaseKeepsSound, FlushKeepsSound DEF ImportInv
<1>3. up' = up /\ Closed'
  <2>1. up' = up /\ up
    BY <1>1 DEF FlushTouches, Release, Allocate, AllocateHit, AllocateFirstTransactionFails,
                AllocateMiss, AllocateFails, AllocateSweepFails
  <2> QED BY <2>1 DEF Closed
<1>4. ASSUME ~overlapped' PROVE stage' = "idle" /\ Tables(forward, reverse, rows)'
  <2>1. ~overlapped /\ stage = "idle"
    BY <1>1, <1>4
  <2>2. Whole
    BY <2>1 DEF ImportInv, Sound, Whole
  <2> QED BY <1>1, <1>2, <2>1, <2>2, PoolKeepsTables DEF Sound
<1> QED BY <1>1, <1>2, <1>3, <1>4 DEF ImportInv

(* A start, a crash and the clock.                                         *)
LEMMA EnvironmentKeeps == ImportInv /\ Environment => ImportInv'
<1> SUFFICES ASSUME ImportInv, Environment PROVE ImportInv'
  OBVIOUS
<1>1. CASE Open /\ UNCHANGED importVars
  <2>1. ~up /\ up' = TRUE /\ UNCHANGED <<stage, overlapped>>
    BY <1>1 DEF Open, importVars
  <2>2. TypeOK' /\ Tables(forward, reverse, rows)'
    BY <1>1, OpenRebuilds DEF ImportInv
  <2>3. stage' = "idle"
    BY <2>1 DEF ImportInv
  <2> QED BY <2>1, <2>2, <2>3 DEF ImportInv, Sound, Tables, Durable, Closed
<1>2. CASE CrashDuringImport
  <2>1. /\ stage' = "idle" /\ up' = FALSE /\ next' = 0
        /\ forward' = EmptyMap /\ reverse' = EmptyMap /\ reserved' = EmptyMap
        /\ UNCHANGED <<now, rows, cursor, foreign, legacy, legacyNext, answered>>
    BY <1>2 DEF CrashDuringImport, Crash, durable
  <2>2. 0 \in Addresses /\ DOMAIN EmptyMap = {}
    BY PoolOptions DEF Addresses, EmptyMap
  <2>3. TypeOK'
    BY <2>1, <2>2 DEF ImportInv, Sound, TypeOK, EmptyMap
  <2>4. UniqueAddresses(rows)'
    BY <2>1 DEF ImportInv, Sound
  <2>5. Tables(forward, reverse, rows)'
    BY <2>1, <2>2, <2>3, <2>4 DEF TypeOK, Tables, Shape, Agree, Durable
  <2> QED BY <2>1, <2>2, <2>3, <2>4, <2>5 DEF ImportInv, Sound, Closed
<1>3. CASE Tick /\ stage = "idle" /\ UNCHANGED importVars
  <2>1. /\ now \in Nat /\ now' = now + 1 /\ stage' = "idle" /\ overlapped' = overlapped
        /\ UNCHANGED <<up, next, forward, reverse, reserved, rows, cursor, foreign,
                       legacy, legacyNext, answered>>
    BY <1>3 DEF Tick, memory, durable, ImportInv, Sound, TypeOK, importVars
  <2>2. Sound' /\ Closed'
    BY <2>1 DEF ImportInv, Sound, TypeOK, Closed, UniqueAddresses
  <2>3. ~overlapped' => Tables(forward, reverse, rows)'
    BY <2>1, <1>3 DEF ImportInv
  <2> QED BY <2>1, <2>2, <2>3 DEF ImportInv
<1> QED BY <1>1, <1>2, <1>3 DEF Environment

LEMMA ImportStepKeeps == ExportIsValid /\ ImportInv /\ [ImportNext]_poolImportVars => ImportInv'
<1> SUFFICES ASSUME ExportIsValid, ImportInv, [ImportNext]_poolImportVars PROVE ImportInv'
  OBVIOUS
<1>1. CASE Import
  <2>1. ASSUME CommitFails PROVE ImportInv'
    BY <2>1, IdleKeeps DEF CommitFails
  <2> QED BY <1>1, <2>1, BeginKeeps, ValidateKeeps, CommitKeeps, ApplyKeeps DEF Import
<1>2. CASE UNCHANGED poolImportVars
  BY <1>2 DEF poolImportVars, importVars, vars, memory, durable, ImportInv, Sound, TypeOK, Closed,
              UniqueAddresses, Merged, Conflict
<1> QED BY <1>1, <1>2, PoolOperationKeeps, EnvironmentKeeps DEF ImportNext

(* import_legacy, validated entry by entry, written in one transaction and *)
(* applied to memory later, leaves the indexes inverse to each other and   *)
(* every mapping on its row once it ends or is cut by a crash at any step, *)
(* for every export, unless an operation of the pool ran in between; the   *)
(* next start then restores both.                                          *)
THEOREM ImportAlwaysRecovers ==
  ASSUME ExportIsValid
  PROVE  ImportSpec => []ImportRecovers
<1>1. ImportInit => ImportInv
  <2> SUFFICES ASSUME ImportInit PROVE ImportInv
    OBVIOUS
  <2>1. Inv /\ Closed
    BY InitEstablishesInv DEF ImportInit
  <2> QED BY <2>1 DEF ImportInit, ImportInv, Inv, Sound, Tables, Durable
<1>2. ImportInv => ImportRecovers
  <2>1. ImportInv /\ stage # "apply" /\ ~overlapped => Tables(forward, reverse, rows)
    BY DEF ImportInv
  <2> QED BY <2>1 DEF ImportRecovers, ImportIsAtomic, ImportLeavesMemoryDurable, Tables, Agree, Durable,
                      IndexesAgree, MemoryIsDurable
<1>3. ImportInv /\ [ImportNext]_poolImportVars => ImportInv'
  BY ImportStepKeeps
<1> QED BY <1>1, <1>2, <1>3, PTL DEF ImportSpec
=============================================================================
