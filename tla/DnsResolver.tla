---------------------------- MODULE DnsResolver ----------------------------
(***************************************************************************)
(* AsyncDnsResolver of doradus-dns (dns_resolver_async.rs) over its packet *)
(* cache (cache.rs): queries of one key share a flight whose owner asks    *)
(* the upstream, an optimistic query is served a stale entry and starts a  *)
(* refresh, and any query may be dropped while it waits.  Each lock is a   *)
(* step of its own, as on a runtime with several threads.                  *)
(***************************************************************************)
EXTENDS Integers, Sequences, FiniteSets, Maps

CONSTANTS
  Queries,       (* calls of query_packet_inner                            *)
  KeyOf,         (* query -> RawDnsCacheKey                                *)
  Optimistic,    (* queries of query_packet_send, which allow stale        *)
  CacheSize,     (* capacity of the LruMap                                 *)
  SweepBudget,   (* EXPIRATION_SWEEP_BUDGET                                *)
  Ttl,           (* TTL of a cacheable response                            *)
  LastSecond,    (* bound on the clock                                     *)
  MaxAsked,      (* bound on the queries of one behaviour                  *)
  MaxDrops,      (* bound on the queries dropped                           *)
  FirstCaches    (* caches that earlier queries can have left              *)

ASSUME ResolverAssumption ==
  Ttl \in Nat /\ \A c \in FirstCaches : c.at \in [DOMAIN c.at -> Int]

Keys == {KeyOf[q] : q \in Queries}

(* What an upstream returns: a response with a TTL, a NoError or NXDomain  *)
(* without one (or with 0), one that must not be cached (another code, or  *)
(* truncated), and an error or a response that is not valid.               *)
Replies == {"answer", "uncacheable", "transient", "error"}

VARIABLES
  second,        (* Instant::now()                                         *)
  cache,         (* raw_entries: when each key was cached, and the keys,   *)
                 (* the most recently used first                           *)
  inFlight,      (* in_flight: key -> flight                               *)
  outcome,       (* the flights ever begun, and what they came to          *)
  refreshing,    (* keys marked as being refreshed                         *)
  tasks,         (* key -> refresh tasks: asking, and ending               *)
  query,         (* query -> where it is, its flight and its result        *)
  drops          (* what is left of MaxDrops                               *)

resolverVars == <<second, cache, inFlight, outcome, refreshing, tasks, query, drops>>

Goto(q, pc) == query' = [query EXCEPT ![q].pc = pc]
Return(q, r) == query' = [query EXCEPT ![q].pc = "done", ![q].result = r]

-----------------------------------------------------------------------------
(* LruMap, a linked hash map; remove_expired looks at its front only.     *)
Without(c, K) == [at |-> Drop(c.at, K), order |-> SelectSeq(c.order, LAMBDA k : k \notin K)]
ToFront(c, k) == [at |-> c.at, order |-> <<k>> \o SelectSeq(c.order, LAMBDA x : x # k)]
Expired(c, k) == c.at[k] + Ttl <= second
Swept(c) == Without(c, {c.order[i] : i \in {j \in DOMAIN c.order : j <= SweepBudget /\ Expired(c, c.order[j])}})
Inserted(c, k) ==
  LET d == ToFront([at |-> Put(c.at, k, second), order |-> c.order], k)
  IN Without(d, {d.order[i] : i \in {j \in DOMAIN d.order : j > CacheSize}})

(* insert_packet: a response that must not be cached keeps an old entry    *)
(* unless it supersedes it.                                                *)
InsertPacket(k, reply) ==
  cache' = CASE reply = "answer" -> Inserted(Swept(cache), k)
             [] reply = "uncacheable" -> Without(cache, {k})
             [] OTHER -> cache

(* Mutant of Aged: the TTL is that of the upstream.                        *)
Unaged(k) == Ttl

(* age_raw_packet                                                          *)
Aged(k) == IF Expired(cache, k) THEN 0 ELSE cache.at[k] + Ttl - second

-----------------------------------------------------------------------------
(* query_packet_inner up to get_packet, which drops a stale entry for a    *)
(* query that does not allow it.                                           *)
LookUp(q) ==
  LET k == KeyOf[q]
      served == [at |-> second, ttl |-> Aged(k), born |-> cache.at[k]] IN
  /\ query[q].pc = "lookup"
  /\ IF k \notin DOMAIN cache.at
     THEN Goto(q, "begin") /\ UNCHANGED cache
     ELSE IF Expired(cache, k) /\ q \notin Optimistic
     THEN Goto(q, "begin") /\ cache' = Without(cache, {k})
     ELSE /\ cache' = ToFront(cache, k)
          /\ IF Expired(cache, k)
             THEN query' = [query EXCEPT ![q].pc = "stale", ![q].result = served]
             ELSE Return(q, served)
  /\ UNCHANGED <<second, inFlight, outcome, refreshing, tasks, drops>>

(* Mutant of StartRefresh: the mark is not consulted.                      *)
StartRefreshAgain(q) ==
  LET k == KeyOf[q] IN
  /\ query[q].pc = "stale"
  /\ refreshing' = refreshing \cup {k}
  /\ tasks' = [tasks EXCEPT ![k].asking = @ + 1]
  /\ Goto(q, "done")
  /\ UNCHANGED <<second, cache, inFlight, outcome, drops>>

(* start_refresh: the task is spawned with its cleanup guard.              *)
StartRefresh(q) ==
  LET k == KeyOf[q] IN
  /\ query[q].pc = "stale"
  /\ refreshing' = refreshing \cup {k}
  /\ tasks' = IF k \in refreshing THEN tasks ELSE [tasks EXCEPT ![k].asking = @ + 1]
  /\ Goto(q, "done")
  /\ UNCHANGED <<second, cache, inFlight, outcome, drops>>

(* The refresh task: the response is cached, then the guard is dropped.    *)
RefreshAnswered(k, reply) ==
  /\ tasks[k].asking > 0
  /\ InsertPacket(k, reply)
  /\ tasks' = [tasks EXCEPT ![k].asking = @ - 1, ![k].ending = @ + 1]
  /\ UNCHANGED <<second, inFlight, outcome, refreshing, query, drops>>

RefreshEnds(k) ==
  /\ tasks[k].ending > 0
  /\ tasks' = [tasks EXCEPT ![k].ending = @ - 1]
  /\ refreshing' = refreshing \ {k}
  /\ UNCHANGED <<second, cache, inFlight, outcome, query, drops>>

-----------------------------------------------------------------------------
(* begin_flight                                                            *)
Begin(q) ==
  LET k == KeyOf[q]  f == Len(outcome) + 1 IN
  /\ query[q].pc = "begin"
  /\ IF k \in DOMAIN inFlight
     THEN /\ query' = [query EXCEPT ![q].pc = "wait", ![q].flight = inFlight[k]]
          /\ UNCHANGED <<inFlight, outcome>>
     ELSE /\ query' = [query EXCEPT ![q].pc = "ask", ![q].flight = f]
          /\ inFlight' = Put(inFlight, k, f)
          /\ outcome' = Append(outcome, "pending")
  /\ UNCHANGED <<second, cache, refreshing, tasks, drops>>

(* The upstream returns to the owner; a valid response is cached.          *)
Answered(q, reply) ==
  /\ query[q].pc = "ask"
  /\ InsertPacket(KeyOf[q], reply)
  /\ query' = [query EXCEPT ![q].pc = "complete",
       ![q].result = [at |-> second, ttl |-> IF reply = "answer" THEN Ttl ELSE 0, born |-> second]]
  /\ UNCHANGED <<second, inFlight, outcome, refreshing, tasks, drops>>

(* Mutant of Complete: a cancelled flight only notifies.                   *)
CompleteQuietly(q, out, next) ==
  /\ outcome' = [outcome EXCEPT ![query[q].flight] = IF out = "cancelled" THEN @ ELSE out]
  /\ query' = [x \in Queries |->
       IF x = q THEN [query[q] EXCEPT !.pc = next]
       ELSE IF query[x].pc = "parked" /\ query[x].flight = query[q].flight
       THEN [query[x] EXCEPT !.pc = "wait"] ELSE query[x]]

(* AsyncDnsFlight::complete: the outcome, then the waiters.                *)
Complete(q, out, next) ==
  /\ outcome' = [outcome EXCEPT ![query[q].flight] = out]
  /\ query' = [x \in Queries |->
       IF x = q THEN [query[q] EXCEPT !.pc = next]
       ELSE IF query[x].pc = "parked" /\ query[x].flight = query[q].flight
       THEN [query[x] EXCEPT !.pc = "wait"] ELSE query[x]]

(* AsyncDnsFlightCleanup::finish ...                                       *)
Finish(q) ==
  /\ query[q].pc = "complete"
  /\ Complete(q, "completed", "unmap")
  /\ UNCHANGED <<second, cache, inFlight, refreshing, tasks, drops>>

(* ... or its Drop, when the owner is dropped.                             *)
DropOwner(q) ==
  /\ query[q].pc = "ask" /\ drops > 0 /\ drops' = drops - 1
  /\ Complete(q, "cancelled", "unmapDropped")
  /\ UNCHANGED <<second, cache, inFlight, refreshing, tasks>>

(* Mutant of RemoveFlight: a flight that was cancelled stays.              *)
RemoveFinishedFlight(q) ==
  LET k == KeyOf[q]
      own == k \in DOMAIN inFlight /\ inFlight[k] = query[q].flight IN
  /\ query[q].pc \in {"unmap", "unmapDropped"}
  /\ inFlight' = IF own /\ query[q].pc = "unmap" THEN Drop(inFlight, {k}) ELSE inFlight
  /\ Goto(q, IF query[q].pc = "unmap" THEN "done" ELSE "dropped")
  /\ UNCHANGED <<second, cache, outcome, refreshing, tasks, drops>>

(* remove_flight, after either of them: only the flight of its own.        *)
RemoveFlight(q) ==
  LET k == KeyOf[q]
      own == k \in DOMAIN inFlight /\ inFlight[k] = query[q].flight IN
  /\ query[q].pc \in {"unmap", "unmapDropped"}
  /\ inFlight' = IF own THEN Drop(inFlight, {k}) ELSE inFlight
  /\ Goto(q, IF query[q].pc = "unmap" THEN "done" ELSE "dropped")
  /\ UNCHANGED <<second, cache, outcome, refreshing, tasks, drops>>

(* wait: enabled before the outcome is read; a cancelled flight sends the  *)
(* query back to the cache, and of another one the query returns what the  *)
(* owner got, which is not recorded a second time.                         *)
Wait(q) ==
  /\ query[q].pc = "wait"
  /\ Goto(q, CASE outcome[query[q].flight] = "pending" -> "parked"
               [] outcome[query[q].flight] = "cancelled" -> "lookup"
               [] OTHER -> "done")
  /\ UNCHANGED <<second, cache, inFlight, outcome, refreshing, tasks, drops>>

DropFollower(q) ==
  /\ query[q].pc \in {"wait", "parked"} /\ drops > 0 /\ drops' = drops - 1
  /\ Goto(q, "dropped")
  /\ UNCHANGED <<second, cache, inFlight, outcome, refreshing, tasks>>

Ask(q) ==
  /\ query[q].pc = "idle" /\ Goto(q, "lookup")
  /\ Cardinality({x \in Queries : query[x].pc # "idle"}) < MaxAsked
  /\ UNCHANGED <<second, cache, inFlight, outcome, refreshing, tasks, drops>>

SecondPasses ==
  /\ second < LastSecond /\ second' = second + 1
  /\ UNCHANGED <<cache, inFlight, outcome, refreshing, tasks, query, drops>>

-----------------------------------------------------------------------------
NoResult == [at |-> 0, ttl |-> 0, born |-> 0]

ResolverInit ==
  /\ second = Ttl
  /\ cache \in FirstCaches
  /\ inFlight = EmptyMap /\ outcome = <<>>
  /\ refreshing = {} /\ tasks = [k \in Keys |-> [asking |-> 0, ending |-> 0]]
  /\ query = [q \in Queries |-> [pc |-> "idle", flight |-> 0, result |-> NoResult]]
  /\ drops = MaxDrops

(* What the runtime polls and the upstream, which has a timeout, returns.  *)
(* A follower that finds a cancelled flight still in the map spins until   *)
(* the thread of the owner has removed it.                                 *)
RemoveFlights == \E q \in Queries : RemoveFlight(q)
ResolverSteps ==
  \/ \E q \in Queries :
       \/ LookUp(q) \/ StartRefresh(q) \/ Begin(q) \/ Finish(q) \/ RemoveFlight(q) \/ Wait(q)
       \/ \E r \in Replies : Answered(q, r)
  \/ \E k \in Keys : RefreshEnds(k) \/ \E r \in Replies : RefreshAnswered(k, r)

ResolverNext ==
  \/ ResolverSteps \/ SecondPasses
  \/ \E q \in Queries : Ask(q) \/ DropOwner(q) \/ DropFollower(q)

ResolverSpec ==
  /\ ResolverInit /\ [][ResolverNext]_resolverVars
  /\ WF_resolverVars(ResolverSteps) /\ WF_resolverVars(RemoveFlights)

-----------------------------------------------------------------------------
Owners(f) ==
  {q \in Queries : query[q].flight = f /\ query[q].pc \in {"ask", "complete", "unmap", "unmapDropped"}}

(* A query that joins a flight joins one that an owner will still complete *)
(* and remove: no flight is left behind by a dropped owner.                *)
FlightsHaveOwner == \A k \in DOMAIN inFlight : Owners(inFlight[k]) # {}

(* However queries, drops and refreshes interleave, the upstream has at    *)
(* most one flight and one refresh of a key to answer, and a key is marked *)
(* as refreshing exactly while a task refreshes it.                        *)
OneRefreshPerKey ==
  \A k \in Keys :
    /\ tasks[k].asking + tasks[k].ending = IF k \in refreshing THEN 1 ELSE 0
    /\ \A p, q \in Queries :
         query[p].pc = "ask" /\ query[q].pc = "ask" /\ KeyOf[p] = KeyOf[q] => p = q

(* What a query took from the cache or the upstream expires for its client *)
(* no later than it did for the resolver, however often the entry was      *)
(* served before.  A follower returns what the owner of its flight got,    *)
(* unaged, and is not meant here.                                          *)
AnswersExpire ==
  \A q \in Queries :
    query[q].pc = "done" /\ query[q].result.ttl > 0
      => query[q].result.at + query[q].result.ttl <= query[q].result.born + Ttl

(* Queries share flights, refreshes and cached answers, and none outlives  *)
(* its owner or its TTL (query_packet_inner).                              *)
SharingIsSafe == FlightsHaveOwner /\ OneRefreshPerKey /\ AnswersExpire

(* Every query that is not dropped returns, also when the owner of its     *)
(* flight is dropped before or after it parks: the bounded number of       *)
(* queries comes to rest.                                                  *)
QueriesReturn ==
  []<>(\A q \in Queries : query[q].pc \in {"idle", "done", "dropped"})
=============================================================================
