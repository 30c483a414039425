------------------------------ MODULE MCFlows ------------------------------
(***************************************************************************)
(* What serves every flow, whichever inbound it comes from: the DNS        *)
(* resolver with at most three of four queries for two names, the dialer   *)
(* with two IPv6 addresses and one IPv4 address, and the monitor           *)
(* (MCAccounting).  They share no state; one is explored at a time.        *)
(***************************************************************************)
EXTENDS MCAccounting, DnsResolver, HappyEyeballs

CONSTANTS a, b, q1, q2, q3, q4

MCKeyOf == (q1 :> a) @@ (q2 :> a) @@ (q3 :> b) @@ (q4 :> a)
EmptyCache == [at |-> EmptyMap, order |-> <<>>]
MCFirstCaches == {EmptyCache, [at |-> (a :> 0), order |-> <<a>>]}

MCAddresses == [fam \in Families |-> IF fam = "v6" THEN <<"v6a", "v6b">> ELSE <<"v4a">>]
MCStrategies == {<<"default">>, <<"list">>, <<"only", "v4">>, <<"prefer", "v6">>}
MCRemembered == {<<"v6b", "v4a">>}

VARIABLE focus

flowVars == <<accountingVars, resolverVars, dialVars, focus>>

(* A part that rests starts in one state.                                  *)
FlowsInit ==
  /\ AccountingInit /\ ResolverInit /\ DialInit
  /\ focus \in {"monitor", "resolver", "dial"}
  /\ focus # "monitor" => db = OpenedAgain.tables /\ budget = OpenedAgain.budget
  /\ focus # "resolver" => cache = EmptyCache
  /\ focus # "dial" => /\ strategy = <<"list">>
                       /\ \A x \in Candidates : fate[x] = "refuses"

OfMonitor(Steps) == focus = "monitor" /\ Steps /\ UNCHANGED <<resolverVars, dialVars, focus>>
OfResolver(Steps) == focus = "resolver" /\ Steps /\ UNCHANGED <<accountingVars, dialVars, focus>>
OfDial(Steps) == focus = "dial" /\ Steps /\ UNCHANGED <<accountingVars, resolverVars, focus>>

FlowsNext == OfMonitor(AccountingNext) \/ OfResolver(ResolverNext) \/ OfDial(DialSteps)

(* The fairness of each module.                                            *)
FlowsSpec ==
  /\ FlowsInit /\ [][FlowsNext]_flowVars
  /\ WF_flowVars(OfMonitor(Checkpoint) \/ OfResolver(ResolverSteps) \/ OfDial(DialSteps))
  /\ WF_flowVars(OfMonitor(ReadState \/ ReadShard \/ ReadEnds) \/ OfResolver(RemoveFlights))
  /\ WF_flowVars(OfMonitor(WorkerStops \/ ShutdownEnds))
  /\ SF_flowVars(OfMonitor(BeginTake)) /\ SF_flowVars(OfMonitor(ApplyDelta))

(* A dial returns once its resolvers have, whatever the candidates do.     *)
DialReturns == focus = "dial" ~> dial.result # "none"

(* Every query that is not dropped returns, and so does every dial.        *)
CallsReturn == QueriesReturn /\ DialReturns
=============================================================================
