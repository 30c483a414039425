----------------------------- MODULE RouteRules -----------------------------
(***************************************************************************)
(* From a stored rule to the outbound of a flow.  A rule is an expression  *)
(* over the flow; compiling expands it into variants, each a conjunction   *)
(* of positive and negative constraints, and the router finds the variants *)
(* whose first pattern covers the destination through its index            *)
(* (RouteIndex) before it tries their other constraints in order of        *)
(* priority.  A flow is routed once, after its FakeIP address is turned    *)
(* back into a name, and its outbound selected later, maybe under a newer  *)
(* configuration.                                                          *)
(*                                                                         *)
(* An expression is <<"all", es>>, <<"any", es>>, <<"not", e>>,            *)
(* <<"host", list>>, <<"pattern", p>>, <<"process", list>>, or a field and *)
(* the sets of values it may have, one per alternative of the expression.  *)
(***************************************************************************)
EXTENDS RouteIndex

CONSTANTS
  Configs,           (* the configurations, a sequence                       *)
  Arrivals,          (* the flows, each as its inbound first sees it         *)
  Country,           (* the country of each address the database knows       *)
  MaxPublished       (* a bound on the configurations published              *)

VARIABLES
  published,         (* the number of the configuration in force             *)
  context,           (* the flow being served, or Nothing                    *)
  routedUnder,       (* the configuration it was routed under                *)
  outbound,          (* what was selected for it                             *)
  publications       (* how many configurations were published               *)

routeVars == <<published, context, routedUnder, outbound, publications>>

Fields == {"network", "port", "geo", "inbound", "process"}
Unknown == "unknown"
Nothing == [kind |-> "nothing"]
NoName == <<>>

(* Every value of a field: no constraint.                                  *)
FieldValues ==
  [network |-> {"tcp", "udp", "icmp"}, port |-> {53, 80, 443}, geo |-> {"CN", "US", Unknown},
   inbound |-> {"lan", "tun"}, process |-> {"curl", "self", Unknown}]

---------------------------------------------------------------------------
(* Variants.                                                               *)

Unconstrained ==
  [allow |-> FieldValues, deny |-> [d \in Fields |-> {}], patterns |-> <<>>,
   notPatterns |-> {}, lists |-> {}, notLists |-> {}, never |-> FALSE]

Merge(v, w) ==
  [allow |-> [d \in Fields |-> v.allow[d] \cap w.allow[d]],
   deny |-> [d \in Fields |-> v.deny[d] \cup w.deny[d]],
   patterns |-> v.patterns \o w.patterns,
   notPatterns |-> v.notPatterns \cup w.notPatterns,
   lists |-> v.lists \cup w.lists, notLists |-> v.notLists \cup w.notLists,
   never |-> v.never \/ w.never]

(* A plausible bug: the exclusions of the right side are lost.             *)
CombineForgetting(V, W) ==
  {[Merge(v, w) EXCEPT !.deny = v.deny] : v \in V, w \in W}

(* The pairs that can hold together.  Two different networks in any pair   *)
(* leave nothing at all; other contradictions only drop their pair.        *)
Combine(V, W) ==
  LET pairs == {Merge(v, w) : v \in V, w \in W} IN
  IF \E x \in pairs : x.allow["network"] = {} THEN {}
  ELSE {x \in pairs : \A d \in Fields : x.allow[d] # {}}

(* One of several values, or none of them.                                 *)
FieldVariants(d, choices, negated) ==
  IF d = "network" /\ choices = {} THEN {Unconstrained}
  ELSE IF d \in {"inbound", "process"} /\ UNION choices = {} THEN {}
  ELSE IF negated THEN {[Unconstrained EXCEPT !.deny[d] = UNION choices]}
  ELSE {[Unconstrained EXCEPT !.allow[d] = c] : c \in choices}

ListVariants(lists, name, negated) ==
  {IF lists[name] = {} THEN [Unconstrained EXCEPT !.never = ~negated]
   ELSE IF negated THEN [Unconstrained EXCEPT !.notLists = {name}]
   ELSE [Unconstrained EXCEPT !.lists = {name}]}

PatternVariants(p, negated) ==
  {IF negated THEN [Unconstrained EXCEPT !.notPatterns = {p}]
   ELSE [Unconstrained EXCEPT !.patterns = <<p>>]}

(* What parse_rule_expression_inner returns: a negation is pushed down to  *)
(* the leaves, so a negated "all" is a choice and a negated "any" a        *)
(* conjunction.                                                            *)
RECURSIVE Expand(_, _, _)
Expand(config, e, negated) ==
  LET children == [i \in DOMAIN e[2] |-> Expand(config, e[2][i], negated)] IN
  CASE e[1] \in {"all", "any"} ->
         IF (e[1] = "all") = negated THEN UNION ToSet(children)
         ELSE FoldLeft(Combine, {Unconstrained}, children)
    [] e[1] = "not" -> Expand(config, e[2], ~negated)
    [] e[1] = "host" -> ListVariants(config.lists, e[2], negated)
    [] e[1] = "pattern" -> PatternVariants(e[2], negated)
    [] e[1] = "process" -> FieldVariants("process", {config.processes[e[2]]}, negated)
    [] OTHER -> FieldVariants(e[1], e[2], negated)

(* A rule without expressions matches everything, one with several if one  *)
(* of them does.                                                           *)
RuleVariants(config, rule) ==
  IF rule.disabled THEN {}
  ELSE IF rule.rules = <<>> THEN {Unconstrained}
  ELSE UNION {Expand(config, rule.rules[i], FALSE) : i \in DOMAIN rule.rules}

---------------------------------------------------------------------------
(* Matching.  A destination is a name or an address.                       *)

Named(path) == <<"name", path>>
At(address) == <<"ip", address>>
IsIp(destination) == destination[1] = "ip"

EffectiveDestination(c) == IF c.original = NoName THEN c.destination ELSE Named(c.original)

(* A file-backed index is asked for the destination or, for a list, for a  *)
(* name above it too.                                                      *)
FilesMatch(files, destination, parent) ==
  IF IsIp(destination) THEN MatchesIp(files, destination[2])
  ELSE IF parent THEN MatchesParent(files, destination[2])
  ELSE MatchesName(files, destination[2])

IndexHolds(patterns, destination, parent) ==
  FilesMatch(FromPatterns(SetToSeq(patterns)), destination, parent)

FieldOf(c, d) ==
  LET destination == EffectiveDestination(c) IN
  CASE d = "network" -> c.network [] d = "port" -> c.port
    [] d = "inbound" -> c.inbound [] d = "process" -> c.process
    [] d = "geo" -> IF IsIp(destination) /\ destination[2] \in DOMAIN Country
                    THEN Country[destination[2]] ELSE Unknown

MatchesWithContext(config, v, c) ==
  LET destination == EffectiveDestination(c) IN
  /\ ~v.never
  /\ \A d \in Fields : FieldOf(c, d) \in v.allow[d] \ v.deny[d]
  /\ v.notPatterns # {} => ~IndexHolds(v.notPatterns, destination, FALSE)
  /\ \A l \in v.notLists : ~IndexHolds(config.lists[l], destination, TRUE)
  /\ \A l \in v.lists : IndexHolds(config.lists[l], destination, TRUE)
  /\ \A i \in 2 .. Len(v.patterns) : IndexHolds({v.patterns[i]}, destination, FALSE)

(* The compiled rules: the position of the rule and one of its variants.   *)
Compiled(config) ==
  UNION {{[rule |-> i, variant |-> v] : v \in RuleVariants(config, config.rules[i])}
         : i \in DOMAIN config.rules}

IsGlobal(x) == x.variant.patterns = <<>>
PathOf(p) == IF IsNetwork(p) THEN SubSeq(p[1], 1, p[2]) ELSE p

(* Compiling groups the rules by the text of their first pattern and       *)
(* inserts the groups in the order of the texts, so of two networks that   *)
(* differ only below their prefix, which are one node, the group of the    *)
(* later text replaces the other.  A network's text is here its address;   *)
(* two spellings of a name, in other letters, are left out.                *)
Replaces(q, p) == SameEntry(p, q) /\ IsNetwork(p) /\ Less(p[1], q[1])

FirstPatterns(compiled) == {x.variant.patterns[1] : x \in {y \in compiled : ~IsGlobal(y)}}

(* The rules at the one node the index finds.                              *)
RulesAtNode(compiled, destination) ==
  LET firsts == FirstPatterns(compiled)
      index == FoldLeft(InsertMemory, [domains |-> EmptyTree, cidrs |-> EmptyTree], SetToSeq(firsts))
      found == IF IsIp(destination) THEN SearchCidr(index.cidrs, destination[2])
               ELSE SearchDomain(index.domains, <<>>, destination[2])
      kept == {p \in firsts : /\ IsNetwork(p) = IsIp(destination) /\ PathOf(p) \in found
                              /\ \A q \in firsts : ~Replaces(q, p)}
  IN {x \in compiled : ~IsGlobal(x) /\ x.variant.patterns[1] \in kept}

(* The compiled rules the router tries that match.                         *)
Matching(config, compiled, c) ==
  {x \in {y \in compiled : IsGlobal(y)} \cup RulesAtNode(compiled, EffectiveDestination(c)) :
     MatchesWithContext(config, x.variant, c)}

(* A plausible bug: the last of the matching rules wins.                   *)
FirstRuleLast(config, matching) ==
  IF matching = {} THEN {} ELSE {Max({x.rule : x \in matching})}

(* The rule of lowest priority, among those of one priority a global one   *)
(* first.                                                                  *)
FirstRule(config, matching) ==
  LET lowest == Min({config.rules[x.rule].priority : x \in matching})
      first == {x \in matching : config.rules[x.rule].priority = lowest}
      globals == {x \in first : IsGlobal(x)}
  IN IF matching = {} THEN {}
     ELSE {Min({x.rule : x \in IF globals = {} THEN first ELSE globals})}

MatchedRule(config, c) == FirstRule(config, Matching(config, Compiled(config), c))

DecisionBy(config, matched) ==
  IF matched = {} THEN [mode |-> "proxy", tag |-> "none"]
  ELSE LET rule == config.rules[CHOOSE i \in matched : TRUE] IN [mode |-> rule.mode, tag |-> rule.tag]

Decision(config, c) == DecisionBy(config, MatchedRule(config, c))

---------------------------------------------------------------------------
(* The flow.                                                               *)

Blocked(c, reason) == [c EXCEPT !.mode = "block", !.tag = reason, !.skip = TRUE]

(* A plausible bug: rules see the synthetic address.                       *)
RestoreNothing(config, c) == c

(* A synthetic address becomes the name it stands for; one that stands for *)
(* no name is refused.                                                     *)
RestoreFakeip(config, c) ==
  IF c.original # NoName \/ ~IsIp(c.destination) THEN c
  ELSE LET address == c.destination[2] IN
       IF address \in DOMAIN config.fakeip
       THEN [c EXCEPT !.original = config.fakeip[address],
                      !.destination = Named(config.fakeip[address])]
       ELSE IF address \in config.pool THEN Blocked(c, "fakeip_unmapped")
       ELSE c

(* The hosts table replaces the destination, and the name it is known by   *)
(* only where it had none.                                                 *)
ApplyHosts(config, c) ==
  LET targets == {h[2] : h \in {x \in config.hosts : x[1] = c.destination}} IN
  IF c.skip \/ targets = {} \/ (IsIp(c.destination) /\ c.original # NoName) THEN c
  ELSE LET target == CHOOSE t \in targets : TRUE IN
       [c EXCEPT !.destination = target, !.hosts = TRUE,
                 !.original = IF ~IsIp(target) /\ @ = NoName THEN target[2] ELSE @]

(* A flow to the listener that accepted it is refused, and so are the      *)
(* program's own, a name it has not resolved yet excepted.  No outbound    *)
(* registers its socket, so there is no third case.                        *)
IsLoopback(c) ==
  \/ c.destination = At(c.local)
  \/ /\ c.process = "self"
     /\ c.synthetic \/ c.hosts \/ IsIp(EffectiveDestination(c))

Decided(c, decision) == [c EXCEPT !.mode = decision.mode, !.tag = decision.tag]
ApplyRouter(config, c) == IF c.skip THEN c ELSE Decided(c, Decision(config, c))

RouteContext(config, c) ==
  LET restored == RestoreFakeip(config, c)
      known == [restored EXCEPT !.synthetic = restored.original # c.original]
      resolved == ApplyHosts(config, known)
  IN IF IsLoopback(resolved) THEN Blocked(resolved, "loopback") ELSE ApplyRouter(config, resolved)

(* A plausible bug: every flow is decided again when it is dialled.        *)
SelectAgain(config, c) ==
  IF c.mode # "block" /\ c.tag \in config.tagged THEN c.tag ELSE Decision(config, c).mode

(* The outbound of a tag, or that of the mode the rules now in force give. *)
SelectOutbound(config, c) ==
  IF c.mode # "block" /\ c.tag \in config.tagged THEN c.tag
  ELSE IF c.skip THEN c.mode ELSE Decision(config, c).mode

RouteInit ==
  /\ published \in DOMAIN Configs
  /\ context = Nothing /\ outbound = "none" /\ routedUnder = 0 /\ publications = 0

Arrive(c) ==
  /\ context = Nothing
  /\ context' = RouteContext(Configs[published], c)
  /\ routedUnder' = published
  /\ UNCHANGED <<published, outbound, publications>>

Publish(n) ==
  /\ publications < MaxPublished
  /\ published' = n
  /\ publications' = publications + 1
  /\ UNCHANGED <<context, routedUnder, outbound>>

Dial ==
  /\ context # Nothing /\ outbound = "none"
  /\ outbound' = SelectOutbound(Configs[published], context)
  /\ UNCHANGED <<published, context, routedUnder, publications>>

RouteNext ==
  \/ \E c \in Arrivals : Arrive(c)
  \/ \E n \in DOMAIN Configs : Publish(n)
  \/ Dial

RouteSpec == RouteInit /\ [][RouteNext]_routeVars

---------------------------------------------------------------------------
(* What a rule says, read off its expression.                              *)

CoversDestination(p, destination) ==
  IF IsIp(destination) THEN IsNetwork(p) /\ InNetwork(destination[2], p)
  ELSE ~IsNetwork(p) /\ Covers(p, destination[2])

OnList(entries, destination) ==
  \E p \in entries :
    \/ CoversDestination(p, destination)
    \/ ~IsIp(destination) /\ ~IsNetwork(p)
       /\ \E n \in 1 .. Len(destination[2]) : Covers(p, SubSeq(destination[2], 1, n))

RECURSIVE ExpressionHolds(_, _, _)
ExpressionHolds(config, e, c) ==
  CASE e[1] = "all" -> \A i \in DOMAIN e[2] : ExpressionHolds(config, e[2][i], c)
    [] e[1] = "any" -> \E i \in DOMAIN e[2] : ExpressionHolds(config, e[2][i], c)
    [] e[1] = "not" -> ~ExpressionHolds(config, e[2], c)
    [] e[1] = "host" -> OnList(config.lists[e[2]], EffectiveDestination(c))
    [] e[1] = "pattern" -> CoversDestination(e[2], EffectiveDestination(c))
    [] e[1] = "process" -> c.process \in config.processes[e[2]]
    [] e[1] = "network" /\ e[2] = {} -> TRUE
    [] OTHER -> FieldOf(c, e[1]) \in UNION e[2]

RuleHolds(config, rule, c) ==
  /\ ~rule.disabled
  /\ rule.rules = <<>> \/ \E i \in DOMAIN rule.rules : ExpressionHolds(config, rule.rules[i], c)

Routed == context # Nothing /\ ~context.skip
ConfigRouted == Configs[routedUnder]

(* A flow is decided by a rule that is true of it, or by none: expanding   *)
(* the expression into variants, negations pushed to its leaves, makes no  *)
(* rule match more than it says (parse_rule_expression_inner,              *)
(* combine_all, matches_with_context).                                     *)
DecidedByTrueRule ==
  Routed =>
    \A i \in MatchedRule(ConfigRouted, context) : RuleHolds(ConfigRouted, ConfigRouted.rules[i], context)

(* A part of the expression that compiles to nothing: a list without       *)
(* processes, inbounds without names, or networks that exclude each other. *)
RECURSIVE Vanishes(_, _, _)
Vanishes(config, e, negated) ==
  \/ Expand(config, e, negated) = {}
  \/ e[1] \in {"all", "any"} /\ \E i \in DOMAIN e[2] : Vanishes(config, e[2][i], negated)
  \/ e[1] = "not" /\ Vanishes(config, e[2], ~negated)

(* Of two patterns that cover a destination, q wins: a longer network, a   *)
(* name that beats the other label by label, or a later text of one node.  *)
Outranks(q, p) == IF IsNetwork(p) THEN q[2] > p[2] \/ Replaces(q, p) ELSE Beats(q, p)

(* A pattern of the rule covers the destination, but one of another rule   *)
(* outranks it, whatever the priorities of the two and whether or not the  *)
(* other rule matches.                                                     *)
Shadowed(config, i, destination) ==
  LET covering == {x \in Compiled(config) :
                     ~IsGlobal(x) /\ CoversDestination(x.variant.patterns[1], destination)}
  IN \E x, y \in covering : x.rule = i /\ Outranks(y.variant.patterns[1], x.variant.patterns[1])

(* No rule before the one that decides is true of the flow, and where none *)
(* decides no rule is, two kinds of rule excepted: one whose pattern       *)
(* another rule's pattern outranks, and one a part of which compiles to    *)
(* nothing.  So lower priorities win among the rules of the winning        *)
(* pattern and those without one, not among all the rules, which is what   *)
(* the comment of matched_rule says (router.rs:322).                       *)
EarlierRulesAreFalse ==
  Routed =>
    LET matched == MatchedRule(ConfigRouted, context)
        rules == ConfigRouted.rules
        earlier == {i \in DOMAIN rules :
                      \A k \in matched : rules[i].priority < rules[k].priority}
    IN \A i \in earlier :
         \/ ~RuleHolds(ConfigRouted, rules[i], context)
         \/ Shadowed(ConfigRouted, i, EffectiveDestination(context))
         \/ \E k \in DOMAIN rules[i].rules : Vanishes(ConfigRouted, rules[i].rules[k], FALSE)

(* A flow to a synthetic address is routed as one to the name the address  *)
(* stands for, the program's own excepted, which are refused: the rules    *)
(* never see the address (restore_fakeip_destination before hosts and      *)
(* rules).                                                                 *)
SyntheticRoutedAsName ==
  context # Nothing =>
    LET named == [context EXCEPT !.destination = Named(context.original), !.synthetic = FALSE,
                                 !.hosts = FALSE, !.skip = FALSE]
    IN /\ IsIp(context.destination) /\ ~context.hosts =>
            context.destination[2] \notin DOMAIN ConfigRouted.fakeip
       /\ context.synthetic /\ context.process = "self" => context.mode = "block"
       /\ context.synthetic /\ context.process # "self" =>
            /\ context.mode = RouteContext(ConfigRouted, named).mode
            /\ context.tag = RouteContext(ConfigRouted, named).tag

(* What the pipeline refuses (an address that stands for no name, a loop)  *)
(* is dropped, whatever configuration is published before the outbound is  *)
(* selected.                                                               *)
RefusedStaysRefused ==
  context # Nothing /\ context.skip /\ outbound # "none" => outbound = "block"

(* A flow goes where the first rule that is true of its name or address    *)
(* sends it, rules with an outranked pattern or an empty part excepted, or *)
(* is refused (route_context, select).                                     *)
FlowsFollowRules ==
  /\ DecidedByTrueRule /\ EarlierRulesAreFalse
  /\ SyntheticRoutedAsName /\ RefusedStaysRefused
=============================================================================
