------------------------------ MODULE MCRoutes ------------------------------
(***************************************************************************)
(* Routing.  Configurations of three rules out of fourteen: every kind of  *)
(* leaf, negated conjunctions and choices, an empty list, networks that    *)
(* exclude each other, patterns that overlap, rules of one priority and a  *)
(* disabled one; one configuration has two texts of one network.  Flows to *)
(* names, addresses, synthetic addresses with and without a name, entries  *)
(* of the hosts table, the listener itself, and flows of the program's     *)
(* own.                                                                    *)
(***************************************************************************)
EXTENDS MCRouteIndex, RouteRules, RouteTable

AllOf(es) == <<"all", es>>
AnyOf(es) == <<"any", es>>
Not(e) == <<"not", e>>
Network(n) == <<"network", {{n}}>>
Port(n) == <<"port", {{n}}>>

MCExpressions == <<
  AllOf(<<Network("tcp"), <<"port", {{80}, {443}}>>>>),
  Not(AllOf(<<<<"host", "sites">>, Network("udp")>>)),
  <<"pattern", <<C, Star>>>>,
  Not(AnyOf(<<Port(53), <<"host", "sites">>>>)),
  AllOf(<<<<"pattern", <<C, A, B>>>>, Not(<<"process", "browsers">>)>>),
  AllOf(<<Network("tcp"), AnyOf(<<Network("udp"), Port(80)>>)>>),
  <<"host", "empty">>,
  AllOf(<<<<"geo", {{"CN"}, {"US"}}>>, Not(<<"inbound", {{"lan"}}>>)>>),
  <<"pattern", <<<<1, 0>>, 1>>>>,
  AllOf(<<<<"pattern", <<C, Star>>>>, <<"pattern", <<C, Star, B>>>>, <<"network", {}>>>>),
  AllOf(<<Not(<<"host", "empty">>), Not(<<"geo", {{"CN"}}>>), Not(Port(80))>>),
  Not(<<"process", "none">>),
  AllOf(<<<<"process", "browsers">>, <<"inbound", {{"lan", "tun"}}>>, Not(<<"pattern", <<C, A, A>>>>)>>),
  <<"host", "sites">> >>

Modes == <<"direct", "block", "bypass">>
Rule(k, priority, tag) ==
  [priority |-> priority, mode |-> Modes[(k % 3) + 1], tag |-> tag, disabled |-> k % 8 = 7,
   rules |-> IF k % 9 = 8 THEN <<>> ELSE <<MCExpressions[(k % 14) + 1]>>]

Config(rules, fakeip) ==
  [rules |-> rules, fakeip |-> fakeip, pool |-> {<<0, 0>>, <<0, 1>>}, tagged |-> {"node"},
   lists |-> [sites |-> {<<C, A, B>>, <<<<1, 0>>, 2>>}, empty |-> {}],
   processes |-> [browsers |-> {"curl"}, none |-> {}],
   hosts |-> {<<Named(<<C, B, B>>), At(<<1, 0>>)>>,
              <<At(<<1, 1>>), Named(<<C, A, A>>)>>}]

ThreeRules(k) ==
  Config(<<Rule(k, 1, "node"), Rule(k + (k \div 14) * 3 + 1, 1 + (k % 2), "none"),
           Rule(k + (k \div 14) * 4 + 2, 2 + (k % 2), "gone")>>,
         IF k % 4 = 0 THEN <<>> ELSE <<0, 1>> :> <<C, A, B>>)

(* Two rules on texts of one network, of which the second replaces the     *)
(* first in the index.                                                     *)
OneNode ==
  LET On(p, priority, tag) == [Rule(1, priority, tag) EXCEPT !.rules = <<<<"pattern", p>>>>] IN
  Config(<<On(<<<<1, 0>>, 1>>, 1, "node"), On(<<<<1, 1>>, 1>>, 2, "none")>>, <<>>)

MCConfigs == [k \in 1 .. 29 |-> IF k = 29 THEN OneNode ELSE ThreeRules(k)]

Flow(destination, network, port, process) ==
  [destination |-> destination, network |-> network, port |-> port, process |-> process,
   original |-> IF IsIp(destination) THEN NoName ELSE destination[2],
   inbound |-> IF network = "tcp" THEN "lan" ELSE "tun", local |-> <<1, 1>>,
   mode |-> "proxy", tag |-> "none", skip |-> FALSE, hosts |-> FALSE, synthetic |-> FALSE]

MCArrivals ==
  {Flow(Named(h), "tcp", 80, "curl") : h \in {<<C>>, <<C, A, B>>, <<C, A, A>>}}
  \cup {Flow(Named(<<C, B, B>>), "udp", 53, "unknown"), Flow(Named(<<C, B>>), "tcp", 443, "self")}
  \cup {Flow(At(x), "udp", 443, "unknown") : x \in {<<0, 0>>, <<0, 1>>, <<1, 0>>, <<1, 1>>}}
  \cup {Flow(At(<<0, 1>>), "tcp", 80, "curl"), Flow(At(<<0, 1>>), "tcp", 80, "self"),
        Flow(At(<<1, 0>>), "tcp", 53, "self")}

MCCountry == (<<1, 0>> :> "CN") @@ (<<1, 1>> :> "US")

Row(i, n, p) == [id |-> i, name |-> n, priority |-> p]
MCFirstTables == {
  <<Row(1, 1, 1), Row(2, 2, 2)>>,
  <<Row(1, 1, 1), Row(2, 2, 1), Row(3, 3, 4)>>,
  <<Row(1, 1, 1), Row(9, 3, 2), Row(2, 2, 3)>>}
=============================================================================
