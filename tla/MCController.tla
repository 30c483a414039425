---------------------------- MODULE MCController ----------------------------
(* Two management requests against two nodes and two selectors.            *)
EXTENDS Controller, TLC

Symmetric == Permutations(Nodes) \cup Permutations(Selectors) \cup Permutations(Requests)

(* The service starts with its nodes enabled and one of them selected.     *)
NodesEnabled == Init /\ store.nodes = Nodes /\ store.selected \in Nodes

NodesEnabledSpec == NodesEnabled /\ [][Next]_vars
=============================================================================
