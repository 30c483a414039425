----------------------------- MODULE RouteIndex -----------------------------
(***************************************************************************)
(* The two forms of HostTrie (crates/doradus-trie): a tree in memory, and  *)
(* sorted tables on disk that an external sort builds and binary searches  *)
(* read.  Route lists, excluded and required patterns of rules use the     *)
(* tables, the index of the rules themselves is a tree.  The module gives  *)
(* both forms the same operations.                                         *)
(*                                                                         *)
(* A name is its path, the labels from the root down ("www.a.com" is       *)
(* <<com, a, www>>); a label is the sequence of its bytes, because the     *)
(* order of a table is the order of bytes.  An address is a sequence of    *)
(* bits, a network an address with a prefix length.                        *)
(***************************************************************************)
EXTENDS Naturals, Sequences, FiniteSets, SequencesExt

CONSTANTS
  Patterns,          (* the domain patterns inserted and removed, as paths   *)
  Networks,          (* the networks inserted and removed: <<address, length>> *)
  Hosts,             (* the names looked up                                  *)
  Ips,               (* the addresses looked up                              *)
  Lists,             (* the route lists an index may start from: sequences of patterns *)
  ChunkSize,         (* records sorted in memory before a run is written     *)
  MergeFanIn         (* runs merged at a time                                *)

VARIABLES
  inserted,          (* what the index should hold, a history variable       *)
  memory,            (* the tree: one of domains, one of networks            *)
  disk               (* the tables, and the root labels of the domain table  *)

indexVars == <<inserted, memory, disk>>

Dot == 46
Star == <<42>>

IsNetwork(p) == p \in Networks

---------------------------------------------------------------------------
(* The tree: its reachable nodes, each the path that leads to it, and the  *)
(* nodes that hold a value.                                                *)

EmptyTree == [nodes |-> {<<>>}, values |-> {}]

InsertPath(t, p) ==
  [nodes |-> t.nodes \cup {SubSeq(p, 1, n) : n \in 0 .. Len(p)},
   values |-> t.values \cup {p}]

IsLeaf(t, p) == \A n \in t.nodes : ~IsStrictPrefix(p, n)

(* A plausible bug: the branch goes whatever else it holds.               *)
PruneAlways(t, p) ==
  IF p = <<>> THEN t
  ELSE LET gone == {n \in t.nodes : IsPrefix(SubSeq(p, 1, 1), n)} IN
       [nodes |-> t.nodes \ gone, values |-> t.values \ gone]

(* The way back of remove_domain: empty nodes go, from the end of the path *)
(* up.                                                                     *)
RECURSIVE Prune(_, _)
Prune(t, p) ==
  IF p = <<>> \/ p \in t.values \/ ~IsLeaf(t, p) THEN t
  ELSE Prune([t EXCEPT !.nodes = @ \ {p}], Front(p))

RemovePath(t, p) ==
  IF p \in t.nodes THEN Prune([t EXCEPT !.values = @ \ {p}], p) ELSE t

(* A plausible bug: a literal branch that leads nowhere ends the search.   *)
RECURSIVE SearchDomainGreedy(_, _, _)
SearchDomainGreedy(t, node, labels) ==
  LET star == Append(node, Star) IN
  IF labels = <<>> THEN IF node \in t.values THEN {node} ELSE {star} \cap t.values
  ELSE LET literal == Append(node, Head(labels)) IN
       IF literal \in t.nodes THEN SearchDomainGreedy(t, literal, Tail(labels))
       ELSE IF star \in t.values THEN {star}
       ELSE IF star \in t.nodes THEN SearchDomainGreedy(t, star, Tail(labels)) ELSE {}

(* What a lookup finds, if anything: the literal label first, then the     *)
(* wildcard, which ends the search when it holds a value.                  *)
RECURSIVE SearchDomain(_, _, _)
SearchDomain(t, node, labels) ==
  LET star == Append(node, Star) IN
  IF labels = <<>> THEN IF node \in t.values THEN {node} ELSE {star} \cap t.values
  ELSE LET literal == Append(node, Head(labels))
           exact == IF literal \in t.nodes THEN SearchDomain(t, literal, Tail(labels)) ELSE {}
           wild == IF star \in t.values THEN {star}
                   ELSE IF star \in t.nodes THEN SearchDomain(t, star, Tail(labels)) ELSE {}
       IN IF exact # {} THEN exact ELSE wild

(* A list entry also covers the names below it.                            *)
SearchParent(t, labels) ==
  LET ends == {n \in 1 .. Len(labels) : SearchDomain(t, <<>>, SubSeq(labels, 1, n)) # {}} IN
  IF ends = {} THEN {} ELSE SearchDomain(t, <<>>, SubSeq(labels, 1, Max(ends)))

(* The walk along the bits of an address, which keeps the last value met.  *)
SearchCidr(t, address) ==
  LET walked == {n \in 0 .. Len(address) : SubSeq(address, 1, n) \in t.nodes}
      met == {n \in walked : SubSeq(address, 1, n) \in t.values}
  IN IF met = {} THEN {} ELSE {SubSeq(address, 1, Max(met))}

---------------------------------------------------------------------------
(* The tables.  A record is its key: the labels joined by dots, or the     *)
(* prefix length before the masked address.                                *)

AppendLabel(path, label) == IF path = <<>> THEN label ELSE path \o <<Dot>> \o label
DomainKey(labels) == FoldLeft(AppendLabel, <<>>, labels)
MaskAddress(address, n) == [i \in DOMAIN address |-> IF i <= n THEN address[i] ELSE 0]
CidrKey(address, n) == <<n>> \o MaskAddress(address, n)
PatternKey(p) == IF IsNetwork(p) THEN CidrKey(p[1], p[2]) ELSE DomainKey(p)

(* The order of byte strings.                                              *)
Less(a, b) ==
  \/ IsStrictPrefix(a, b)
  \/ \E i \in 1 .. Min({Len(a), Len(b)}) :
       a[i] < b[i] /\ SubSeq(a, 1, i - 1) = SubSeq(b, 1, i - 1)

(* Consecutive pieces of n elements.                                       *)
Pieces(s, n) ==
  [i \in 1 .. (Len(s) + n - 1) \div n |-> SubSeq(s, (i - 1) * n + 1, Min({i * n, Len(s)}))]

(* A chunk is sorted and freed of duplicates before it is written.         *)
FlushRun(records) == SetToSortSeq(ToSet(records), Less)

(* A plausible bug: the runs of a group one after the other.               *)
MergeGroupConcat(cursors, output) == FlattenSeq(cursors)

(* The records of several runs in order, each once.                        *)
RECURSIVE MergeGroup(_, _)
MergeGroup(cursors, output) ==
  LET open == {i \in DOMAIN cursors : cursors[i] # <<>>}
      best == CHOOSE i \in open : \A j \in open : ~Less(Head(cursors[j]), Head(cursors[i]))
      record == Head(cursors[best])
      duplicate == output # <<>> /\ Last(output) = record
  IN IF open = {} THEN output
     ELSE MergeGroup([cursors EXCEPT ![best] = Tail(@)],
                     IF duplicate THEN output ELSE Append(output, record))

RECURSIVE MergeRuns(_)
MergeRuns(runs) ==
  IF Len(runs) > MergeFanIn
  THEN LET groups == Pieces(runs, MergeFanIn) IN
       MergeRuns([i \in DOMAIN groups |-> MergeGroup(groups[i], <<>>)])
  ELSE MergeGroup(runs, <<>>)

BuildTable(records) ==
  LET chunks == Pieces(records, ChunkSize) IN
  MergeRuns([i \in DOMAIN chunks |-> FlushRun(chunks[i])])

RootLabel(key) ==
  LET dots == {i \in DOMAIN key : key[i] = Dot} IN
  IF dots = {} THEN key ELSE SubSeq(key, 1, Min(dots) - 1)

(* The first labels, one for each stretch of the table.                    *)
RootIndex(domains) ==
  FoldLeft(LAMBDA roots, key :
             IF roots # <<>> /\ Last(roots) = RootLabel(key) THEN roots
             ELSE Append(roots, RootLabel(key)), <<>>, domains)

(* The files of an index built from keys in the order they come.           *)
FilesOf(domains, cidrs) == [domains |-> domains, roots |-> RootIndex(domains), cidrs |-> cidrs]
Files(domainKeys, cidrKeys) == FilesOf(BuildTable(domainKeys), BuildTable(cidrKeys))

(* The binary search for the first record that is not below a key.         *)
RECURSIVE LowerBound(_, _, _, _)
LowerBound(table, key, low, high) ==
  LET middle == low + (high - low) \div 2 IN
  IF low >= high THEN low
  ELSE IF Less(table[middle + 1], key) THEN LowerBound(table, key, middle + 1, high)
  ELSE LowerBound(table, key, low, middle)

ContainsKey(table, key) ==
  LET at == LowerBound(table, key, 0, Len(table)) + 1 IN
  at <= Len(table) /\ table[at] = key

(* A plausible bug: only an entry that ends here counts.                   *)
HasPrefixOfLabel(d, path) ==
  IF \A i \in DOMAIN path : path[i] # Dot THEN ContainsKey(d.roots, path)
  ELSE LET at == LowerBound(d.domains, path, 0, Len(d.domains)) + 1 IN
       /\ at <= Len(d.domains)
       /\ Len(d.domains[at]) = Len(path)

(* Whether the table is taken to hold a path below this one: only the      *)
(* record at the lower bound is looked at.                                 *)
HasPrefix(d, path) ==
  IF \A i \in DOMAIN path : path[i] # Dot THEN ContainsKey(d.roots, path)
  ELSE LET at == LowerBound(d.domains, path, 0, Len(d.domains)) + 1 IN
       /\ at <= Len(d.domains)
       /\ IsPrefix(path, d.domains[at])
       /\ Len(d.domains[at]) = Len(path) \/ d.domains[at][Len(path) + 1] = Dot

RECURSIVE MatchesNode(_, _, _)
MatchesNode(d, labels, path) ==
  LET star == AppendLabel(path, Star) IN
  IF labels = <<>> THEN ContainsKey(d.domains, path) \/ ContainsKey(d.domains, star)
  ELSE LET literal == AppendLabel(path, Head(labels)) IN
       \/ HasPrefix(d, literal) /\ MatchesNode(d, Tail(labels), literal)
       \/ /\ HasPrefix(d, star)
          /\ ContainsKey(d.domains, star) \/ MatchesNode(d, Tail(labels), star)

MatchesName(d, labels) ==
  (HasPrefix(d, labels[1]) \/ HasPrefix(d, Star)) /\ MatchesNode(d, labels, <<>>)

MatchesParent(d, labels) ==
  \E n \in 1 .. Len(labels) : MatchesNode(d, SubSeq(labels, 1, n), <<>>)

MatchesIp(d, address) ==
  \E n \in 0 .. Len(address) : ContainsKey(d.cidrs, CidrKey(address, n))

---------------------------------------------------------------------------
(* The operations.                                                         *)

InsertMemory(m, p) ==
  IF IsNetwork(p) THEN [m EXCEPT !.cidrs = InsertPath(@, SubSeq(p[1], 1, p[2]))]
  ELSE [m EXCEPT !.domains = InsertPath(@, p)]

RemoveMemory(m, p) ==
  IF IsNetwork(p) THEN [m EXCEPT !.cidrs = RemovePath(@, SubSeq(p[1], 1, p[2]))]
  ELSE [m EXCEPT !.domains = RemovePath(@, p)]

Holds(d, p) == ContainsKey(IF IsNetwork(p) THEN d.cidrs ELSE d.domains, PatternKey(p))

(* A pattern the files hold is left alone; a new one follows the stored    *)
(* ones into a rebuild.                                                    *)
InsertDisk(d, p) ==
  IF Holds(d, p) THEN d
  ELSE IF IsNetwork(p) THEN Files(d.domains, Append(d.cidrs, PatternKey(p)))
  ELSE Files(Append(d.domains, PatternKey(p)), d.cidrs)

RemoveDisk(d, p) ==
  IF Holds(d, p)
  THEN LET Other(key) == key # PatternKey(p) IN
       IF IsNetwork(p) THEN Files(d.domains, SelectSeq(d.cidrs, Other))
       ELSE Files(SelectSeq(d.domains, Other), d.cidrs)
  ELSE d

(* A list as it is loaded: in the order of its text, duplicates included.  *)
FromPatterns(list) ==
  LET Keys(S) == LET Of(p) == p \in S IN
                 LET chosen == SelectSeq(list, Of) IN [i \in DOMAIN chosen |-> PatternKey(chosen[i])]
  IN Files(Keys(Patterns), Keys(Networks))

IndexInit ==
  \E list \in Lists :
    /\ inserted = ToSet(list)
    /\ memory = FoldLeft(InsertMemory, [domains |-> EmptyTree, cidrs |-> EmptyTree], list)
    /\ disk = FromPatterns(list)

(* Networks that differ only below their prefix are one entry.             *)
SameEntry(p, q) == IsNetwork(p) = IsNetwork(q) /\ PatternKey(p) = PatternKey(q)

InsertPattern(p) ==
  /\ inserted' = inserted \cup {p}
  /\ memory' = InsertMemory(memory, p)
  /\ disk' = InsertDisk(disk, p)

RemovePattern(p) ==
  /\ inserted' = {q \in inserted : ~SameEntry(p, q)}
  /\ memory' = RemoveMemory(memory, p)
  /\ disk' = RemoveDisk(disk, p)

IndexNext == \E p \in Patterns \cup Networks : InsertPattern(p) \/ RemovePattern(p)

IndexSpec == IndexInit /\ [][IndexNext]_indexVars

---------------------------------------------------------------------------
(* What the entries mean.                                                  *)

Fits(p, labels) == Len(p) = Len(labels) /\ \A i \in DOMAIN p : p[i] \in {labels[i], Star}

(* A pattern covers a name label by label; a wildcard at its end stands    *)
(* for any number of labels, none included.                                *)
Covers(p, labels) ==
  \/ Fits(p, labels)
  \/ /\ Last(p) = Star /\ Len(p) <= Len(labels) + 1
     /\ Fits(Front(p), SubSeq(labels, 1, Len(p) - 1))

(* Of two patterns the one that ends first, or that has the literal label  *)
(* where they differ first, wins.                                          *)
Beats(p, q) ==
  \/ IsStrictPrefix(p, q)
  \/ \E i \in 1 .. Min({Len(p), Len(q)}) :
       q[i] = Star /\ p[i] # Star /\ SubSeq(p, 1, i - 1) = SubSeq(q, 1, i - 1)

Contents == inserted \ Networks
InNetwork(address, p) == SubSeq(address, 1, p[2]) = SubSeq(p[1], 1, p[2])

(* The tree finds the pattern that wins among those that cover a name, and *)
(* the longest network of an address, after any insertions and removals:   *)
(* a branch that leads nowhere does not hide the wildcard beside it, and   *)
(* a removal takes nothing else with it (DomainTrie and CidrTrie).         *)
TreeFindsWinner ==
  /\ \A h \in Hosts :
       LET covering == {p \in Contents : Covers(p, h)} IN
       SearchDomain(memory.domains, <<>>, h) =
         {p \in covering : \A q \in covering \ {p} : Beats(p, q)}
  /\ \A a \in Ips :
       LET lengths == {p[2] : p \in {n \in inserted \cap Networks : InNetwork(a, n)}} IN
       SearchCidr(memory.cidrs, a) =
         IF lengths = {} THEN {} ELSE {SubSeq(a, 1, Max(lengths))}

(* No removal leaves a node that leads to no entry.                        *)
NoDeadNodes ==
  /\ memory.domains.nodes = {<<>>} \cup UNION {{SubSeq(p, 1, n) : n \in 0 .. Len(p)} : p \in Contents}
  /\ \A n \in memory.cidrs.nodes : n = <<>> \/ \E v \in memory.cidrs.values : IsPrefix(n, v)

(* The trees hold what was inserted and not removed, and nothing else.     *)
TreesExact == TreeFindsWinner /\ NoDeadNodes

(* The external sort, in chunks and passes, leaves each entry once and in  *)
(* order (ondisk_build.rs).                                                *)
TablesSorted ==
  /\ \A table \in {disk.domains, disk.cidrs} :
       \A i \in 1 .. Len(table) - 1 : Less(table[i], table[i + 1])
  /\ ToSet(disk.domains) = {PatternKey(p) : p \in Contents}
  /\ ToSet(disk.cidrs) = {PatternKey(p) : p \in inserted \cap Networks}

(* A label of the name is the beginning, up to a hyphen, of a label beside *)
(* it in an entry.                                                         *)
Hyphenated(labels) ==
  \E p \in Contents : \E i \in 1 .. Min({Len(p), Len(labels)}) :
    IsPrefix(Append(labels[i], 45), p[i])

DiskAgrees(h) ==
  /\ MatchesName(disk, h) = (SearchDomain(memory.domains, <<>>, h) # {})
  /\ MatchesParent(disk, h) = (SearchParent(memory.domains, h) # {})

(* The tables answer as the tree does                                      *)
(* (disk_and_memory_indexes_agree_on_supported_queries in                  *)
(* ondisk_tests.rs) for addresses, and for names no label of which an      *)
(* entry continues with a hyphen; and a table never matches what no entry  *)
(* covers.  The exception is what has_prefix misses: a hyphen sorts before *)
(* the dot, so an entry below "a-b" stands where one below "a" is sought.  *)
DiskAgreesBarHyphens ==
  /\ \A h \in Hosts :
       /\ DiskAgrees(h) \/ Hyphenated(h)
       /\ MatchesName(disk, h) => SearchDomain(memory.domains, <<>>, h) # {}
       /\ MatchesParent(disk, h) => SearchParent(memory.domains, h) # {}
  /\ \A a \in Ips : MatchesIp(disk, a) = (SearchCidr(memory.cidrs, a) # {})

(* A route list on disk is sorted and answers as the tree does.            *)
TablesAgree == TablesSorted /\ DiskAgreesBarHyphens
=============================================================================
