----------------------------- MODULE RouteTable -----------------------------
(***************************************************************************)
(* The stored route rules and the operations of the management API on      *)
(* them: saving a rule, deleting one, and moving one by drag and drop.     *)
(* Saving reads the table before it waits for the configuration lock, so   *)
(* the priority it writes may be out of date.  What a rule says is left to *)
(* RouteRules; here a row is its name and its priority.                    *)
(*                                                                         *)
(* Ids and names are numbers in the order of their texts.  A row the API   *)
(* wrote has its name as its id; an imported one may not.                  *)
(***************************************************************************)
EXTENDS Naturals, Sequences, FiniteSets, SequencesExt

CONSTANTS
  RuleNames,         (* the names rules may have                             *)
  FirstTables,       (* the tables a store may be opened with                *)
  Clients,           (* the requests that may be saving at once              *)
  MaxPriority,       (* the highest priority a rule may be given             *)
  MaxWrites          (* a bound on the operations of a behaviour             *)

VARIABLES
  table,             (* the rows, ORDER BY priority, id: [id, name, priority] *)
  saving,            (* per client, the save that waits for the lock         *)
  writes             (* how many operations have been committed              *)

tableVars == <<table, saving, writes>>

NoSave == [name |-> 0, priority |-> 0, legacy |-> FALSE, read |-> 0]

Before(x, y) == x.priority < y.priority \/ (x.priority = y.priority /\ x.id < y.id)
NamesInOrder(t) == [k \in DOMAIN t |-> t[k].name]
RowsNamed(t, name) == {k \in DOMAIN t : t[k].name = name}
Renumbered(t, first) == [k \in DOMAIN t |-> [t[k] EXCEPT !.priority = first + k - 1]]

RouteTableInit ==
  /\ table \in FirstTables
  /\ saving = [c \in Clients |-> NoSave]
  /\ writes = 0

Commit(t) == table' = t /\ writes' = writes + 1 /\ writes < MaxWrites

HighestPriority == Max({table[k].priority : k \in DOMAIN table} \cup {0})

(* A plausible bug: the index of the URL moves a rule that exists.         *)
SavePriorityAsked(mine, index) ==
  IF index > 0 THEN index
  ELSE IF mine # {} THEN table[Min(mine)].priority ELSE HighestPriority + 1

(* A rule keeps its priority, a new one takes the one asked for or the     *)
(* next.                                                                   *)
SavePriority(mine, index) ==
  IF mine # {} THEN table[Min(mine)].priority
  ELSE IF index > 0 THEN index ELSE HighestPriority + 1

(* What save_route_rule_value makes of the rules it lists.                 *)
ReadForSave(c, name, index) ==
  LET mine == RowsNamed(table, name) IN
  /\ saving[c] = NoSave
  /\ SavePriority(mine, index) <= MaxPriority
  /\ saving' = [saving EXCEPT ![c] =
                  [name |-> name, priority |-> SavePriority(mine, index), read |-> writes,
                   legacy |-> mine # {} /\ table[Min(mine)].id # name]]
  /\ UNCHANGED <<table, writes>>

(* Deleting by name numbers the rest from one; where there is nothing to   *)
(* delete nothing is numbered.                                             *)
Deleted(t, name) ==
  IF RowsNamed(t, name) = {} THEN t
  ELSE Renumbered(SelectSeq(t, LAMBDA x : x.name # name), 1)

(* INSERT OR REPLACE of the row whose id is the name.                      *)
PutRule(t, name, priority) ==
  LET row == [id |-> name, name |-> name, priority |-> priority]
      Lower(x) == x.id # name /\ Before(x, row)
      Higher(x) == x.id # name /\ ~Before(x, row)
  IN SelectSeq(t, Lower) \o <<row>> \o SelectSeq(t, Higher)

(* A plausible bug: the imported row stays beside the new one.             *)
SavedBeside(t, save) == PutRule(t, save.name, save.priority)

Saved(t, save) ==
  PutRule(IF save.legacy THEN Deleted(t, save.name) ELSE t, save.name, save.priority)

CommitSave(c) ==
  /\ saving[c] # NoSave
  /\ Commit(Saved(table, saving[c]))
  /\ saving' = [saving EXCEPT ![c] = NoSave]

(* The deletion and the insertion are transactions of their own: the store *)
(* may fail between them, or before the first.                             *)
SaveFails(c) ==
  /\ saving[c] # NoSave
  /\ Commit(IF saving[c].legacy THEN Deleted(table, saving[c].name) ELSE table)
  /\ saving' = [saving EXCEPT ![c] = NoSave]

DeleteRule(name) ==
  /\ RowsNamed(table, name) # {}
  /\ Commit(Deleted(table, name))
  /\ UNCHANGED saving

(* A plausible bug: the position of the target from before the source was  *)
(* taken out.                                                              *)
MovedStale(t, s, at, after) ==
  InsertAt(RemoveAt(t, s), IF after /\ at < Len(t) THEN at + 1 ELSE at, t[s])

(* The row at s taken out and inserted before or after the row at "at".    *)
Moved(t, s, at, after) ==
  LET rest == RemoveAt(t, s)
      target == IF s < at THEN at - 1 ELSE at
  IN InsertAt(rest, IF after THEN target + 1 ELSE target, t[s])

(* The rows are numbered from zero in the new order.  A rule cannot be     *)
(* inserted beside itself.                                                 *)
ChangePriority(source, target, operate) ==
  LET s == Min(RowsNamed(table, source))
      t == Min(RowsNamed(table, target))
  IN /\ RowsNamed(table, source) # {} /\ RowsNamed(table, target) # {}
     /\ operate = "exchange" \/ source # target
     /\ Commit(Renumbered(IF operate = "exchange"
                          THEN [table EXCEPT ![s] = table[t], ![t] = table[s]]
                          ELSE Moved(table, s, t, operate = "insert_after"), 0))
     /\ UNCHANGED saving

Operations == {"exchange", "insert_before", "insert_after"}

RouteTableNext ==
  \/ \E c \in Clients : CommitSave(c) \/ SaveFails(c) \/ \E n \in RuleNames, k \in 0 .. 1 : ReadForSave(c, n, k)
  \/ \E n \in RuleNames : DeleteRule(n)
  \/ \E n, m \in RuleNames, op \in Operations : ChangePriority(n, m, op)

RouteTableSpec == RouteTableInit /\ [][RouteTableNext]_tableVars

---------------------------------------------------------------------------
(* A name has one row, whatever was imported and however many saves of it  *)
(* wait at once (save_route_rule_value: the URL index as part of the id    *)
(* "creates duplicate rules on every PUT").                                *)
RuleNamesUnique == \A n \in RuleNames : Cardinality(RowsNamed(table, n)) <= 1

OrderWithout(order, name) == SelectSeq(order, LAMBDA n : n # name)

(* After a move the source stands beside the target, on the side asked     *)
(* for, and the order of all the other rules is what it was, ties and gaps *)
(* in the priorities before it included; an exchange moves nothing but the *)
(* two (change_go_route_rule_priority_sync).                               *)
MoveIsExact ==
  [][LET old == NamesInOrder(table)
         new == NamesInOrder(table')
         Place(order, n) == CHOOSE k \in DOMAIN order : order[k] = n
     IN writes' > writes /\ saving' = saving =>
          \A n, m \in RuleNames :
            /\ n # m /\ ChangePriority(n, m, "insert_before") =>
                 Place(new, n) + 1 = Place(new, m) /\ OrderWithout(new, n) = OrderWithout(old, n)
            /\ n # m /\ ChangePriority(n, m, "insert_after") =>
                 Place(new, n) = Place(new, m) + 1 /\ OrderWithout(new, n) = OrderWithout(old, n)
            /\ ChangePriority(n, m, "exchange") =>
                 \A k \in DOMAIN old :
                   new[k] = IF old[k] = n THEN m ELSE IF old[k] = m THEN n ELSE old[k]
    ]_tableVars

(* Saving a rule again leaves the order of the rules alone, unless the     *)
(* table changed while the save waited or the row has an imported id; a    *)
(* new rule disturbs none of the others.                                   *)
SaveKeepsOrder ==
  [][LET old == NamesInOrder(table)
         new == NamesInOrder(table')
     IN \A c \in Clients :
          CommitSave(c) /\ saving[c].read = writes /\ ~saving[c].legacy =>
            /\ OrderWithout(new, saving[c].name) = OrderWithout(old, saving[c].name)
            /\ RowsNamed(table, saving[c].name) # {} => new = old
    ]_tableVars

(* The order of the rules, which decides between them, changes only as a   *)
(* client asked, and no rule is listed twice.                              *)
RuleOrderKept == []RuleNamesUnique /\ MoveIsExact /\ SaveKeepsOrder
=============================================================================
