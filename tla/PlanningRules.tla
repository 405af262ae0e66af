---------------------------- MODULE PlanningRules ----------------------------
(***************************************************************************)
(* What a planning record must satisfy with respect to the other records   *)
(* of its community: the checks of application/planning.rs over a catalog. *)
(* A catalog maps each kind to its rows.  Rows keep what the checks read:  *)
(* [id], [id, project], [id, from, to].  The checks that need no catalog   *)
(* are in PlanningFields.                                                  *)
(***************************************************************************)
EXTENDS Naturals, FiniteSets

CONSTANTS
  Ids,          \* project, task, event and dependency ids
  MaxRecords    \* rows per kind, 10 000 in the code

ASSUME LimitAssumption == MaxRecords \in Nat \ {0}

Kinds == {"project", "task", "event", "dependency"}
Member == [id : Ids, project : SUBSET Ids]
Dependency == [id : Ids, from : Ids, to : Ids]
RowsOf(kind) ==
  CASE kind = "project" -> [id : Ids]
    [] kind \in {"task", "event"} -> Member
    [] kind = "dependency" -> Dependency

IdsOf(rows) == {x.id : x \in rows}
\* ON CONFLICT DO UPDATE: the row takes the place of the one with its id.
Others(row, rows) == {x \in rows : x.id # row.id}

\* Sets of tasks that no edge leaves.
Closed(C, edges) == \A e \in edges : e.from \in C => e.to \in C
\* There is a path of edges: every closed set with the one has the other.
Reaches(edges, x, y) == \A C \in SUBSET Ids : x \in C /\ Closed(C, edges) => y \in C

\* reject_dependency_cycle: the search from the successor reaches the predecessor.
MakesCycle(row, edges) == Reaches(edges, row.to, row.from)

\* require_project, and the tasks of a dependency.
ReferencesExist(kind, row, catalog) ==
  /\ kind \in {"task", "event"} => row.project \subseteq IdsOf(catalog["project"])
  /\ kind = "dependency" => {row.from, row.to} \subseteq IdsOf(catalog["task"])

Valid(kind, row, catalog) ==
  /\ \A k \in Kinds : Cardinality(catalog[k]) <= MaxRecords
  /\ Cardinality(Others(row, catalog[kind])) < MaxRecords
  /\ ReferencesExist(kind, row, catalog)
  /\ kind = "dependency" =>
       row.from # row.to /\ ~MakesCycle(row, Others(row, catalog["dependency"]))

\* No task comes before itself: in every set of tasks one has no predecessor in it.
Acyclic(edges) ==
  \A S \in SUBSET Ids : S # {} =>
    \E x \in S : \A e \in edges : ~(e.to = x /\ e.from \in S)
=============================================================================
