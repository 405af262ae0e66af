--------------------------- MODULE DependencySearch ---------------------------
(***************************************************************************)
(* reject_dependency_cycle as the program runs it: a stack of tasks to     *)
(* visit, from the successor of the new dependency on.  PlanningRules      *)
(* states what it decides, as MakesCycle.                                  *)
(***************************************************************************)
EXTENDS PlanningRules, Sequences

\* The edges, in the order of the catalog: the row to replace is left out, the new
\* one comes last.
SearchEdges(row, rows) == Append(SelectSeq(rows, LAMBDA e : e.id # row.id), row)
Successors(task, edges) ==
  LET out == SelectSeq(edges, LAMBDA e : e.from = task)
  IN [i \in DOMAIN out |-> out[i].to]

RECURSIVE Finds(_, _, _, _)
Finds(goal, edges, pending, visited) ==
  /\ pending # <<>>
  /\ LET task == pending[Len(pending)]
         rest == SubSeq(pending, 1, Len(pending) - 1)
     IN \/ task = goal
        \/ Finds(goal, edges,
                 IF task \in visited THEN rest ELSE rest \o Successors(task, edges),
                 visited \cup {task})

SearchRejects(row, rows) == Finds(row.from, SearchEdges(row, rows), <<row.to>>, {})
=============================================================================
