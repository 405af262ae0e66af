---- MODULE MCPlanning ----
(* An instance of Planning for TLC. *)
EXTENDS Planning, MCPlanningChecks, TLC

CONSTANTS t1, t2, c1, c2, a1, p, x, y

Task(progress, start, due) == [progress |-> progress, start |-> start, due |-> due]
Lag(n) == [lag |-> n]
Put(key, kind, row, fields) ==
  [app |-> a1, key |-> key, kind |-> kind, row |-> row, fields |-> fields]

\* Two tasks of a project, and three dependencies of which the limit admits two, one
\* of them put twice, that form cycles in some orders; requests refused at once.
PlanningRequests ==
  {Put("p", "project", [id |-> p], <<>>),
   Put("x", "task", [id |-> x, project |-> {p}], Task(100, {1}, {1})),
   Put("y", "task", [id |-> y, project |-> {}], Task(0, {}, {0})),
   Put("xy", "dependency", [id |-> x, from |-> x, to |-> y], Lag(MaxLag)),
   Put("yx", "dependency", [id |-> y, from |-> y, to |-> x], Lag(-MaxLag)),
   Put("again", "dependency", [id |-> x, from |-> y, to |-> x], Lag(0)),
   Put("third", "dependency", [id |-> p, from |-> x, to |-> y], Lag(0)),
   Put("late", "task", [id |-> x, project |-> {}], Task(0, {1}, {0})),
   Put("lag", "dependency", [id |-> y, from |-> x, to |-> y], Lag(MaxLag + 1))}
TwoCore == (t1 :> c1) @@ (t2 :> c2)
CoreSymmetry == Permutations(Handlers)
====
