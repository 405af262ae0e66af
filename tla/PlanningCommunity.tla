-------------------------- MODULE PlanningCommunity --------------------------
(***************************************************************************)
(* What the planning profile promises for one community: a record is put   *)
(* by an application that may write at that moment, and fits the records   *)
(* that are there at that moment.  Planning implements it with handlers    *)
(* that read the grants and the catalog long before they commit.           *)
(***************************************************************************)
EXTENDS PlanningRules

CONSTANT Apps

VARIABLES access, rows

Init ==
  /\ access = {}
  /\ rows = [k \in Kinds |-> {}]

Grant(a) ==
  /\ access' = access \cup {a} \/ access' = access \ {a}
  /\ UNCHANGED rows

Put(a, kind, row) ==
  /\ a \in access
  /\ Valid(kind, row, rows)
  /\ rows' = [rows EXCEPT ![kind] = Others(row, rows[kind]) \cup {row}]
  /\ UNCHANGED access

Next ==
  \/ \E a \in Apps : Grant(a)
  \/ \E a \in Apps, kind \in Kinds : \E row \in RowsOf(kind) : Put(a, kind, row)
Spec == Init /\ [][Next]_<<access, rows>>
=============================================================================
