---------------------------- MODULE ToolkitLedger ----------------------------
(***************************************************************************)
(* What the toolkit promises one application and community: every record   *)
(* enters the catalog in one step, valid in the catalog it enters.         *)
(***************************************************************************)
EXTENDS ToolkitRules

CONSTANT Requests
VARIABLE catalog

Init == catalog = [concepts |-> {}, tools |-> {}, assertions |-> {}, reviews |-> {}]

Record(r) == Valid(catalog, r) /\ catalog' = Apply(catalog, r, catalog)
Next == \E r \in Requests : Record(r)

Spec == Init /\ [][Next]_catalog
=============================================================================
