--------------------------- MODULE GovernedClaims ---------------------------
(***************************************************************************)
(* What fact governance promises: a claim is bound to a schema and a       *)
(* subject by its first assertion and then moves through its lifecycle as  *)
(* the schema allows, one decision at a time, and a schema that permits    *)
(* only one active claim of a subject never has two.  Facts implements     *)
(* this module with handlers, locks on claims and one transaction.         *)
(***************************************************************************)
CONSTANTS
  Claims,     \* claim identifiers
  Subjects,
  Schemas,    \* schema versions; the predicate of a fact names its schema
  Multiple,   \* schemas with multiple_active_claims
  Allows      \* the transitions the lifecycle policy of a schema allows

VARIABLE claim   \* per claim: a set of at most one [subject, schema, status]

Statuses == {"ASSERTED", "RETRACTED", "DISPUTED", "EXPIRED"}
Terminal == {"RETRACTED", "EXPIRED"}

Init == claim = [c \in Claims |-> {}]

\* A first revision is asserted; later ones keep subject and schema, follow the
\* policy (ASSERTED again is supersession) and never leave a terminal state.
Permitted(c, subject, schema, status) ==
  /\ claim[c] = {} => status = "ASSERTED"
  /\ \A p \in claim[c] :
       /\ p.subject = subject /\ p.schema = schema
       /\ p.status \notin Terminal
       /\ status \in Allows[schema]

Single(c, subject, schema) ==
  \A d \in Claims \ {c} : [subject |-> subject, schema |-> schema, status |-> "ASSERTED"] \notin claim[d]

Assert(c, subject, schema, status) ==
  /\ Permitted(c, subject, schema, status)
  /\ status = "ASSERTED" /\ schema \notin Multiple => Single(c, subject, schema)
  /\ claim' = [claim EXCEPT ![c] = {[subject |-> subject, schema |-> schema, status |-> status]}]

Next ==
  \E c \in Claims, subject \in Subjects, schema \in Schemas, status \in Statuses :
    Assert(c, subject, schema, status)

Spec == Init /\ [][Next]_claim
=============================================================================
