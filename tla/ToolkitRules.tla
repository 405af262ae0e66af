---------------------------- MODULE ToolkitRules ----------------------------
(***************************************************************************)
(* What toolkit writes validate against a catalog, what they insert, and   *)
(* how a query reads one requirement.  A catalog is a record of the four   *)
(* tables of one application and community.  A concept revision is named   *)
(* by the hash of its definition, so here it is the definition; an Option  *)
(* is a set of at most one element.                                        *)
(***************************************************************************)

CONSTANTS
  Definitions,  \* concept revisions: [key, kind, one, categories, parent, values, rubric]
  Values,       \* JSON values
  Yes           \* the value true

ASSUME DefinitionAssumption ==
  /\ Yes \in Values
  /\ \A d \in Definitions : d.values \subseteq Values /\ d.one \in BOOLEAN

Revisions(c) == {x.def : x \in c.concepts}
Active(c, key) == {x.def : x \in {y \in c.concepts : y.active /\ y.def.key = key}}

\* resolve_concept: the revision named, or the active one.
Resolve(c, key, revision) ==
  {d \in Revisions(c) : d.key = key /\ IF revision = {} THEN d \in Active(c, key)
                                                         ELSE d \in revision}
Resolved(c, key, revision) == CHOOSE d \in Resolve(c, key, revision) : TRUE

AssertionsOf(c, tool, d) == {a \in c.assertions : a.tool = tool /\ a.def = d}
VerifiedOf(c, tool, d) == {a \in AssertionsOf(c, tool, d) : a.state = "verified"}

-----------------------------------------------------------------------------
(* Validation                                                              *)

\* Type, enum and scale of a revision are the values it admits.
ValueFits(d, value, state) ==
  IF state = "unknown" THEN value = {} ELSE \E v \in d.values : value = {v}

Applicable(c, tool, d) ==
  \/ d.categories = {}
  \/ \E k \in d.categories : \E category \in Active(c, k) :
       \E a \in VerifiedOf(c, tool, category) : a.value = {Yes}

\* reject_local_cardinality_conflict
Unopposed(c, tool, d, value, except) ==
  d.one => \A a \in VerifiedOf(c, tool, d) : a.id \in except \/ a.value = value

ReferencesExist(c, d) ==
  \A k \in d.categories \cup d.parent : \E target \in Active(c, k) :
    k \in d.categories => target.kind = "category"

ValidTool(c, r) == \A t \in c.tools : t.key # r.tool

\* AI origin stands for an AI evaluator, too; both must begin proposed.
ValidAssertion(c, r) ==
  /\ r.origin = "ai" => r.state = "proposed"
  /\ \A a \in c.assertions : a.id # r.id
  /\ \E t \in c.tools : t.key = r.tool /\ t.active
  /\ Resolve(c, r.concept, r.revision) # {}
  /\ LET d == Resolved(c, r.concept, r.revision) IN
       /\ ValueFits(d, r.value, r.state) /\ r.rubric = d.rubric
       /\ Applicable(c, r.tool, d)
       /\ r.state = "verified" => Unopposed(c, r.tool, d, r.value, {})

\* Seeded fault: a review does not look at the other assertions.
ValidReviewUnopposed(c, r) ==
  /\ \A x \in c.reviews : x.id # r.id
  /\ \E a \in c.assertions :
       /\ a.id = r.assertion
       /\ ValueFits(a.def, a.value, r.state) /\ Applicable(c, a.tool, a.def)
ValidReview(c, r) ==
  /\ \A x \in c.reviews : x.id # r.id
  /\ \E a \in c.assertions :
       /\ a.id = r.assertion
       /\ ValueFits(a.def, a.value, r.state)
       /\ Applicable(c, a.tool, a.def)
       /\ r.state = "verified" => Unopposed(c, a.tool, a.def, a.value, {a.id})

\* What a handler checks once it has read the catalog.  toolkit.schema.add looks for
\* the revision itself only later.
Validates(c, r) ==
  CASE r.kind = "concept" -> ReferencesExist(c, r.def)
    [] r.kind = "tool" -> ValidTool(c, r)
    [] r.kind = "assertion" -> ValidAssertion(c, r)
    [] r.kind = "review" -> ValidReview(c, r)
Novel(c, r) == r.kind = "concept" => r.def \notin Revisions(c)
Valid(c, r) == Validates(c, r) /\ Novel(c, r)

-----------------------------------------------------------------------------
(* Projection rows                                                         *)

\* The state of an assertion after its reviews, in any order: one verdict stands,
\* two different ones reject.
Aggregate(initial, verdicts) ==
  IF verdicts = {} THEN initial ELSE IF verdicts = {"verified"} THEN "verified" ELSE "rejected"
Verdicts(reviews, id) == {x.state : x \in {y \in reviews : y.assertion = id}}

\* Seeded fault: the revision is added beside the one in force.
WithConceptBeside(c, d) ==
  [concepts |-> c.concepts \cup {[def |-> d, active |-> TRUE]},
   tools |-> c.tools, assertions |-> c.assertions, reviews |-> c.reviews]
Retired(x, key) == IF x.def.key = key THEN [def |-> x.def, active |-> FALSE] ELSE x
WithConcept(c, d) ==
  [concepts |-> {Retired(x, d.key) : x \in c.concepts} \cup {[def |-> d, active |-> TRUE]},
   tools |-> c.tools, assertions |-> c.assertions, reviews |-> c.reviews]

WithTool(c, r) ==
  [concepts |-> c.concepts, tools |-> c.tools \cup {[key |-> r.tool, active |-> r.active]},
   assertions |-> c.assertions, reviews |-> c.reviews]

\* The row binds the revision the handler resolved in the catalog it has seen.
RowOf(r, seen) ==
  [id |-> r.id, tool |-> r.tool, def |-> Resolved(seen, r.concept, r.revision),
   value |-> r.value, origin |-> r.origin, initial |-> r.state, state |-> r.state]
WithAssertion(c, r, seen) ==
  [concepts |-> c.concepts, tools |-> c.tools,
   assertions |-> c.assertions \cup {RowOf(r, seen)}, reviews |-> c.reviews]

ReviewRow(r) == [id |-> r.id, assertion |-> r.assertion, state |-> r.state]
InState(a, state) ==
  [id |-> a.id, tool |-> a.tool, def |-> a.def, value |-> a.value,
   origin |-> a.origin, initial |-> a.initial, state |-> state]
\* Seeded fault: the last review decides.
ReviewedByLast(a, reviews, r) == IF a.id = r.assertion THEN InState(a, r.state) ELSE a
Reviewed(a, reviews, r) ==
  IF a.id = r.assertion THEN InState(a, Aggregate(a.initial, Verdicts(reviews, a.id))) ELSE a
WithReview(c, r) ==
  [concepts |-> c.concepts, tools |-> c.tools,
   assertions |-> {Reviewed(a, c.reviews \cup {ReviewRow(r)}, r) : a \in c.assertions},
   reviews |-> c.reviews \cup {ReviewRow(r)}]

\* apply_projection
Apply(c, r, seen) ==
  CASE r.kind = "concept" -> WithConcept(c, r.def)
    [] r.kind = "tool" -> WithTool(c, r)
    [] r.kind = "assertion" -> WithAssertion(c, r, seen)
    [] r.kind = "review" -> WithReview(c, r)

-----------------------------------------------------------------------------
(* Queries.  A requirement is [key, revision, op, values]: eq, in and the  *)
(* ranges ask for some assertion with one of values, ne for none.          *)

\* requirement_matches
Matches(verified, requirement) ==
  CASE requirement.op = "exists" -> TRUE
    [] requirement.op = "some" -> \E a \in verified : a.value \subseteq requirement.values
    [] requirement.op = "ne" -> \A a \in verified : ~(a.value \subseteq requirement.values)

\* Seeded fault: proposals count as verified.
EligibleProposed(assertions) == {a \in assertions : a.state \in {"verified", "proposed"}}
Eligible(assertions) == {a \in assertions : a.state = "verified"}

\* evaluate_requirement
RequirementState(c, tool, requirement, d) ==
  LET assertions == AssertionsOf(c, tool, d)
      verified == Eligible(assertions)
      states == {a.state : a \in assertions}
  IN CASE d.one /\ (\E a, b \in verified : a.value # b.value) -> "conflict"
       [] verified # {} -> IF Matches(verified, requirement) THEN "satisfied" ELSE "unsatisfied"
       [] "rejected" \in states -> "rejected"
       [] "proposed" \in states -> "proposed"
       [] "unknown" \in states -> "unknown"
       [] OTHER -> "missing"

\* The exact matches of evaluate_query: every hard requirement is satisfied.
ExactTools(c, required) ==
  {t.key : t \in {x \in c.tools : x.active /\ \A q \in required :
    \E d \in Resolve(c, q.key, q.revision) : RequirementState(c, x.key, q, d) = "satisfied"}}
=============================================================================
