--------------------------- MODULE ToolkitProofs ---------------------------
(***************************************************************************)
(* Proofs about Toolkit.  Its commit transaction repeats nothing of the    *)
(* validation, so the argument is about time: at most one handler is       *)
(* between its catalog and the end of its commit, dropped or not, hence    *)
(* what it has seen is the catalog it commits to.                          *)
(***************************************************************************)
EXTENDS Toolkit, TLAPS

Agree(c) ==
  \A a, b \in c.assertions :
    /\ a.state = "verified" /\ b.state = "verified"
    /\ a.tool = b.tool /\ a.def = b.def /\ a.def.one
    => a.value = b.value
Aggregated(c) == \A a \in c.assertions : a.state = Aggregate(a.initial, Verdicts(c.reviews, a.id))
\* Every key that names a revision has one in force, and every reference names such a key.
OneInForce(c) == \A d \in Revisions(c) : \E x \in Revisions(c) : Active(c, d.key) = {x}
References(c) ==
  \A d \in Revisions(c) : \A k \in d.categories \cup d.parent : \E e \in Revisions(c) : e.key = k
\* What an AI asserts begins proposed.
AiProposes(c) == \A a \in c.assertions : a.origin = "ai" => a.initial = "proposed"
CatalogInv(c) ==
  CatalogOK(c) /\ Agree(c) /\ Aggregated(c) /\ OneInForce(c) /\ References(c) /\ AiProposes(c)

\* From its catalog to the end of its commit, with the lock or dropped.
Decided == {"lookup", "commit", "abandoned"}
OneHolder ==
  \A t, u \in Handlers : t # u => ~(handler[t].pc \in Holding /\ handler[u].pc \in Holding)
OneDecided ==
  \A t, u \in Handlers : t # u => ~(handler[t].pc \in Decided /\ handler[u].pc \in Decided)
SeenIsCurrent ==
  \A t \in Handlers : handler[t].pc \in Decided =>
    /\ handler[t].seen = catalog
    /\ Validates(catalog, Req(t))
    /\ handler[t].pc # "lookup" => Novel(catalog, Req(t))

IInv == TypeOK /\ CatalogInv(catalog) /\ OneHolder /\ OneDecided /\ SeenIsCurrent

-----------------------------------------------------------------------------
(* What each projection keeps of a catalog                                 *)

\* Projections that leave the concepts alone leave the vocabulary alone.
LEMMA SameVocabulary ==
  ASSUME NEW c, NEW n, CatalogInv(c), n.concepts = c.concepts
  PROVE  OneInForce(n) /\ References(n)
<1>1. Revisions(n) = Revisions(c) /\ \A k : Active(n, k) = Active(c, k)
  BY DEF Revisions, Active
<1> QED  BY <1>1 DEF CatalogInv, OneInForce, References

\* What is in force in a catalog is one of its revisions, of that key.
LEMMA ActiveIsRevision ==
  ASSUME NEW c, NEW k, NEW d \in Active(c, k)
  PROVE  d \in Revisions(c) /\ d.key = k
  BY DEF Active, Revisions

\* A new revision takes the place of the one in force under its key, and only there.
LEMMA ConceptInForce ==
  ASSUME NEW c, NEW d
  PROVE  /\ Revisions(WithConcept(c, d)) = Revisions(c) \cup {d}
         /\ Active(WithConcept(c, d), d.key) = {d}
         /\ \A k : k # d.key => Active(WithConcept(c, d), k) = Active(c, k)
<1> DEFINE new == [def |-> d, active |-> TRUE]
           n == WithConcept(c, d)
<1>rows. n.concepts = {Retired(x, d.key) : x \in c.concepts} \cup {new}
  BY DEF WithConcept
<1> HIDE DEF n
<1>0. new.def = d /\ new.active = TRUE
  OBVIOUS
<1> HIDE DEF new
<1>1. \A x \in c.concepts :
        /\ Retired(x, d.key).def = x.def
        /\ x.def.key = d.key => Retired(x, d.key).active = FALSE
        /\ x.def.key # d.key => Retired(x, d.key) = x
  BY DEF Retired
<1>2. /\ \A y \in n.concepts : y = new \/ \E x \in c.concepts : y = Retired(x, d.key)
      /\ new \in n.concepts /\ \A x \in c.concepts : Retired(x, d.key) \in n.concepts
  BY <1>rows
<1>3. Revisions(n) = Revisions(c) \cup {d}
  <2>1. ASSUME NEW e \in Revisions(n) PROVE e \in Revisions(c) \cup {d}
    BY <1>0, <1>1, <1>2 DEF Revisions
  <2>2. ASSUME NEW e \in Revisions(c) \cup {d} PROVE e \in Revisions(n)
    BY <1>0, <1>1, <1>2 DEF Revisions
  <2> QED  BY <2>1, <2>2
<1>4. Active(n, d.key) = {d}
  <2>1. ASSUME NEW e \in Active(n, d.key) PROVE e = d
    <3>1. PICK y \in n.concepts : y.active /\ y.def.key = d.key /\ y.def = e
      BY DEF Active
    <3> QED  BY <1>0, <1>1, <1>2, <3>1
  <2>2. d \in Active(n, d.key)
    BY <1>0, <1>2 DEF Active
  <2> QED  BY <2>1, <2>2
<1>5. ASSUME NEW k, k # d.key PROVE Active(n, k) = Active(c, k)
  <2>1. ASSUME NEW e \in Active(n, k) PROVE e \in Active(c, k)
    <3>1. PICK y \in n.concepts : y.active /\ y.def.key = k /\ y.def = e
      BY DEF Active
    <3>2. PICK x \in c.concepts : y = Retired(x, d.key)
      BY <1>0, <1>2, <1>5, <3>1
    <3> QED  BY <1>1, <1>5, <3>1, <3>2 DEF Active
  <2>2. ASSUME NEW e \in Active(c, k) PROVE e \in Active(n, k)
    <3>1. PICK x \in c.concepts : x.active /\ x.def.key = k /\ x.def = e
      BY DEF Active
    <3>2. x \in n.concepts
      BY <1>1, <1>2, <1>5, <3>1
    <3> QED  BY <3>1, <3>2 DEF Active
  <2> QED  BY <2>1, <2>2
<1> QED  BY <1>3, <1>4, <1>5 DEF n

\* A new revision keeps the catalog well formed; the old ones stay.
LEMMA ConceptKeeps ==
  ASSUME NEW c, NEW d \in Definitions, CatalogInv(c), ReferencesExist(c, d)
  PROVE  CatalogInv(WithConcept(c, d))
<1> DEFINE n == WithConcept(c, d)
<1>1. n.concepts = {Retired(x, d.key) : x \in c.concepts} \cup {[def |-> d, active |-> TRUE]}
      /\ n.tools = c.tools /\ n.assertions = c.assertions /\ n.reviews = c.reviews
      /\ n = [concepts |-> n.concepts, tools |-> n.tools, assertions |-> n.assertions,
              reviews |-> n.reviews]
  BY DEF WithConcept
<1>2. \A x \in c.concepts : Retired(x, d.key) \in ConceptRows /\ Retired(x, d.key).def = x.def
  BY DEF CatalogInv, CatalogOK, ConceptRows, Retired
<1> HIDE DEF n
<1>3. n.concepts \subseteq ConceptRows
  <2>1. [def |-> d, active |-> TRUE] \in ConceptRows  BY DEF ConceptRows
  <2> QED  BY <1>1, <1>2, <2>1
<1>4. Revisions(c) \subseteq Revisions(n)
  <2>1. \A x \in c.concepts : Retired(x, d.key) \in n.concepts  BY <1>1
  <2> QED  BY <2>1, <1>2 DEF Revisions
<1>5. CatalogOK(n)
  BY <1>1, <1>3, <1>4 DEF CatalogInv, CatalogOK
<1>6. Agree(n) /\ Aggregated(n) /\ AiProposes(n)
  BY <1>1 DEF CatalogInv, Agree, Aggregated, AiProposes
<1>7. /\ Revisions(n) = Revisions(c) \cup {d}
      /\ Active(n, d.key) = {d}
      /\ \A k : k # d.key => Active(n, k) = Active(c, k)
  BY ConceptInForce DEF n
<1>8. OneInForce(n)
  <2>1. ASSUME NEW e \in Revisions(n), e.key # d.key
        PROVE  \E x \in Revisions(n) : Active(n, e.key) = {x}
    <3>1. e \in Revisions(c)  BY <1>7, <2>1
    <3> QED  BY <1>7, <2>1, <3>1 DEF CatalogInv, OneInForce
  <2>2. ASSUME NEW e \in Revisions(n), e.key = d.key
        PROVE  \E x \in Revisions(n) : Active(n, e.key) = {x}
    <3>1. Active(n, e.key) = {d} /\ d \in Revisions(n)  BY <1>7, <2>2
    <3> QED  BY <3>1
  <2> QED  BY <2>1, <2>2 DEF OneInForce
<1>9. References(n)
  <2>1. \A k \in d.categories \cup d.parent : \E e \in Revisions(c) : e.key = k
    BY ActiveIsRevision DEF ReferencesExist
  <2>2. ASSUME NEW e \in Revisions(n), NEW k \in e.categories \cup e.parent
        PROVE  \E x \in Revisions(c) : x.key = k
    BY <1>7, <2>1 DEF CatalogInv, References
  <2> QED  BY <1>7, <2>2 DEF References
<1> QED  BY <1>5, <1>6, <1>8, <1>9 DEF CatalogInv, n

\* A new tool disturbs nothing.
LEMMA ToolKeeps ==
  ASSUME NEW c, NEW r, CatalogInv(c)
  PROVE  CatalogInv(WithTool(c, r))
<1> DEFINE n == WithTool(c, r)
<1>1. n.concepts = c.concepts /\ n.tools = c.tools \cup {[key |-> r.tool, active |-> r.active]}
      /\ n.assertions = c.assertions /\ n.reviews = c.reviews
      /\ n = [concepts |-> n.concepts, tools |-> n.tools, assertions |-> n.assertions,
              reviews |-> n.reviews]
  BY DEF WithTool
<1> HIDE DEF n
<1>2. CatalogOK(n)
  BY <1>1 DEF CatalogInv, CatalogOK, Revisions
<1>3. Agree(n) /\ Aggregated(n) /\ AiProposes(n)
  BY <1>1 DEF CatalogInv, Agree, Aggregated, AiProposes
<1> QED  BY <1>1, <1>2, <1>3, SameVocabulary DEF CatalogInv, n

\* A valid assertion has no reviews yet, and if it is verified it agrees with those
\* that are.
LEMMA AssertionKeeps ==
  ASSUME NEW c, NEW r, CatalogInv(c), ValidAssertion(c, r), r.state \in States
  PROVE  CatalogInv(WithAssertion(c, r, c))
<1> DEFINE d == Resolved(c, r.concept, r.revision)
           row == RowOf(r, c)
           n == WithAssertion(c, r, c)
<1>1. n.concepts = c.concepts /\ n.tools = c.tools
      /\ n.assertions = c.assertions \cup {row} /\ n.reviews = c.reviews
      /\ n = [concepts |-> n.concepts, tools |-> n.tools, assertions |-> n.assertions,
              reviews |-> n.reviews]
  BY DEF WithAssertion
<1>2. row.id = r.id /\ row.tool = r.tool /\ row.def = d /\ row.value = r.value
      /\ row.initial = r.state /\ row.state = r.state /\ row = InState(row, row.state)
      /\ row.origin = r.origin
  BY DEF RowOf, InState
<1>3. d \in Revisions(c)
  <2>1. Resolve(c, r.concept, r.revision) # {}  BY DEF ValidAssertion
  <2>2. d \in Resolve(c, r.concept, r.revision)  BY <2>1 DEF Resolved
  <2> QED  BY <2>2 DEF Resolve
<1>4. \A a \in c.assertions : a.id # r.id
  BY DEF ValidAssertion
<1>5. r.state = "verified" => Unopposed(c, r.tool, d, r.value, {})
  BY DEF ValidAssertion
<1>6. Verdicts(c.reviews, r.id) = {}
  BY <1>4 DEF CatalogInv, CatalogOK, Verdicts
<1> HIDE DEF d, row, n
<1>7. CatalogOK(n)
  <2>1. \A a \in n.assertions :
          a = InState(a, a.state) /\ a.def \in Revisions(c) /\ a.initial \in States /\ a.state \in States
    BY <1>1, <1>2, <1>3 DEF CatalogInv, CatalogOK
  <2>2. \A a, b \in n.assertions : a.id = b.id => a = b
    BY <1>1, <1>2, <1>4 DEF CatalogInv, CatalogOK
  <2>3. Revisions(n) = Revisions(c)  BY <1>1 DEF Revisions
  <2> QED  BY <1>1, <2>1, <2>2, <2>3 DEF CatalogInv, CatalogOK
<1>8. Agree(n)
  <2>1. ASSUME NEW a \in c.assertions, a.state = "verified", row.state = "verified",
               a.tool = row.tool, a.def = row.def, a.def.one
        PROVE  a.value = row.value
    <3>1. a \in VerifiedOf(c, r.tool, d)
      BY <1>2, <2>1 DEF VerifiedOf, AssertionsOf
    <3> QED  BY <1>2, <1>5, <2>1, <3>1 DEF Unopposed
  <2> QED  BY <1>1, <2>1 DEF CatalogInv, Agree
<1>9. Aggregated(n)
  BY <1>1, <1>2, <1>6 DEF CatalogInv, Aggregated, Aggregate
<1>10. AiProposes(n)
  <2>1. r.origin = "ai" => r.state = "proposed"  BY DEF ValidAssertion
  <2> QED  BY <1>1, <1>2, <2>1 DEF CatalogInv, AiProposes
<1> QED  BY <1>1, <1>7, <1>8, <1>9, <1>10, SameVocabulary DEF CatalogInv, n

\* A review changes the state of one assertion, to the aggregate of its reviews.  It
\* becomes verified only by a verdict that finds no verified assertion opposed.
LEMMA ReviewKeeps ==
  ASSUME NEW c, NEW r, CatalogInv(c), ValidReview(c, r), r.state \in {"verified", "rejected"}
  PROVE  CatalogInv(WithReview(c, r))
<1> DEFINE reviews == c.reviews \cup {ReviewRow(r)}
           n == WithReview(c, r)
<1>1. n.concepts = c.concepts /\ n.tools = c.tools
      /\ n.assertions = {Reviewed(a, reviews, r) : a \in c.assertions} /\ n.reviews = reviews
      /\ n = [concepts |-> n.concepts, tools |-> n.tools, assertions |-> n.assertions,
              reviews |-> n.reviews]
  BY DEF WithReview
<1>2. ReviewRow(r).id = r.id /\ ReviewRow(r).assertion = r.assertion /\ ReviewRow(r).state = r.state
  BY DEF ReviewRow
<1>3. \A a \in c.assertions : a.id # r.assertion =>
        Reviewed(a, reviews, r) = a /\ Verdicts(reviews, a.id) = Verdicts(c.reviews, a.id)
  BY <1>2 DEF Reviewed, Verdicts
<1>4. \A a \in c.assertions : a.id = r.assertion =>
        Reviewed(a, reviews, r) = InState(a, Aggregate(a.initial, Verdicts(reviews, a.id)))
  BY DEF Reviewed
<1>5. r.state \in Verdicts(reviews, r.assertion)
  BY <1>2 DEF Verdicts
<1> DEFINE verdict(a) == Aggregate(a.initial, Verdicts(reviews, a.id))
<1>6. \A a \in c.assertions : a.id = r.assertion =>
        verdict(a) \in {"verified", "rejected"} /\ (verdict(a) = "verified" => r.state = "verified")
  BY <1>5 DEF Aggregate
<1> HIDE DEF reviews, n
<1>7. \A a \in c.assertions :
        LET x == Reviewed(a, reviews, r) IN
          /\ x.id = a.id /\ x.tool = a.tool /\ x.def = a.def /\ x.value = a.value
          /\ x.initial = a.initial /\ x.origin = a.origin /\ x = InState(x, x.state)
          /\ x.state = (IF a.id = r.assertion THEN verdict(a) ELSE a.state)
  <2> TAKE a \in c.assertions
  <2>1. CASE a.id = r.assertion  BY <2>1, <1>4 DEF InState
  <2>2. CASE a.id # r.assertion
    <3>1. a = InState(a, a.state)  BY DEF CatalogInv, CatalogOK
    <3> QED  BY <2>2, <1>3, <3>1
  <2> QED  BY <2>1, <2>2
<1>8. CatalogOK(n)
  <2>1. Revisions(n) = Revisions(c)  BY <1>1 DEF Revisions
  <2>2. \A x \in n.assertions :
          /\ x = InState(x, x.state)
          /\ x.def \in Revisions(c) /\ x.initial \in States /\ x.state \in States
    <3> TAKE x \in n.assertions
    <3>1. PICK a \in c.assertions : x = Reviewed(a, reviews, r)  BY <1>1
    <3>2. a.def \in Revisions(c) /\ a.initial \in States /\ a.state \in States
      BY DEF CatalogInv, CatalogOK
    <3>3. x.state \in States
      BY <3>1, <3>2, <1>6, <1>7 DEF States
    <3> QED  BY <3>1, <3>2, <3>3, <1>7
  <2>3. \A x, y \in n.assertions : x.id = y.id => x = y
    <3> TAKE x, y \in n.assertions
    <3>1. PICK a \in c.assertions : x = Reviewed(a, reviews, r)  BY <1>1
    <3>2. PICK b \in c.assertions : y = Reviewed(b, reviews, r)  BY <1>1
    <3>3. a.id = b.id => a = b  BY DEF CatalogInv, CatalogOK
    <3> QED  BY <3>1, <3>2, <3>3, <1>7
  <2>4. \A x \in n.reviews : x = ReviewRow(x) /\ x.state \in {"verified", "rejected"}
    BY <1>1 DEF CatalogInv, CatalogOK, ReviewRow, reviews
  <2>5. \A x \in n.reviews : \E a \in n.assertions : a.id = x.assertion
    <3> TAKE x \in n.reviews
    <3>1. PICK a \in c.assertions : a.id = x.assertion
      BY <1>1, <1>2 DEF CatalogInv, CatalogOK, ValidReview, reviews
    <3>2. Reviewed(a, reviews, r) \in n.assertions  BY <1>1
    <3> QED  BY <3>1, <3>2, <1>7
  <2> QED  BY <1>1, <2>1, <2>2, <2>3, <2>4, <2>5 DEF CatalogInv, CatalogOK
<1>9. Agree(n)
  \* The reviewed assertion against one that was verified before.
  <2>1. ASSUME NEW a \in c.assertions, NEW b \in c.assertions, a.id = r.assertion,
               b.id # r.assertion, verdict(a) = "verified", b.state = "verified",
               a.tool = b.tool, a.def = b.def, a.def.one
        PROVE  a.value = b.value
    <3>1. r.state = "verified"  BY <1>6, <2>1
    <3>2. PICK e \in c.assertions :
            e.id = r.assertion /\ Unopposed(c, e.tool, e.def, e.value, {e.id})
      BY <3>1 DEF ValidReview
    <3>3. e = a  BY <2>1, <3>2 DEF CatalogInv, CatalogOK
    <3>4. b \in VerifiedOf(c, a.tool, a.def)  BY <2>1 DEF VerifiedOf, AssertionsOf
    <3> QED  BY <2>1, <3>2, <3>3, <3>4 DEF Unopposed
  <2>2. SUFFICES ASSUME NEW x \in n.assertions, NEW y \in n.assertions,
                        x.state = "verified", y.state = "verified",
                        x.tool = y.tool, x.def = y.def, x.def.one
                 PROVE  x.value = y.value
    BY DEF Agree
  <2>3. PICK a \in c.assertions : x = Reviewed(a, reviews, r)  BY <1>1
  <2>4. PICK b \in c.assertions : y = Reviewed(b, reviews, r)  BY <1>1
  <2> HIDE DEF verdict
  <2>5. CASE a.id = r.assertion /\ b.id = r.assertion
    BY <2>3, <2>4, <2>5 DEF CatalogInv, CatalogOK
  <2>6. CASE a.id = r.assertion /\ b.id # r.assertion
    BY <2>1, <2>2, <2>3, <2>4, <2>6, <1>7
  <2>7. CASE a.id # r.assertion /\ b.id = r.assertion
    BY <2>1, <2>2, <2>3, <2>4, <2>7, <1>7
  <2>8. CASE a.id # r.assertion /\ b.id # r.assertion
    BY <2>2, <2>3, <2>4, <2>8, <1>7 DEF CatalogInv, Agree
  <2> QED  BY <2>5, <2>6, <2>7, <2>8
<1>10. Aggregated(n)
  <2> SUFFICES ASSUME NEW x \in n.assertions
               PROVE  x.state = Aggregate(x.initial, Verdicts(reviews, x.id))
    BY <1>1 DEF Aggregated
  <2>1. PICK a \in c.assertions : x = Reviewed(a, reviews, r)  BY <1>1
  <2>2. a.state = Aggregate(a.initial, Verdicts(c.reviews, a.id))
    BY DEF CatalogInv, Aggregated
  <2> QED  BY <2>1, <2>2, <1>3, <1>7
<1>11. AiProposes(n)
  <2> SUFFICES ASSUME NEW x \in n.assertions, x.origin = "ai" PROVE x.initial = "proposed"
    BY DEF AiProposes
  <2>1. PICK a \in c.assertions : x = Reviewed(a, reviews, r)  BY <1>1
  <2> QED  BY <2>1, <1>7 DEF CatalogInv, AiProposes
<1> QED  BY <1>1, <1>8, <1>9, <1>10, <1>11, SameVocabulary DEF CatalogInv, n

\* Every record that is valid in the catalog keeps it so.
LEMMA ApplyKeeps ==
  ASSUME NEW c, NEW r \in Requests, CatalogInv(c), Validates(c, r)
  PROVE  CatalogInv(Apply(c, r, c))
<1>1. CASE r.kind = "concept"
  <2>1. Apply(c, r, c) = WithConcept(c, r.def)  BY <1>1 DEF Apply
  <2>2. ReferencesExist(c, r.def)  BY <1>1 DEF Validates
  <2> QED  BY <1>1, <2>1, <2>2, ConceptKeeps, RequestAssumption
<1>2. CASE r.kind = "tool"
  <2>1. Apply(c, r, c) = WithTool(c, r)  BY <1>2 DEF Apply
  <2> QED  BY <2>1, ToolKeeps
<1>3. CASE r.kind = "assertion"
  <2>1. Apply(c, r, c) = WithAssertion(c, r, c)  BY <1>3 DEF Apply
  <2>2. ValidAssertion(c, r)  BY <1>3 DEF Validates
  <2> QED  BY <1>3, <2>1, <2>2, AssertionKeeps, RequestAssumption DEF States
<1>4. CASE r.kind = "review"
  <2>1. Apply(c, r, c) = WithReview(c, r)  BY <1>4 DEF Apply
  <2>2. ValidReview(c, r)  BY <1>4 DEF Validates
  <2> QED  BY <1>4, <2>1, <2>2, ReviewKeeps, RequestAssumption
<1> QED  BY <1>1, <1>2, <1>3, <1>4, RequestAssumption

-----------------------------------------------------------------------------
(* The handlers                                                            *)

LEMMA InitOK == Init => IInv
<1> SUFFICES ASSUME Init PROVE IInv
  OBVIOUS
<1> USE DEF Init
<1>1. CatalogOK(Empty)
  BY DEF CatalogOK, Empty, Revisions
<1>2. TypeOK
  <2>1. \A t \in Handlers : handler[t] = Idle  OBVIOUS
  <2>2. HandlerOK(Idle)  BY <1>1 DEF HandlerOK, Idle
  <2> QED  BY <1>1, <2>1, <2>2 DEF TypeOK
<1>3. CatalogInv(catalog)
  BY <1>1 DEF CatalogInv, Agree, Aggregated, OneInForce, References, AiProposes, Revisions, Empty
<1>4. OneHolder /\ OneDecided /\ SeenIsCurrent
  BY DEF OneHolder, OneDecided, SeenIsCurrent, Idle, Holding, Decided
<1> QED  BY <1>2, <1>3, <1>4 DEF IInv

\* A step of one handler that leaves the catalog alone keeps the invariant if the
\* handler it becomes is well formed and enters no stage that another one occupies.
LEMMA HandlerStepKeeps ==
  ASSUME IInv, NEW t \in Handlers, NEW s,
         handler' = [handler EXCEPT ![t] = s], catalog' = catalog,
         keys' \subseteq Requests \cup Elsewhere,
         HandlerOK(s),
         s.pc \in Holding => \A u \in Handlers : u # t => handler[u].pc \notin Holding,
         s.pc \in Decided => \A u \in Handlers : u # t => handler[u].pc \notin Decided,
         s.pc \in Decided =>
           \A r \in s.req : /\ s.seen = catalog /\ Validates(catalog, r)
                            /\ s.pc # "lookup" => Novel(catalog, r)
  PROVE  IInv'
<1>1. handler'[t] = s /\ \A u \in Handlers : u # t => handler'[u] = handler[u]
  BY DEF IInv, TypeOK
<1>2. \A u \in Handlers : u # t => Req(u)' = Req(u)
  BY <1>1 DEF Req
<1>3. s.pc # "idle" => Req(t)' \in s.req
  BY <1>1 DEF HandlerOK, Req
<1>4. TypeOK'
  BY <1>1 DEF IInv, TypeOK
<1>5. CatalogInv(catalog)'
  BY DEF IInv
<1>6. OneHolder'
  BY <1>1 DEF IInv, OneHolder
<1>7. OneDecided'
  BY <1>1 DEF IInv, OneDecided
<1>8. SeenIsCurrent'
  <2> SUFFICES ASSUME NEW u \in Handlers, handler'[u].pc \in Decided
               PROVE  /\ handler'[u].seen = catalog /\ Validates(catalog, Req(u)')
                      /\ handler'[u].pc # "lookup" => Novel(catalog, Req(u)')
    BY DEF SeenIsCurrent
  <2>1. CASE u = t  BY <2>1, <1>1, <1>3 DEF Decided
  <2>2. CASE u # t  BY <2>2, <1>1, <1>2 DEF IInv, SeenIsCurrent
  <2> QED  BY <2>1, <2>2
<1> QED  BY <1>4, <1>5, <1>6, <1>7, <1>8 DEF IInv

\* A handler that ends occupies no stage.
LEMMA StopKeeps ==
  ASSUME IInv, NEW t \in Handlers, Stop(t), catalog' = catalog,
         keys' \subseteq Requests \cup Elsewhere
  PROVE  IInv'
<1>1. CatalogOK(Empty)
  BY DEF CatalogOK, Empty, Revisions
<1>2. HandlerOK(Idle) /\ Idle.pc \notin Holding /\ Idle.pc \notin Decided
  BY <1>1 DEF HandlerOK, Idle, Holding, Decided
<1> QED  BY <1>2, HandlerStepKeeps DEF Stop

\* A handler that moves on keeps its request and what it has seen.
LEMMA MoveKeeps ==
  ASSUME IInv, NEW t \in Handlers, NEW pc \in {"locking", "catalog", "commit", "abandoned"},
         Move(t, pc), UNCHANGED <<catalog, keys>>, handler[t].pc # "idle",
         pc \in Holding => \A u \in Handlers : u # t => handler[u].pc \notin Holding,
         pc \in Decided => handler[t].pc \in Decided /\ Novel(catalog, Req(t))
  PROVE  IInv'
<1> DEFINE s == [handler[t] EXCEPT !.pc = pc]
<1>1. HandlerOK(handler[t])
  BY DEF IInv, TypeOK
<1>2. handler[t] = [pc |-> handler[t].pc, req |-> handler[t].req, seen |-> handler[t].seen]
  BY <1>1 DEF HandlerOK
<1>3. s.pc = pc /\ s.req = handler[t].req /\ s.seen = handler[t].seen
      /\ s = [pc |-> s.pc, req |-> s.req, seen |-> s.seen]
  BY <1>2
<1>4. handler' = [handler EXCEPT ![t] = s]
  BY DEF Move
<1> HIDE DEF s
<1>5. HandlerOK(s)
  BY <1>1, <1>3 DEF HandlerOK, Holding
<1>6. PICK r \in Requests : handler[t].req = {r}
  BY <1>1 DEF HandlerOK
<1>7. Req(t) = r
  BY <1>6 DEF Req
<1>8. pc \in Decided => handler[t].seen = catalog /\ Validates(catalog, Req(t))
  BY DEF IInv, SeenIsCurrent
<1>9. pc \in Decided => \A u \in Handlers : u # t => handler[u].pc \notin Decided
  BY DEF IInv, OneDecided
<1>10. keys' \subseteq Requests \cup Elsewhere
  BY DEF IInv, TypeOK
<1> QED  BY <1>3, <1>4, <1>5, <1>6, <1>7, <1>8, <1>9, <1>10, HandlerStepKeeps

\* The one request of a busy handler.
LEMMA ReqOf ==
  ASSUME IInv, NEW t \in Handlers, handler[t].pc # "idle"
  PROVE  Req(t) \in Requests /\ handler[t].req = {Req(t)}
<1>1. PICK r \in Requests : handler[t].req = {r}
  BY DEF IInv, TypeOK, HandlerOK
<1> QED  BY <1>1 DEF Req

\* The commit inserts a record valid in the catalog it finds.
LEMMA CommitApplies ==
  ASSUME IInv, NEW t \in Handlers, Commit(t)
  PROVE  \/ UNCHANGED <<catalog, keys>>
         \/ /\ Valid(catalog, Req(t)) /\ Req(t) \in Requests
            /\ catalog' = Apply(catalog, Req(t), catalog)
            /\ keys' = keys \cup {Req(t)}
<1>1. handler[t].pc \in Decided /\ handler[t].pc # "lookup" /\ handler[t].pc # "idle"
  BY DEF Commit, Decided
<1>2. handler[t].seen = catalog /\ Valid(catalog, Req(t))
  BY <1>1 DEF IInv, SeenIsCurrent, Valid
<1>3. Req(t) \in Requests
  BY <1>1, ReqOf
<1> QED  BY <1>2, <1>3 DEF Commit

LEMMA CommitKeeps ==
  ASSUME IInv, NEW t \in Handlers, Commit(t)
  PROVE  IInv'
<1>1. CASE UNCHANGED <<catalog, keys>>
  <2>1. Stop(t)  BY DEF Commit
  <2>2. keys' \subseteq Requests \cup Elsewhere  BY <1>1 DEF IInv, TypeOK
  <2> QED  BY <1>1, <2>1, <2>2, StopKeeps
<1>2. CASE /\ Valid(catalog, Req(t)) /\ Req(t) \in Requests
           /\ catalog' = Apply(catalog, Req(t), catalog)
           /\ keys' = keys \cup {Req(t)}
  <2>1. handler' = [handler EXCEPT ![t] = Idle]
    BY DEF Commit, Stop
  <2>2. handler'[t] = Idle /\ \A u \in Handlers : u # t => handler'[u] = handler[u]
    BY <2>1 DEF IInv, TypeOK
  <2>3. CatalogInv(catalog')
    <3> DEFINE r == Req(t)
    <3>1. r \in Requests /\ Validates(catalog, r) /\ CatalogInv(catalog)
      BY <1>2 DEF Valid, IInv
    <3>2. catalog' = Apply(catalog, r, catalog)  BY <1>2
    <3> HIDE DEF r
    <3> QED  BY <3>1, <3>2, ApplyKeeps
  <2>4. \A u \in Handlers : handler'[u].pc \notin Decided
    BY <2>2 DEF IInv, OneDecided, Idle, Decided, Commit
  <2>5. HandlerOK(Idle)
    <3>1. CatalogOK(Empty)  BY DEF CatalogOK, Empty, Revisions
    <3> QED  BY <3>1 DEF HandlerOK, Idle
  <2>6. TypeOK'
    <3>1. CatalogOK(catalog')  BY <2>3 DEF CatalogInv
    <3>2. \A u \in Handlers : HandlerOK(handler'[u])  BY <2>2, <2>5 DEF IInv, TypeOK
    <3>3. keys' \subseteq Requests \cup Elsewhere  BY <1>2 DEF IInv, TypeOK
    <3>4. handler' = [u \in Handlers |-> handler'[u]]  BY <2>1 DEF IInv, TypeOK
    <3> QED  BY <3>1, <3>2, <3>3, <3>4 DEF TypeOK
  <2>7. OneHolder'
    BY <2>2 DEF IInv, OneHolder, Idle, Holding
  <2>8. OneDecided' /\ SeenIsCurrent'
    BY <2>4 DEF OneDecided, SeenIsCurrent
  <2> QED  BY <2>3, <2>6, <2>7, <2>8 DEF IInv
<1> QED  BY <1>1, <1>2, CommitApplies

LEMMA StepOK == IInv /\ [Next]_vars => IInv'
<1> SUFFICES ASSUME IInv, [Next]_vars PROVE IInv'
  OBVIOUS
<1>0. keys \subseteq Requests \cup Elsewhere
  BY DEF IInv, TypeOK
<1>1. CASE UNCHANGED vars
  BY <1>1 DEF vars, IInv, TypeOK, OneHolder, OneDecided, SeenIsCurrent, Req
<1>2. ASSUME NEW t \in Handlers, NEW r \in Requests, Begin(t, r) PROVE IInv'
  <2> DEFINE s == [pc |-> IF r.kind = "concept" THEN "locking" ELSE "precheck",
                   req |-> {r}, seen |-> Empty]
  <2>1. CatalogOK(Empty)  BY DEF CatalogOK, Empty, Revisions
  <2>2. HandlerOK(s) /\ s.pc \notin Holding /\ s.pc \notin Decided
    BY <2>1 DEF HandlerOK, Holding, Decided
  <2>3. handler' = [handler EXCEPT ![t] = s] /\ catalog' = catalog /\ keys' = keys
    BY <1>2 DEF Begin
  <2> HIDE DEF s
  <2> QED  BY <1>0, <2>2, <2>3, HandlerStepKeeps
<1>3. ASSUME NEW t \in Handlers,
             Answer(t) \/ RefuseInvalid(t) \/ RefuseKnown(t) \/ Cancel(t) \/ Lose(t)
      PROVE  IInv'
  <2>1. Stop(t) /\ catalog' = catalog /\ keys' = keys
    BY <1>3 DEF Answer, RefuseInvalid, RefuseKnown, Cancel, Lose
  <2> QED  BY <1>0, <2>1, StopKeeps
<1>4. ASSUME NEW t \in Handlers, WantLock(t) PROVE IInv'
  BY <1>4, MoveKeeps DEF WantLock, Holding, Decided
<1>5. ASSUME NEW t \in Handlers, Acquire(t) PROVE IInv'
  BY <1>5, MoveKeeps DEF Acquire, Decided
<1>6. ASSUME NEW t \in Handlers, ReadCatalog(t) PROVE IInv'
  <2> DEFINE s == [pc |-> "lookup", req |-> handler[t].req, seen |-> catalog]
  <2>1. handler[t].pc = "catalog" /\ handler[t].pc \in Holding /\ handler[t].pc # "idle"
    BY <1>6 DEF ReadCatalog, Holding
  <2>2. \A u \in Handlers : u # t => handler[u].pc \notin Holding
    BY <2>1 DEF IInv, OneHolder
  <2>3. \A u \in Handlers : u # t => handler[u].pc \notin Decided
    BY <1>6, <2>2 DEF ReadCatalog, InTurn, Decided, Holding
  <2>4. HandlerOK(s)
    <3>1. \E r \in Requests : handler[t].req = {r}
      BY <2>1 DEF IInv, TypeOK, HandlerOK
    <3>2. CatalogOK(catalog)  BY DEF IInv, TypeOK
    <3> QED  BY <3>1, <3>2 DEF HandlerOK, Holding
  <2>5. \A r \in s.req : Validates(catalog, r)
    BY <1>6, <2>1, ReqOf DEF ReadCatalog
  <2>6. handler' = [handler EXCEPT ![t] = s] /\ catalog' = catalog /\ keys' = keys
    BY <1>6 DEF ReadCatalog
  <2>7. s.pc = "lookup" /\ s.seen = catalog  OBVIOUS
  <2> HIDE DEF s
  <2> QED  BY <1>0, <2>2, <2>3, <2>4, <2>5, <2>6, <2>7, HandlerStepKeeps
<1>7. ASSUME NEW t \in Handlers, Submit(t) PROVE IInv'
  <2>1. handler[t].pc = "lookup" /\ handler[t].pc \in Decided /\ handler[t].pc \in Holding
    BY <1>7 DEF Submit, Decided, Holding
  <2>2. \A u \in Handlers : u # t => handler[u].pc \notin Holding
    BY <2>1 DEF IInv, OneHolder
  <2>3. Novel(catalog, Req(t))
    BY <1>7, <2>1 DEF Submit, IInv, SeenIsCurrent
  <2> QED  BY <1>7, <2>1, <2>2, <2>3, MoveKeeps DEF Submit
<1>8. ASSUME NEW t \in Handlers, Commit(t) PROVE IInv'
  BY <1>8, CommitKeeps
<1>9. ASSUME NEW t \in Handlers, Abandon(t) PROVE IInv'
  <2>1. handler[t].pc = "commit" /\ handler[t].pc \in Decided
    BY <1>9 DEF Abandon, Decided
  <2>2. Novel(catalog, Req(t))
    BY <2>1 DEF IInv, SeenIsCurrent
  <2> QED  BY <1>9, <2>1, <2>2, MoveKeeps DEF Abandon, Holding
<1>10. ASSUME NEW r \in Elsewhere, SpendElsewhere(r) PROVE IInv'
  <2>1. catalog' = catalog /\ handler' = handler /\ keys' \subseteq Requests \cup Elsewhere
    BY <1>0, <1>10 DEF SpendElsewhere
  <2> QED  BY <2>1 DEF IInv, TypeOK, OneHolder, OneDecided, SeenIsCurrent, Req
<1> QED
  BY <1>1, <1>2, <1>3, <1>4, <1>5, <1>6, <1>7, <1>8, <1>9, <1>10 DEF Next, HandlerStep

LEMMA Inductive == Spec => []IInv
<1> QED  BY InitOK, StepOK, PTL DEF Spec

-----------------------------------------------------------------------------
(* Theorems                                                                *)

\* The tables keep their shape, their keys and their references, and so do the
\* catalogs handlers hold (toolkit_schema_add, tool_add, assert, verify).
THEOREM ToolkitTyped == Spec => []TypeOK
<1>1. IInv => TypeOK  BY DEF IInv
<1> QED  BY <1>1, Inductive, PTL

\* Two different values of a tool are never both verified under a cardinality-one
\* revision, for any vocabulary and any number of handlers.
THEOREM OneValueIsVerified == Spec => []OneVerifiedValue
<1>1. IInv => OneVerifiedValue  BY DEF IInv, CatalogInv, Agree, OneVerifiedValue
<1> QED  BY <1>1, Inductive, PTL

\* The effective state of every assertion is the aggregate of its reviews.
THEOREM StateIsAggregate == Spec => []EffectiveIsAggregate
<1>1. IInv => EffectiveIsAggregate  BY DEF IInv, CatalogInv, Aggregated, EffectiveIsAggregate
<1> QED  BY <1>1, Inductive, PTL

\* A key that names revisions resolves to one of them, and so do the categories and the
\* parent of every revision (toolkit_schema_add, resolve_concept).
THEOREM KeysResolve == Spec => []VocabularyResolves
<1>1. ASSUME IInv PROVE VocabularyResolves
  <2> SUFFICES ASSUME NEW d \in Revisions(catalog), NEW key \in {d.key} \cup d.categories \cup d.parent
               PROVE  \E x \in Revisions(catalog) : Active(catalog, key) = {x}
    BY DEF VocabularyResolves
  <2>1. PICK e \in Revisions(catalog) : e.key = key
    BY <1>1 DEF IInv, CatalogInv, References
  <2> QED  BY <1>1, <2>1 DEF IInv, CatalogInv, OneInForce
<1> QED  BY <1>1, Inductive, PTL

\* A requirement is satisfied by an assertion in force as verified.
LEMMA SatisfiedByVerified ==
  ASSUME NEW c, NEW tool, NEW d, NEW q, q.op = "some", RequirementState(c, tool, q, d) = "satisfied"
  PROVE  \E a \in AssertionsOf(c, tool, d) : a.state = "verified" /\ a.value \subseteq q.values
<1> DEFINE verified == Eligible(AssertionsOf(c, tool, d))
<1>1. Matches(verified, q)
  BY DEF RequirementState
<1>2. \E a \in verified : a.value \subseteq q.values
  BY <1>1 DEF Matches
<1> QED  BY <1>2 DEF Eligible

\* An exact match rests on what a human asserted and no review rejects, or on what
\* reviews verify unanimously: an AI never attests for itself (evaluate_query).
THEOREM MatchesAreAttested == Spec => []ExactMatchesAreAttested
<1>1. ASSUME IInv PROVE ExactMatchesAreAttested
  <2> SUFFICES ASSUME NEW d \in Revisions(catalog), NEW wanted \in SUBSET Values,
                      NEW tool \in ExactTools(catalog,
                            {[key |-> d.key, revision |-> {d}, op |-> "some", values |-> wanted]})
               PROVE  \E a \in AssertionsOf(catalog, tool, d) :
                        /\ a.value \subseteq wanted
                        /\ Verdicts(catalog.reviews, a.id) \in
                             IF a.origin = "ai" THEN {{"verified"}} ELSE {{}, {"verified"}}
    BY DEF ExactMatchesAreAttested
  <2> DEFINE q == [key |-> d.key, revision |-> {d}, op |-> "some", values |-> wanted]
  <2>0. q.key = d.key /\ q.revision = {d} /\ q.op = "some" /\ q.values = wanted
    OBVIOUS
  <2>1. \E e \in Resolve(catalog, q.key, q.revision) : RequirementState(catalog, tool, q, e) = "satisfied"
    BY DEF ExactTools
  <2> HIDE DEF q
  <2>2. RequirementState(catalog, tool, q, d) = "satisfied"
    BY <2>0, <2>1 DEF Resolve
  <2>3. PICK a \in AssertionsOf(catalog, tool, d) : a.state = "verified" /\ a.value \subseteq wanted
    BY <2>0, <2>2, SatisfiedByVerified
  <2>4. a \in catalog.assertions
    BY DEF AssertionsOf
  <2>5. /\ Aggregate(a.initial, Verdicts(catalog.reviews, a.id)) = "verified"
        /\ a.origin = "ai" => a.initial = "proposed"
    BY <1>1, <2>3, <2>4 DEF IInv, CatalogInv, Aggregated, AiProposes
  <2>6. \/ Verdicts(catalog.reviews, a.id) = {} /\ a.origin # "ai"
        \/ Verdicts(catalog.reviews, a.id) = {"verified"}
    BY <2>5 DEF Aggregate
  <2> QED  BY <2>3, <2>6
<1> QED  BY <1>1, Inductive, PTL

LEMMA LedgerValid ==
  ASSUME NEW c, NEW r
  PROVE  Ledger!Valid(c, r) = Valid(c, r)
<1>1. \A key, rev : Ledger!Resolve(c, key, rev) = Resolve(c, key, rev)
  BY DEF Ledger!Resolve, Resolve, Ledger!Revisions, Revisions, Ledger!Active, Active
<1>2. Ledger!ReferencesExist(c, r.def) = ReferencesExist(c, r.def)
  BY DEF Ledger!ReferencesExist, ReferencesExist, Ledger!Active, Active
<1>3. Ledger!ValidTool(c, r) = ValidTool(c, r)
  BY DEF Ledger!ValidTool, ValidTool
<1>4. Ledger!ValidReview(c, r) = ValidReview(c, r)
  BY DEF Ledger!ValidReview, ValidReview, Ledger!ValueFits, ValueFits, Ledger!Applicable,
         Applicable, Ledger!Unopposed, Unopposed, Ledger!VerifiedOf, VerifiedOf,
         Ledger!AssertionsOf, AssertionsOf, Ledger!Active, Active
<1>5. Ledger!ValidAssertion(c, r) = ValidAssertion(c, r)
  BY DEF Ledger!ValidAssertion, ValidAssertion, Ledger!ValueFits, ValueFits, Ledger!Applicable,
         Applicable, Ledger!Unopposed, Unopposed, Ledger!VerifiedOf, VerifiedOf,
         Ledger!AssertionsOf, AssertionsOf, Ledger!Active, Active,
         Ledger!Resolved, Resolved, Ledger!Resolve, Resolve, Ledger!Revisions, Revisions
<1> QED
  BY <1>2, <1>3, <1>4, <1>5
  DEF Ledger!Valid, Valid, Ledger!Validates, Validates, Ledger!Novel, Novel,
      Ledger!Revisions, Revisions

LEMMA LedgerApply ==
  ASSUME NEW c, NEW r
  PROVE  Ledger!Apply(c, r, c) = Apply(c, r, c)
  BY DEF Ledger!Apply, Apply, Ledger!WithConcept, WithConcept, Ledger!Retired, Retired,
         Ledger!WithTool, WithTool, Ledger!WithAssertion, WithAssertion, Ledger!RowOf, RowOf,
         Ledger!Resolved, Resolved, Ledger!Resolve, Resolve, Ledger!Revisions, Revisions,
         Ledger!Active, Active, Ledger!WithReview, WithReview, Ledger!Reviewed, Reviewed,
         Ledger!ReviewRow, ReviewRow, Ledger!InState, InState, Ledger!Aggregate, Aggregate,
         Ledger!Verdicts, Verdicts

\* Every record the store commits is valid in the catalog it enters, although the
\* transaction does not check it and the handler may be gone.
THEOREM ToolkitImplementsLedger == Spec => ImplementsToolkitLedger
<1>1. Init => Ledger!Init
  BY DEF Init, Ledger!Init, Empty
<1>2. IInv /\ [Next]_vars => [Ledger!Next]_catalog
  <2> SUFFICES ASSUME IInv, [Next]_vars, catalog' # catalog PROVE Ledger!Next
    OBVIOUS
  <2>1. PICK t \in Handlers : Commit(t)
    BY DEF Next, HandlerStep, vars, Begin, Answer, WantLock, Acquire, ReadCatalog,
           RefuseInvalid, RefuseKnown, Submit, Cancel, Abandon, Lose, SpendElsewhere
  <2>2. PICK r \in Requests : Valid(catalog, r) /\ catalog' = Apply(catalog, r, catalog)
    BY <2>1, CommitApplies
  <2>3. Ledger!Record(r)
    BY <2>2, LedgerValid, LedgerApply DEF Ledger!Record
  <2> QED  BY <2>3 DEF Ledger!Next
<1> QED  BY <1>1, <1>2, Inductive, PTL DEF Spec, ImplementsToolkitLedger, Ledger!Spec

=============================================================================
