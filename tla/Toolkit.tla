------------------------------ MODULE Toolkit ------------------------------
(***************************************************************************)
(* The native toolkit of one application and community on one core:        *)
(* toolkit.schema.add, tool.add, assert and verify.  A handler looks for   *)
(* its idempotency key, takes the write lock of the toolkit, reads the     *)
(* catalog in one command of the store, validates its record against it    *)
(* and commits the record with its projection row.  Nothing of the         *)
(* validation is repeated by the commit transaction.                       *)
(*                                                                         *)
(* Records are documents of their own; their locks, update counts and logs *)
(* are those of LocalWrite.  The three lookups of the key under the lock   *)
(* are one.                                                                *)
(***************************************************************************)
EXTENDS ToolkitRules

CONSTANTS
  Handlers,
  Requests,   \* toolkit writes: [key, kind, ...]
  Elsewhere   \* requests for other methods or communities: [key, kind |-> "other"]

ASSUME RequestAssumption ==
  /\ \A r \in Requests : r.kind \in {"concept", "tool", "assertion", "review"}
  /\ \A r \in Requests : r.kind = "concept" => r.def \in Definitions
  /\ \A r \in Requests : r.kind = "assertion" => r.state \in {"proposed", "verified", "rejected", "unknown"}
  /\ \A r \in Requests : r.kind = "review" => r.state \in {"verified", "rejected"}
  /\ \A r \in Elsewhere : r.kind = "other"

VARIABLES
  catalog,    \* the tables toolkit_concepts, _tools, _assertions and _reviews
  keys,       \* idempotency_keys of the application: requests
  handler

vars == <<catalog, keys, handler>>

Empty == [concepts |-> {}, tools |-> {}, assertions |-> {}, reviews |-> {}]
Idle == [pc |-> "idle", req |-> {}, seen |-> Empty]
\* Seeded fault: the lock is taken for the commit only.
HoldingToCommit == {"commit"}
Holding == {"catalog", "lookup", "commit"}
Req(t) == CHOOSE r \in handler[t].req : TRUE
KeyUsed(r) == \E q \in keys : q.key = r.key

Move(t, pc) == handler' = [handler EXCEPT ![t].pc = pc]
Stop(t) == handler' = [handler EXCEPT ![t] = Idle]

-----------------------------------------------------------------------------
(* toolkit.schema.add takes the lock first, the other methods look for     *)
(* the key before.                                                         *)
Begin(t, r) ==
  /\ handler[t].pc = "idle"
  /\ handler' = [handler EXCEPT ![t] =
       [pc |-> IF r.kind = "concept" THEN "locking" ELSE "precheck", req |-> {r}, seen |-> Empty]]
  /\ UNCHANGED <<catalog, keys>>

\* The key is spent: the stored response, or IDEMPOTENCY_CONFLICT.
Answer(t) ==
  /\ handler[t].pc \in {"precheck", "lookup"}
  /\ KeyUsed(Req(t))
  /\ Stop(t)
  /\ UNCHANGED <<catalog, keys>>

WantLock(t) ==
  /\ handler[t].pc = "precheck"
  /\ ~KeyUsed(Req(t))
  /\ Move(t, "locking")
  /\ UNCHANGED <<catalog, keys>>

Acquire(t) ==
  /\ handler[t].pc = "locking"
  /\ \A u \in Handlers : u # t => handler[u].pc \notin Holding
  /\ Move(t, "catalog")
  /\ UNCHANGED <<catalog, keys>>

\* The queue of the store is FIFO: a commit whose handler was dropped is served
\* before the catalog of the next holder of the lock.
\* Seeded fault: reads do not queue.
AnyOrder(t) == TRUE
InTurn(t) == \A u \in Handlers : handler[u].pc # "abandoned"

ReadCatalog(t) ==
  /\ handler[t].pc = "catalog"
  /\ InTurn(t)
  /\ Validates(catalog, Req(t))
  /\ handler' = [handler EXCEPT ![t] = [pc |-> "lookup", req |-> handler[t].req, seen |-> catalog]]
  /\ UNCHANGED <<catalog, keys>>

\* An error of the validation, whatever the key.
RefuseInvalid(t) ==
  /\ handler[t].pc = "catalog"
  /\ InTurn(t)
  /\ ~Validates(catalog, Req(t))
  /\ Stop(t)
  /\ UNCHANGED <<catalog, keys>>

RefuseKnown(t) ==
  /\ handler[t].pc = "lookup"
  /\ ~KeyUsed(Req(t))
  /\ ~Novel(handler[t].seen, Req(t))
  /\ Stop(t)
  /\ UNCHANGED <<catalog, keys>>

Submit(t) ==
  /\ handler[t].pc = "lookup"
  /\ ~KeyUsed(Req(t))
  /\ Novel(handler[t].seen, Req(t))
  /\ Move(t, "commit")
  /\ UNCHANGED <<catalog, keys>>

-----------------------------------------------------------------------------
(* The commit transaction: the primary keys of the tables and of the       *)
(* idempotency keys, and the row.                                          *)
Unique(r) ==
  /\ ~KeyUsed(r)
  /\ r.kind = "concept" => r.def \notin Revisions(catalog)
  /\ r.kind = "tool" => \A x \in catalog.tools : x.key # r.tool
  /\ r.kind = "assertion" => \A x \in catalog.assertions : x.id # r.id
  /\ r.kind = "review" => \A x \in catalog.reviews : x.id # r.id

Commit(t) ==
  /\ handler[t].pc \in {"commit", "abandoned"}
  /\ IF Unique(Req(t))
     THEN /\ catalog' = Apply(catalog, Req(t), handler[t].seen)
          /\ keys' = keys \cup {Req(t)}
     ELSE UNCHANGED <<catalog, keys>>
  /\ Stop(t)

\* The handler is dropped where it waits: by abort_all, or with its process.  A
\* commit already sent may still be served, without the lock.
Cancel(t) ==
  /\ handler[t].pc \notin {"idle", "abandoned"}
  /\ Stop(t)
  /\ UNCHANGED <<catalog, keys>>
Abandon(t) ==
  /\ handler[t].pc = "commit"
  /\ Move(t, "abandoned")
  /\ UNCHANGED <<catalog, keys>>
\* The process ends before the store serves the commit.
Lose(t) ==
  /\ handler[t].pc = "abandoned"
  /\ Stop(t)
  /\ UNCHANGED <<catalog, keys>>

\* The application spends a key in another method or community.
SpendElsewhere(r) ==
  /\ ~KeyUsed(r)
  /\ keys' = keys \cup {r}
  /\ UNCHANGED <<catalog, handler>>

-----------------------------------------------------------------------------
Init == catalog = Empty /\ keys = {} /\ handler = [t \in Handlers |-> Idle]

HandlerStep(t) ==
  \/ Answer(t) \/ WantLock(t) \/ Acquire(t)
  \/ ReadCatalog(t) \/ RefuseInvalid(t) \/ RefuseKnown(t) \/ Submit(t)
  \/ Commit(t) \/ Cancel(t) \/ Abandon(t) \/ Lose(t)

Next ==
  \/ \E t \in Handlers, r \in Requests : Begin(t, r)
  \/ \E t \in Handlers : HandlerStep(t)
  \/ \E r \in Elsewhere : SpendElsewhere(r)

Spec == Init /\ [][Next]_vars

-----------------------------------------------------------------------------
(* Properties                                                              *)

ConceptRows == [def : Definitions, active : BOOLEAN]
States == {"proposed", "verified", "rejected", "unknown"}

CatalogOK(c) ==
  /\ c = [concepts |-> c.concepts, tools |-> c.tools, assertions |-> c.assertions,
          reviews |-> c.reviews]
  /\ c.concepts \subseteq ConceptRows
  /\ \A t \in c.tools : t = [key |-> t.key, active |-> t.active]
  /\ \A a \in c.assertions :
       /\ a = InState(a, a.state)
       /\ a.def \in Revisions(c) /\ a.initial \in States /\ a.state \in States
       /\ \A b \in c.assertions : a.id = b.id => a = b
  /\ \A x \in c.reviews :
       /\ x = ReviewRow(x) /\ x.state \in {"verified", "rejected"}
       /\ \E a \in c.assertions : a.id = x.assertion

HandlerOK(s) ==
  /\ s = [pc |-> s.pc, req |-> s.req, seen |-> s.seen]
  /\ s.pc \in Holding \cup {"idle", "precheck", "locking", "abandoned"}
  /\ s.pc # "idle" => \E r \in Requests : s.req = {r}
  /\ CatalogOK(s.seen)

TypeOK ==
  /\ CatalogOK(catalog)
  /\ keys \subseteq Requests \cup Elsewhere
  /\ handler = [t \in Handlers |-> handler[t]]
  /\ \A t \in Handlers : HandlerOK(handler[t])

\* The verified values of a tool under a cardinality-one revision agree: two
\* assertions or reviews never both pass reject_local_cardinality_conflict, although
\* only the lock and the order of the store stand between its read and the commit.
OneVerifiedValue ==
  \A a, b \in catalog.assertions :
    /\ a.state = "verified" /\ b.state = "verified"
    /\ a.tool = b.tool /\ a.def = b.def /\ a.def.one
    => a.value = b.value

\* Only reviews verify what an AI asserted: a hard requirement is met by an assertion
\* of a human that no review rejects, or by one that reviews verify unanimously.
ExactMatchesAreAttested ==
  \A d \in Revisions(catalog), wanted \in SUBSET Values :
    LET q == [key |-> d.key, revision |-> {d}, op |-> "some", values |-> wanted]
    IN \A tool \in ExactTools(catalog, {q}) :
         \E a \in AssertionsOf(catalog, tool, d) :
           /\ a.value \subseteq wanted
           /\ Verdicts(catalog.reviews, a.id) \in
                IF a.origin = "ai" THEN {{"verified"}} ELSE {{}, {"verified"}}

\* The state of an assertion is that of the set of its reviews, whatever their order.
EffectiveIsAggregate ==
  \A a \in catalog.assertions :
    a.state = Aggregate(a.initial, Verdicts(catalog.reviews, a.id))

\* An omitted revision always resolves to one revision, and the categories and
\* parents of every revision resolve.
VocabularyResolves ==
  \A d \in Revisions(catalog) : \A key \in {d.key} \cup d.categories \cup d.parent :
    \E x \in Revisions(catalog) : Active(catalog, key) = {x}

\* Toolkit implements ToolkitLedger: what a handler validated still holds when its
\* record is committed, its handler dropped or not.
Ledger == INSTANCE ToolkitLedger
ImplementsToolkitLedger == Ledger!Spec

\* "Same app + idempotency key + exact request returns the stored response."
StoredResponseReturned ==
  [][\A t \in Handlers : RefuseInvalid(t) => Req(t) \notin keys]_vars
=============================================================================
