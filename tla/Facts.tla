-------------------------------- MODULE Facts --------------------------------
(***************************************************************************)
(* Fact governance: schema.register, fact.assert and the projection tables *)
(* it keeps.  A handler validates a revision against what it reads while   *)
(* it holds the lock of the claim; the commit transaction validates again  *)
(* what other claims (other locks) and other cores (no locks) may have     *)
(* changed.  The path of one commit through handler and store is that of   *)
(* LocalWrite, here with one step per read; a step is the moment the store *)
(* serves it.                                                              *)
(*                                                                         *)
(* The predicate of a fact is <schema_id>@<schema_version>, so it names    *)
(* the schema.  Operation hashes are numbers without meaning: the next one *)
(* may be smaller or larger than the last.                                 *)
(***************************************************************************)
EXTENDS Naturals, Sequences, FiniteSets, FactSchemas

CONSTANTS
  Handlers,       \* handler slots
  CoreOf,         \* the core of a slot; locks belong to a core
  Claims, Subjects, Schemas,
  Multiple,       \* schemas with multiple_active_claims
  Allows,         \* lifecycle_policy; ASSERTED stands for allow_supersession
  Enabled,        \* schemas registered with enabled = true
  Shape,          \* object_schema of a schema, and the provenance its policy requires
  Requests,       \* fact.assert requests, all of one application
  Hashes,         \* operation hashes; bound: how many operations there can be
  Times,          \* what the wall clock may show
  MaxMutations    \* bound: document.mutate calls on documents of claims

ASSUME RequestAssumption ==
  \A r \in Requests :
    /\ r.claim \in Claims /\ r.subject \in Subjects /\ r.schema \in Schemas
    /\ r.status \in {"ASSERTED", "RETRACTED", "DISPUTED", "EXPIRED"}
ASSUME SchemaAssumption ==
  /\ Multiple \subseteq Schemas /\ Enabled \subseteq Schemas
  /\ Allows \in [Schemas -> SUBSET {"ASSERTED", "RETRACTED", "DISPUTED", "EXPIRED"}]
ASSUME HashAssumption == Hashes \subseteq Nat
ASSUME TimeAssumption == Times \subseteq Nat /\ Times # {}
ASSUME BoundAssumption == MaxMutations \in Nat

VARIABLES
  registered,   \* fact_schemas
  operations,   \* operations: [hash, doc] rows; doc is facts/<claim>
  keys,         \* idempotency_keys: [req, hash] rows
  revisions,    \* fact_claim_revisions
  claims,       \* fact_claims, the current projection
  content,      \* lifecycle_status in the Loro document of a claim
  clock,        \* now_ms
  handler, mutations

tables == <<registered, operations, keys, revisions, claims, content>>
vars == <<tables, clock, handler, mutations>>

Statuses == {"ASSERTED", "RETRACTED", "DISPUTED", "EXPIRED"}
Terminal == {"RETRACTED", "EXPIRED"}
Current ==
  [claim : Claims, hash : Hashes, subject : Subjects, schema : Schemas,
   status : Statuses, at : Nat]
Revision ==
  [claim : Claims, hash : Hashes, subject : Subjects, schema : Schemas,
   status : Statuses \cup {"SUPERSEDED"}, at : Nat, supersedes : SUBSET Hashes]
Holding == {"recheck", "current", "conflict", "load", "commit"}
HandlerState ==
  [pc : Holding \cup {"idle", "locking", "abandoned"}, req : SUBSET Requests,
   previous : SUBSET Current, base : Nat]
Idle == [pc |-> "idle", req |-> {}, previous |-> {}, base |-> 0]

-----------------------------------------------------------------------------
(* SELECTs                                                                 *)

OperationsOf(c) == {o \in operations : o.doc = c}
KeyRows(r) == {k \in keys : k.req.key = r.key}
CurrentOf(c) == {p \in claims : p.claim = c}
\* Another active claim says something of the same subject and predicate.
ActiveConflict(r) ==
  \E p \in claims : /\ p.claim # r.claim /\ p.subject = r.subject /\ p.schema = r.schema
                    /\ p.status = "ASSERTED"

-----------------------------------------------------------------------------
(* What the handler decides                                                *)

\* Claim subject, predicate and schema are immutable across revisions.
SameClaim(r, previous) ==
  \A p \in previous : p.subject = r.subject /\ p.schema = r.schema

\* Seeded fault: a terminal claim may be revised.
TransitionWithoutTerminal(r, previous) ==
  /\ previous = {} => r.status = "ASSERTED"
  /\ previous # {} \/ r.status # "ASSERTED" => r.status \in Allows[r.schema]

\* validate_lifecycle_transition
Transition(r, previous) ==
  /\ previous = {} => r.status = "ASSERTED"
  /\ \A p \in previous : p.status \notin Terminal
  /\ previous # {} \/ r.status # "ASSERTED" => r.status \in Allows[r.schema]

NeedsUniqueness(r) == r.status = "ASSERTED" /\ r.schema \notin Multiple

Move(t, pc) == handler' = [handler EXCEPT ![t].pc = pc]
\* The handler goes on with what it has read.
Proceed(t, pc, previous, base) ==
  handler' = [handler EXCEPT ![t] =
    [pc |-> pc, req |-> handler[t].req, previous |-> previous, base |-> base]]
Stop(t) == handler' = [handler EXCEPT ![t] = Idle]
Req(t) == CHOOSE r \in handler[t].req : TRUE

\* validate_fact_against_schema; the predicate is the schema's name.
BoundTo(r, shape) == shape.provenance \subseteq r.given /\ ObjectFits(r.object, shape.object)
Admissible == {r \in Requests : BoundTo(r, Shape[r.schema])}
Registrable == {s \in Schemas : SchemaFits(Shape[s].object)}

\* schema.register validates and inserts a version that does not exist yet; there
\* is no update.
RegisterSchema(s) ==
  /\ s \notin registered
  /\ s \in Registrable
  /\ registered' = registered \cup {s}
  /\ UNCHANGED <<operations, keys, revisions, claims, content, clock, handler, mutations>>

\* The request passes idempotency, its schema is registered and enabled, and its
\* object is bound to it; else the caller is answered and nothing happens.
Begin(t, r) ==
  /\ handler[t].pc = "idle"
  /\ KeyRows(r) = {}
  /\ r.schema \in registered \cap Enabled
  /\ r \in Admissible
  /\ handler' = [handler EXCEPT ![t] =
       [pc |-> "locking", req |-> {r}, previous |-> {}, base |-> 0]]
  /\ UNCHANGED <<tables, clock, mutations>>

Competes(t, u) ==
  /\ u # t /\ CoreOf[u] = CoreOf[t] /\ handler[u].pc \in Holding
  /\ Req(u).claim = Req(t).claim

Acquire(t) ==
  /\ handler[t].pc = "locking"
  /\ \A u \in Handlers : ~Competes(t, u)
  /\ Move(t, "recheck")
  /\ UNCHANGED <<tables, clock, mutations>>

Recheck(t) ==
  /\ handler[t].pc = "recheck"
  /\ IF KeyRows(Req(t)) = {} THEN Move(t, "current") ELSE Stop(t)
  /\ UNCHANGED <<tables, clock, mutations>>

ReadCurrent(t) ==
  LET r == Req(t)
      previous == CurrentOf(r.claim)
  IN /\ handler[t].pc = "current"
     /\ IF SameClaim(r, previous) /\ Transition(r, previous)
        THEN Proceed(t, IF NeedsUniqueness(r) THEN "conflict" ELSE "load", previous, 0)
        ELSE Stop(t)
     /\ UNCHANGED <<tables, clock, mutations>>

CheckConflict(t) ==
  /\ handler[t].pc = "conflict"
  /\ IF ActiveConflict(Req(t)) THEN Stop(t) ELSE Move(t, "load")
  /\ UNCHANGED <<tables, clock, mutations>>

\* mutate_locked: the key once more, the updates and the log head.
Load(t) ==
  /\ handler[t].pc = "load"
  /\ IF KeyRows(Req(t)) = {}
     THEN Proceed(t, "commit", handler[t].previous, Cardinality(OperationsOf(Req(t).claim)))
     ELSE Stop(t)
  /\ UNCHANGED <<tables, clock, mutations>>

-----------------------------------------------------------------------------
(* The commit transaction                                                  *)

Later(a, b) == IF a > b THEN a ELSE b

\* Seeded fault: the wall clock is taken as it is.
RevisionTimeUnclamped(stored) == clock
\* A revision is later than the one it supersedes, whatever the clock says.
RevisionTime(stored) ==
  IF stored = {} THEN clock ELSE Later(clock, (CHOOSE p \in stored : TRUE).at + 1)

\* Seeded fault: the current revision is not compared again.
AcceptsStalePrevious(r, previous, base) ==
  /\ Cardinality(OperationsOf(r.claim)) = base /\ KeyRows(r) = {}
  /\ NeedsUniqueness(r) => ~ActiveConflict(r)
\* Seeded fault: the single active claim is only checked by the handler.
AcceptsWithoutUniqueness(r, previous, base) ==
  /\ Cardinality(OperationsOf(r.claim)) = base /\ KeyRows(r) = {}
  /\ {p.hash : p \in CurrentOf(r.claim)} = {p.hash : p \in previous}

\* What commit_local and apply_projection check before they write.
Accepts(r, previous, base) ==
  /\ Cardinality(OperationsOf(r.claim)) = base /\ KeyRows(r) = {}
  /\ {p.hash : p \in CurrentOf(r.claim)} = {p.hash : p \in previous}
  /\ NeedsUniqueness(r) => ~ActiveConflict(r)

\* Seeded fault: the revision that is superseded keeps its status.
SupersedeNothing(hashes) == revisions
Supersede(hashes) ==
  {IF v.hash \in hashes THEN [v EXCEPT !.status = "SUPERSEDED"] ELSE v : v \in revisions}

NewRevision(r, h, at, hashes) ==
  [claim |-> r.claim, hash |-> h, subject |-> r.subject, schema |-> r.schema,
   status |-> r.status, at |-> at, supersedes |-> hashes]
NewCurrent(r, h, at) ==
  [claim |-> r.claim, hash |-> h, subject |-> r.subject, schema |-> r.schema,
   status |-> r.status, at |-> at]

\* Seeded fault: INSERT without ON CONFLICT DO UPDATE, on a table without key.
AppendAnotherRow(r, h) ==
  LET stored == CurrentOf(r.claim)
      hashes == {p.hash : p \in stored}
      at == RevisionTime(stored)
  IN /\ revisions' = Supersede(hashes) \cup {NewRevision(r, h, at, hashes)}
     /\ claims' = claims \cup {NewCurrent(r, h, at)}

\* The new revision, the superseded one and the current row.
AppendRevision(r, h) ==
  LET stored == CurrentOf(r.claim)
      hashes == {p.hash : p \in stored}
      at == RevisionTime(stored)
  IN /\ revisions' = Supersede(hashes) \cup {NewRevision(r, h, at, hashes)}
     /\ claims' = (claims \ stored) \cup {NewCurrent(r, h, at)}

UsedHashes == {o.hash : o \in operations}

Write(r, h) ==
  /\ AppendRevision(r, h)
  /\ operations' = operations \cup {[hash |-> h, doc |-> r.claim]}
  /\ keys' = keys \cup {[req |-> r, hash |-> h]}
  /\ content' = [content EXCEPT ![r.claim] = {r.status}]
  /\ UNCHANGED registered

Commit(t) ==
  /\ handler[t].pc \in {"commit", "abandoned"}
  /\ IF Accepts(Req(t), handler[t].previous, handler[t].base)
     THEN \E h \in Hashes \ UsedHashes : Write(Req(t), h)
     ELSE UNCHANGED tables
  /\ Stop(t)
  /\ UNCHANGED <<clock, mutations>>

\* document.mutate of the application on facts/<claim>: an operation that no
\* projection knows of.
MutateDocument(c) ==
  /\ mutations < MaxMutations
  /\ mutations' = mutations + 1
  /\ \E h \in Hashes \ UsedHashes : operations' = operations \cup {[hash |-> h, doc |-> c]}
  /\ content' = [content EXCEPT ![c] = {"EDITED"}]
  /\ UNCHANGED <<registered, keys, revisions, claims, clock, handler>>

\* The handler is dropped where it waits: by abort_all, or with its process.  A
\* commit already sent to the store may still be served, without the lock.
Cancel(t) ==
  /\ handler[t].pc \notin {"idle", "abandoned"}
  /\ Stop(t)
  /\ UNCHANGED <<tables, clock, mutations>>
Abandon(t) ==
  /\ handler[t].pc = "commit"
  /\ Move(t, "abandoned")
  /\ UNCHANGED <<tables, clock, mutations>>
\* The process ends before the store serves the commit.
Lose(t) ==
  /\ handler[t].pc = "abandoned"
  /\ Stop(t)
  /\ UNCHANGED <<tables, clock, mutations>>

\* The wall clock shows another time, later or earlier.
SetClock(now) ==
  /\ clock # now
  /\ clock' = now
  /\ UNCHANGED <<tables, handler, mutations>>

-----------------------------------------------------------------------------
Init ==
  /\ registered = {} /\ operations = {} /\ keys = {} /\ revisions = {} /\ claims = {}
  /\ content = [c \in Claims |-> {}]
  /\ clock \in Times
  /\ handler = [t \in Handlers |-> Idle]
  /\ mutations = 0

HandlerStep(t) ==
  \/ Acquire(t) \/ Recheck(t) \/ ReadCurrent(t) \/ CheckConflict(t) \/ Load(t)
  \/ Commit(t) \/ Cancel(t) \/ Abandon(t) \/ Lose(t)

Next ==
  \/ \E s \in Schemas : RegisterSchema(s)
  \/ \E t \in Handlers, r \in Requests : Begin(t, r)
  \/ \E t \in Handlers : HandlerStep(t)
  \/ \E c \in Claims : MutateDocument(c)
  \/ \E now \in Times : SetClock(now)

Spec == Init /\ [][Next]_vars

-----------------------------------------------------------------------------
(* Properties                                                              *)

TypeOK ==
  /\ registered \subseteq Schemas
  /\ operations \subseteq [hash : Hashes, doc : Claims] /\ IsFiniteSet(operations)
  /\ keys \subseteq [req : Requests, hash : Hashes]
  /\ revisions \subseteq Revision
  /\ claims \subseteq Current
  /\ \A p, q \in claims : p.claim = q.claim => p = q
  /\ content \in [Claims -> SUBSET (Statuses \cup {"EDITED"})]
  /\ clock \in Times
  /\ handler \in [Handlers -> HandlerState]
  /\ \A t \in Handlers : handler[t].pc # "idle" => \E r \in Requests : handler[t].req = {r}
  /\ mutations \in 0..MaxMutations

RevisionsOf(c) == {v \in revisions : v.claim = c}
\* The order of fact.history and of projection.check.
Newer(v, w) == v.at > w.at \/ (v.at = w.at /\ v.hash > w.hash)
Latest == {v \in revisions : \A w \in RevisionsOf(v.claim) : ~Newer(w, v)}

\* projection.check finds nothing, ever: the current rows are exactly the latest
\* revisions, although the clock is set back and hashes are in no order.
ProjectionConsistent ==
  {[claim |-> v.claim, hash |-> v.hash, subject |-> v.subject, schema |-> v.schema,
    status |-> v.status, at |-> v.at] : v \in Latest} = claims

\* The revisions of a claim are one chain without fork or cycle: one first
\* revision, each other supersedes a revision of the same claim with an earlier
\* time that no other supersedes, and the superseded ones are marked so.
RevisionsAreChain ==
  \A c \in Claims :
    /\ \A v, w \in RevisionsOf(c) : v.supersedes = w.supersedes => v = w
    /\ \A v \in RevisionsOf(c) :
         /\ \A h \in v.supersedes : \E w \in RevisionsOf(c) : w.hash = h /\ w.at < v.at
         /\ v.status = "SUPERSEDED" <=> \E w \in RevisionsOf(c) : v.hash \in w.supersedes

\* A schema with one active claim per subject never has two, although claims have
\* different locks and cores share none.
OneActiveClaim ==
  \A p, q \in claims :
    /\ p.status = "ASSERTED" /\ q.status = "ASSERTED"
    /\ p.subject = q.subject /\ p.schema = q.schema /\ p.schema \notin Multiple
    => p.claim = q.claim

\* Facts implements GovernedClaims: every revision is a decision the lifecycle
\* policy allowed for the revision it superseded, although it was validated
\* against an earlier read.
Abstract == INSTANCE GovernedClaims WITH
  claim <- [c \in Claims |-> {[subject |-> p.subject, schema |-> p.schema, status |-> p.status] :
                                p \in CurrentOf(c)}]
ImplementsGovernedClaims == Abstract!Spec

\* The current table is disposable (docs/architecture.md): what it says of a
\* claim is what the document of the claim says.
DocumentTellsClaim ==
  \A p \in claims : content[p.claim] = {p.status}
=============================================================================
