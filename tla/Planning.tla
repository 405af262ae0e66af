------------------------------ MODULE Planning ------------------------------
(***************************************************************************)
(* The planning profile of one community: profile.grant and the four put   *)
(* methods, which take the same path.  A handler checks its grant, takes   *)
(* the lock of the community, reads the catalog and validates the record;  *)
(* the commit transaction repeats the grant and compares the generation    *)
(* of the community.  Other cores do not know of the lock and may commit   *)
(* between any two reads.                                                  *)
(*                                                                         *)
(* Communities share nothing, so one is enough.  The lock of the document, *)
(* its update count and its log are those of LocalWrite and DocumentLocks; *)
(* only the profile writes these documents, under the community's lock.    *)
(***************************************************************************)
EXTENDS PlanningRules, PlanningFields

CONSTANTS
  Handlers,
  CoreOf,     \* the core of a slot; locks belong to a core
  Apps,
  Requests    \* [app, key, kind, row, fields]

ASSUME RequestAssumption ==
  \A r \in Requests : r.app \in Apps /\ r.kind \in Kinds /\ r.row \in RowsOf(r.kind)

VARIABLES
  access,     \* profile_grants: the applications that may read and write
  catalog,    \* the generation of the community and the rows of each kind
  log,        \* the signed records in the order of their commits
  keys,       \* idempotency_keys: requests
  handler

vars == <<access, catalog, log, keys, handler>>

\* Seeded fault: the generation is read after the rows.
ReadOrderVersionLast == <<"project", "task", "event", "dependency", "version">>
\* The SELECTs of planning_catalog, which share no transaction.
ReadOrder == <<"version", "project", "task", "event", "dependency">>

Empty == [k \in Kinds \cup {"version"} |-> IF k = "version" THEN 0 ELSE {}]
Idle == [pc |-> "idle", req |-> {}, seen |-> Empty, read |-> 0]
Holding == {"recheck", "catalog", "load", "commit"}
Req(t) == CHOOSE r \in handler[t].req : TRUE

Move(t, pc) == handler' = [handler EXCEPT ![t].pc = pc]
Stop(t) == handler' = [handler EXCEPT ![t] = Idle]
KeyUsed(r) == \E q \in keys : q.app = r.app /\ q.key = r.key

\* The store of a core serves one command at a time: no commit of its own comes
\* between the SELECTs of a catalog.
StoreFree(t) ==
  \A u \in Handlers : u # t /\ CoreOf[u] = CoreOf[t] =>
    ~(handler[u].pc = "catalog" /\ handler[u].read > 0)

-----------------------------------------------------------------------------
(* profile.grant lets the application write, or revokes it.                *)
Grant(a) ==
  /\ \/ a \notin access /\ access' = access \cup {a}
     \/ a \in access /\ access' = access \ {a}
  /\ UNCHANGED <<catalog, log, keys, handler>>

\* require_profile_write and the checks of the fields, before the lock.
Begin(t, r) ==
  /\ handler[t].pc = "idle"
  /\ r.app \in access
  /\ FieldsFit(r.kind, r.fields)
  /\ handler' = [handler EXCEPT ![t] =
       [pc |-> "locking", req |-> {r}, seen |-> Empty, read |-> 0]]
  /\ UNCHANGED <<access, catalog, log, keys>>

Acquire(t) ==
  /\ handler[t].pc = "locking"
  /\ \A u \in Handlers : u # t /\ CoreOf[u] = CoreOf[t] => handler[u].pc \notin Holding
  /\ Move(t, "recheck")
  /\ UNCHANGED <<access, catalog, log, keys>>

Recheck(t) ==
  /\ handler[t].pc = "recheck"
  /\ IF KeyUsed(Req(t)) THEN Stop(t) ELSE Move(t, "catalog")
  /\ UNCHANGED <<access, catalog, log, keys>>

\* What the handler has read once the next SELECT is done.
SeenNext(t) ==
  LET k == ReadOrder[handler[t].read + 1]
  IN [handler[t].seen EXCEPT ![k] = catalog[k]]

Read(t, pc) ==
  handler' = [handler EXCEPT ![t] =
    [pc |-> pc, req |-> handler[t].req, seen |-> SeenNext(t), read |-> handler[t].read + 1]]

\* The last SELECT completes the catalog, and the record is validated against it.
ReadNext(t) ==
  /\ handler[t].pc = "catalog"
  /\ IF handler[t].read + 1 < Len(ReadOrder) THEN Read(t, "catalog")
     ELSE IF Valid(Req(t).kind, Req(t).row, SeenNext(t)) THEN Read(t, "load")
     ELSE Stop(t)
  /\ UNCHANGED <<access, catalog, log, keys>>

\* mutate_locked looks for the key once more.
Load(t) ==
  /\ handler[t].pc = "load"
  /\ IF KeyUsed(Req(t)) THEN Stop(t) ELSE Move(t, "commit")
  /\ UNCHANGED <<access, catalog, log, keys>>

-----------------------------------------------------------------------------
(* The commit transaction                                                  *)

\* Seeded fault: the generation is not compared.
AcceptsStaleCatalog(r, seen) == ~KeyUsed(r) /\ r.app \in access
\* Seeded fault: the grant is only checked by the handler.
AcceptsRevoked(r, seen) == ~KeyUsed(r) /\ catalog["version"] = seen["version"]
Accepts(r, seen) ==
  /\ ~KeyUsed(r)
  /\ r.app \in access
  /\ catalog["version"] = seen["version"]

\* Seeded fault: INSERT OR IGNORE.
UpsertFirst(kind, row) ==
  catalog' = [k \in Kinds \cup {"version"} |->
    IF k = "version" THEN catalog[k] + 1
    ELSE IF k = kind /\ row.id \notin IdsOf(catalog[k]) THEN catalog[k] \cup {row}
    ELSE catalog[k]]
\* Seeded fault: the old row stays.
UpsertBeside(kind, row) ==
  catalog' = [k \in Kinds \cup {"version"} |->
    IF k = "version" THEN catalog[k] + 1
    ELSE IF k = kind THEN catalog[k] \cup {row} ELSE catalog[k]]
\* apply_projection: the next generation, and the row.
Upsert(kind, row) ==
  catalog' = [k \in Kinds \cup {"version"} |->
    IF k = "version" THEN catalog[k] + 1
    ELSE IF k = kind THEN Others(row, catalog[k]) \cup {row} ELSE catalog[k]]

Write(r) ==
  /\ Upsert(r.kind, r.row)
  /\ log' = Append(log, r)
  /\ keys' = keys \cup {r}

Commit(t) ==
  /\ handler[t].pc \in {"commit", "abandoned"}
  /\ StoreFree(t)
  /\ IF Accepts(Req(t), handler[t].seen) THEN Write(Req(t))
     ELSE UNCHANGED <<catalog, log, keys>>
  /\ Stop(t)
  /\ UNCHANGED access

\* The handler is dropped where it waits: by abort_all, or with its process.  A
\* commit already sent may still be served, without the lock.
Cancel(t) ==
  /\ handler[t].pc \notin {"idle", "abandoned"}
  /\ Stop(t)
  /\ UNCHANGED <<access, catalog, log, keys>>
Abandon(t) ==
  /\ handler[t].pc = "commit"
  /\ Move(t, "abandoned")
  /\ UNCHANGED <<access, catalog, log, keys>>
\* The process ends before the store serves the commit.
Lose(t) ==
  /\ handler[t].pc = "abandoned"
  /\ Stop(t)
  /\ UNCHANGED <<access, catalog, log, keys>>

-----------------------------------------------------------------------------
Init ==
  /\ access = {}
  /\ catalog = Empty
  /\ log = <<>> /\ keys = {}
  /\ handler = [t \in Handlers |-> Idle]

HandlerStep(t) ==
  \/ Acquire(t) \/ Recheck(t) \/ ReadNext(t) \/ Load(t) \/ Commit(t)
  \/ Cancel(t) \/ Abandon(t) \/ Lose(t)

Next ==
  \/ \E a \in Apps : Grant(a)
  \/ \E t \in Handlers, r \in Requests : Begin(t, r)
  \/ \E t \in Handlers : HandlerStep(t)

Spec == Init /\ [][Next]_vars

-----------------------------------------------------------------------------
(* Properties                                                              *)

CatalogOK(c) ==
  /\ c = [k \in Kinds \cup {"version"} |-> c[k]]
  /\ c["version"] \in Nat
  /\ \A k \in Kinds : c[k] \subseteq RowsOf(k) /\ IsFiniteSet(c[k])

SelectsDone(pc) ==
  CASE pc \in {"idle", "locking", "recheck"} -> {0}
    [] pc = "catalog" -> 0..Len(ReadOrder) - 1
    [] pc \in {"load", "commit", "abandoned"} -> {Len(ReadOrder)}

HandlerOK(s) ==
  /\ s = [pc |-> s.pc, req |-> s.req, seen |-> s.seen, read |-> s.read]
  /\ s.pc \in Holding \cup {"idle", "locking", "abandoned"}
  /\ s.pc # "idle" => \E r \in Requests : s.req = {r}
  /\ CatalogOK(s.seen) /\ s.read \in SelectsDone(s.pc)

TypeOK ==
  /\ access \subseteq Apps
  /\ CatalogOK(catalog)
  /\ \A k \in Kinds : \A x, y \in catalog[k] : x.id = y.id => x = y
  /\ log \in Seq(Requests) /\ keys \subseteq Requests
  /\ handler = [t \in Handlers |-> handler[t]]
  /\ \A t \in Handlers : HandlerOK(handler[t])

\* Dependencies never form a cycle, although each of two cores may add one edge of
\* it from a catalog without the other's.
DependenciesAcyclic == Acyclic(catalog["dependency"])

\* Every project and task a record names exists, and no kind outgrows its limit,
\* although the catalog a record was validated against is one of an earlier moment.
RecordsFit ==
  /\ \A x \in catalog["task"] \cup catalog["event"] : x.project \subseteq IdsOf(catalog["project"])
  /\ \A e \in catalog["dependency"] : {e.from, e.to} \subseteq IdsOf(catalog["task"])
  /\ \A k \in Kinds : Cardinality(catalog[k]) <= MaxRecords

\* The tables are what the signed records say, replayed in their order.
TablesReplayLog ==
  \A k \in Kinds :
    catalog[k] = {log[i].row : i \in {i \in 1..Len(log) :
      /\ log[i].kind = k
      /\ \A j \in i + 1..Len(log) : log[j].kind = k => log[j].row.id # log[i].row.id}}

\* Planning implements PlanningCommunity: whatever was granted, revoked or put
\* meanwhile, a record is committed only if the application may write and the
\* record is valid at the commit.
Abstract == INSTANCE PlanningCommunity WITH rows <- [k \in Kinds |-> catalog[k]]
ImplementsPlanningCommunity == Abstract!Spec
=============================================================================
