--------------------------- MODULE PlanningProofs ---------------------------
(***************************************************************************)
(* Proofs about Planning.  What makes them work is Fresh: while the        *)
(* generation of the community is the one a handler read first, all rows   *)
(* it read since are the current ones.  A commit that finds its generation *)
(* current therefore commits a record that was validated against the very  *)
(* catalog it changes, which is a step of PlanningCommunity.  That a valid *)
(* record keeps dependencies acyclic is a fact about graphs (NewEdge).     *)
(* That the tables are the replay of the log is shown with the replay said *)
(* without recursion (Replayed).                                           *)
(***************************************************************************)
EXTENDS Planning, FiniteSetTheorems, TLAPS

FreshIn(s, c) ==
  /\ s.read > 0 => s.seen["version"] <= c["version"]
  /\ s.read > 0 /\ s.seen["version"] = c["version"] =>
       \A i \in 1..s.read : s.seen[ReadOrder[i]] = c[ReadOrder[i]]
  /\ s.pc \in {"load", "commit", "abandoned"} =>
       \A r \in s.req : Valid(r.kind, r.row, s.seen)

Fresh == \A t \in Handlers : FreshIn(handler[t], catalog)

IInv == TypeOK /\ Fresh /\ DependenciesAcyclic /\ RecordsFit

Tables == Kinds \cup {"version"}

\* A commit that is accepted.
Accepted(t) ==
  /\ handler[t].pc \in {"commit", "abandoned"}
  /\ Accepts(Req(t), handler[t].seen)
  /\ Write(Req(t))
  /\ Stop(t)
  /\ UNCHANGED access

\* The steps that leave the catalog alone.
Quiet == catalog' = catalog /\ log' = log /\ keys' = keys

-----------------------------------------------------------------------------
(* Facts about the rules                                                   *)

\* An edge that closes no path keeps a graph acyclic.
LEMMA NewEdge ==
  ASSUME NEW edges, NEW row, Acyclic(edges), ~MakesCycle(row, edges)
  PROVE  Acyclic(edges \cup {row})
<1>1. PICK C \in SUBSET Ids : row.to \in C /\ Closed(C, edges) /\ row.from \notin C
  BY DEF MakesCycle, Reaches
<1> SUFFICES ASSUME NEW S \in SUBSET Ids, S # {},
                    \A x \in S : \E e \in edges \cup {row} : e.to = x /\ e.from \in S
             PROVE  FALSE
  BY DEF Acyclic
<1>2. CASE S \subseteq C
  <2>1. \A x \in S : \E e \in edges : e.to = x /\ e.from \in S
    BY <1>1, <1>2
  <2> QED BY <2>1 DEF Acyclic
<1>3. CASE ~(S \subseteq C)
  <2>1. \A x \in S \ C : \E e \in edges : e.to = x /\ e.from \in S \ C
    BY <1>1 DEF Closed
  <2>2. S \ C \in SUBSET Ids /\ S \ C # {}
    BY <1>3
  <2> QED BY <2>1, <2>2 DEF Acyclic
<1> QED BY <1>2, <1>3

LEMMA FewerEdges ==
  ASSUME NEW edges, NEW fewer \in SUBSET edges, Acyclic(edges)
  PROVE  Acyclic(fewer)
  BY DEF Acyclic

\* Replacing a row keeps the ids, and a set below the limit has room for one.
LEMMA Replaced ==
  ASSUME NEW rows, IsFiniteSet(rows), NEW row, Cardinality(Others(row, rows)) < MaxRecords,
         NEW after, after = Others(row, rows) \cup {row}
  PROVE  /\ IsFiniteSet(after) /\ Cardinality(after) <= MaxRecords
         /\ IdsOf(after) = IdsOf(rows) \cup {row.id}
<1>1. IsFiniteSet(Others(row, rows))
  BY FS_Subset DEF Others
<1>2. row \notin Others(row, rows)
  BY DEF Others
<1>3. IsFiniteSet(after) /\ Cardinality(after) = Cardinality(Others(row, rows)) + 1
  BY <1>1, <1>2, FS_AddElement
<1>4. Cardinality(Others(row, rows)) \in Nat
  BY <1>1, FS_CardinalityType
<1>5. IdsOf(after) = IdsOf(rows) \cup {row.id}
  BY DEF IdsOf, Others
<1> QED BY <1>3, <1>4, <1>5, LimitAssumption

-----------------------------------------------------------------------------
(* Type correctness                                                        *)

LEMMA RequestTyped ==
  ASSUME TypeOK, NEW t \in Handlers, handler[t].pc # "idle"
  PROVE  /\ Req(t) \in Requests /\ handler[t].req = {Req(t)}
         /\ Req(t).app \in Apps /\ Req(t).kind \in Kinds /\ Req(t).row \in RowsOf(Req(t).kind)
<1>1. PICK r \in Requests : handler[t].req = {r}
  BY DEF TypeOK, HandlerOK
<1>2. Req(t) = r
  BY <1>1 DEF Req
<1> QED BY <1>1, <1>2, RequestAssumption

LEMMA EmptyOK == CatalogOK(Empty)
  BY FS_EmptySet DEF CatalogOK, Empty, Kinds

LEMMA OrderLength == Len(ReadOrder) = 5
  BY DEF ReadOrder

LEMMA IdleOK == HandlerOK(Idle)
  BY EmptyOK DEF HandlerOK, Idle, Holding, SelectsDone

LEMMA InitTyped == Init => TypeOK
  BY EmptyOK, IdleOK DEF Init, TypeOK, Empty, Kinds

\* The handler t goes on in state s.
Turn(t, s) == HandlerOK(s) /\ handler' = [handler EXCEPT ![t] = s]

\* A step changes the handler that takes it, and no other.
LEMMA Replace ==
  ASSUME TypeOK, NEW t \in Handlers, NEW s, Turn(t, s)
  PROVE  /\ \A u \in Handlers : handler'[u] = IF u = t THEN s ELSE handler[u]
         /\ handler' = [u \in Handlers |-> handler'[u]]
         /\ \A u \in Handlers : HandlerOK(handler'[u])
<1>1. \A u \in Handlers : handler'[u] = IF u = t THEN s ELSE handler[u]
  BY DEF TypeOK, Turn
<1>2. handler' = [u \in Handlers |-> handler'[u]]
  BY DEF TypeOK, Turn
<1> QED BY <1>1, <1>2 DEF TypeOK, Turn

LEMMA MoveOK ==
  ASSUME TypeOK, NEW t \in Handlers, handler[t].pc # "idle",
         NEW pc \in Holding \cup {"abandoned"}, handler[t].read \in SelectsDone(pc), Move(t, pc)
  PROVE  \E s : /\ Turn(t, s) /\ s.pc = pc
                /\ s.req = handler[t].req /\ s.seen = handler[t].seen /\ s.read = handler[t].read
<1> DEFINE s == [handler[t] EXCEPT !.pc = pc]
<1>1. HandlerOK(handler[t])
  BY DEF TypeOK
<1>2. handler' = [handler EXCEPT ![t] = s]
  BY DEF Move
<1>3. s = [pc |-> pc, req |-> handler[t].req, seen |-> handler[t].seen, read |-> handler[t].read]
  BY <1>1 DEF HandlerOK
<1>4. /\ s.pc = pc /\ s.req = handler[t].req /\ s.seen = handler[t].seen
      /\ s.read = handler[t].read /\ s = [pc |-> s.pc, req |-> s.req, seen |-> s.seen, read |-> s.read]
  BY <1>3
<1> HIDE DEF s
<1>5. HandlerOK(s)
  BY <1>1, <1>4 DEF HandlerOK
<1> QED BY <1>2, <1>4, <1>5 DEF Turn

\* A SELECT of the catalog.
LEMMA ReadOK ==
  ASSUME TypeOK, NEW t \in Handlers, handler[t].pc = "catalog",
         NEW pc \in Holding, handler[t].read + 1 \in SelectsDone(pc), Read(t, pc)
  PROVE  \E s : /\ Turn(t, s) /\ s.pc = pc
                /\ s.req = handler[t].req /\ s.seen = SeenNext(t) /\ s.read = handler[t].read + 1
<1> DEFINE s == [pc |-> pc, req |-> handler[t].req, seen |-> SeenNext(t), read |-> handler[t].read + 1]
           k == ReadOrder[handler[t].read + 1]
<1>1. HandlerOK(handler[t]) /\ handler[t].read \in 0..4
  BY OrderLength DEF TypeOK, HandlerOK, SelectsDone
<1>2. k \in Kinds \cup {"version"}
  BY <1>1 DEF ReadOrder, Kinds
<1>3. CatalogOK(SeenNext(t))
  <2>1. CatalogOK(handler[t].seen) /\ CatalogOK(catalog)
    BY <1>1 DEF HandlerOK, TypeOK
  <2> QED BY <1>2, <2>1 DEF SeenNext, CatalogOK, Kinds
<1>5. HandlerOK(s)
  BY <1>1, <1>3 DEF HandlerOK
<1>6. handler' = [handler EXCEPT ![t] = s]
  BY DEF Read
<1>7. s.pc = pc /\ s.req = handler[t].req /\ s.seen = SeenNext(t) /\ s.read = handler[t].read + 1
  OBVIOUS
<1> HIDE DEF s
<1> QED BY <1>5, <1>6, <1>7 DEF Turn

\* What a step of a handler does to the handler.
Turns(t) ==
  \/ Turn(t, Idle)
  \/ \E s : Turn(t, s) /\ s.pc = "locking"
  \/ /\ handler[t].pc # "idle"
     /\ \E s : /\ Turn(t, s) /\ s.pc \in Holding \cup {"abandoned"}
               /\ s.pc \in {"load", "commit", "abandoned"} =>
                    handler[t].pc \in {"load", "commit", "abandoned"}
               /\ s.req = handler[t].req /\ s.seen = handler[t].seen /\ s.read = handler[t].read
  \/ /\ handler[t].pc = "catalog"
     /\ \E s : /\ Turn(t, s) /\ s.pc \in {"catalog", "load"}
               /\ s.pc = "load" => Valid(Req(t).kind, Req(t).row, SeenNext(t))
               /\ s.req = handler[t].req /\ s.seen = SeenNext(t) /\ s.read = handler[t].read + 1

LEMMA StopTurns ==
  ASSUME NEW t \in Handlers, Stop(t)
  PROVE  Turns(t)
BY IdleOK DEF Stop, Turn, Turns

LEMMA ReadsDone ==
  ASSUME TypeOK, NEW t \in Handlers
  PROVE  handler[t].read \in SelectsDone(handler[t].pc)
BY DEF TypeOK, HandlerOK

LEMMA MoveTurns ==
  ASSUME TypeOK, NEW t \in Handlers, handler[t].pc # "idle",
         NEW pc \in Holding \cup {"abandoned"}, handler[t].read \in SelectsDone(pc), Move(t, pc),
         pc \in {"load", "commit", "abandoned"} => handler[t].pc \in {"load", "commit", "abandoned"}
  PROVE  Turns(t)
<1>1. PICK s : /\ Turn(t, s) /\ s.pc = pc
               /\ s.req = handler[t].req /\ s.seen = handler[t].seen /\ s.read = handler[t].read
  BY MoveOK
<1> QED BY <1>1 DEF Turns

LEMMA ReadTurns ==
  ASSUME TypeOK, NEW t \in Handlers, handler[t].pc = "catalog",
         NEW pc \in {"catalog", "load"}, handler[t].read + 1 \in SelectsDone(pc), Read(t, pc),
         pc = "load" => Valid(Req(t).kind, Req(t).row, SeenNext(t))
  PROVE  Turns(t)
<1>0. pc \in Holding
  BY DEF Holding
<1>1. PICK s : /\ Turn(t, s) /\ s.pc = pc
               /\ s.req = handler[t].req /\ s.seen = SeenNext(t) /\ s.read = handler[t].read + 1
  BY ReadOK, <1>0
<1> QED BY <1>1 DEF Turns

LEMMA BeginTurns ==
  ASSUME NEW t \in Handlers, NEW r \in Requests, Begin(t, r)
  PROVE  Turns(t)
<1> DEFINE s == [pc |-> "locking", req |-> {r}, seen |-> Empty, read |-> 0]
<1>1. HandlerOK(s)
  BY EmptyOK DEF HandlerOK, SelectsDone
<1>2. handler' = [handler EXCEPT ![t] = s] /\ s.pc = "locking"
  BY DEF Begin
<1> HIDE DEF s
<1> QED BY <1>1, <1>2 DEF Turns, Turn

LEMMA HandlerTurns ==
  ASSUME TypeOK, NEW t \in Handlers, HandlerStep(t)
  PROVE  Turns(t)
<1>1. handler[t].read \in SelectsDone(handler[t].pc)
  BY ReadsDone
<1>2. CASE Acquire(t)
  BY <1>1, <1>2, MoveTurns DEF Acquire, Holding, SelectsDone
<1>3. CASE Recheck(t)
  <2>1. CASE Stop(t)
    BY <2>1, StopTurns
  <2>2. CASE Move(t, "catalog")
    BY <1>1, <1>3, <2>2, MoveTurns, OrderLength DEF Recheck, Holding, SelectsDone
  <2> QED BY <1>3, <2>1, <2>2 DEF Recheck
<1>4. CASE ReadNext(t)
  <2>0. handler[t].pc = "catalog" /\ handler[t].read \in 0..4
    BY <1>1, <1>4, OrderLength DEF ReadNext, SelectsDone
  <2>1. CASE Stop(t)
    BY <2>1, StopTurns
  <2>2. CASE handler[t].read + 1 < 5 /\ Read(t, "catalog")
    <3>1. handler[t].read + 1 \in SelectsDone("catalog")
      BY <2>0, <2>2, OrderLength DEF SelectsDone
    <3> QED BY <2>0, <2>2, <3>1, ReadTurns
  <2>3. CASE /\ ~(handler[t].read + 1 < 5) /\ Read(t, "load")
             /\ Valid(Req(t).kind, Req(t).row, SeenNext(t))
    <3>1. handler[t].read + 1 \in SelectsDone("load")
      BY <2>0, <2>3, OrderLength DEF SelectsDone
    <3> QED BY <2>0, <2>3, <3>1, ReadTurns
  <2> QED BY <1>4, <2>1, <2>2, <2>3, OrderLength DEF ReadNext
<1>5. CASE Load(t)
  <2>1. CASE Stop(t)
    BY <2>1, StopTurns
  <2>2. CASE Move(t, "commit")
    BY <1>1, <1>5, <2>2, MoveTurns DEF Load, Holding, SelectsDone
  <2> QED BY <1>5, <2>1, <2>2 DEF Load
<1>6. CASE Commit(t) \/ Cancel(t) \/ Lose(t)
  BY <1>6, StopTurns DEF Commit, Cancel, Lose
<1>7. CASE Abandon(t)
  BY <1>1, <1>7, MoveTurns DEF Abandon, SelectsDone
<1> QED BY <1>2, <1>3, <1>4, <1>5, <1>6, <1>7 DEF HandlerStep

\* A handler's step that commits a record, and all other steps.
LEMMA StepKinds ==
  ASSUME TypeOK, Next
  PROVE  \/ \E t \in Handlers : Accepted(t)
         \/ Quiet /\ access' \subseteq Apps /\ handler' = handler
         \/ Quiet /\ access' = access /\ \E t \in Handlers : Turns(t)
<1>1. ASSUME NEW a \in Apps, Grant(a)
      PROVE  Quiet /\ access' \subseteq Apps /\ handler' = handler
  BY <1>1 DEF Grant, Quiet, TypeOK
<1>2. ASSUME NEW t \in Handlers, NEW r \in Requests, Begin(t, r)
      PROVE  Quiet /\ access' = access /\ Turns(t)
  BY <1>2, BeginTurns DEF Begin, Quiet
<1>3. ASSUME NEW t \in Handlers, HandlerStep(t)
      PROVE  Accepted(t) \/ (Quiet /\ access' = access /\ Turns(t))
  <2>1. Turns(t)
    BY <1>3, HandlerTurns
  <2>2. CASE Commit(t)
    BY <2>1, <2>2 DEF Commit, Accepted, Quiet
  <2>3. CASE ~Commit(t)
    BY <1>3, <2>1, <2>3 DEF HandlerStep, Quiet, Acquire, Recheck, ReadNext, Load, Cancel, Abandon, Lose
  <2> QED BY <2>2, <2>3
<1> QED BY <1>1, <1>2, <1>3 DEF Next

\* What the commit does to the tables.
LEMMA UpsertTyped ==
  ASSUME TypeOK, NEW kind \in Kinds, NEW row \in RowsOf(kind), Upsert(kind, row)
  PROVE  /\ CatalogOK(catalog')
         /\ catalog'["version"] = catalog["version"] + 1
         /\ \A k \in Kinds : catalog'[k] =
              IF k = kind THEN Others(row, catalog[k]) \cup {row} ELSE catalog[k]
         /\ \A k \in Kinds : \A x, y \in catalog'[k] : x.id = y.id => x = y
<1>0. CatalogOK(catalog) /\ "version" \notin Kinds
  BY DEF TypeOK, Kinds
<1>1. catalog' = [k \in Kinds \cup {"version"} |-> catalog'[k]]
  BY DEF Upsert
<1>2. catalog'["version"] = catalog["version"] + 1
  BY DEF Upsert
<1>3. ASSUME NEW k \in Kinds
      PROVE  catalog'[k] = IF k = kind THEN Others(row, catalog[k]) \cup {row} ELSE catalog[k]
  BY <1>0 DEF Upsert
<1>4. ASSUME NEW k \in Kinds
      PROVE  catalog'[k] \subseteq RowsOf(k) /\ IsFiniteSet(catalog'[k])
  <2>1. CASE k # kind
    BY <1>0, <1>3, <2>1 DEF CatalogOK
  <2>2. CASE k = kind
    <3>1. Others(row, catalog[k]) \subseteq catalog[k]
      BY DEF Others
    <3>2. catalog[k] \subseteq RowsOf(k) /\ IsFiniteSet(catalog[k])
      BY <1>0 DEF CatalogOK
    <3>3. IsFiniteSet(Others(row, catalog[k]))
      BY <3>1, <3>2, FS_Subset
    <3>4. IsFiniteSet(Others(row, catalog[k]) \cup {row})
      BY <3>3, FS_AddElement
    <3> QED BY <1>3, <2>2, <3>1, <3>2, <3>4
  <2> QED BY <2>1, <2>2
<1>5. ASSUME NEW k \in Kinds, NEW x \in catalog'[k], NEW y \in catalog'[k], x.id = y.id
      PROVE  x = y
  <2>1. \A v, w \in catalog[k] : v.id = w.id => v = w
    BY DEF TypeOK
  <2>2. CASE k # kind
    BY <1>3, <1>5, <2>1, <2>2
  <2>3. CASE k = kind
    <3>1. x \in Others(row, catalog[k]) \cup {row} /\ y \in Others(row, catalog[k]) \cup {row}
      BY <1>3, <1>5, <2>3
    <3> QED BY <1>5, <2>1, <3>1 DEF Others
  <2> QED BY <2>2, <2>3
<1>6. CatalogOK(catalog')
  BY <1>0, <1>1, <1>2, <1>4 DEF CatalogOK
<1> QED BY <1>2, <1>3, <1>5, <1>6

LEMMA AcceptedTyped ==
  ASSUME TypeOK, NEW t \in Handlers, Accepted(t)
  PROVE  TypeOK'
<1>1. handler[t].pc # "idle"
  BY DEF Accepted
<1>2. PICK r \in Requests : r = Req(t) /\ r.app \in Apps /\ r.kind \in Kinds /\ r.row \in RowsOf(r.kind)
  BY <1>1, RequestTyped
<1>3. Upsert(r.kind, r.row) /\ log' = Append(log, r) /\ keys' = keys \cup {r}
  BY <1>2 DEF Accepted, Write
<1>4. /\ CatalogOK(catalog')
      /\ \A k \in Kinds : \A x, y \in catalog'[k] : x.id = y.id => x = y
  BY <1>2, <1>3, UpsertTyped
<1>5. log' \in Seq(Requests) /\ keys' \subseteq Requests
  BY <1>3 DEF TypeOK
<1>6. Turn(t, Idle)
  BY IdleOK DEF Accepted, Stop, Turn
<1>7. handler' = [u \in Handlers |-> handler'[u]] /\ \A u \in Handlers : HandlerOK(handler'[u])
  BY <1>6, Replace
<1> QED BY <1>4, <1>5, <1>7 DEF TypeOK, Accepted

LEMMA TurnsTyped ==
  ASSUME TypeOK, NEW t \in Handlers, Turns(t)
  PROVE  handler' = [u \in Handlers |-> handler'[u]] /\ \A u \in Handlers : HandlerOK(handler'[u])
<1>1. PICK s : Turn(t, s)
  BY DEF Turns
<1> QED BY <1>1, Replace

LEMMA StepTyped == TypeOK /\ [Next]_vars => TypeOK'
<1> SUFFICES ASSUME TypeOK, [Next]_vars PROVE TypeOK'
  OBVIOUS
<1>1. CASE UNCHANGED vars
  BY <1>1 DEF vars, TypeOK
<1>2. CASE \E t \in Handlers : Accepted(t)
  BY <1>2, AcceptedTyped
<1>3. CASE Quiet /\ access' \subseteq Apps /\ handler' = handler
  BY <1>3 DEF Quiet, TypeOK
<1>4. CASE Quiet /\ access' = access /\ \E t \in Handlers : Turns(t)
  <2>1. handler' = [u \in Handlers |-> handler'[u]] /\ \A u \in Handlers : HandlerOK(handler'[u])
    BY <1>4, TurnsTyped
  <2> QED BY <1>4, <2>1 DEF Quiet, TypeOK
<1> QED BY <1>1, <1>2, <1>3, <1>4, StepKinds

\* The state of the planning profile is always well typed.
THEOREM PlanningTyped == Spec => []TypeOK
<1>1. Init => TypeOK
  BY InitTyped
<1>2. TypeOK /\ [Next]_vars => TypeOK'
  BY StepTyped
<1> QED BY <1>1, <1>2, PTL DEF Spec

-----------------------------------------------------------------------------
(* Fresh                                                                   *)

\* A handler that does not move stays fresh: the catalog is as it was, or its
\* generation is a later one.
LEMMA OthersStayFresh ==
  ASSUME NEW s, HandlerOK(s), NEW c, CatalogOK(c), NEW after, FreshIn(s, c),
         after = c \/ after["version"] = c["version"] + 1
  PROVE  FreshIn(s, after)
<1>1. c["version"] \in Nat /\ s.seen["version"] \in Nat
  BY DEF CatalogOK, HandlerOK
<1>2. CASE after = c
  BY <1>2
<1>3. CASE after["version"] = c["version"] + 1
  <2>1. s.read > 0 => s.seen["version"] < after["version"]
    BY <1>1, <1>3 DEF FreshIn
  <2>2. s.read > 0 => s.seen["version"] # after["version"] /\ s.seen["version"] <= after["version"]
    BY <1>1, <1>3, <2>1
  <2> QED BY <2>2 DEF FreshIn
<1> QED BY <1>2, <1>3

LEMMA IdleIsFresh ==
  ASSUME NEW s, s.read = 0, s.pc \in {"idle", "locking"}, NEW c
  PROVE  FreshIn(s, c)
BY DEF FreshIn

\* One more SELECT: its rows are the current ones, and the generation was read first.
LEMMA ReadIsFresh ==
  ASSUME TypeOK, NEW t \in Handlers, FreshIn(handler[t], catalog), handler[t].pc = "catalog",
         NEW s, s.seen = SeenNext(t), s.read = handler[t].read + 1, s.req = handler[t].req,
         s.pc \in {"catalog", "load"},
         s.pc = "load" => Valid(Req(t).kind, Req(t).row, SeenNext(t))
  PROVE  FreshIn(s, catalog)
<1> DEFINE old == handler[t]
           n == handler[t].read
<1>1. n \in 0..4
  BY ReadsDone, OrderLength DEF SelectsDone
<1>2. CatalogOK(old.seen) /\ CatalogOK(catalog)
  BY DEF TypeOK, HandlerOK
<1>3. \A i \in 1..5 : ReadOrder[i] \in Kinds \cup {"version"}
  BY DEF ReadOrder, Kinds
<1>4. \A i, j \in 1..5 : ReadOrder[i] = ReadOrder[j] => i = j
  BY DEF ReadOrder
<1>5. ReadOrder[1] = "version"
  BY DEF ReadOrder
<1>6. \A k \in Kinds \cup {"version"} :
        s.seen[k] = IF k = ReadOrder[n + 1] THEN catalog[k] ELSE old.seen[k]
  <2>1. old.seen = [k \in Kinds \cup {"version"} |-> old.seen[k]]
    BY <1>2 DEF CatalogOK
  <2> QED BY <2>1 DEF SeenNext
<1>7. s.seen["version"] <= catalog["version"]
  <2>1. CASE n = 0
    BY <1>2, <1>5, <1>6, <2>1 DEF CatalogOK
  <2>2. CASE n > 0
    <3>1. ReadOrder[n + 1] # "version"
      BY <1>1, <1>4, <1>5, <2>2
    <3> QED BY <1>6, <2>2, <3>1 DEF FreshIn
  <2> QED BY <1>1, <2>1, <2>2
<1>8. ASSUME s.seen["version"] = catalog["version"], NEW i \in 1..s.read
      PROVE  s.seen[ReadOrder[i]] = catalog[ReadOrder[i]]
  <2>1. i \in 1..5
    BY <1>1
  <2>2. CASE i = n + 1
    BY <1>3, <1>6, <2>1, <2>2
  <2>3. CASE i # n + 1
    <3>1. i \in 1..n /\ n > 0
      BY <1>1, <2>3
    <3>2. ReadOrder[i] # ReadOrder[n + 1] /\ ReadOrder[n + 1] # "version"
      BY <1>1, <1>4, <1>5, <2>1, <2>3, <3>1
    <3>3. s.seen[ReadOrder[i]] = old.seen[ReadOrder[i]] /\ s.seen["version"] = old.seen["version"]
      BY <1>3, <1>6, <2>1, <3>2
    <3> QED BY <1>8, <3>1, <3>3 DEF FreshIn
  <2> QED BY <2>2, <2>3
<1>9. s.pc = "load" => \A r \in s.req : Valid(r.kind, r.row, s.seen)
  <2>1. handler[t].req = {Req(t)}
    BY RequestTyped
  <2> QED BY <2>1
<1> QED BY <1>7, <1>8, <1>9 DEF FreshIn

LEMMA MoverIsFresh ==
  ASSUME TypeOK, NEW t \in Handlers, FreshIn(handler[t], catalog), Turns(t), catalog' = catalog
  PROVE  FreshIn(handler'[t], catalog')
<1>0. ASSUME NEW s, Turn(t, s)
      PROVE  handler'[t] = s /\ HandlerOK(s)
  BY <1>0, Replace DEF Turn
<1>1. CASE Turn(t, Idle)
  <2>1. handler'[t] = Idle /\ Idle.read = 0 /\ Idle.pc = "idle"
    BY <1>0, <1>1 DEF Idle
  <2> QED BY <2>1, IdleIsFresh
<1>2. ASSUME NEW s, Turn(t, s), s.pc = "locking"
      PROVE  FreshIn(handler'[t], catalog')
  <2>1. handler'[t] = s /\ s.read = 0
    BY <1>0, <1>2 DEF HandlerOK, SelectsDone
  <2> QED BY <2>1, <1>2, IdleIsFresh
<1>3. ASSUME NEW s, Turn(t, s), s.req = handler[t].req, s.seen = handler[t].seen,
             s.read = handler[t].read,
             s.pc \in {"load", "commit", "abandoned"} =>
               handler[t].pc \in {"load", "commit", "abandoned"}
      PROVE  FreshIn(handler'[t], catalog')
  <2>1. handler'[t] = s
    BY <1>0, <1>3
  <2> QED BY <2>1, <1>3 DEF FreshIn
<1>4. ASSUME NEW s, Turn(t, s), handler[t].pc = "catalog", s.pc \in {"catalog", "load"},
             s.pc = "load" => Valid(Req(t).kind, Req(t).row, SeenNext(t)),
             s.req = handler[t].req, s.seen = SeenNext(t), s.read = handler[t].read + 1
      PROVE  FreshIn(handler'[t], catalog')
  <2>1. handler'[t] = s
    BY <1>0, <1>4
  <2> QED BY <2>1, <1>4, ReadIsFresh
<1> QED BY <1>1, <1>2, <1>3, <1>4 DEF Turns

LEMMA AcceptedTurns ==
  ASSUME TypeOK, NEW t \in Handlers, Accepted(t)
  PROVE  Turn(t, Idle) /\ catalog'["version"] = catalog["version"] + 1
<1>1. handler[t].pc # "idle"
  BY DEF Accepted
<1>2. PICK r \in Requests : r = Req(t) /\ r.kind \in Kinds /\ r.row \in RowsOf(r.kind)
  BY <1>1, RequestTyped
<1>3. Upsert(r.kind, r.row)
  BY <1>2 DEF Accepted, Write
<1>4. catalog'["version"] = catalog["version"] + 1
  BY <1>2, <1>3, UpsertTyped
<1> QED BY <1>4, IdleOK DEF Accepted, Stop, Turn

LEMMA StepFresh == TypeOK /\ Fresh /\ [Next]_vars => Fresh'
<1> SUFFICES ASSUME TypeOK, Fresh, [Next]_vars, NEW u \in Handlers
             PROVE  FreshIn(handler'[u], catalog')
  BY DEF Fresh
<1>0. FreshIn(handler[u], catalog) /\ HandlerOK(handler[u]) /\ CatalogOK(catalog)
  BY DEF Fresh, TypeOK
<1>1. CASE UNCHANGED vars
  BY <1>0, <1>1 DEF vars
<1>2. ASSUME NEW t \in Handlers, Accepted(t)
      PROVE  FreshIn(handler'[u], catalog')
  <2>1. Turn(t, Idle) /\ catalog'["version"] = catalog["version"] + 1
    BY <1>2, AcceptedTurns
  <2>2. handler'[u] = IF u = t THEN Idle ELSE handler[u]
    BY <2>1, Replace
  <2>3. CASE u = t
    <3>1. Idle.read = 0 /\ Idle.pc = "idle"
      BY DEF Idle
    <3> QED BY <2>2, <2>3, <3>1, IdleIsFresh
  <2>4. CASE u # t
    BY <1>0, <2>1, <2>2, <2>4, OthersStayFresh
  <2> QED BY <2>3, <2>4
<1>3. CASE Quiet /\ handler' = handler
  BY <1>0, <1>3 DEF Quiet
<1>4. ASSUME Quiet, NEW t \in Handlers, Turns(t)
      PROVE  FreshIn(handler'[u], catalog')
  <2>1. PICK s : Turn(t, s)
    BY <1>4 DEF Turns
  <2>2. CASE u = t
    BY <1>0, <1>4, <2>2, MoverIsFresh DEF Quiet
  <2>3. CASE u # t
    <3>1. handler'[u] = handler[u]
      BY <2>1, <2>3, Replace
    <3> QED BY <1>0, <1>4, <3>1 DEF Quiet
  <2> QED BY <2>2, <2>3
<1> QED BY <1>1, <1>2, <1>3, <1>4, StepKinds

-----------------------------------------------------------------------------
(* Safety                                                                  *)

\* The checks look at the rows of a catalog, not at its generation.
LEMMA ValidSame ==
  ASSUME NEW kind \in Kinds, NEW row, NEW c, NEW d, \A k \in Kinds : c[k] = d[k],
         Valid(kind, row, c)
  PROVE  Valid(kind, row, d)
BY DEF Valid, ReferencesExist, Kinds

\* What an accepted commit knows of its record.
LEMMA AcceptedValid ==
  ASSUME TypeOK, Fresh, NEW t \in Handlers, Accepted(t)
  PROVE  \E r \in Requests :
           /\ r.app \in access /\ r.kind \in Kinds /\ r.row \in RowsOf(r.kind)
           /\ Upsert(r.kind, r.row) /\ log' = Append(log, r) /\ keys' = keys \cup {r}
           /\ Valid(r.kind, r.row, catalog)
<1>1. handler[t].pc \in {"commit", "abandoned"} /\ handler[t].pc # "idle"
  BY DEF Accepted
<1>2. PICK r \in Requests :
        r = Req(t) /\ handler[t].req = {r} /\ r.kind \in Kinds /\ r.row \in RowsOf(r.kind)
  BY <1>1, RequestTyped
<1>3. r.app \in access /\ catalog["version"] = handler[t].seen["version"]
  BY <1>2 DEF Accepted, Accepts
<1>4. Upsert(r.kind, r.row) /\ log' = Append(log, r) /\ keys' = keys \cup {r}
  BY <1>2 DEF Accepted, Write
<1>5. handler[t].read = 5
  BY <1>1, ReadsDone, OrderLength DEF SelectsDone
<1>6. \A i \in 1..5 : handler[t].seen[ReadOrder[i]] = catalog[ReadOrder[i]]
  BY <1>3, <1>5 DEF Fresh, FreshIn
<1>7. \A k \in Kinds : \E i \in 1..5 : k = ReadOrder[i]
  <2>1. /\ ReadOrder[2] = "project" /\ ReadOrder[3] = "task" /\ ReadOrder[4] = "event"
        /\ ReadOrder[5] = "dependency"
    BY DEF ReadOrder
  <2> QED BY <2>1 DEF Kinds
<1>8. \A k \in Kinds : handler[t].seen[k] = catalog[k]
  BY <1>6, <1>7
<1>9. Valid(r.kind, r.row, handler[t].seen)
  BY <1>1, <1>2 DEF Fresh, FreshIn
<1>10. Valid(r.kind, r.row, catalog)
  BY <1>2, <1>8, <1>9, ValidSame
<1> QED BY <1>2, <1>3, <1>4, <1>10

\* Dependencies stay acyclic, since the record closes no path in the catalog it changes.
LEMMA PutKeepsAcyclic ==
  ASSUME TypeOK, DependenciesAcyclic, NEW kind \in Kinds, NEW row \in RowsOf(kind),
         Valid(kind, row, catalog), Upsert(kind, row)
  PROVE  DependenciesAcyclic'
<1>1. catalog'["dependency"] = IF kind = "dependency"
         THEN Others(row, catalog["dependency"]) \cup {row} ELSE catalog["dependency"]
  BY UpsertTyped DEF Kinds
<1>2. CASE kind # "dependency"
  BY <1>1, <1>2 DEF DependenciesAcyclic
<1>3. CASE kind = "dependency"
  <2>1. Others(row, catalog["dependency"]) \in SUBSET catalog["dependency"]
    BY DEF Others
  <2>2. Acyclic(Others(row, catalog["dependency"]))
    BY <2>1, FewerEdges DEF DependenciesAcyclic
  <2>3. ~MakesCycle(row, Others(row, catalog["dependency"]))
    BY <1>3 DEF Valid
  <2>4. Acyclic(Others(row, catalog["dependency"]) \cup {row})
    BY <2>2, <2>3, NewEdge
  <2> QED BY <1>1, <1>3, <2>4 DEF DependenciesAcyclic
<1> QED BY <1>2, <1>3

\* No row disappears, so what other records name is still there.
LEMMA PutKeepsFit ==
  ASSUME TypeOK, RecordsFit, NEW kind \in Kinds, NEW row \in RowsOf(kind),
         Valid(kind, row, catalog), Upsert(kind, row)
  PROVE  RecordsFit'
<1>1. \A k \in Kinds : catalog'[k] =
        IF k = kind THEN Others(row, catalog[k]) \cup {row} ELSE catalog[k]
  BY UpsertTyped
<1>2. Cardinality(Others(row, catalog[kind])) < MaxRecords /\ ReferencesExist(kind, row, catalog)
  BY DEF Valid
<1>3. IsFiniteSet(catalog[kind])
  BY DEF TypeOK, CatalogOK
<1>4. /\ Cardinality(catalog'[kind]) <= MaxRecords
      /\ IdsOf(catalog'[kind]) = IdsOf(catalog[kind]) \cup {row.id}
  BY <1>1, <1>2, <1>3, Replaced
<1>5. \A k \in Kinds : Cardinality(catalog'[k]) <= MaxRecords
  BY <1>1, <1>4 DEF RecordsFit
<1>6. \A k \in Kinds : IdsOf(catalog[k]) \subseteq IdsOf(catalog'[k])
  BY <1>1, <1>4
<1>7. ASSUME NEW k \in {"task", "event"}, NEW x \in catalog'[k]
      PROVE  x.project \subseteq IdsOf(catalog'["project"])
  <2>1. x \in catalog[k] \/ (k = kind /\ x = row)
    BY <1>1 DEF Kinds, Others
  <2>2. x.project \subseteq IdsOf(catalog["project"])
    BY <1>2, <2>1 DEF RecordsFit, ReferencesExist
  <2> QED BY <1>6, <2>2 DEF Kinds
<1>8. ASSUME NEW e \in catalog'["dependency"]
      PROVE  {e.from, e.to} \subseteq IdsOf(catalog'["task"])
  <2>1. e \in catalog["dependency"] \/ (kind = "dependency" /\ e = row)
    BY <1>1 DEF Kinds, Others
  <2>2. {e.from, e.to} \subseteq IdsOf(catalog["task"])
    BY <1>2, <2>1 DEF RecordsFit, ReferencesExist
  <2> QED BY <1>6, <2>2 DEF Kinds
<1> QED BY <1>5, <1>7, <1>8 DEF RecordsFit

LEMMA InitSafe == Init => IInv
<1> SUFFICES ASSUME Init PROVE IInv
  OBVIOUS
<1>1. TypeOK
  BY InitTyped
<1>2. Fresh
  BY DEF Init, Idle, Fresh, FreshIn
<1>3. \A k \in Kinds : catalog[k] = {}
  BY DEF Init, Empty, Kinds
<1>4. DependenciesAcyclic
  BY <1>3 DEF DependenciesAcyclic, Acyclic, Kinds
<1>5. RecordsFit
  <2>1. \A k \in Kinds : Cardinality(catalog[k]) = 0
    BY <1>3, FS_EmptySet
  <2> QED BY <1>3, <2>1, LimitAssumption DEF RecordsFit, Kinds
<1> QED BY <1>1, <1>2, <1>4, <1>5 DEF IInv

LEMMA StepSafe == IInv /\ [Next]_vars => IInv'
<1> SUFFICES ASSUME IInv, [Next]_vars PROVE IInv'
  OBVIOUS
<1>1. TypeOK' /\ Fresh'
  BY StepTyped, StepFresh DEF IInv
<1>2. CASE catalog' = catalog
  BY <1>1, <1>2 DEF IInv, DependenciesAcyclic, RecordsFit
<1>3. ASSUME NEW t \in Handlers, Accepted(t)
      PROVE  DependenciesAcyclic' /\ RecordsFit'
  <2>1. PICK r \in Requests : /\ r.kind \in Kinds /\ r.row \in RowsOf(r.kind)
                              /\ Upsert(r.kind, r.row) /\ Valid(r.kind, r.row, catalog)
    BY <1>3, AcceptedValid DEF IInv
  <2> QED BY <2>1, PutKeepsAcyclic, PutKeepsFit DEF IInv
<1> QED BY <1>1, <1>2, <1>3, StepKinds DEF IInv, Quiet, vars

LEMMA PlanningSafe == Spec => []IInv
<1> QED BY InitSafe, StepSafe, PTL DEF Spec

\* Dependencies never form a cycle, whichever handlers of whichever cores put them.
THEOREM NoDependencyCycle == Spec => []DependenciesAcyclic
<1>1. IInv => DependenciesAcyclic
  BY DEF IInv
<1> QED BY <1>1, PlanningSafe, PTL

\* References never dangle and no kind outgrows its limit.
THEOREM RecordsAlwaysFit == Spec => []RecordsFit
<1>1. IInv => RecordsFit
  BY DEF IInv
<1> QED BY <1>1, PlanningSafe, PTL

-----------------------------------------------------------------------------
(* The tables and the log                                                  *)

\* The rows of a kind that a log leaves: no later record of the kind has their id.
Replayed(records, k) ==
  {records[i].row : i \in {i \in 1..Len(records) :
    /\ records[i].kind = k
    /\ \A j \in i + 1..Len(records) : records[j].kind = k => records[j].row.id # records[i].row.id}}

\* One more record replaces the row with its id and leaves the other kinds alone.
LEMMA ReplayOneMore ==
  ASSUME NEW records \in Seq(Requests), NEW r \in Requests, NEW k
  PROVE  Replayed(Append(records, r), k) =
           IF k = r.kind THEN Others(r.row, Replayed(records, k)) \cup {r.row}
           ELSE Replayed(records, k)
<1> DEFINE more == Append(records, r)
           n == Len(records)
<1>1. n \in Nat /\ Len(more) = n + 1 /\ more[n + 1] = r
      /\ \A i \in 1..n : more[i] = records[i]
  OBVIOUS
<1> HIDE DEF more
<1>2. ASSUME NEW x \in Replayed(more, k)
      PROVE  \/ x \in Replayed(records, k) /\ (k = r.kind => x.id # r.row.id)
             \/ x = r.row /\ k = r.kind
  <2>1. PICK i \in 1..n + 1 :
          /\ more[i].kind = k /\ x = more[i].row
          /\ \A j \in i + 1..n + 1 : more[j].kind = k => more[j].row.id # more[i].row.id
    BY <1>1 DEF Replayed
  <2>2. CASE i = n + 1
    BY <1>1, <2>1, <2>2
  <2>3. CASE i # n + 1
    <3>1. i \in 1..n /\ records[i].kind = k /\ x = records[i].row
      BY <1>1, <2>1, <2>3
    <3>2. \A j \in i + 1..n : records[j].kind = k => records[j].row.id # records[i].row.id
      BY <1>1, <2>1, <3>1
    <3>3. n + 1 \in i + 1..n + 1
      BY <1>1, <3>1
    <3>4. k = r.kind => r.row.id # x.id
      BY <1>1, <2>1, <3>1, <3>3
    <3> QED BY <3>1, <3>2, <3>4 DEF Replayed
  <2> QED BY <2>2, <2>3
<1>3. ASSUME NEW x \in Replayed(records, k), k = r.kind => x.id # r.row.id
      PROVE  x \in Replayed(more, k)
  <2>1. PICK i \in 1..n :
          /\ records[i].kind = k /\ x = records[i].row
          /\ \A j \in i + 1..n : records[j].kind = k => records[j].row.id # records[i].row.id
    BY DEF Replayed
  <2>2. i \in 1..Len(more) /\ more[i].kind = k /\ x = more[i].row
    BY <1>1, <2>1
  <2>3. ASSUME NEW j \in i + 1..Len(more), more[j].kind = k
        PROVE  more[j].row.id # more[i].row.id
    <3>1. CASE j = n + 1
      <4>1. r.kind = k /\ x.id # r.row.id
        BY <1>1, <1>3, <2>3, <3>1
      <4> QED BY <1>1, <1>3, <2>1, <2>3, <3>1
    <3>2. CASE j # n + 1
      BY <1>1, <2>1, <2>3, <3>2
    <3> QED BY <3>1, <3>2
  <2> QED BY <2>2, <2>3 DEF Replayed
<1>4. ASSUME k = r.kind
      PROVE  r.row \in Replayed(more, k)
  <2>1. n + 1 \in 1..Len(more) /\ more[n + 1].kind = k /\ r.row = more[n + 1].row
        /\ n + 2..Len(more) = {}
    BY <1>1, <1>4
  <2>2. \A j \in (n + 1) + 1..Len(more) : FALSE
    BY <1>1
  <2> QED BY <2>1, <2>2 DEF Replayed
<1>5. CASE k = r.kind
  BY <1>2, <1>3, <1>4, <1>5 DEF Others, more
<1>6. CASE k # r.kind
  BY <1>2, <1>3, <1>6 DEF more
<1> QED BY <1>5, <1>6

LEMMA ReplayIsReplayed == TablesReplayLog <=> \A k \in Kinds : catalog[k] = Replayed(log, k)
  BY DEF TablesReplayLog, Replayed

LEMMA StepReplays == IInv /\ TablesReplayLog /\ [Next]_vars => TablesReplayLog'
<1> SUFFICES ASSUME IInv, TablesReplayLog, [Next]_vars PROVE TablesReplayLog'
  OBVIOUS
<1>1. CASE catalog' = catalog /\ log' = log
  BY <1>1 DEF TablesReplayLog
<1>2. ASSUME NEW t \in Handlers, Accepted(t) PROVE TablesReplayLog'
  <2>1. PICK r \in Requests : /\ r.kind \in Kinds /\ r.row \in RowsOf(r.kind)
                              /\ Upsert(r.kind, r.row) /\ log' = Append(log, r)
    BY <1>2, AcceptedValid DEF IInv
  <2>2. \A k \in Kinds : catalog'[k] =
          IF k = r.kind THEN Others(r.row, catalog[k]) \cup {r.row} ELSE catalog[k]
    BY <2>1, UpsertTyped DEF IInv
  <2>3. log \in Seq(Requests)
    BY DEF IInv, TypeOK
  <2>4. \A k \in Kinds : catalog[k] = Replayed(log, k)
    BY ReplayIsReplayed
  <2>5. \A k \in Kinds : catalog'[k] = Replayed(log', k)
    <3> TAKE k \in Kinds
    <3>1. Replayed(Append(log, r), k) =
            IF k = r.kind THEN Others(r.row, Replayed(log, k)) \cup {r.row} ELSE Replayed(log, k)
      BY <2>3, ReplayOneMore
    <3>2. Replayed(log', k) = Replayed(Append(log, r), k)
      BY <2>1
    <3> QED BY <2>2, <2>4, <3>1, <3>2
  <2> QED BY <2>5, Zenon DEF TablesReplayLog, Replayed
<1> QED BY <1>1, <1>2, StepKinds DEF IInv, Quiet, vars

\* The tables are at all times what the signed records say when they are replayed in
\* their order, whichever core's transaction changed them.
THEOREM TablesAreReplay == Spec => []TablesReplayLog
<1>1. Init => TablesReplayLog
  BY DEF Init, Empty, Kinds, TablesReplayLog
<1> QED BY <1>1, StepReplays, PlanningSafe, PTL DEF Spec

-----------------------------------------------------------------------------
(* Refinement                                                              *)

\* The rules are those of the abstract specification.
LEMMA SameRules ==
  /\ Abstract!Kinds = Kinds
  /\ \A kind : Abstract!RowsOf(kind) = RowsOf(kind)
  /\ \A row, rows : Abstract!Others(row, rows) = Others(row, rows)
  /\ \A kind, row, c : Abstract!Valid(kind, row, c) <=> Valid(kind, row, c)
<1>1. Abstract!Kinds = Kinds
  BY DEF Abstract!Kinds, Kinds
<1>2. \A kind : Abstract!RowsOf(kind) = RowsOf(kind)
  BY DEF Abstract!RowsOf, RowsOf, Abstract!Member, Member, Abstract!Dependency, Dependency
<1>3. \A row, rows : Abstract!Others(row, rows) = Others(row, rows)
  BY DEF Abstract!Others, Others
<1>4. \A S : Abstract!Cardinality(S) = Cardinality(S)
  BY DEF Abstract!Cardinality, Cardinality
<1>5. \A kind, row, c : Abstract!Valid(kind, row, c) <=> Valid(kind, row, c)
  BY <1>4 DEF Abstract!Valid, Valid, Abstract!Kinds, Kinds, Abstract!Others, Others,
         Abstract!ReferencesExist, ReferencesExist, Abstract!IdsOf, IdsOf,
         Abstract!MakesCycle, MakesCycle, Abstract!Reaches, Reaches, Abstract!Closed, Closed
<1> QED BY <1>1, <1>2, <1>3, <1>5

LEMMA CommitIsPut ==
  ASSUME TypeOK, Fresh, NEW t \in Handlers, Accepted(t)
  PROVE  Abstract!Next
<1>1. PICK r \in Requests :
        /\ r.app \in access /\ r.kind \in Kinds /\ r.row \in RowsOf(r.kind)
        /\ Upsert(r.kind, r.row) /\ Valid(r.kind, r.row, catalog)
  BY AcceptedValid
<1>2. \A k \in Kinds : catalog'[k] =
        IF k = r.kind THEN Others(r.row, catalog[k]) \cup {r.row} ELSE catalog[k]
  BY <1>1, UpsertTyped
<1> DEFINE now == [k \in Kinds |-> catalog[k]]
           later == [k \in Kinds |-> catalog'[k]]
<1>3. Valid(r.kind, r.row, now)
  <2>1. \A k \in Kinds : catalog[k] = now[k]
    OBVIOUS
  <2> HIDE DEF now
  <2> QED BY <1>1, <2>1, ValidSame
<1>4. later = [now EXCEPT ![r.kind] = Others(r.row, now[r.kind]) \cup {r.row}]
  BY <1>1, <1>2
<1>5. r.app \in Apps /\ access' = access
  BY RequestAssumption DEF Accepted
<1>6. Abstract!Put(r.app, r.kind, r.row)
  BY <1>1, <1>3, <1>4, <1>5, SameRules DEF Abstract!Put
<1> QED BY <1>1, <1>5, <1>6, SameRules DEF Abstract!Next

LEMMA GrantIsGrant ==
  ASSUME NEW a \in Apps, Grant(a)
  PROVE  Abstract!Next
BY DEF Grant, Abstract!Next, Abstract!Grant

\* Every record is put by an application that may write at that moment, and fits the
\* records there are at that moment.
THEOREM PlanningImplementsCommunity == Spec => ImplementsPlanningCommunity
<1>1. Init => Abstract!Init
  BY SameRules DEF Init, Empty, Kinds, Abstract!Init
<1>2. IInv /\ [Next]_vars => [Abstract!Next]_<<access, [k \in Kinds |-> catalog[k]]>>
  <2> SUFFICES ASSUME IInv, [Next]_vars
               PROVE  [Abstract!Next]_<<access, [k \in Kinds |-> catalog[k]]>>
    OBVIOUS
  <2>1. CASE catalog' = catalog /\ access' = access
    BY <2>1
  <2>2. ASSUME NEW a \in Apps, Grant(a) PROVE Abstract!Next
    BY <2>2, GrantIsGrant
  <2>3. ASSUME NEW t \in Handlers, Accepted(t) PROVE Abstract!Next
    BY <2>3, CommitIsPut DEF IInv
  <2>4. \/ UNCHANGED vars \/ (\E a \in Apps : Grant(a))
        \/ (\E t \in Handlers : Accepted(t)) \/ (catalog' = catalog /\ access' = access)
    BY StepKinds DEF Next, Begin, HandlerStep, Acquire, Recheck, ReadNext, Load, Cancel, Abandon,
         Lose, Commit, Accepted
  <2> QED BY <2>1, <2>2, <2>3, <2>4 DEF vars
<1> QED BY <1>1, <1>2, PlanningSafe, PTL DEF Spec, ImplementsPlanningCommunity, Abstract!Spec

=============================================================================
