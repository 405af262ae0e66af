-------------------------- MODULE LocalWriteProofs --------------------------
(***************************************************************************)
(* Proofs about LocalWrite and ChangeFeed, for every number of cores,      *)
(* handlers, documents and requests, for every page size and for every     *)
(* interleaving, cancellation and crash.                                   *)
(*                                                                         *)
(* TypeInv  types the state and keeps the counted sets finite;             *)
(* Chain    is LogIsChain said row by row, the form a commit preserves;    *)
(* Keys     relates idempotency rows, operations, history rows and outbox; *)
(* InFlight says what a queued request and a waiting handler know of the   *)
(*          tables: the loaded base is part of the history, a queued       *)
(*          commit is the one its handler forged, a handler whose commit   *)
(*          was accepted finds its response in the key table.              *)
(* LockInv  says, for one core, that the holder of a lock is alone with    *)
(*          its document and that what it has read is still current.       *)
(* FeedInv  adds, for ChangeFeed, what the readers of document.changes     *)
(*          and document.list rely on while they turn pages.               *)
(***************************************************************************)
EXTENDS ChangeFeed, FiniteSetTheorems, TLAPS

Finite ==
  /\ IsFiniteSet(documentUpdates)
  /\ \A t \in Handlers : IsFiniteSet(handler[t].base)
  /\ \A c \in Cores : \A i \in 1..Len(queue[c]) : IsFiniteSet(queue[c][i].base)

Busy(t) == handler[t].pc # "idle"

TypeInv ==
  /\ TypeOK
  /\ Finite
  /\ \A t \in Handlers : Busy(t) => handler[t].req \in Requests
  /\ \A t \in Handlers : handler[t].pc = "commit" => ~Exhausted(handler[t].head)

Chain ==
  /\ \A h, g \in logHeads : h.doc = g.doc => h = g
  /\ \A o, p \in operations : o.req.doc = p.req.doc /\ o.seq = p.seq => o = p
  /\ \A h \in logHeads : \A i \in 0..h.seq :
       \E o \in operations : o.req.doc = h.doc /\ o.seq = i
  /\ \A o \in operations : \E h \in logHeads : h.doc = o.req.doc /\ o.seq <= h.seq
  /\ \A h \in logHeads : \E o \in operations :
       o.req.doc = h.doc /\ o.seq = h.seq /\ o.hash = h.hash
  /\ \A o \in operations :
       o.backlink = {p.hash : p \in {q \in OperationsOf(o.req.doc) : q.seq + 1 = o.seq}}
  /\ \A d \in Docs : Cardinality(UpdatesOf(d)) = Length(d)

Keys ==
  /\ OneOperationPerKey
  /\ \A k, l \in idempotencyKeys : SameKey(k.req, l.req) => k = l
  /\ \A k \in idempotencyKeys : \E o \in operations :
       o.req = k.req /\ o.hash = k.response.hash /\ o.seq + 1 = k.response.revision
  /\ ShowsItsHistory
  /\ ExpectedRevisionHonoured

\* What the request e, sent by a handler of core c, may rely on.
EntryInv(c, e) ==
  /\ CoreOf[e.by] = c
  /\ e.base \subseteq UpdatesOf(e.req.doc)
  /\ ~Busy(e.by) => phase[c] # "up"
  /\ Busy(e.by) =>
       /\ handler[e.by].pc = e.call /\ ~handler[e.by].replied
       /\ handler[e.by].req = e.req /\ handler[e.by].base = e.base
       /\ e.call = "commit" => e.op = {Forge(e.by)}
  /\ e.call = "commit" => \E op \in e.op :
       /\ e.op = {op}
       /\ op.req = e.req
       /\ op.seq = 0 => op.backlink = {}
       /\ op.req.expected \in {{}, {Revision(e.base)}}

HandlerInv(t) ==
  /\ Busy(t) => handler[t].base \subseteq UpdatesOf(handler[t].req.doc)
  /\ handler[t].pc \in {"head", "commit"} => RevisionMatches(t)
  /\ handler[t].pc \in {"precheck", "recheck"} /\ handler[t].replied
       /\ handler[t].cause = "NONE" /\ handler[t].found # {} =>
       \E k \in idempotencyKeys : k.req = handler[t].req /\ handler[t].found = {k.response}
  /\ handler[t].pc = "commit" /\ handler[t].replied /\ handler[t].cause = "NONE" =>
       \E k \in idempotencyKeys :
         k.req = handler[t].req /\ k.response = Prepared(Forge(t), handler[t].base)

InFlight ==
  /\ \A c \in Cores : \A i \in 1..Len(queue[c]) : EntryInv(c, queue[c][i])
  /\ \A c \in Cores : \A i, j \in 1..Len(queue[c]) :
       queue[c][i].by = queue[c][j].by => i = j
  /\ \A t \in Handlers : HandlerInv(t)
  /\ \A t \in Handlers : Busy(t) => phase[CoreOf[t]] # "down"
  /\ \A c \in Cores : phase[c] = "down" => queue[c] = <<>>

Answered ==
  \A a \in answers : a.code = "NONE" =>
    \E k \in idempotencyKeys : k.req = a.req /\ a.response = {k.response}

IInv == TypeInv /\ Chain /\ Keys /\ InFlight /\ Answered

-----------------------------------------------------------------------------
(* Type correctness                                                        *)

\* Sending a request keeps queues and handlers well typed.
LEMMA AskTyped ==
  ASSUME TypeInv, NEW t \in Handlers, NEW s \in HandlerState, s.req \in Requests,
         IsFiniteSet(s.base), NEW call \in Waiting, NEW op \in SUBSET Operation,
         Ask(t, s, call, op), call = "commit" => ~Exhausted(s.head),
         counters' \in (0..MaxCalls) \X (0..MaxStops)
  PROVE  TypeInv'
  <1> DEFINE e == [call |-> call, by |-> t, req |-> s.req, op |-> op, base |-> s.base]
             n == [s EXCEPT !.pc = call, !.replied = FALSE]
  <1>1. e \in Entry
    BY DEF Entry, HandlerState
  <1>2. /\ n \in HandlerState /\ n.base = s.base /\ n.req = s.req
        /\ n.pc = "commit" => ~Exhausted(n.head)
    BY DEF HandlerState, Waiting
  <1>3. queue' = [queue EXCEPT ![CoreOf[t]] = Append(@, e)] /\ CoreOf[t] \in Cores
    BY CoreAssumption DEF Ask
  <1>4. handler' = [handler EXCEPT ![t] = n]
    BY DEF Ask
  <1> HIDE DEF e, n
  <1>5. queue' \in [Cores -> Seq(Entry)]
    BY <1>1, <1>3 DEF TypeInv, TypeOK
  <1>6. handler' \in [Handlers -> HandlerState]
    BY <1>2, <1>4 DEF TypeInv, TypeOK
  <1>7. TypeOK'
    BY <1>5, <1>6 DEF TypeInv, TypeOK, Ask, tables, counters
  <1>8. \A u \in Handlers : IsFiniteSet(handler'[u].base)
                          /\ (handler'[u].pc # "idle" => handler'[u].req \in Requests)
                          /\ (handler'[u].pc = "commit" => ~Exhausted(handler'[u].head))
    BY <1>2, <1>4 DEF TypeInv, TypeOK, Finite, Busy
  <1>9. \A c \in Cores : \A i \in 1..Len(queue'[c]) : IsFiniteSet(queue'[c][i].base)
    <2> SUFFICES ASSUME NEW c \in Cores, NEW i \in 1..Len(queue'[c])
                 PROVE  IsFiniteSet(queue'[c][i].base)
      OBVIOUS
    <2>1. CASE c # CoreOf[t]
      BY <2>1, <1>3 DEF TypeInv, TypeOK, Finite
    <2>2. CASE c = CoreOf[t]
      <3>1. queue'[c] = Append(queue[c], e) /\ queue[c] \in Seq(Entry)
        BY <2>2, <1>3 DEF TypeInv, TypeOK
      <3>2. queue'[c][i] = e \/ (i \in 1..Len(queue[c]) /\ queue'[c][i] = queue[c][i])
        BY <3>1, <1>1
      <3>3. IsFiniteSet(e.base)
        BY DEF e
      <3> QED
        BY <3>2, <3>3 DEF TypeInv, Finite
    <2> QED
      BY <2>1, <2>2
  <1>10. Finite'
    BY <1>8, <1>9 DEF Finite, Ask, tables, TypeInv
  <1> QED
    BY <1>7, <1>8, <1>10 DEF TypeInv, Busy

\* Changing handler records only, to well typed ones, keeps the types.
LEMMA HandlersTyped ==
  ASSUME TypeInv, handler' \in [Handlers -> HandlerState],
         \A t \in Handlers : IsFiniteSet(handler'[t].base)
                            /\ (handler'[t].pc # "idle" => handler'[t].req \in Requests)
                            /\ (handler'[t].pc = "commit" => ~Exhausted(handler'[t].head)),
         UNCHANGED <<tables, queue>>, phase' \in [Cores -> {"up", "aborting", "down"}],
         answers' \subseteq Answer, counters' \in (0..MaxCalls) \X (0..MaxStops)
  PROVE  TypeInv'
  BY DEF TypeInv, TypeOK, Finite, Busy, tables, counters, Exhausted

LEMMA IdleTyped == Idle \in HandlerState /\ IsFiniteSet(Idle.base) /\ Idle.pc = "idle"
  <1>1. Idle \in HandlerState /\ Idle.base = {} /\ Idle.pc = "idle"
    BY DEF Idle, HandlerState, Causes
  <1> QED
    BY <1>1, FS_EmptySet

LEMMA FinishTyped ==
  ASSUME TypeInv, NEW t \in Handlers, Busy(t), NEW cause \in Causes,
         NEW response \in SUBSET Response, Finish(t, cause, response)
  PROVE  TypeInv'
  <1>1. ClientCode(cause) \in Causes \cup {"INVALID_REQUEST"}
    BY DEF ClientCode, Causes, RaisedByCore
  <1>2. handler[t].req \in Requests
    BY DEF TypeInv
  <1>3. answers' \subseteq Answer
    BY <1>1, <1>2 DEF Finish, TypeInv, TypeOK, Answer
  <1>4. handler' = [handler EXCEPT ![t] = Idle] /\ UNCHANGED <<tables, phase, queue, counters>>
    BY DEF Finish
  <1>5. handler' \in [Handlers -> HandlerState]
    BY <1>4, IdleTyped DEF TypeInv, TypeOK
  <1>6. \A u \in Handlers : handler'[u] = handler[u] \/ handler'[u] = Idle
    BY <1>4 DEF TypeInv, TypeOK
  <1>7. phase' \in [Cores -> {"up", "aborting", "down"}]
        /\ counters' \in (0..MaxCalls) \X (0..MaxStops)
    BY <1>4 DEF TypeInv, TypeOK, counters
  <1> QED
    BY <1>3, <1>4, <1>5, <1>6, <1>7, IdleTyped, HandlersTyped
      DEF TypeInv, Finite, Busy

\* The operation a handler forges, and the response it prepares, are well typed.
LEMMA ForgeTyped ==
  ASSUME TypeInv, NEW t \in Handlers, Busy(t), ~Exhausted(handler[t].head)
  PROVE  Forge(t) \in Operation
  <1> DEFINE head == handler[t].head
  <1>1. head \in SUBSET Head0 /\ handler[t].req \in Requests
    BY DEF TypeInv, TypeOK, HandlerState
  <1>2. \A h \in head : h.seq \in 0..MaxSequence /\ h.seq # MaxSequence /\ h.hash \in Hash
    BY <1>1 DEF Exhausted, Head0
  <1>3. NextSeq(head) \in 0..MaxSequence
    <2>1. CASE head = {}
      BY <2>1, BoundAssumption DEF NextSeq
    <2>2. CASE head # {}
      <3>1. (CHOOSE h \in head : TRUE) \in head
        BY <2>2
      <3> QED
        BY <3>1, <1>2, <2>2, BoundAssumption DEF NextSeq
    <2> QED
      BY <2>1, <2>2
  <1>4. {h.hash : h \in head} \in SUBSET Hash
    BY <1>2
  <1> QED
    BY <1>1, <1>3, <1>4 DEF Forge, Operation, Hash

LEMMA PreparedTyped ==
  ASSUME NEW op, op.hash \in Hash, NEW base \in SUBSET Hash, IsFiniteSet(base)
  PROVE  Prepared(op, base) \in Response
  <1>1. Revision(base) \in Nat
    BY FS_CardinalityType DEF Revision
  <1> QED
    BY <1>1 DEF Prepared, Response

LEMMA HandlerStepTyped ==
  ASSUME TypeInv, NEW t \in Handlers, HandlerStep(t)
  PROVE  TypeInv'
  <1> DEFINE s == handler[t]
  <1>1. s \in HandlerState /\ IsFiniteSet(s.base) /\ s.base \in SUBSET Hash
    BY DEF TypeInv, TypeOK, Finite, HandlerState
  <1>2. ASSUME NEW op \in SUBSET Operation, NEW call \in Waiting, Busy(t),
               call = "commit" => ~Exhausted(s.head),
               Ask(t, s, call, op), UNCHANGED counters
        PROVE  TypeInv'
    <2>1. counters' \in (0..MaxCalls) \X (0..MaxStops)
      BY <1>2 DEF TypeInv, TypeOK, counters
    <2>2. s.req \in Requests
      BY <1>2 DEF TypeInv
    <2> QED
      BY <1>1, <1>2, <2>1, <2>2, AskTyped
  <1>3. ASSUME Busy(t), NEW cause \in Causes, NEW response \in SUBSET Response,
               Finish(t, cause, response)
        PROVE  TypeInv'
    BY <1>3, FinishTyped
  <1>4. CASE Fail(t)
    BY <1>1, <1>3, <1>4 DEF Fail, Busy, Waiting, HandlerState
  <1>5. CASE Replay(t)
    BY <1>1, <1>3, <1>5 DEF Replay, Ok, Replied, Busy, HandlerState, Causes
  <1>6. CASE WantLock(t)
    <2>1. handler' = [handler EXCEPT ![t] = [s EXCEPT !.pc = "locking", !.replied = FALSE]]
      BY <1>6 DEF WantLock
    <2>2. [s EXCEPT !.pc = "locking", !.replied = FALSE] \in HandlerState
      BY <1>1 DEF HandlerState
    <2>3. handler' \in [Handlers -> HandlerState]
      BY <2>1, <2>2 DEF TypeInv, TypeOK
    <2>4. \A u \in Handlers : /\ handler'[u].base = handler[u].base
                              /\ handler'[u].req = handler[u].req
                              /\ handler'[u].pc # "idle" => handler[u].pc # "idle"
      BY <1>1, <1>6, <2>1 DEF TypeInv, TypeOK, HandlerState, WantLock, Ok, Replied
    <2>5. \A u \in Handlers : /\ IsFiniteSet(handler'[u].base)
                              /\ handler'[u].pc # "idle" => handler'[u].req \in Requests
                              /\ handler'[u].pc = "commit" => ~Exhausted(handler'[u].head)
      BY <1>1, <1>6, <2>1, <2>4 DEF TypeInv, TypeOK, Finite, Busy
    <2>6. UNCHANGED <<tables, phase, queue, answers, counters>>
      BY <1>6 DEF WantLock
    <2>7. /\ phase' \in [Cores -> {"up", "aborting", "down"}]
          /\ answers' \subseteq Answer /\ counters' \in (0..MaxCalls) \X (0..MaxStops)
      BY <2>6 DEF TypeInv, TypeOK, counters
    <2>8. UNCHANGED <<tables, queue>>
      BY <2>6
    <2> QED
      BY <2>3, <2>5, <2>7, <2>8 DEF TypeInv, TypeOK, Finite, Busy, tables, counters, Exhausted
  <1>7. CASE Acquire(t)
    BY <1>2, <1>7 DEF Acquire, Busy, Waiting
  <1>8. CASE LoadUpdates(t)
    BY <1>2, <1>8 DEF LoadUpdates, Busy, Waiting, Ok, Replied
  <1>9. CASE RefuseRevision(t)
    BY <1>3, <1>9 DEF RefuseRevision, Busy, Ok, Replied, Causes
  <1>10. CASE RefuseStaging(t)
    BY <1>3, <1>10 DEF RefuseStaging, Busy, Ok, Replied, Causes
  <1>11. CASE Stage(t)
    BY <1>2, <1>11 DEF Stage, Busy, Waiting, Ok, Replied
  <1>12. CASE RefuseSequence(t)
    BY <1>3, <1>12 DEF RefuseSequence, Busy, Ok, Replied, Causes
  <1>13. CASE Submit(t)
    <2>1. Forge(t) \in Operation
      BY <1>13, ForgeTyped DEF Submit, Busy, Ok, Replied
    <2> QED
      BY <1>2, <1>13, <2>1 DEF Submit, Busy, Waiting, Ok, Replied
  <1>14. CASE Acknowledge(t)
    <2>1. PICK r : r = Prepared(Forge(t), s.base)
      OBVIOUS
    <2>2. Forge(t) \in Operation
      BY <1>14, ForgeTyped DEF Acknowledge, Ok, Replied, Busy, TypeInv
    <2>3. r \in Response
      BY <2>1, <2>2, <1>1, PreparedTyped DEF Operation
    <2> QED
      BY <1>3, <1>14, <2>1, <2>3 DEF Acknowledge, Ok, Replied, Busy, Causes
  <1> QED
    BY <1>4, <1>5, <1>6, <1>7, <1>8, <1>9, <1>10, <1>11, <1>12, <1>13, <1>14
      DEF HandlerStep

\* The rows a commit writes are well typed.
LEMMA WriteTyped ==
  ASSUME TypeInv, NEW op \in Operation, NEW base \in SUBSET Hash, IsFiniteSet(base),
         Write(op, base)
  PROVE  /\ operations' \subseteq Operation
         /\ documentUpdates' \subseteq [hash : Hash, doc : Docs]
         /\ logHeads' \subseteq [doc : Docs, seq : 0..MaxSequence, hash : Hash]
         /\ durableOutbox' \subseteq Hash
         /\ idempotencyKeys' \subseteq [req : Requests, response : Response]
         /\ IsFiniteSet(documentUpdates')
  <1>1. op.hash \in Hash /\ op.req \in Requests /\ op.seq \in 0..MaxSequence
    BY DEF Operation
  <1>2. op.req.doc \in Docs
    BY <1>1, RequestAssumption
  <1>3. Prepared(op, base) \in Response
    BY <1>1, PreparedTyped
  <1>4. IsFiniteSet(documentUpdates')
    <2>1. PICK u : u = [hash |-> op.hash, doc |-> op.req.doc]
      OBVIOUS
    <2>2. documentUpdates' = documentUpdates \cup {u} /\ IsFiniteSet(documentUpdates)
      BY <2>1 DEF Write, TypeInv, Finite
    <2> QED
      BY <2>2, FS_AddElement
  <1> QED
    BY <1>1, <1>2, <1>3, <1>4 DEF Write, TypeInv, TypeOK

\* Delivering a reply of the right kind keeps queues and handlers well typed.
LEMMA ReplyTyped ==
  ASSUME TypeInv, NEW c \in Cores, queue[c] # <<>>, NEW s \in HandlerState,
         IsFiniteSet(s.base), s.req = handler[Head(queue[c]).by].req,
         s.pc = handler[Head(queue[c]).by].pc, s.pc = "commit" => ~Exhausted(s.head),
         Reply(c, Head(queue[c]), s)
  PROVE  /\ queue' \in [Cores -> Seq(Entry)]
         /\ handler' \in [Handlers -> HandlerState]
         /\ \A d \in Cores : \A i \in 1..Len(queue'[d]) : IsFiniteSet(queue'[d][i].base)
         /\ \A u \in Handlers : /\ IsFiniteSet(handler'[u].base)
                                /\ handler'[u].pc # "idle" => handler'[u].req \in Requests
                                /\ handler'[u].pc = "commit" => ~Exhausted(handler'[u].head)
  <1> DEFINE e == Head(queue[c])
  <1>1. queue[c] \in Seq(Entry) /\ e \in Entry /\ e.by \in Handlers
    <2>1. queue[c] \in Seq(Entry)
      BY DEF TypeInv, TypeOK
    <2>2. e \in Entry
      BY <2>1
    <2> QED
      BY <2>1, <2>2 DEF Entry
  <1>2. queue' = [queue EXCEPT ![c] = Tail(@)]
    BY DEF Reply
  <1>3. queue' \in [Cores -> Seq(Entry)]
    BY <1>1, <1>2 DEF TypeInv, TypeOK
  <1>4. handler' = handler \/ handler' = [handler EXCEPT ![e.by] = s]
    BY DEF Reply
  <1>5. handler' \in [Handlers -> HandlerState]
    BY <1>1, <1>4 DEF TypeInv, TypeOK
  <1>6. \A d \in Cores : \A i \in 1..Len(queue'[d]) : IsFiniteSet(queue'[d][i].base)
    <2> SUFFICES ASSUME NEW d \in Cores, NEW i \in 1..Len(queue'[d])
                 PROVE  IsFiniteSet(queue'[d][i].base)
      OBVIOUS
    <2>1. CASE d # c
      BY <2>1, <1>2 DEF TypeInv, TypeOK, Finite
    <2>2. CASE d = c
      <3>1. queue'[d] = Tail(queue[c])
        BY <2>2, <1>2 DEF TypeInv, TypeOK
      <3>2. i + 1 \in 1..Len(queue[c]) /\ queue'[d][i] = queue[c][i + 1]
        BY <3>1, <1>1
      <3> QED
        BY <3>2 DEF TypeInv, Finite
    <2> QED
      BY <2>1, <2>2
  <1>7. \A u \in Handlers : \/ handler'[u] = handler[u]
                            \/ u = e.by /\ handler'[u] = s
    BY <1>1, <1>4 DEF TypeInv, TypeOK
  <1> QED
    BY <1>3, <1>5, <1>6, <1>7 DEF TypeInv, Finite, Busy

\* The history of one document is finite.
LEMMA UpdatesFinite ==
  ASSUME NEW d, IsFiniteSet(documentUpdates)
  PROVE  IsFiniteSet(UpdatesOf(d))
  <1> DEFINE rows == {u \in documentUpdates : u.doc = d}
             f == [u \in rows |-> u.hash]
  <1>1. IsFiniteSet(rows)
    BY FS_Subset
  <1>2. f \in Surjection(rows, UpdatesOf(d))
    BY DEF Surjection, UpdatesOf
  <1> QED
    BY <1>1, <1>2, FS_Surjection

\* A step of the store keeps the types; that a reply fits the step its handler
\* waits in comes from InFlight.
LEMMA StoreStepTyped ==
  ASSUME TypeInv, InFlight, NEW c \in Cores, StoreStep(c)
  PROVE  TypeInv'
  <1> DEFINE e == Head(queue[c])
             s == handler[e.by]
  <1>1. queue[c] # <<>>
    BY DEF StoreStep, ServeIdempotency, ServeLoadUpdates, ServeLogHead,
           ServeCommitLocal, Serving
  <1>0. EntryInv(c, e)
    <2>1. queue[c] \in Seq(Entry) /\ Len(queue[c]) \in Nat
      BY DEF TypeInv, TypeOK
    <2>2. e = queue[c][1] /\ 1 \in 1..Len(queue[c])
      BY <1>1, <2>1
    <2> QED
      BY <2>2 DEF InFlight
  <1>2. e \in Entry /\ e.by \in Handlers /\ e.req \in Requests /\ IsFiniteSet(e.base)
        /\ e.op \in SUBSET Operation /\ e.base \in SUBSET Hash
    <2>1. queue[c] \in Seq(Entry) /\ Len(queue[c]) \in Nat
      BY DEF TypeInv, TypeOK
    <2>2. e = queue[c][1] /\ 1 \in 1..Len(queue[c])
      BY <1>1, <2>1
    <2>3. e \in Entry
      BY <2>1, <2>2
    <2> QED
      BY <2>2, <2>3 DEF Entry, TypeInv, Finite
  <1>3. s \in HandlerState /\ IsFiniteSet(s.base)
        /\ (s.pc = "commit" => ~Exhausted(s.head))
    BY <1>2 DEF TypeInv, TypeOK, Finite
  <1> HIDE DEF e, s
  <1>4. ASSUME NEW r \in HandlerState, IsFiniteSet(r.base), r.req = s.req, r.pc = s.pc,
               r.pc = "commit" => ~Exhausted(r.head), Reply(c, e, r), UNCHANGED tables
        PROVE  TypeInv'
    <2>1. /\ queue' \in [Cores -> Seq(Entry)]
          /\ handler' \in [Handlers -> HandlerState]
          /\ \A d \in Cores : \A i \in 1..Len(queue'[d]) : IsFiniteSet(queue'[d][i].base)
          /\ \A u \in Handlers : /\ IsFiniteSet(handler'[u].base)
                                 /\ handler'[u].pc # "idle" => handler'[u].req \in Requests
                                 /\ handler'[u].pc = "commit" => ~Exhausted(handler'[u].head)
      BY <1>1, <1>4, ReplyTyped DEF e, s
    <2> QED
      BY <1>4, <2>1 DEF TypeInv, TypeOK, Finite, Busy, Exhausted, tables, counters, Reply
  <1>5. CASE ServeIdempotency(c)
    <2> DEFINE other == {k \in RowsFor(e.req) : k.req # e.req}
               r == [s EXCEPT !.replied = TRUE,
                       !.cause = IF other # {} THEN "IDEMPOTENCY_CONFLICT" ELSE "NONE",
                       !.found = {k.response : k \in RowsFor(e.req)}]
    <2>1. {k.response : k \in RowsFor(e.req)} \in SUBSET Response
      BY DEF RowsFor, TypeInv, TypeOK
    <2>2. r \in HandlerState /\ r.base = s.base /\ r.req = s.req /\ r.pc = s.pc /\ r.head = s.head
      BY <1>3, <2>1 DEF HandlerState, Causes
    <2>3. Reply(c, e, r) /\ UNCHANGED tables
      BY <1>5 DEF ServeIdempotency, e, s
    <2> QED
      BY <1>3, <1>4, <2>2, <2>3
  <1>6. CASE ServeLoadUpdates(c)
    <2> DEFINE r == [s EXCEPT !.replied = TRUE, !.cause = "NONE", !.base = UpdatesOf(e.req.doc)]
    <2>1. UpdatesOf(e.req.doc) \in SUBSET Hash
      BY DEF UpdatesOf, TypeInv, TypeOK
    <2>2. IsFiniteSet(UpdatesOf(e.req.doc))
      BY UpdatesFinite DEF TypeInv, Finite
    <2>3. r \in HandlerState /\ r.base = UpdatesOf(e.req.doc)
          /\ r.req = s.req /\ r.pc = s.pc /\ r.head = s.head
      BY <1>3, <2>1 DEF HandlerState, Causes
    <2>4. Reply(c, e, r) /\ UNCHANGED tables
      BY <1>6 DEF ServeLoadUpdates, e, s
    <2> QED
      BY <1>3, <1>4, <2>2, <2>3, <2>4
  <1>7. CASE ServeLogHead(c)
    <2> DEFINE r == [s EXCEPT !.replied = TRUE, !.cause = "NONE", !.head = HeadOf(e.req.doc)]
    <2>1. HeadOf(e.req.doc) \in SUBSET Head0
      BY DEF HeadOf, TypeInv, TypeOK, Head0
    <2>2. r \in HandlerState /\ r.base = s.base /\ r.req = s.req /\ r.pc = s.pc
      BY <1>3, <2>1 DEF HandlerState, Causes
    <2>3. Reply(c, e, r) /\ UNCHANGED tables
      BY <1>7 DEF ServeLogHead, e, s
    <2>4. s.pc # "commit"
      BY <1>0, <1>7 DEF EntryInv, Busy, ServeLogHead, Serving, e, s
    <2> QED
      BY <1>3, <1>4, <2>2, <2>3, <2>4
  <1>8. CASE ServeCommitLocal(c)
    <2>1. PICK op \in e.op :
            /\ Reply(c, e, [s EXCEPT !.replied = TRUE, !.cause = CommitCause(op, e.base)])
            /\ IF CommitCause(op, e.base) = "NONE" THEN Write(op, e.base) ELSE UNCHANGED tables
      BY <1>8 DEF ServeCommitLocal, e, s
    <2> DEFINE r == [s EXCEPT !.replied = TRUE, !.cause = CommitCause(op, e.base)]
    <2>2. CommitCause(op, e.base) \in Causes
      BY DEF CommitCause, Causes
    <2>3. r \in HandlerState /\ r.base = s.base /\ r.req = s.req /\ r.pc = s.pc /\ r.head = s.head
      BY <1>3, <2>2 DEF HandlerState
    <2>4. Reply(c, e, r)
      BY <2>1
    <2>5. CASE UNCHANGED tables
      BY <1>3, <1>4, <2>3, <2>4, <2>5
    <2>6. CASE Write(op, e.base)
      <3>1. op \in Operation
        BY <1>2
      <3>2. /\ queue' \in [Cores -> Seq(Entry)]
            /\ handler' \in [Handlers -> HandlerState]
            /\ \A d \in Cores : \A i \in 1..Len(queue'[d]) : IsFiniteSet(queue'[d][i].base)
            /\ \A u \in Handlers : /\ IsFiniteSet(handler'[u].base)
                                   /\ handler'[u].pc # "idle" => handler'[u].req \in Requests
                                   /\ handler'[u].pc = "commit" => ~Exhausted(handler'[u].head)
        BY <1>1, <1>3, <2>3, <2>4, ReplyTyped DEF e, s
      <3>3. /\ operations' \subseteq Operation
            /\ documentUpdates' \subseteq [hash : Hash, doc : Docs]
            /\ logHeads' \subseteq [doc : Docs, seq : 0..MaxSequence, hash : Hash]
            /\ durableOutbox' \subseteq Hash
            /\ idempotencyKeys' \subseteq [req : Requests, response : Response]
            /\ IsFiniteSet(documentUpdates')
        BY <1>2, <2>6, <3>1, WriteTyped
      <3>4. UNCHANGED <<phase, answers, counters>>
        BY <2>4 DEF Reply
      <3> QED
        BY <3>2, <3>3, <3>4 DEF TypeInv, TypeOK, Finite, Busy, Exhausted, counters
    <2> QED
      BY <2>1, <2>5, <2>6
  <1> QED
    BY <1>5, <1>6, <1>7, <1>8, SMTT(30) DEF StoreStep

\* TypeInv holds initially and every step keeps it.
LEMMA InitTyped == Init => TypeInv
  <1> SUFFICES ASSUME Init PROVE TypeInv
    OBVIOUS
  <1>1. TypeOK
    BY IdleTyped, BoundAssumption DEF Init, TypeOK
  <1>2. Finite
    BY IdleTyped, FS_EmptySet DEF Init, Finite
  <1> QED
    BY <1>1, <1>2, IdleTyped DEF TypeInv, Init, Busy

LEMMA StepTyped == TypeInv /\ InFlight /\ [Next]_vars => TypeInv'
  <1> SUFFICES ASSUME TypeInv, InFlight, [Next]_vars PROVE TypeInv'
    OBVIOUS
  <1>1. ASSUME NEW t \in Handlers, NEW r \in Requests, Begin(t, r) PROVE TypeInv'
    <2> DEFINE s == [Idle EXCEPT !.req = r]
    <2>1. s \in HandlerState /\ s.req = r /\ IsFiniteSet(s.base)
      BY IdleTyped DEF HandlerState
    <2>2. counters' \in (0..MaxCalls) \X (0..MaxStops)
      BY <1>1, BoundAssumption DEF Begin, counters, TypeInv, TypeOK
    <2>3. Ask(t, s, "precheck", {})
      BY <1>1 DEF Begin
    <2> HIDE DEF s
    <2>4. "precheck" \in Waiting /\ "precheck" # "commit" /\ {} \in SUBSET Operation
      BY DEF Waiting
    <2> QED
      BY <2>1, <2>2, <2>3, <2>4, AskTyped
  <1>2. ASSUME NEW t \in Handlers, Cancel(t) PROVE TypeInv'
    <2>1. handler' = [handler EXCEPT ![t] = Idle]
      BY <1>2 DEF Cancel
    <2>2. handler' \in [Handlers -> HandlerState]
      BY <2>1, IdleTyped DEF TypeInv, TypeOK
    <2>3. \A u \in Handlers : handler'[u] = handler[u] \/ handler'[u] = Idle
      BY <2>1 DEF TypeInv, TypeOK
    <2> QED
      BY <1>2, <2>2, <2>3, IdleTyped
        DEF TypeInv, TypeOK, Finite, Busy, Exhausted, Cancel, tables, counters
  <1>3. ASSUME NEW c \in Cores, AbortAll(c) \/ Start(c) PROVE TypeInv'
    BY <1>3 DEF TypeInv, TypeOK, Finite, Busy, Exhausted, AbortAll, Start, tables, counters
  <1>4. ASSUME NEW c \in Cores, Stop(c) PROVE TypeInv'
    <2>1. \A t \in Handlers : handler'[t] = handler[t] \/ handler'[t] = Idle
      BY <1>4 DEF Stop
    <2>2. handler' \in [Handlers -> HandlerState]
      BY <1>4, IdleTyped DEF Stop, TypeInv, TypeOK
    <2>3. /\ queue' \in [Cores -> Seq(Entry)]
          /\ \A d \in Cores : queue'[d] = queue[d] \/ queue'[d] = <<>>
      BY <1>4 DEF Stop, TypeInv, TypeOK
    <2>8. \A d \in Cores : \A i \in 1..Len(queue'[d]) : IsFiniteSet(queue'[d][i].base)
      BY <2>3 DEF TypeInv, Finite
    <2>4. stops' \in 0..MaxStops /\ phase' \in [Cores -> {"up", "aborting", "down"}]
      BY <1>4, BoundAssumption DEF Stop, TypeInv, TypeOK
    <2>5. UNCHANGED <<tables, answers, calls>>
      BY <1>4 DEF Stop
    <2>6. TypeOK'
      BY <2>2, <2>3, <2>4, <2>5 DEF TypeInv, TypeOK, tables
    <2>7. Finite'
      BY <2>1, <2>5, <2>8, IdleTyped DEF TypeInv, Finite, tables
    <2> QED
      BY <2>1, <2>6, <2>7, IdleTyped DEF TypeInv, Busy, Exhausted
  <1>5. CASE UNCHANGED vars
    BY <1>5 DEF TypeInv, TypeOK, Finite, Busy, Exhausted, vars, tables, counters
  <1> QED
    BY <1>1, <1>2, <1>3, <1>4, <1>5, HandlerStepTyped, StoreStepTyped DEF Next

-----------------------------------------------------------------------------
(* Requests in flight                                                      *)

\* A handler that waits for no reply has no request in the queue of its core.
LEMMA NoEntry ==
  ASSUME TypeInv, InFlight, NEW t \in Handlers,
         \/ Busy(t) /\ (handler[t].pc = "locking" \/ handler[t].replied)
         \/ ~Busy(t) /\ phase[CoreOf[t]] = "up"
  PROVE  \A c \in Cores : \A i \in 1..Len(queue[c]) : queue[c][i].by # t
  <1> SUFFICES ASSUME NEW c \in Cores, NEW i \in 1..Len(queue[c]), queue[c][i].by = t
               PROVE  FALSE
    OBVIOUS
  <1>1. EntryInv(c, queue[c][i])
    BY DEF InFlight
  <1>2. queue[c][i].call \in Waiting
    <2>1. queue[c] \in Seq(Entry)
      BY DEF TypeInv, TypeOK
    <2>2. queue[c][i] \in Entry
      BY <2>1
    <2> QED
      BY <2>2 DEF Entry
  <1> QED
    BY <1>1, <1>2 DEF EntryInv, Waiting

\* Handlers that end, because they are done or cancelled, disturb nothing.
LEMMA HandlersInFlight ==
  ASSUME TypeInv, InFlight, UNCHANGED <<tables, queue, phase>>,
         \A u \in Handlers :
           \/ handler'[u] = handler[u]
           \/ /\ handler'[u] = Idle
              /\ \A c \in Cores : \A i \in 1..Len(queue[c]) :
                   queue[c][i].by = u => phase[c] # "up"
  PROVE  InFlight'
  <1>1. ASSUME NEW c \in Cores, NEW i \in 1..Len(queue[c])
        PROVE  EntryInv(c, queue[c][i])'
    <2> DEFINE e == queue[c][i]
    <2>1. EntryInv(c, e) /\ e.by \in Handlers
      <3>1. queue[c] \in Seq(Entry)
        BY DEF TypeInv, TypeOK
      <3>2. e \in Entry
        BY <3>1
      <3> QED
        BY <3>2 DEF InFlight, Entry
    <2>2. UpdatesOf(e.req.doc)' = UpdatesOf(e.req.doc) /\ queue'[c][i] = e /\ phase' = phase
      BY SMTT(30) DEF UpdatesOf, tables
    <2>3. CASE handler'[e.by] = handler[e.by]
      BY <2>1, <2>2, <2>3 DEF EntryInv, Busy, Forge
    <2>4. CASE handler'[e.by] = Idle /\ phase[c] # "up"
      BY <2>1, <2>2, <2>4, IdleTyped DEF EntryInv, Busy
    <2> QED
      BY <2>1, <2>3, <2>4
  <1>2. ASSUME NEW u \in Handlers PROVE HandlerInv(u)'
    <2>1. HandlerInv(u)
      BY DEF InFlight
    <2>2. CASE handler'[u] = handler[u]
      BY <2>1, <2>2 DEF HandlerInv, Busy, RevisionMatches, Forge, UpdatesOf, tables
    <2>3. CASE handler'[u] = Idle
      BY <2>3, IdleTyped DEF HandlerInv, Busy
    <2> QED
      BY <2>2, <2>3
  <1> QED
    BY <1>1, <1>2, IdleTyped DEF InFlight, Busy

\* Sending a request that tells the truth keeps InFlight.
LEMMA AskInFlight ==
  ASSUME TypeInv, InFlight, NEW t \in Handlers, NEW s \in HandlerState,
         NEW call \in Waiting, NEW op \in SUBSET Operation, Ask(t, s, call, op),
         \/ Busy(t) /\ (handler[t].pc = "locking" \/ handler[t].replied)
         \/ ~Busy(t) /\ phase[CoreOf[t]] = "up",
         s.base \subseteq UpdatesOf(s.req.doc),
         call \in {"head", "commit"} => s.req.expected \in {{}, {Revision(s.base)}},
         call = "commit" => s = handler[t] /\ op = {Forge(t)}
  PROVE  InFlight'
  <1> DEFINE e == [call |-> call, by |-> t, req |-> s.req, op |-> op, base |-> s.base]
             n == [s EXCEPT !.pc = call, !.replied = FALSE]
             c0 == CoreOf[t]
  <1>1. /\ c0 \in Cores
        /\ queue' = [queue EXCEPT ![c0] = Append(@, e)]
        /\ handler' = [handler EXCEPT ![t] = n]
        /\ UNCHANGED <<tables, phase, answers>>
    BY CoreAssumption DEF Ask
  <1>2. /\ n.pc = call /\ ~n.replied /\ n.req = s.req /\ n.base = s.base
        /\ n.head = s.head
    BY DEF HandlerState
  <1>3. /\ handler'[t] = n
        /\ \A u \in Handlers : u # t => handler'[u] = handler[u]
    BY <1>1 DEF TypeInv, TypeOK
  <1>4. \A c \in Cores : \A i \in 1..Len(queue[c]) : queue[c][i].by # t
    BY NoEntry
  <1>5. \A d : UpdatesOf(d)' = UpdatesOf(d)
    BY <1>1 DEF UpdatesOf, tables
  <1>6. /\ queue[c0] \in Seq(Entry) /\ queue'[c0] = Append(queue[c0], e)
        /\ \A c \in Cores : c # c0 => queue'[c] = queue[c]
    BY <1>1 DEF TypeInv, TypeOK
  <1> HIDE DEF n, c0
  <1>7. Len(queue'[c0]) = Len(queue[c0]) + 1 /\ queue'[c0][Len(queue[c0]) + 1] = e
        /\ \A i \in 1..Len(queue[c0]) : queue'[c0][i] = queue[c0][i]
    BY <1>6
  <1>8. ASSUME NEW c \in Cores, NEW i \in 1..Len(queue'[c])
        PROVE  \/ c = c0 /\ i = Len(queue[c0]) + 1 /\ queue'[c][i] = e
               \/ i \in 1..Len(queue[c]) /\ queue'[c][i] = queue[c][i]
    BY <1>6, <1>7
  <1>9. call = "commit" => Forge(t).req = s.req /\ (Forge(t).seq = 0 => Forge(t).backlink = {})
    <2>1. ASSUME call = "commit", NextSeq(s.head) = 0, s.head # {}
          PROVE  FALSE
      <3>1. (CHOOSE h \in s.head : TRUE) \in s.head /\ s.head \in SUBSET Head0
        BY <2>1 DEF HandlerState
      <3>2. (CHOOSE h \in s.head : TRUE).seq \in Nat
        BY <3>1, BoundAssumption DEF Head0
      <3> QED
        BY <2>1, <3>2 DEF NextSeq
    <2> QED
      BY <2>1 DEF Forge
  <1>10. call = "commit" => Forge(t)' = Forge(t)
    BY <1>2, <1>3 DEF Forge
  <1>11. EntryInv(c0, e)'
    BY <1>2, <1>3, <1>5, <1>9, <1>10 DEF EntryInv, Busy, Waiting, c0
  <1>12. ASSUME NEW c \in Cores, NEW i \in 1..Len(queue[c]), NEW x, x = queue[c][i]
         PROVE  EntryInv(c, x)'
    <2>1. EntryInv(c, x) /\ x.by \in Handlers /\ x.by # t
      <3>1. queue[c] \in Seq(Entry)
        BY DEF TypeInv, TypeOK
      <3>2. x \in Entry
        BY <3>1, <1>12
      <3> QED
        BY <3>2, <1>4, <1>12 DEF InFlight, Entry
    <2>2. handler'[x.by] = handler[x.by] /\ phase' = phase
      BY <2>1, <1>1, <1>3
    <2>3. Forge(x.by)' = Forge(x.by)
      BY <2>2 DEF Forge
    <2>4. UpdatesOf(x.req.doc)' = UpdatesOf(x.req.doc)
      BY <1>5
    <2> QED
      BY <2>1, <2>2, <2>3, <2>4 DEF EntryInv, Busy
  <1>13. ASSUME NEW u \in Handlers PROVE HandlerInv(u)'
    <2>1. CASE u # t
      <3>1. HandlerInv(u) /\ handler'[u] = handler[u]
        BY <2>1, <1>3 DEF InFlight
      <3> QED
        BY <3>1, <1>1, <1>5, ZenonT(60) DEF HandlerInv, Busy, RevisionMatches, Forge, tables
    <2>2. CASE u = t
      BY <2>2, <1>2, <1>3, <1>5 DEF HandlerInv, Busy, RevisionMatches
    <2> QED
      BY <2>1, <2>2
  <1>14. \A c \in Cores : \A i, j \in 1..Len(queue'[c]) :
           queue'[c][i].by = queue'[c][j].by => i = j
    <2> SUFFICES ASSUME NEW c \in Cores, NEW i \in 1..Len(queue'[c]),
                        NEW j \in 1..Len(queue'[c]), queue'[c][i].by = queue'[c][j].by
                 PROVE  i = j
      OBVIOUS
    <2> QED
      BY <1>4, <1>8 DEF InFlight
  <1>15. phase[c0] # "down"
    BY DEF InFlight, c0
  <1>16. \A u \in Handlers : Busy(u)' => phase'[CoreOf[u]] # "down"
    BY <1>1, <1>3, <1>15 DEF InFlight, Busy, c0
  <1>17. \A c \in Cores : phase'[c] = "down" => queue'[c] = <<>>
    BY <1>1, <1>6, <1>15 DEF InFlight
  <1>18. \A c \in Cores : \A i \in 1..Len(queue'[c]) : EntryInv(c, queue[c][i])'
    <2> SUFFICES ASSUME NEW c \in Cores, NEW i \in 1..Len(queue'[c]), NEW x, x = queue'[c][i]
                 PROVE  EntryInv(c, x)'
      OBVIOUS
    <2> QED
      BY <1>8, <1>11, <1>12
  <1> QED
    BY <1>13, <1>14, <1>16, <1>17, <1>18 DEF InFlight

\* A handler that has its reply returns: nothing of it is left in flight, and a
\* success is backed by a row of the key table.
LEMMA FinishInFlight ==
  ASSUME TypeInv, InFlight, Answered, NEW t \in Handlers, Busy(t), handler[t].replied,
         NEW cause \in Causes, NEW response, Finish(t, cause, response),
         cause = "NONE" => \E k \in idempotencyKeys :
                             k.req = handler[t].req /\ response = {k.response}
  PROVE  InFlight' /\ Answered'
  <1>1. handler' = [handler EXCEPT ![t] = Idle] /\ UNCHANGED <<tables, queue, phase>>
    BY DEF Finish
  <1>2. \A c \in Cores : \A i \in 1..Len(queue[c]) : queue[c][i].by # t
    BY NoEntry
  <1>3. InFlight'
    BY <1>1, <1>2, HandlersInFlight DEF TypeInv, TypeOK
  <1>4. ClientCode(cause) = "NONE" => cause = "NONE"
    BY DEF ClientCode, Causes, RaisedByCore
  <1>5. Answered'
    BY <1>4 DEF Finish, Answered, tables
  <1> QED
    BY <1>3, <1>5

LEMMA HandlerStepInFlight ==
  ASSUME TypeInv, InFlight, Answered, NEW t \in Handlers, HandlerStep(t)
  PROVE  InFlight' /\ Answered'
  <1> DEFINE s == handler[t]
  <1>1. s \in HandlerState /\ HandlerInv(t)
    BY DEF TypeInv, TypeOK, InFlight
  <1>2. ASSUME NEW op \in SUBSET Operation, NEW call \in Waiting, Ask(t, s, call, op),
               Busy(t), s.pc = "locking" \/ s.replied,
               call \in {"head", "commit"} => RevisionMatches(t),
               call = "commit" => op = {Forge(t)}
        PROVE  InFlight' /\ Answered'
    <2>1. s.base \subseteq UpdatesOf(s.req.doc)
      BY <1>1, <1>2 DEF HandlerInv
    <2>2. call \in {"head", "commit"} => s.req.expected \in {{}, {Revision(s.base)}}
      BY <1>2 DEF RevisionMatches
    <2>3. InFlight'
      BY <1>1, <1>2, <2>1, <2>2, AskInFlight
    <2>4. Answered'
      BY <1>2 DEF Ask, Answered, tables
    <2> QED
      BY <2>3, <2>4
  <1>3. ASSUME Busy(t), s.replied, NEW cause \in Causes \ {"NONE"}, Finish(t, cause, {})
        PROVE  InFlight' /\ Answered'
    BY <1>3, FinishInFlight
  <1>4. CASE Fail(t)
    BY <1>1, <1>3, <1>4 DEF Fail, Busy, Waiting, HandlerState
  <1>5. CASE Replay(t)
    <2>1. /\ s.pc \in {"precheck", "recheck"} /\ s.replied /\ s.cause = "NONE"
          /\ s.found # {} /\ Finish(t, "NONE", s.found)
      BY <1>5 DEF Replay, Ok, Replied
    <2>2. \E k \in idempotencyKeys : k.req = s.req /\ s.found = {k.response}
      BY <1>1, <2>1 DEF HandlerInv
    <2> QED
      BY <2>1, <2>2, FinishInFlight DEF Busy, Causes
  <1>6. CASE WantLock(t)
    <2> DEFINE n == [s EXCEPT !.pc = "locking", !.replied = FALSE]
    <2>1. /\ handler' = [handler EXCEPT ![t] = n]
          /\ UNCHANGED <<tables, phase, queue, answers, counters>>
          /\ Busy(t) /\ s.replied
      BY <1>6 DEF WantLock, Ok, Replied, Busy
    <2>2. n.pc = "locking" /\ n.base = s.base /\ n.req = s.req
      BY <1>1 DEF HandlerState
    <2>3. \A c \in Cores : \A i \in 1..Len(queue[c]) : queue[c][i].by # t
      BY <2>1, NoEntry
    <2>4. handler'[t] = n /\ \A u \in Handlers : u # t => handler'[u] = handler[u]
      BY <2>1 DEF TypeInv, TypeOK
    <2> HIDE DEF n
    <2>5. HandlerInv(t)'
      BY <1>1, <2>1, <2>2, <2>4 DEF HandlerInv, Busy, UpdatesOf, tables
    <2>6. ASSUME NEW u \in Handlers, u # t PROVE HandlerInv(u)'
      <3>1. HandlerInv(u) /\ handler'[u] = handler[u]
        BY <2>4, <2>6 DEF InFlight
      <3> QED
        BY <3>1, <2>1, ZenonT(60) DEF HandlerInv, Busy, RevisionMatches, Forge, UpdatesOf, tables
    <2>7. ASSUME NEW c \in Cores, NEW i \in 1..Len(queue[c]) PROVE EntryInv(c, queue[c][i])'
      <3>1. queue[c] \in Seq(Entry) /\ queue' = queue /\ phase' = phase
        BY <2>1 DEF TypeInv, TypeOK
      <3>2. queue[c][i] \in Entry
        BY <3>1
      <3>3. queue[c][i].by \in Handlers /\ EntryInv(c, queue[c][i]) /\ queue[c][i].by # t
        BY <3>2, <2>3 DEF Entry, InFlight
      <3>4. handler'[queue[c][i].by] = handler[queue[c][i].by]
        BY <2>4, <3>3
      <3> QED
        BY <3>1, <3>3, <3>4, <2>1, SMTT(60) DEF EntryInv, Busy, Forge, UpdatesOf, tables
    <2>8. InFlight'
      BY <2>1, <2>2, <2>4, <2>5, <2>6, <2>7 DEF InFlight, Busy
    <2> QED
      BY <2>1, <2>8 DEF Answered, tables
  <1>7. CASE Acquire(t)
    BY <1>2, <1>7 DEF Acquire, Busy, Waiting
  <1>8. CASE LoadUpdates(t)
    BY <1>2, <1>8 DEF LoadUpdates, Busy, Waiting, Ok, Replied
  <1>9. CASE RefuseRevision(t)
    BY <1>3, <1>9 DEF RefuseRevision, Busy, Ok, Replied, Causes
  <1>10. CASE RefuseStaging(t)
    BY <1>3, <1>10 DEF RefuseStaging, Busy, Ok, Replied, Causes
  <1>11. CASE Stage(t)
    BY <1>2, <1>11 DEF Stage, Busy, Waiting, Ok, Replied
  <1>12. CASE RefuseSequence(t)
    BY <1>3, <1>12 DEF RefuseSequence, Busy, Ok, Replied, Causes
  <1>13. CASE Submit(t)
    <2>1. Forge(t) \in Operation
      BY <1>13, ForgeTyped DEF Submit, Busy, Ok, Replied
    <2>2. RevisionMatches(t)
      BY <1>1, <1>13 DEF HandlerInv, Submit, Ok, Replied
    <2> QED
      BY <1>2, <1>13, <2>1, <2>2 DEF Submit, Busy, Waiting, Ok, Replied
  <1>14. CASE Acknowledge(t)
    <2>1. PICK r : r = Prepared(Forge(t), s.base)
      OBVIOUS
    <2>2. s.pc = "commit" /\ s.replied /\ s.cause = "NONE" /\ Finish(t, "NONE", {r})
      BY <1>14, <2>1 DEF Acknowledge, Ok, Replied
    <2>3. \E k \in idempotencyKeys : k.req = s.req /\ k.response = r
      BY <1>1, <2>1, <2>2 DEF HandlerInv
    <2> QED
      BY <2>2, <2>3, FinishInFlight DEF Busy, Causes
  <1> QED
    BY <1>4, <1>5, <1>6, <1>7, <1>8, <1>9, <1>10, <1>11, <1>12, <1>13, <1>14
      DEF HandlerStep

-----------------------------------------------------------------------------
(* The commit                                                              *)

\* The head row of a document gives its length.
LEMMA HeadLength ==
  ASSUME TypeInv, Chain, NEW d \in Docs
  PROVE  \/ /\ HeadOf(d) = {} /\ Length(d) = 0
            /\ \A h \in logHeads : h.doc # d
         \/ \E h \in logHeads :
              /\ h.doc = d /\ h.seq \in Nat /\ Length(d) = h.seq + 1
              /\ HeadOf(d) = {[seq |-> h.seq, hash |-> h.hash]}
  <1>1. CASE \A h \in logHeads : h.doc # d
    <2>1. HeadOf(d) = {}
      BY <1>1 DEF HeadOf
    <2> QED
      BY <1>1, <2>1 DEF Length, NextSeq
  <1>2. CASE \E h \in logHeads : h.doc = d
    <2>1. PICK h \in logHeads : h.doc = d
      BY <1>2
    <2>2. {k \in logHeads : k.doc = d} = {h}
      BY <2>1 DEF Chain
    <2>3. HeadOf(d) = {[seq |-> h.seq, hash |-> h.hash]}
      BY <2>2 DEF HeadOf
    <2>4. h.seq \in Nat
      BY BoundAssumption DEF TypeInv, TypeOK
    <2>5. (CHOOSE x \in HeadOf(d) : TRUE) = [seq |-> h.seq, hash |-> h.hash]
      BY <2>3
    <2>6. Length(d) = h.seq + 1
      BY <2>3, <2>5 DEF Length, NextSeq
    <2> QED
      BY <2>1, <2>3, <2>4, <2>6
  <1> QED
    BY <1>1, <1>2

\* What the checks of commit_local establish: the operation extends the log of
\* its document by one and was staged on the whole history.
LEMMA CommitFacts ==
  ASSUME TypeInv, Chain, Keys, NEW op \in Operation, NEW base,
         base \subseteq UpdatesOf(op.req.doc), CommitCause(op, base) = "NONE"
  PROVE  /\ op.req.doc \in Docs /\ op.seq \in Nat
         /\ base = UpdatesOf(op.req.doc) /\ Cardinality(base) = op.seq
         /\ Length(op.req.doc) = op.seq
         /\ RowsFor(op.req) = {}
         /\ \A o \in operations : o.hash # op.hash
         /\ \A o \in operations : o.req.doc = op.req.doc => o.seq \in Nat /\ o.seq < op.seq
         /\ \/ op.seq = 0 /\ \A h \in logHeads : h.doc # op.req.doc
            \/ \E h \in logHeads : h.doc = op.req.doc /\ op.seq = h.seq + 1
                                   /\ op.backlink = {h.hash}
  <1> DEFINE d == op.req.doc
  <1>1. d \in Docs /\ op.seq \in Nat
    BY RequestAssumption, BoundAssumption DEF Operation
  <1>2. /\ Cardinality(UpdatesOf(d)) = Cardinality(base)
        /\ HeadMatches(op, HeadOf(d))
        /\ RowsFor(op.req) = {}
        /\ \A o \in operations : o.hash # op.hash
    BY DEF CommitCause, Revision
  <1>3. IsFiniteSet(UpdatesOf(d))
    BY UpdatesFinite DEF TypeInv, Finite
  <1>4. base = UpdatesOf(d)
    BY <1>2, <1>3, FS_Subset
  <1>5. Cardinality(UpdatesOf(d)) = Length(d)
    BY <1>1 DEF Chain
  <1> HIDE DEF d
  <1>6. \/ /\ op.seq = 0 /\ Length(d) = 0 /\ \A h \in logHeads : h.doc # d
        \/ \E h \in logHeads : h.doc = d /\ op.seq = h.seq + 1 /\ op.backlink = {h.hash}
                               /\ Length(d) = h.seq + 1
    <2>1. CASE HeadOf(d) = {} /\ Length(d) = 0 /\ \A h \in logHeads : h.doc # d
      BY <1>2, <2>1 DEF HeadMatches
    <2>2. CASE \E h \in logHeads :
                 /\ h.doc = d /\ h.seq \in Nat /\ Length(d) = h.seq + 1
                 /\ HeadOf(d) = {[seq |-> h.seq, hash |-> h.hash]}
      <3>1. PICK h \in logHeads :
                 /\ h.doc = d /\ h.seq \in Nat /\ Length(d) = h.seq + 1
                 /\ HeadOf(d) = {[seq |-> h.seq, hash |-> h.hash]}
        BY <2>2
      <3>2. PICK x : x = [seq |-> h.seq, hash |-> h.hash]
        OBVIOUS
      <3>3. HeadOf(d) = {x} /\ x.seq = h.seq /\ x.hash = h.hash
        BY <3>1, <3>2
      <3>4. op.seq = h.seq + 1 /\ op.backlink = {h.hash}
        BY <1>2, <3>3 DEF HeadMatches
      <3> QED
        BY <3>1, <3>4
    <2> QED
      BY <1>1, <2>1, <2>2, HeadLength
  <1>7. \A o \in operations : o.req.doc = d => o.seq \in Nat /\ o.seq < op.seq
    <2> SUFFICES ASSUME NEW o \in operations, o.req.doc = d
                 PROVE  o.seq \in Nat /\ o.seq < op.seq
      OBVIOUS
    <2>1. PICK h \in logHeads : h.doc = d /\ o.seq <= h.seq
      BY DEF Chain
    <2>2. o.seq \in Nat /\ h.seq \in Nat
      BY BoundAssumption DEF TypeInv, TypeOK, Operation
    <2>3. op.seq = h.seq + 1
      BY <1>6, <2>1 DEF Chain
    <2> QED
      BY <2>1, <2>2, <2>3
  <1>8. Length(d) = op.seq /\ Cardinality(base) = op.seq
    BY <1>4, <1>5, <1>6
  <1> QED
    BY <1>1, <1>2, <1>4, <1>6, <1>7, <1>8 DEF d

\* The rows of a commit extend the log of its document and no other one.
LEMMA CommitChain ==
  ASSUME TypeInv, TypeInv', Chain, Keys, NEW op \in Operation, NEW base,
         base \subseteq UpdatesOf(op.req.doc), CommitCause(op, base) = "NONE",
         op.seq = 0 => op.backlink = {}, Write(op, base)
  PROVE  Chain' /\ \A x \in Docs : Length(x)' = IF x = op.req.doc THEN Length(x) + 1 ELSE Length(x)
  <1>1. PICK d \in Docs : d = op.req.doc
    BY CommitFacts
  <1>2. PICK g : g = [doc |-> d, seq |-> op.seq, hash |-> op.hash]
    OBVIOUS
  <1>3. PICK u : u = [hash |-> op.hash, doc |-> d]
    OBVIOUS
  <1>4. /\ operations' = operations \cup {op}
        /\ documentUpdates' = documentUpdates \cup {u}
        /\ logHeads' = {h \in logHeads : h.doc # d} \cup {g}
    BY <1>1, <1>2, <1>3 DEF Write
  <1>5. /\ op.seq \in Nat /\ Cardinality(UpdatesOf(d)) = op.seq
        /\ Length(d) = op.seq
        /\ \A o \in operations : o.hash # op.hash
        /\ \A o \in operations : o.req.doc = d => o.seq \in Nat /\ o.seq < op.seq
        /\ \/ op.seq = 0 /\ \A h \in logHeads : h.doc # d
           \/ \E h \in logHeads : h.doc = d /\ op.seq = h.seq + 1
                                  /\ op.backlink = {h.hash}
    BY <1>1, CommitFacts
  <1>6. \A h, k \in logHeads' : h.doc = k.doc => h = k
    BY <1>2, <1>4 DEF Chain
  <1>7. \A o, p \in operations' : o.req.doc = p.req.doc /\ o.seq = p.seq => o = p
    <2>1. \A o \in operations : o.req.doc = op.req.doc => o.seq # op.seq
      BY <1>1, <1>5
    <2> QED
      BY <1>4, <2>1 DEF Chain
  <1>8. ASSUME NEW h \in logHeads', NEW i \in 0..h.seq
        PROVE  \E o \in operations' : o.req.doc = h.doc /\ o.seq = i
    <2>1. CASE h \in logHeads /\ h.doc # d
      BY <1>4, <2>1 DEF Chain
    <2>2. CASE h = g
      <3>1. h.doc = d /\ h.seq = op.seq
        BY <1>2, <2>2
      <3>2. CASE i = op.seq
        BY <1>1, <1>4, <3>1, <3>2
      <3>3. CASE i # op.seq
        <4>1. PICK k \in logHeads : k.doc = d /\ op.seq = k.seq + 1
          BY <1>5, <3>1, <3>3
        <4>2. k.seq \in Nat
          BY BoundAssumption DEF TypeInv, TypeOK
        <4>3. i \in 0..k.seq
          BY <3>1, <3>3, <4>1, <4>2, <1>5
        <4> QED
          BY <1>4, <3>1, <4>1, <4>3 DEF Chain
      <3> QED
        BY <3>2, <3>3
    <2> QED
      BY <1>4, <2>1, <2>2
  <1>9. \A o \in operations' : \E h \in logHeads' : h.doc = o.req.doc /\ o.seq <= h.seq
    <2> SUFFICES ASSUME NEW o \in operations'
                 PROVE  \E h \in logHeads' : h.doc = o.req.doc /\ o.seq <= h.seq
      OBVIOUS
    <2>1. CASE o.req.doc = d
      <3>1. o.seq <= op.seq
        BY <1>4, <1>5, <2>1
      <3>2. g \in logHeads' /\ g.doc = d /\ g.seq = op.seq
        BY <1>2, <1>4
      <3> QED
        BY <2>1, <3>1, <3>2
    <2>2. CASE o.req.doc # d
      <3>1. o \in operations
        BY <1>1, <1>4, <2>2
      <3>2. PICK h \in logHeads : h.doc = o.req.doc /\ o.seq <= h.seq
        BY <3>1 DEF Chain
      <3> QED
        BY <1>4, <2>2, <3>2
    <2> QED
      BY <2>1, <2>2
  <1>10. \A h \in logHeads' : \E o \in operations' :
           o.req.doc = h.doc /\ o.seq = h.seq /\ o.hash = h.hash
    BY <1>1, <1>2, <1>4 DEF Chain
  <1>11. ASSUME NEW o \in operations'
         PROVE  o.backlink = {p.hash : p \in {q \in OperationsOf(o.req.doc) : q.seq + 1 = o.seq}}'
    <2> DEFINE Before == {q \in OperationsOf(o.req.doc) : q.seq + 1 = o.seq}
    <2>1. CASE o \in operations
      <3>1. o.seq \in Nat /\ (o.req.doc = d => o.seq < op.seq)
        BY <1>5, <2>1, BoundAssumption DEF TypeInv, TypeOK, Operation
      <3>2. Before' = Before
        BY <1>1, <1>4, <1>5, <3>1 DEF OperationsOf
      <3> QED
        BY <2>1, <3>2 DEF Chain
    <2>2. CASE o = op
      <3>1. Before' = {q \in operations : q.req.doc = d /\ q.seq + 1 = op.seq}
        BY <1>1, <1>4, <1>5, <2>2 DEF OperationsOf
      <3>2. CASE op.seq = 0
        <4>1. \A q \in operations : q.req.doc = d => q.seq \in Nat
          BY <1>5
        <4>2. Before' = {}
          BY <3>1, <3>2, <4>1
        <4> QED
          BY <2>2, <3>2, <4>2
      <3>3. CASE op.seq # 0
        <4>1. PICK k \in logHeads : k.doc = d /\ op.seq = k.seq + 1 /\ op.backlink = {k.hash}
          BY <1>5, <3>3
        <4>2. PICK q \in operations : q.req.doc = d /\ q.seq = k.seq /\ q.hash = k.hash
          BY <4>1 DEF Chain
        <4>3. \A p \in operations : p.req.doc = d /\ p.seq + 1 = op.seq => p = q
          <5>1. k.seq \in Nat
            BY BoundAssumption DEF TypeInv, TypeOK
          <5>2. \A p \in operations : p.req.doc = d => p.seq \in Nat
            BY <1>5
          <5> QED
            BY <4>1, <4>2, <5>1, <5>2 DEF Chain
        <4>4. Before' = {q}
          BY <3>1, <4>1, <4>2, <4>3
        <4> QED
          BY <2>2, <4>1, <4>2, <4>4
      <3> QED
        BY <3>2, <3>3
    <2> QED
      BY <1>4, <2>1, <2>2
  <1>12. ASSUME NEW x \in Docs
         PROVE  /\ Cardinality(UpdatesOf(x))' = Length(x)'
                /\ Length(x)' = IF x = d THEN Length(x) + 1 ELSE Length(x)
    <2>1. CASE x = d
      <3>1. {h \in logHeads' : h.doc = d} = {g}
        BY <1>2, <1>4
      <3>2. HeadOf(d)' = {[seq |-> op.seq, hash |-> op.hash]}
        BY <1>2, <3>1 DEF HeadOf
      <3>3. (CHOOSE h \in HeadOf(d)' : TRUE) = [seq |-> op.seq, hash |-> op.hash]
        BY <3>2
      <3>4. Length(d)' = op.seq + 1
        BY <3>2, <3>3 DEF Length, NextSeq
      <3>5. UpdatesOf(d)' = UpdatesOf(d) \cup {op.hash}
        BY <1>3, <1>4 DEF UpdatesOf
      <3>6. op.hash \notin UpdatesOf(d)
        <4>1. ASSUME NEW v \in documentUpdates PROVE v.hash # op.hash
          <5>1. <<v.doc, v.hash>> \in {<<o.req.doc, o.hash>> : o \in operations}
            BY DEF Keys, OneOperationPerKey
          <5> QED
            BY <1>5, <5>1
        <4> QED
          BY <4>1 DEF UpdatesOf
      <3>7. IsFiniteSet(UpdatesOf(d))
        BY UpdatesFinite DEF TypeInv, Finite
      <3>8. Cardinality(UpdatesOf(d) \cup {op.hash}) = Cardinality(UpdatesOf(d)) + 1
        BY <3>6, <3>7, FS_AddElement
      <3> QED
        BY <1>5, <2>1, <3>4, <3>5, <3>8
    <2>2. CASE x # d
      <3>1. UpdatesOf(x)' = UpdatesOf(x)
        BY <1>3, <1>4, <2>2 DEF UpdatesOf
      <3>2. {h \in logHeads' : h.doc = x} = {h \in logHeads : h.doc = x}
        BY <1>2, <1>4, <2>2
      <3>3. HeadOf(x)' = HeadOf(x)
        BY <3>2 DEF HeadOf
      <3>4. Length(x)' = Length(x)
        BY <3>3 DEF Length
      <3> QED
        BY <2>2, <3>1, <3>4 DEF Chain
    <2> QED
      BY <2>1, <2>2
  <1> QED
    BY <1>1, <1>6, <1>7, <1>8, <1>9, <1>10, <1>11, <1>12 DEF Chain

\* A commit spends one fresh key, and its response shows the whole history.
LEMMA CommitKeys ==
  ASSUME TypeInv, Chain, Keys, NEW op \in Operation, NEW base,
         base \subseteq UpdatesOf(op.req.doc), CommitCause(op, base) = "NONE",
         op.req.expected \in {{}, {Revision(base)}}, Write(op, base)
  PROVE  Keys'
  <1> DEFINE d == op.req.doc
  <1>1. PICK k : k = [req |-> op.req, response |-> Prepared(op, base)]
    OBVIOUS
  <1>2. PICK u : u = [hash |-> op.hash, doc |-> d]
    OBVIOUS
  <1>3. /\ operations' = operations \cup {op}
        /\ documentUpdates' = documentUpdates \cup {u}
        /\ durableOutbox' = durableOutbox \cup {op.hash}
        /\ idempotencyKeys' = idempotencyKeys \cup {k}
    BY <1>1, <1>2 DEF Write
  <1>4. /\ d \in Docs /\ op.seq \in Nat
        /\ base = UpdatesOf(d) /\ Cardinality(base) = op.seq
        /\ RowsFor(op.req) = {}
        /\ \A o \in operations : o.req.doc = d => o.seq \in Nat /\ o.seq < op.seq
    BY CommitFacts
  <1>5. /\ k.req = op.req /\ k.response.hash = op.hash
        /\ k.response.revision = op.seq + 1
        /\ k.response.state = base \cup {op.hash}
    BY <1>1, <1>4 DEF Prepared, Revision
  <1>6. \A l \in idempotencyKeys : ~SameKey(l.req, op.req)
    BY <1>4 DEF RowsFor
  <1>7. \A o \in operations : ~SameKey(o.req, op.req)
    <2> SUFFICES ASSUME NEW o \in operations PROVE ~SameKey(o.req, op.req)
      OBVIOUS
    <2>1. <<o.req, o.hash>> \in {<<l.req, l.response.hash>> : l \in idempotencyKeys}
      BY DEF Keys, OneOperationPerKey
    <2>2. PICK l \in idempotencyKeys : l.req = o.req
      BY <2>1
    <2> QED
      BY <1>6, <2>2
  <1>8. OneOperationPerKey'
    <2>1. \A o, p \in operations' : SameKey(o.req, p.req) => o = p
      BY <1>3, <1>7 DEF Keys, OneOperationPerKey, SameKey
    <2>2. {<<l.req, l.response.hash>> : l \in idempotencyKeys'}
            = {<<o.req, o.hash>> : o \in operations'}
      <3>1. {<<l.req, l.response.hash>> : l \in idempotencyKeys'}
              = {<<l.req, l.response.hash>> : l \in idempotencyKeys} \cup {<<op.req, op.hash>>}
        BY <1>3, <1>5
      <3>2. {<<o.req, o.hash>> : o \in operations'}
              = {<<o.req, o.hash>> : o \in operations} \cup {<<op.req, op.hash>>}
        BY <1>3
      <3> QED
        BY <3>1, <3>2 DEF Keys, OneOperationPerKey
    <2>3. {<<v.doc, v.hash>> : v \in documentUpdates'}
            = {<<o.req.doc, o.hash>> : o \in operations'}
      <3>1. {<<v.doc, v.hash>> : v \in documentUpdates'}
              = {<<v.doc, v.hash>> : v \in documentUpdates} \cup {<<d, op.hash>>}
        BY <1>2, <1>3
      <3>2. {<<o.req.doc, o.hash>> : o \in operations'}
              = {<<o.req.doc, o.hash>> : o \in operations} \cup {<<d, op.hash>>}
        BY <1>3
      <3> QED
        BY <3>1, <3>2 DEF Keys, OneOperationPerKey
    <2>4. durableOutbox' = {o.hash : o \in operations'}
      BY <1>3 DEF Keys, OneOperationPerKey
    <2> QED
      BY <2>1, <2>2, <2>3, <2>4 DEF OneOperationPerKey
  <1>9. \A l, m \in idempotencyKeys' : SameKey(l.req, m.req) => l = m
    BY <1>3, <1>5, <1>6 DEF Keys, SameKey
  <1>10. \A l \in idempotencyKeys' : \E o \in operations' :
           o.req = l.req /\ o.hash = l.response.hash /\ o.seq + 1 = l.response.revision
    BY <1>3, <1>5 DEF Keys
  <1>11. ASSUME NEW l \in idempotencyKeys'
         PROVE  l.response.state =
           {o.hash : o \in {p \in OperationsOf(l.req.doc) : p.seq < l.response.revision}}'
    <2>1. CASE l \in idempotencyKeys
      <3>1. PICK o \in operations : o.req = l.req /\ o.seq + 1 = l.response.revision
        BY <2>1 DEF Keys
      <3>2. o.seq \in Nat /\ (l.req.doc = d => o.seq < op.seq)
        BY <1>4, <3>1, BoundAssumption DEF TypeInv, TypeOK, Operation
      <3>3. ~(op.req.doc = l.req.doc /\ op.seq < l.response.revision)
        BY <1>4, <3>1, <3>2
      <3>4. {p \in OperationsOf(l.req.doc) : p.seq < l.response.revision}'
              = {p \in OperationsOf(l.req.doc) : p.seq < l.response.revision}
        BY <1>3, <3>3 DEF OperationsOf
      <3> QED
        BY <2>1, <3>4 DEF Keys, ShowsItsHistory
    <2>2. CASE l = k
      <3>1. {p \in OperationsOf(l.req.doc) : p.seq < l.response.revision}'
              = OperationsOf(d) \cup {op}
        BY <1>3, <1>4, <1>5, <2>2 DEF OperationsOf
      <3>2. UpdatesOf(d) = {o.hash : o \in OperationsOf(d)}
        <4>1. ASSUME NEW h
              PROVE  h \in UpdatesOf(d) <=> <<d, h>> \in {<<v.doc, v.hash>> : v \in documentUpdates}
          BY DEF UpdatesOf
        <4>2. ASSUME NEW h
              PROVE  h \in {o.hash : o \in OperationsOf(d)}
                       <=> <<d, h>> \in {<<o.req.doc, o.hash>> : o \in operations}
          BY DEF OperationsOf
        <4> QED
          BY <4>1, <4>2 DEF Keys, OneOperationPerKey
      <3> QED
        BY <1>4, <1>5, <2>2, <3>1, <3>2
    <2> QED
      BY <1>3, <2>1, <2>2
  <1>12. ShowsItsHistory'
    BY <1>11 DEF ShowsItsHistory
  <1>13. ExpectedRevisionHonoured'
    BY <1>3, <1>4 DEF Keys, ExpectedRevisionHonoured, Revision
  <1> QED
    BY <1>8, <1>9, <1>10, <1>12, <1>13 DEF Keys

\* The tables grow, so what was read from them stays true.
LEMMA CommitGrows ==
  ASSUME NEW op, NEW base, Write(op, base)
  PROVE  /\ operations \subseteq operations' /\ documentUpdates \subseteq documentUpdates'
         /\ idempotencyKeys \subseteq idempotencyKeys'
         /\ durableOutbox \subseteq durableOutbox'
         /\ \A d : UpdatesOf(d) \subseteq UpdatesOf(d)'
  BY DEF Write, UpdatesOf

\* The store answers the request at the head of its queue: what the others in
\* flight rely on still holds when the tables have grown meanwhile.
LEMMA ReplyInFlight ==
  ASSUME TypeInv, InFlight, Answered, NEW c \in Cores, queue[c] # <<>>,
         NEW e, e = Head(queue[c]), NEW s, Reply(c, e, s),
         s.pc = handler[e.by].pc,
         idempotencyKeys \subseteq idempotencyKeys',
         \A d : UpdatesOf(d) \subseteq UpdatesOf(d)',
         Busy(e.by) => HandlerInv(e.by)'
  PROVE  InFlight' /\ Answered'
  <1>1. queue[c] \in Seq(Entry) /\ e = queue[c][1] /\ 1 \in 1..Len(queue[c]) /\ e.by \in Handlers
    <2>1. queue[c] \in Seq(Entry) /\ Len(queue[c]) \in Nat
      BY DEF TypeInv, TypeOK
    <2>2. e = queue[c][1] /\ 1 \in 1..Len(queue[c])
      BY <2>1
    <2>3. e \in Entry
      BY <2>1, <2>2
    <2> QED
      BY <2>1, <2>2, <2>3 DEF Entry
  <1>2. queue' = [queue EXCEPT ![c] = Tail(@)] /\ UNCHANGED <<phase, answers>>
    BY DEF Reply
  <1>3. \A u \in Handlers : u # e.by => handler'[u] = handler[u]
    BY DEF Reply, TypeInv, TypeOK
  <1>4. Busy(e.by)' <=> Busy(e.by)
    BY <1>1 DEF Reply, Busy, TypeInv, TypeOK
  <1>5. ASSUME NEW d \in Cores, NEW i \in 1..Len(queue'[d])
        PROVE  \E j \in 1..Len(queue[d]) :
                 queue'[d][i] = queue[d][j] /\ j = (IF d = c THEN i + 1 ELSE i)
    <2>1. CASE d # c
      BY <2>1, <1>2 DEF TypeInv, TypeOK
    <2>2. CASE d = c
      <3>1. queue'[d] = Tail(queue[c])
        BY <2>2, <1>2 DEF TypeInv, TypeOK
      <3> QED
        BY <3>1, <2>2, <1>1
    <2> QED
      BY <2>1, <2>2
  <1>6. ASSUME NEW d \in Cores, NEW i \in 1..Len(queue'[d]), NEW x, x = queue'[d][i]
        PROVE  EntryInv(d, x)'
    <2>1. PICK j \in 1..Len(queue[d]) : x = queue[d][j] /\ j = (IF d = c THEN i + 1 ELSE i)
      BY <1>5, <1>6
    <2>2. EntryInv(d, x) /\ EntryInv(c, e)
      BY <1>1, <2>1 DEF InFlight
    <2>3. x.by \in Handlers
      <3>1. queue[d] \in Seq(Entry)
        BY DEF TypeInv, TypeOK
      <3>2. x \in Entry
        BY <3>1, <2>1
      <3> QED
        BY <3>2 DEF Entry
    <2>4. x.by # e.by
      <3>1. CASE d = c
        <4>1. j # 1
          <5>1. Len(queue'[d]) \in Nat
            BY <3>1, <1>1, <1>2 DEF TypeInv, TypeOK
          <5> QED
            BY <2>1, <3>1
        <4> QED
          BY <1>1, <2>1, <3>1, <4>1 DEF InFlight
      <3>2. CASE d # c
        BY <2>2, <3>2 DEF EntryInv
      <3> QED
        BY <3>1, <3>2
    <2>5. handler'[x.by] = handler[x.by] /\ phase' = phase
      BY <1>2, <1>3, <2>3, <2>4
    <2>6. Forge(x.by)' = Forge(x.by)
      BY <2>5 DEF Forge
    <2>7. x.base \subseteq UpdatesOf(x.req.doc)'
      BY <2>2 DEF EntryInv
    <2> QED
      BY <2>2, <2>5, <2>6, <2>7 DEF EntryInv, Busy
  <1>7. ASSUME NEW u \in Handlers PROVE HandlerInv(u)'
    <2>1. CASE u = e.by /\ Busy(u)
      BY <2>1, SMTT(30)
    <2>2. CASE u = e.by /\ ~Busy(u)
      BY <1>4, <2>2, SMTT(30) DEF HandlerInv, Busy
    <2>3. CASE u # e.by
      <3>1. HandlerInv(u) /\ handler'[u] = handler[u]
        BY <1>3, <2>3 DEF InFlight
      <3>2. PICK d : d = handler[u].req.doc
        OBVIOUS
      <3>3. UpdatesOf(d) \subseteq UpdatesOf(d)' /\ Forge(u)' = Forge(u)
        BY <3>1 DEF Forge
      <3> QED
        BY <3>1, <3>2, <3>3 DEF HandlerInv, Busy, RevisionMatches
    <2> QED
      BY <2>1, <2>2, <2>3
  <1>8. \A d \in Cores : \A i, j \in 1..Len(queue'[d]) :
          queue'[d][i].by = queue'[d][j].by => i = j
    <2> SUFFICES ASSUME NEW d \in Cores, NEW i \in 1..Len(queue'[d]),
                        NEW j \in 1..Len(queue'[d]), queue'[d][i].by = queue'[d][j].by
                 PROVE  i = j
      OBVIOUS
    <2>1. PICK k \in 1..Len(queue[d]) :
            queue'[d][i] = queue[d][k] /\ k = (IF d = c THEN i + 1 ELSE i)
      BY <1>5
    <2>2. PICK m \in 1..Len(queue[d]) :
            queue'[d][j] = queue[d][m] /\ m = (IF d = c THEN j + 1 ELSE j)
      BY <1>5
    <2>3. k = m
      BY <2>1, <2>2 DEF InFlight
    <2> QED
      BY <2>1, <2>2, <2>3
  <1>9. \A u \in Handlers : Busy(u)' => phase'[CoreOf[u]] # "down"
    BY <1>2, <1>3, <1>4 DEF InFlight, Busy
  <1>10. \A d \in Cores : phase'[d] = "down" => queue'[d] = <<>>
    BY <1>2 DEF InFlight, TypeInv, TypeOK
  <1>11. \A d \in Cores : \A i \in 1..Len(queue'[d]) : EntryInv(d, queue[d][i])'
    <2> SUFFICES ASSUME NEW d \in Cores, NEW i \in 1..Len(queue'[d]), NEW x, x = queue'[d][i]
                 PROVE  EntryInv(d, x)'
      OBVIOUS
    <2> QED
      BY <1>6
  <1>12. InFlight'
    BY <1>7, <1>8, <1>9, <1>10, <1>11 DEF InFlight
  <1>13. Answered'
    BY <1>2 DEF Answered
  <1> QED
    BY <1>12, <1>13

-----------------------------------------------------------------------------
(* The inductive invariant                                                 *)

LEMMA TablesKept ==
  ASSUME Chain, Keys, UNCHANGED tables
  PROVE  Chain' /\ Keys'
  BY SMTT(30) DEF Chain, Keys, OneOperationPerKey, ShowsItsHistory, ExpectedRevisionHonoured,
         OperationsOf, UpdatesOf, Length, HeadOf, tables

\* A read is answered from the tables as they are: history and key rows that
\* the handler relies on from now on.
LEMMA ReadServed ==
  ASSUME TypeInv, Keys, InFlight, Answered, NEW c \in Cores,
         ServeIdempotency(c) \/ ServeLoadUpdates(c) \/ ServeLogHead(c)
  PROVE  InFlight' /\ Answered'
  <1>1. queue[c] # <<>> /\ UNCHANGED tables
    BY DEF ServeIdempotency, ServeLoadUpdates, ServeLogHead, Serving
  <1>2. PICK e : e = Head(queue[c])
    OBVIOUS
  <1>3. EntryInv(c, e) /\ e.by \in Handlers
    <2>1. queue[c] \in Seq(Entry) /\ Len(queue[c]) \in Nat
      BY DEF TypeInv, TypeOK
    <2>2. e = queue[c][1] /\ 1 \in 1..Len(queue[c])
      BY <1>1, <1>2, <2>1
    <2>3. e \in Entry
      BY <2>1, <2>2
    <2> QED
      BY <2>2, <2>3 DEF InFlight, Entry
  <1>4. PICK s : s = handler[e.by]
    OBVIOUS
  <1>5. s \in HandlerState /\ HandlerInv(e.by)
    BY <1>3, <1>4 DEF TypeInv, TypeOK, InFlight
  <1>6. \A d : UpdatesOf(d)' = UpdatesOf(d)
    BY <1>1 DEF UpdatesOf, tables
  <1>7. ASSUME NEW r, Reply(c, e, r), r.pc = s.pc, r.req = s.req,
               Busy(e.by) =>
                 /\ s.pc \notin {"head", "commit"} => r.base \subseteq UpdatesOf(s.req.doc)
                 /\ s.pc = "head" => r.base = s.base
                 /\ r.pc # "commit"
                 /\ r.pc \in {"precheck", "recheck"} /\ r.cause = "NONE" /\ r.found # {} =>
                      \E k \in idempotencyKeys : k.req = s.req /\ r.found = {k.response}
        PROVE  InFlight' /\ Answered'
    <2>1. Busy(e.by) => handler'[e.by] = r
      BY <1>3, <1>7 DEF Reply, Busy, TypeInv, TypeOK
    <2>2. Busy(e.by) => HandlerInv(e.by)'
      <3> SUFFICES ASSUME Busy(e.by) PROVE HandlerInv(e.by)'
        OBVIOUS
      <3>1. handler'[e.by] = r
        BY <2>1
      <3>2. r.base \subseteq UpdatesOf(s.req.doc)
        BY <1>4, <1>5, <1>7 DEF HandlerInv
      <3>3. s.pc = "head" => s.req.expected \in {{}, {Revision(s.base)}}
        BY <1>4, <1>5 DEF HandlerInv, RevisionMatches
      <3> QED
        BY <1>1, <1>6, <1>7, <3>1, <3>2, <3>3 DEF HandlerInv, RevisionMatches, tables
    <2>3. idempotencyKeys \subseteq idempotencyKeys' /\ \A d : UpdatesOf(d) \subseteq UpdatesOf(d)'
      BY <1>1, <1>6 DEF tables
    <2> QED
      BY <1>1, <1>2, <1>4, <1>7, <2>2, <2>3, ReplyInFlight
  <1>8. CASE ServeIdempotency(c)
    <2> DEFINE other == {k \in RowsFor(e.req) : k.req # e.req}
    <2>1. PICK r : r = [s EXCEPT !.replied = TRUE,
                          !.cause = IF other # {} THEN "IDEMPOTENCY_CONFLICT" ELSE "NONE",
                          !.found = {k.response : k \in RowsFor(e.req)}]
      OBVIOUS
    <2>2. Reply(c, e, r) /\ e.call \in {"precheck", "recheck"}
      BY <1>2, <1>4, <1>8, <2>1 DEF ServeIdempotency, Serving
    <2>3. /\ r.pc = s.pc /\ r.req = s.req /\ r.base = s.base
          /\ r.found = {k.response : k \in RowsFor(e.req)}
          /\ r.cause = "NONE" => other = {}
      BY <1>5, <2>1 DEF HandlerState
    <2>4. Busy(e.by) => s.pc = e.call /\ s.req = e.req /\ s.base \subseteq UpdatesOf(s.req.doc)
      BY <1>3, <1>4, <1>5 DEF EntryInv, HandlerInv
    <2>5. ASSUME Busy(e.by), r.cause = "NONE", r.found # {}
          PROVE  \E k \in idempotencyKeys : k.req = s.req /\ r.found = {k.response}
      <3>1. PICK k \in RowsFor(e.req) : TRUE
        BY <2>3, <2>5
      <3>2. k \in idempotencyKeys /\ k.req = e.req
        BY <2>3, <2>5, <3>1 DEF RowsFor
      <3>3. RowsFor(e.req) = {k}
        BY <3>1, <3>2 DEF RowsFor, Keys, SameKey
      <3> QED
        BY <2>3, <2>4, <2>5, <3>2, <3>3
    <2> QED
      BY <1>7, <2>2, <2>3, <2>4, <2>5
  <1>9. CASE ServeLoadUpdates(c)
    <2>1. PICK r : r = [s EXCEPT !.replied = TRUE, !.cause = "NONE",
                                 !.base = UpdatesOf(e.req.doc)]
      OBVIOUS
    <2>2. Reply(c, e, r) /\ e.call = "load"
      BY <1>2, <1>4, <1>9, <2>1 DEF ServeLoadUpdates, Serving
    <2>3. r.pc = s.pc /\ r.req = s.req /\ r.base = UpdatesOf(e.req.doc)
      BY <1>5, <2>1 DEF HandlerState
    <2>4. Busy(e.by) => s.pc = "load" /\ s.req = e.req
      BY <1>3, <1>4, <2>2 DEF EntryInv
    <2> QED
      BY <1>7, <2>2, <2>3, <2>4
  <1>10. CASE ServeLogHead(c)
    <2>1. PICK r : r = [s EXCEPT !.replied = TRUE, !.cause = "NONE",
                                 !.head = HeadOf(e.req.doc)]
      OBVIOUS
    <2>2. Reply(c, e, r) /\ e.call = "head"
      BY <1>2, <1>4, <1>10, <2>1 DEF ServeLogHead, Serving
    <2>3. r.pc = s.pc /\ r.req = s.req /\ r.base = s.base
      BY <1>5, <2>1 DEF HandlerState
    <2>4. Busy(e.by) => s.pc = "head"
      BY <1>3, <1>4, <2>2 DEF EntryInv
    <2> QED
      BY <1>7, <2>2, <2>3, <2>4
  <1> QED
    BY <1>8, <1>9, <1>10

\* A commit, accepted or refused, keeps every part of the invariant.
LEMMA CommitServed ==
  ASSUME TypeInv, TypeInv', Chain, Keys, InFlight, Answered, NEW c \in Cores,
         ServeCommitLocal(c)
  PROVE  Chain' /\ Keys' /\ InFlight' /\ Answered'
  <1>1. queue[c] # <<>>
    BY DEF ServeCommitLocal, Serving
  <1>2. PICK e : e = Head(queue[c])
    OBVIOUS
  <1>3. EntryInv(c, e) /\ e \in Entry /\ e.by \in Handlers
    <2>1. queue[c] \in Seq(Entry) /\ Len(queue[c]) \in Nat
      BY DEF TypeInv, TypeOK
    <2>2. e = queue[c][1] /\ 1 \in 1..Len(queue[c])
      BY <1>1, <1>2, <2>1
    <2>3. e \in Entry
      BY <2>1, <2>2
    <2> QED
      BY <2>2, <2>3 DEF InFlight, Entry
  <1>4. PICK s : s = handler[e.by]
    OBVIOUS
  <1>5. PICK op \in e.op :
          /\ Reply(c, e, [s EXCEPT !.replied = TRUE, !.cause = CommitCause(op, e.base)])
          /\ IF CommitCause(op, e.base) = "NONE" THEN Write(op, e.base) ELSE UNCHANGED tables
    BY <1>2, <1>4 DEF ServeCommitLocal
  <1>6. PICK r : r = [s EXCEPT !.replied = TRUE, !.cause = CommitCause(op, e.base)]
    OBVIOUS
  <1>7. /\ s \in HandlerState /\ HandlerInv(e.by) /\ Reply(c, e, r)
        /\ r.pc = s.pc /\ r.req = s.req /\ r.base = s.base /\ r.head = s.head
        /\ r.cause = CommitCause(op, e.base)
    <2>1. s \in HandlerState /\ HandlerInv(e.by)
      BY <1>3, <1>4 DEF TypeInv, TypeOK, InFlight
    <2> QED
      BY <1>5, <1>6, <2>1 DEF HandlerState
  <1>8. /\ op \in Operation /\ op.req = e.req /\ e.op = {op}
        /\ op.seq = 0 => op.backlink = {}
        /\ op.req.expected \in {{}, {Revision(e.base)}}
        /\ e.base \subseteq UpdatesOf(op.req.doc)
        /\ e.call = "commit"
    <2>1. e.call = "commit"
      BY <1>2 DEF ServeCommitLocal, Serving
    <2>2. e.op \subseteq Operation
      BY <1>3 DEF Entry
    <2> QED
      BY <1>3, <1>5, <2>1, <2>2 DEF EntryInv
  <1>9. Busy(e.by) => s.pc = "commit" /\ s.req = e.req /\ s.base = e.base /\ op = Forge(e.by)
    BY <1>3, <1>4, <1>8 DEF EntryInv
  <1>10. ASSUME idempotencyKeys \subseteq idempotencyKeys',
                \A d : UpdatesOf(d) \subseteq UpdatesOf(d)',
                r.cause = "NONE" => \E k \in idempotencyKeys' :
                  k.req = op.req /\ k.response = Prepared(op, e.base)
         PROVE  InFlight' /\ Answered'
    <2>1. Busy(e.by) => HandlerInv(e.by)'
      <3> SUFFICES ASSUME Busy(e.by) PROVE HandlerInv(e.by)'
        OBVIOUS
      <3>1. handler'[e.by] = r
        BY <1>3, <1>7 DEF Reply, Busy, TypeInv, TypeOK
      <3>2. PICK d : d = s.req.doc
        OBVIOUS
      <3>3. s.base \subseteq UpdatesOf(d)' /\ s.req.expected \in {{}, {Revision(s.base)}}
        BY <1>4, <1>7, <1>8, <1>9, <1>10, <3>2 DEF HandlerInv
      <3>4. Forge(e.by)' = op
        BY <1>4, <1>7, <1>9, <3>1 DEF Forge
      <3> QED
        BY <1>7, <1>8, <1>9, <1>10, <3>1, <3>2, <3>3, <3>4 DEF HandlerInv, RevisionMatches
    <2> QED
      BY <1>1, <1>2, <1>4, <1>7, <1>10, <2>1, ReplyInFlight
  <1>11. CASE CommitCause(op, e.base) # "NONE"
    <2>1. UNCHANGED tables
      BY <1>5, <1>11
    <2>2. idempotencyKeys' = idempotencyKeys /\ \A d : UpdatesOf(d)' = UpdatesOf(d)
      BY <2>1 DEF UpdatesOf, tables
    <2> QED
      BY <1>7, <1>10, <1>11, <2>1, <2>2, TablesKept
  <1>12. CASE CommitCause(op, e.base) = "NONE"
    <2>1. Write(op, e.base)
      BY <1>5, <1>12
    <2>2. Chain'
      BY <1>8, <1>12, <2>1, CommitChain
    <2>3. Keys'
      BY <1>8, <1>12, <2>1, CommitKeys
    <2>4. idempotencyKeys \subseteq idempotencyKeys' /\ \A d : UpdatesOf(d) \subseteq UpdatesOf(d)'
      BY <2>1, CommitGrows
    <2>5. \E k \in idempotencyKeys' : k.req = op.req /\ k.response = Prepared(op, e.base)
      <3>1. PICK k : k = [req |-> op.req, response |-> Prepared(op, e.base)]
        OBVIOUS
      <3>2. k \in idempotencyKeys' /\ k.req = op.req /\ k.response = Prepared(op, e.base)
        BY <2>1, <3>1 DEF Write
      <3> QED
        BY <3>2
    <2>6. r.cause = "NONE" => \E k \in idempotencyKeys' :
            k.req = op.req /\ k.response = Prepared(op, e.base)
      BY <2>5
    <2>7. InFlight' /\ Answered'
      BY <1>10, <2>4, <2>6
    <2> QED
      BY <2>2, <2>3, <2>7
  <1> QED
    BY <1>11, <1>12

\* Shutdown, crash and restart: what is left in flight is still true of the
\* tables, because only the queue and the handlers of that core are dropped.
LEMMA LifecycleInFlight ==
  ASSUME TypeInv, InFlight, NEW c \in Cores, AbortAll(c) \/ Stop(c) \/ Start(c)
  PROVE  InFlight'
  <1>1. UNCHANGED tables /\ \A d : UpdatesOf(d)' = UpdatesOf(d)
    BY DEF AbortAll, Stop, Start, UpdatesOf, tables
  <1>2. /\ \A d \in Cores : d # c => phase'[d] = phase[d] /\ queue'[d] = queue[d]
        /\ phase[c] = "down" => queue[c] = <<>> /\ queue'[c] = <<>>
        /\ queue'[c] = queue[c] \/ queue'[c] = <<>>
        /\ phase'[c] = "up" => queue'[c] = <<>>
        /\ phase'[c] = "down" => queue'[c] = <<>>
    BY DEF AbortAll, Stop, Start, TypeInv, TypeOK, InFlight
  <1>3. \A t \in Handlers :
          \/ handler'[t] = handler[t] /\ (CoreOf[t] = c => phase'[c] # "down" \/ ~Busy(t))
          \/ CoreOf[t] = c /\ handler'[t] = Idle /\ phase'[c] = "down"
    BY DEF AbortAll, Stop, Start, TypeInv, TypeOK, InFlight
  <1>4. ASSUME NEW d \in Cores, NEW i \in 1..Len(queue'[d]), NEW x, x = queue'[d][i]
        PROVE  EntryInv(d, x)'
    <2>1. queue'[d] = queue[d] /\ (phase'[d] # "up" \/ d # c)
      BY <1>2, <1>4
    <2>2. EntryInv(d, x) /\ x.by \in Handlers
      <3>1. queue[d] \in Seq(Entry)
        BY DEF TypeInv, TypeOK
      <3>2. i \in 1..Len(queue[d]) /\ x = queue[d][i]
        BY <1>4, <2>1
      <3>3. x \in Entry
        BY <3>1, <3>2
      <3> QED
        BY <3>2, <3>3 DEF InFlight, Entry
    <2>3. handler'[x.by] = handler[x.by]
      <3>1. CoreOf[x.by] = d
        BY <2>2 DEF EntryInv
      <3>2. ~(d = c /\ phase'[c] = "down")
        BY <1>2, <1>4
      <3> QED
        BY <1>3, <2>2, <3>1, <3>2
    <2>4. phase'[d] = "up" => phase[d] = "up"
      BY <1>2, <2>1
    <2>5. Forge(x.by)' = Forge(x.by) /\ x.base \subseteq UpdatesOf(x.req.doc)'
      BY <1>1, <2>2, <2>3 DEF Forge, EntryInv
    <2> QED
      BY <2>2, <2>3, <2>4, <2>5 DEF EntryInv, Busy
  <1>5. ASSUME NEW t \in Handlers PROVE HandlerInv(t)'
    <2>1. CASE handler'[t] = handler[t]
      <3>1. HandlerInv(t) /\ Forge(t)' = Forge(t)
        BY <2>1 DEF InFlight, Forge
      <3> QED
        BY <1>1, <2>1, <3>1 DEF HandlerInv, Busy, RevisionMatches, tables
    <2>2. CASE handler'[t] = Idle
      BY <2>2, IdleTyped DEF HandlerInv, Busy
    <2> QED
      BY <1>3, <2>1, <2>2
  <1>6. \A d \in Cores : \A i, j \in 1..Len(queue'[d]) :
          queue'[d][i].by = queue'[d][j].by => i = j
    <2> SUFFICES ASSUME NEW d \in Cores, NEW i \in 1..Len(queue'[d]),
                        NEW j \in 1..Len(queue'[d]), queue'[d][i].by = queue'[d][j].by
                 PROVE  i = j
      OBVIOUS
    <2>1. queue'[d] = queue[d]
      BY <1>2
    <2> QED
      BY <2>1 DEF InFlight
  <1>7. \A t \in Handlers : Busy(t)' => phase'[CoreOf[t]] # "down"
    <2> SUFFICES ASSUME NEW t \in Handlers, handler'[t].pc # "idle"
                 PROVE  phase'[CoreOf[t]] # "down"
      BY DEF Busy
    <2>1. handler'[t] = handler[t] /\ (CoreOf[t] = c => phase'[c] # "down" \/ ~Busy(t))
      BY <1>3, IdleTyped
    <2> QED
      BY <1>2, <2>1, CoreAssumption DEF InFlight, Busy
  <1>8. \A d \in Cores : phase'[d] = "down" => queue'[d] = <<>>
    BY <1>2 DEF InFlight
  <1>9. \A d \in Cores : \A i \in 1..Len(queue'[d]) : EntryInv(d, queue[d][i])'
    <2> SUFFICES ASSUME NEW d \in Cores, NEW i \in 1..Len(queue'[d]), NEW x, x = queue'[d][i]
                 PROVE  EntryInv(d, x)'
      OBVIOUS
    <2> QED
      BY <1>4
  <1> QED
    BY <1>5, <1>6, <1>7, <1>8, <1>9 DEF InFlight

LEMMA InitInvariant == Init => IInv
  <1> SUFFICES ASSUME Init PROVE IInv
    OBVIOUS
  <1>1. TypeInv
    BY InitTyped
  <1>2. \A d : UpdatesOf(d) = {} /\ HeadOf(d) = {} /\ Length(d) = 0
    BY DEF Init, UpdatesOf, HeadOf, Length, NextSeq
  <1>3. Chain
    BY <1>2, FS_EmptySet DEF Init, Chain
  <1>4. Keys
    BY DEF Init, Keys, OneOperationPerKey, ShowsItsHistory, ExpectedRevisionHonoured
  <1>5. InFlight
    BY IdleTyped DEF Init, InFlight, HandlerInv, Busy
  <1>6. Answered
    BY DEF Init, Answered
  <1> QED
    BY <1>1, <1>3, <1>4, <1>5, <1>6 DEF IInv

\* Every step keeps the inductive invariant.
LEMMA StepInvariant == IInv /\ [Next]_vars => IInv'
  <1> SUFFICES ASSUME TypeInv, Chain, Keys, InFlight, Answered, [Next]_vars
               PROVE  IInv'
    BY DEF IInv
  <1>1. TypeInv'
    BY StepTyped
  <1>2. ASSUME UNCHANGED tables, InFlight', Answered' PROVE IInv'
    BY <1>1, <1>2, TablesKept DEF IInv
  <1>3. ASSUME NEW t \in Handlers, NEW r \in Requests, Begin(t, r) PROVE IInv'
    <2>1. PICK s : s = [Idle EXCEPT !.req = r]
      OBVIOUS
    <2>2. s \in HandlerState /\ s.base = {}
      BY <2>1 DEF Idle, HandlerState, Causes
    <2>3. /\ Ask(t, s, "precheck", {}) /\ phase[CoreOf[t]] = "up" /\ ~Busy(t)
          /\ "precheck" \in Waiting \ {"head", "commit"} /\ {} \in SUBSET Operation
      BY <1>3, <2>1 DEF Begin, Busy, Waiting
    <2>4. InFlight'
      BY <2>2, <2>3, AskInFlight
    <2>5. UNCHANGED tables /\ Answered'
      BY <2>3 DEF Ask, Answered, tables
    <2> QED
      BY <1>2, <2>4, <2>5
  <1>4. ASSUME NEW t \in Handlers, HandlerStep(t) PROVE IInv'
    <2>1. UNCHANGED tables
      BY <1>4 DEF HandlerStep, Fail, Replay, WantLock, Acquire, LoadUpdates, RefuseRevision,
                  RefuseStaging, Stage, RefuseSequence, Submit, Acknowledge, Finish, Ask
    <2> QED
      BY <1>2, <1>4, <2>1, HandlerStepInFlight
  <1>5. ASSUME NEW t \in Handlers, Cancel(t) PROVE IInv'
    <2>1. /\ handler' = [handler EXCEPT ![t] = Idle] /\ phase[CoreOf[t]] # "up"
          /\ UNCHANGED <<tables, phase, queue, answers>>
      BY <1>5 DEF Cancel
    <2>2. \A d \in Cores : \A i \in 1..Len(queue[d]) : queue[d][i].by = t => phase[d] # "up"
      BY <2>1 DEF InFlight, EntryInv
    <2>3. \A u \in Handlers : handler'[u] = handler[u] \/ (u = t /\ handler'[u] = Idle)
      BY <2>1 DEF TypeInv, TypeOK
    <2>4. InFlight'
      BY <2>1, <2>2, <2>3, HandlersInFlight
    <2>5. Answered'
      BY <2>1 DEF Answered, tables
    <2> QED
      BY <1>2, <2>1, <2>4, <2>5
  <1>6. ASSUME NEW c \in Cores, AbortAll(c) \/ Stop(c) \/ Start(c) PROVE IInv'
    <2>1. UNCHANGED tables /\ Answered'
      BY <1>6 DEF AbortAll, Stop, Start, Answered, tables
    <2> QED
      BY <1>2, <1>6, <2>1, LifecycleInFlight
  <1>7. ASSUME NEW c \in Cores, StoreStep(c) PROVE IInv'
    <2>1. CASE ServeIdempotency(c) \/ ServeLoadUpdates(c) \/ ServeLogHead(c)
      <3>1. UNCHANGED tables
        BY <2>1 DEF ServeIdempotency, ServeLoadUpdates, ServeLogHead
      <3> QED
        BY <1>2, <2>1, <3>1, ReadServed
    <2>2. CASE ServeCommitLocal(c)
      BY <1>1, <2>2, CommitServed DEF IInv
    <2> QED
      BY <1>7, <2>1, <2>2 DEF StoreStep
  <1>8. CASE UNCHANGED vars
    <2>1. UNCHANGED <<tables, queue, phase, answers>> /\ handler' = handler
      BY <1>8 DEF vars
    <2>2. InFlight'
      BY <2>1, HandlersInFlight
    <2>3. Answered'
      BY <2>1 DEF Answered, tables
    <2> QED
      BY <1>2, <2>1, <2>2, <2>3
  <1> QED
    BY <1>3, <1>4, <1>5, <1>6, <1>7, <1>8 DEF Next

LEMMA Invariance == Spec => []IInv
  BY InitInvariant, StepInvariant, PTL DEF Spec

-----------------------------------------------------------------------------
(* Theorems                                                                *)

\* The chain said row by row is the chain of LogIsChain.
LEMMA ChainIsLogIsChain == TypeInv /\ Chain => LogIsChain
  <1> SUFFICES ASSUME TypeInv, Chain, NEW d \in Docs
               PROVE  /\ \A o, p \in OperationsOf(d) : o.seq = p.seq => o = p
                      /\ {o.seq : o \in OperationsOf(d)} = {i \in 0..MaxSequence : i < Length(d)}
                      /\ \A o \in OperationsOf(d) :
                           o.backlink = {p.hash : p \in {q \in OperationsOf(d) : q.seq + 1 = o.seq}}
                      /\ \A h \in HeadOf(d) :
                           \E o \in OperationsOf(d) : o.hash = h.hash /\ o.seq = h.seq
                      /\ Cardinality(UpdatesOf(d)) = Length(d)
    BY DEF LogIsChain
  <1>1. \A o, p \in OperationsOf(d) : o.seq = p.seq => o = p
    BY DEF Chain, OperationsOf
  <1>2. {o.seq : o \in OperationsOf(d)} = {i \in 0..MaxSequence : i < Length(d)}
    <2>1. \A o \in operations : o.seq \in 0..MaxSequence
      BY DEF TypeInv, TypeOK, Operation
    <2>2. CASE Length(d) = 0 /\ \A h \in logHeads : h.doc # d
      <3>1. OperationsOf(d) = {}
        BY <2>2 DEF Chain, OperationsOf
      <3> QED
        BY <2>2, <3>1, BoundAssumption
    <2>3. CASE \E h \in logHeads : h.doc = d /\ h.seq \in Nat /\ Length(d) = h.seq + 1
      <3>1. PICK h \in logHeads : h.doc = d /\ h.seq \in Nat /\ Length(d) = h.seq + 1
        BY <2>3
      <3>2. h.seq \in 0..MaxSequence
        BY DEF TypeInv, TypeOK
      <3>3. ASSUME NEW o \in OperationsOf(d) PROVE o.seq \in 0..MaxSequence /\ o.seq < Length(d)
        <4>1. o \in operations /\ o.req.doc = d
          BY DEF OperationsOf
        <4>2. o.seq <= h.seq /\ o.seq \in 0..MaxSequence
          BY <2>1, <3>1, <4>1 DEF Chain
        <4> QED
          BY <3>1, <4>2, BoundAssumption
      <3>4. ASSUME NEW i \in 0..MaxSequence, i < Length(d)
            PROVE  \E o \in OperationsOf(d) : o.seq = i
        <4>1. i \in 0..h.seq
          BY <3>1, <3>4, BoundAssumption
        <4> QED
          BY <3>1, <4>1 DEF Chain, OperationsOf
      <3> QED
        BY <3>3, <3>4
    <2> QED
      BY <2>2, <2>3, HeadLength
  <1>3. \A o \in OperationsOf(d) :
          o.backlink = {p.hash : p \in {q \in OperationsOf(d) : q.seq + 1 = o.seq}}
    <2> SUFFICES ASSUME NEW o \in operations, o.req.doc = d
                 PROVE  o.backlink = {p.hash : p \in {q \in OperationsOf(d) : q.seq + 1 = o.seq}}
      BY DEF OperationsOf
    <2> QED
      BY DEF Chain
  <1>4. \A h \in HeadOf(d) : \E o \in OperationsOf(d) : o.hash = h.hash /\ o.seq = h.seq
    BY DEF Chain, HeadOf, OperationsOf
  <1>5. Cardinality(UpdatesOf(d)) = Length(d)
    BY DEF Chain
  <1> QED
    BY <1>1, <1>2, <1>3, <1>4, <1>5

\* Every table, queue and handler of every core stays well formed: rows,
\* sequence numbers within their width, requests, responses and error codes.
THEOREM TypeCorrect == Spec => []TypeOK
  <1>1. IInv => TypeOK
    BY DEF IInv, TypeInv
  <1> QED
    BY <1>1, Invariance, PTL

\* commit_local keeps the signed log of every document a gapless, unforked
\* hash chain that agrees with its head row and its history rows.
THEOREM LogChained == Spec => []LogIsChain
  <1>1. IInv => LogIsChain
    BY ChainIsLogIsChain DEF IInv
  <1> QED
    BY <1>1, Invariance, PTL

\* An idempotency key is spent by at most one operation, and no commit is
\* partial: the five tables name the same operations.
THEOREM KeySpentOnce == Spec => []OneOperationPerKey
  <1>1. IInv => OneOperationPerKey
    BY DEF IInv, Keys
  <1> QED
    BY <1>1, Invariance, PTL

\* A success told to a caller is in the database, for good.
THEOREM AnswersDurable == Spec => []AnswersAreDurable
  <1>1. IInv => AnswersAreDurable
    <2> SUFFICES ASSUME Keys, Answered, NEW a \in answers, a.code = "NONE"
                 PROVE  \E k \in idempotencyKeys, o \in operations :
                          /\ k.req = a.req /\ a.response = {k.response}
                          /\ o.req = a.req /\ o.hash = k.response.hash
                          /\ o.seq + 1 = k.response.revision
      BY DEF IInv, AnswersAreDurable
    <2>1. PICK k \in idempotencyKeys : k.req = a.req /\ a.response = {k.response}
      BY DEF Answered
    <2>2. \E o \in operations :
            o.req = k.req /\ o.hash = k.response.hash /\ o.seq + 1 = k.response.revision
      BY DEF Keys
    <2> QED
      BY <2>1, <2>2
  <1> QED
    BY <1>1, Invariance, PTL

\* A response shows exactly the updates that precede its operation and itself:
\* the state was staged on no stale and on no foreign history.
THEOREM ResponseShowsHistory == Spec => []ShowsItsHistory
  <1>1. IInv => ShowsItsHistory
    BY DEF IInv, Keys
  <1> QED
    BY <1>1, Invariance, PTL

\* An operation asked for at a revision was committed at that revision.
THEOREM RevisionHonoured == Spec => []ExpectedRevisionHonoured
  <1>1. IInv => ExpectedRevisionHonoured
    BY DEF IInv, Keys
  <1> QED
    BY <1>1, Invariance, PTL

\* The only step that writes a table is an accepted commit, which answers nobody.
LEMMA TablesStep ==
  ASSUME IInv, [Next]_vars
  PROVE  \/ UNCHANGED tables
         \/ /\ UNCHANGED answers
            /\ \E op \in Operation : \E base :
                 /\ CommitCause(op, base) = "NONE" /\ Write(op, base)
                 /\ base \subseteq UpdatesOf(op.req.doc)
                 /\ op.req.expected \in {{}, {Revision(base)}}
                 /\ op.seq = 0 => op.backlink = {}
  <1>1. ASSUME NEW c \in Cores, ServeCommitLocal(c), ~UNCHANGED tables
        PROVE  /\ UNCHANGED answers
               /\ \E op \in Operation : \E base :
                    /\ CommitCause(op, base) = "NONE" /\ Write(op, base)
                    /\ base \subseteq UpdatesOf(op.req.doc)
                    /\ op.req.expected \in {{}, {Revision(base)}}
                    /\ op.seq = 0 => op.backlink = {}
    <2>1. PICK e : e = Head(queue[c])
      OBVIOUS
    <2>2. PICK op \in e.op : CommitCause(op, e.base) = "NONE" /\ Write(op, e.base)
      BY <1>1, <2>1 DEF ServeCommitLocal
    <2>3. e.call = "commit" /\ queue[c] # <<>> /\ UNCHANGED answers
      BY <1>1, <2>1 DEF ServeCommitLocal, Serving, Reply
    <2>4. e \in Entry /\ EntryInv(c, e)
      <3>1. queue[c] \in Seq(Entry) /\ Len(queue[c]) \in Nat
        BY DEF IInv, TypeInv, TypeOK
      <3>2. e = queue[c][1] /\ 1 \in 1..Len(queue[c])
        BY <2>1, <2>3, <3>1
      <3> QED
        BY <3>1, <3>2 DEF IInv, InFlight
    <2>5. op \in Operation
      BY <2>4 DEF Entry
    <2>6. /\ e.base \subseteq UpdatesOf(op.req.doc)
          /\ op.req.expected \in {{}, {Revision(e.base)}}
          /\ op.seq = 0 => op.backlink = {}
      BY <2>2, <2>3, <2>4 DEF EntryInv
    <2> QED
      BY <2>2, <2>3, <2>5, <2>6
  <1>2. ASSUME NEW t \in Handlers, HandlerStep(t) PROVE UNCHANGED tables
    BY <1>2 DEF HandlerStep, Fail, Replay, WantLock, Acquire, LoadUpdates, RefuseRevision,
                RefuseStaging, Stage, RefuseSequence, Submit, Acknowledge, Finish, Ask
  <1>3. ASSUME NEW t \in Handlers, NEW r \in Requests, Begin(t, r) PROVE UNCHANGED tables
    BY <1>3 DEF Begin, Ask
  <1>4. ASSUME NEW c \in Cores, AbortAll(c) \/ Stop(c) \/ Start(c) PROVE UNCHANGED tables
    BY <1>4 DEF AbortAll, Stop, Start
  <1>5. ASSUME NEW c \in Cores, ServeIdempotency(c) \/ ServeLoadUpdates(c) \/ ServeLogHead(c)
        PROVE  UNCHANGED tables
    BY <1>5 DEF ServeIdempotency, ServeLoadUpdates, ServeLogHead
  <1>6. ASSUME NEW t \in Handlers, Cancel(t) PROVE UNCHANGED tables
    BY <1>6 DEF Cancel
  <1>7. CASE UNCHANGED vars
    BY <1>7 DEF vars
  <1> QED
    BY <1>1, <1>2, <1>3, <1>4, <1>5, <1>6, <1>7 DEF Next, StoreStep

LEMMA LengthStep ==
  ASSUME IInv, IInv', [Next]_vars
  PROVE  \/ UNCHANGED tables /\ \A d \in Docs : Length(d)' = Length(d)
         \/ /\ UNCHANGED answers
            /\ \E op \in Operation : \E base :
                 /\ Write(op, base) /\ RowsFor(op.req) = {}
                 /\ op.req.expected \in {{}, {op.seq}} /\ Length(op.req.doc) = op.seq
                 /\ \A d \in Docs :
                      Length(d)' = IF d = op.req.doc THEN Length(d) + 1 ELSE Length(d)
  <1>1. CASE UNCHANGED tables
    BY <1>1 DEF Length, HeadOf, tables
  <1>2. ASSUME NEW op \in Operation, NEW base,
               CommitCause(op, base) = "NONE", Write(op, base),
               base \subseteq UpdatesOf(op.req.doc),
               op.req.expected \in {{}, {Revision(base)}},
               op.seq = 0 => op.backlink = {}
        PROVE  /\ RowsFor(op.req) = {}
               /\ op.req.expected \in {{}, {op.seq}} /\ Length(op.req.doc) = op.seq
               /\ \A d \in Docs :
                    Length(d)' = IF d = op.req.doc THEN Length(d) + 1 ELSE Length(d)
    <2>1. /\ Cardinality(base) = op.seq /\ Length(op.req.doc) = op.seq
          /\ RowsFor(op.req) = {}
      BY <1>2, CommitFacts DEF IInv
    <2>2. \A d \in Docs : Length(d)' = IF d = op.req.doc THEN Length(d) + 1 ELSE Length(d)
      BY <1>2, CommitChain DEF IInv
    <2> QED
      BY <1>2, <2>1, <2>2 DEF Revision
  <1> QED
    BY <1>1, <1>2, TablesStep

\* Rows of the log, the history, the outbox and the key table are never changed
\* or removed, and a step lengthens a log by at most one operation.
THEOREM HistoryGrows == Spec => HistoryOnlyGrows
  <1>1. ASSUME IInv, IInv', [Next]_vars
        PROVE  [/\ operations \subseteq operations' /\ documentUpdates \subseteq documentUpdates'
                /\ idempotencyKeys \subseteq idempotencyKeys' /\ durableOutbox \subseteq durableOutbox'
                /\ \A d \in Docs : Length(d)' \in {Length(d), Length(d) + 1}]_vars
    <2>1. CASE UNCHANGED tables /\ \A d \in Docs : Length(d)' = Length(d)
      BY <2>1 DEF tables
    <2>2. ASSUME NEW op, NEW base, Write(op, base),
                 \A d \in Docs :
                   Length(d)' = IF d = op.req.doc THEN Length(d) + 1 ELSE Length(d)
          PROVE  /\ operations \subseteq operations' /\ documentUpdates \subseteq documentUpdates'
                 /\ idempotencyKeys \subseteq idempotencyKeys' /\ durableOutbox \subseteq durableOutbox'
                 /\ \A d \in Docs : Length(d)' \in {Length(d), Length(d) + 1}
      BY <2>2, CommitGrows
    <2> QED
      BY <1>1, <2>1, <2>2, LengthStep
  <1> QED
    BY <1>1, Invariance, PTL DEF HistoryOnlyGrows, Spec

\* The refinement mapping, by name.
Revisions == [d \in Docs |-> Length(d)]
Applied == {[req |-> o.req, revision |-> o.seq + 1] : o \in operations}
Shown(a) == [req |-> a.req, revision |-> (CHOOSE r \in a.response : TRUE).revision]
Acknowledged == {Shown(a) : a \in {b \in answers : b.code = "NONE"}}

\* An accepted commit is one abstract write.
LEMMA CommitApplies ==
  ASSUME IInv, NEW op \in Operation, NEW base, Write(op, base), RowsFor(op.req) = {},
         op.req.expected \in {{}, {op.seq}}, Length(op.req.doc) = op.seq,
         \A d \in Docs : Length(d)' = IF d = op.req.doc THEN Length(d) + 1 ELSE Length(d),
         UNCHANGED answers
  PROVE  Abstract!Apply(op.req)
  <1>1. op.req \in Requests /\ op.req.doc \in Docs
    BY RequestAssumption DEF Operation
  <1>2. \A a \in Applied : ~Abstract!SameKey(a.req, op.req)
    <2> SUFFICES ASSUME NEW o \in operations PROVE ~Abstract!SameKey(o.req, op.req)
      BY DEF Applied
    <2>1. <<o.req, o.hash>> \in {<<k.req, k.response.hash>> : k \in idempotencyKeys}
      BY DEF IInv, Keys, OneOperationPerKey
    <2>2. PICK k \in idempotencyKeys : k.req = o.req
      BY <2>1
    <2> QED
      BY <2>2 DEF RowsFor, SameKey, Abstract!SameKey
  <1>3. op.req.expected \in {{}, {Revisions[op.req.doc]}}
    BY <1>1 DEF Revisions
  <1>4. Revisions' = [Revisions EXCEPT ![op.req.doc] = @ + 1]
    BY <1>1 DEF Revisions
  <1>5. Applied' = Applied \cup {[req |-> op.req, revision |-> Revisions[op.req.doc] + 1]}
    <2>1. operations' = operations \cup {op}
      BY DEF Write
    <2>2. Revisions[op.req.doc] = op.seq
      BY <1>1 DEF Revisions
    <2> QED
      BY <2>1, <2>2 DEF Applied
  <1>6. Acknowledged' = Acknowledged
    BY DEF Acknowledged
  <1> QED
    BY <1>2, <1>3, <1>4, <1>5, <1>6 DEF Abstract!Apply, Revisions, Applied, Acknowledged, Shown

\* Between commits the answers grow by at most one.
LEMMA AnswersStep ==
  ASSUME [Next]_vars
  PROVE  UNCHANGED answers \/ \E a : answers' = answers \cup {a}
  <1>1. ASSUME NEW t \in Handlers, HandlerStep(t)
        PROVE  UNCHANGED answers \/ \E a : answers' = answers \cup {a}
    BY <1>1 DEF HandlerStep, Fail, Replay, WantLock, Acquire, LoadUpdates, RefuseRevision,
                RefuseStaging, Stage, RefuseSequence, Submit, Acknowledge, Finish, Ask
  <1>2. ASSUME NEW t \in Handlers, NEW r \in Requests, Begin(t, r) PROVE UNCHANGED answers
    BY <1>2 DEF Begin, Ask
  <1>3. ASSUME NEW c \in Cores, StoreStep(c) PROVE UNCHANGED answers
    BY <1>3 DEF StoreStep, ServeIdempotency, ServeLoadUpdates, ServeLogHead,
                ServeCommitLocal, Reply
  <1>4. ASSUME NEW c \in Cores, AbortAll(c) \/ Stop(c) \/ Start(c) PROVE UNCHANGED answers
    BY <1>4 DEF AbortAll, Stop, Start
  <1>5. ASSUME NEW t \in Handlers, Cancel(t) PROVE UNCHANGED answers
    BY <1>5 DEF Cancel
  <1>6. CASE UNCHANGED vars
    BY <1>6 DEF vars
  <1> QED
    BY <1>1, <1>2, <1>3, <1>4, <1>5, <1>6 DEF Next

\* A new answer acknowledges an applied write, or says nothing.
LEMMA AnswerAcknowledges ==
  ASSUME IInv, IInv', UNCHANGED tables, \A d \in Docs : Length(d)' = Length(d),
         NEW x, answers' = answers \cup {x}
  PROVE  \/ \E a \in Applied : Abstract!Acknowledge(a)
         \/ UNCHANGED <<Revisions, Applied, Acknowledged>>
  <1>1. Revisions' = Revisions /\ Applied' = Applied
    BY DEF Revisions, Applied, tables
  <1>2. CASE x.code # "NONE"
    <2>1. {b \in answers' : b.code = "NONE"} = {b \in answers : b.code = "NONE"}
      BY <1>2
    <2>2. Acknowledged' = Acknowledged
      BY <2>1 DEF Acknowledged
    <2> QED
      BY <1>1, <2>2
  <1>3. CASE x.code = "NONE"
    <2>1. x \in answers'
      OBVIOUS
    <2>2. PICK k \in idempotencyKeys : k.req = x.req /\ x.response = {k.response}
      BY <1>3, <2>1 DEF IInv, Answered, tables
    <2>3. PICK o \in operations :
            o.req = k.req /\ o.seq + 1 = k.response.revision
      BY DEF IInv, Keys
    <2>4. PICK a : a = Shown(x)
      OBVIOUS
    <2>5. (CHOOSE r \in x.response : TRUE) = k.response
      BY <2>2
    <2>6. a = [req |-> o.req, revision |-> o.seq + 1]
      BY <2>2, <2>3, <2>4, <2>5 DEF Shown
    <2>7. a \in Applied
      BY <2>6 DEF Applied
    <2>8. Acknowledged' = Acknowledged \cup {a}
      <3>1. {b \in answers' : b.code = "NONE"} = {b \in answers : b.code = "NONE"} \cup {x}
        BY <1>3
      <3> QED
        BY <2>4, <3>1 DEF Acknowledged
    <2>9. Abstract!Acknowledge(a)
      BY <1>1, <2>7, <2>8 DEF Abstract!Acknowledge, Revisions, Applied, Acknowledged, Shown
    <2> QED
      BY <2>7, <2>9
  <1> QED
    BY <1>2, <1>3

\* The write path keeps the promise of DurableWrites: through locks, queues,
\* conflicts, cancellation and crashes a caller sees writes applied once, in
\* revision order, and acknowledged after the fact.
THEOREM WritePathImplementsDurableWrites == Spec => ImplementsDurableWrites
  <1>1. Init => Abstract!Init
    <2> SUFFICES ASSUME Init PROVE Abstract!Init
      OBVIOUS
    <2>1. \A d : Length(d) = 0
      BY DEF Init, Length, HeadOf, NextSeq
    <2> QED
      BY <2>1 DEF Init, Abstract!Init
  <1>2. ASSUME IInv, IInv', [Next]_vars PROVE [Abstract!Next]_(Abstract!vars)
    <2>1. ASSUME UNCHANGED <<Revisions, Applied, Acknowledged>>
          PROVE  [Abstract!Next]_(Abstract!vars)
      BY <2>1 DEF Abstract!vars, Revisions, Applied, Acknowledged, Shown
    <2>2. ASSUME UNCHANGED answers, NEW op \in Operation, NEW base,
                 Write(op, base), RowsFor(op.req) = {},
                 op.req.expected \in {{}, {op.seq}}, Length(op.req.doc) = op.seq,
                 \A d \in Docs :
                   Length(d)' = IF d = op.req.doc THEN Length(d) + 1 ELSE Length(d)
          PROVE  [Abstract!Next]_(Abstract!vars)
      <3>1. Abstract!Apply(op.req) /\ op.req \in Requests
        BY <1>2, <2>2, CommitApplies DEF Operation
      <3> QED
        BY <3>1 DEF Abstract!Next
    <2>3. CASE UNCHANGED tables /\ \A d \in Docs : Length(d)' = Length(d)
      <3>1. CASE UNCHANGED answers
        <4>1. UNCHANGED <<Revisions, Applied, Acknowledged>>
          BY <2>3, <3>1 DEF Revisions, Applied, Acknowledged, tables
        <4> QED
          BY <2>1, <4>1
      <3>2. ASSUME NEW x, answers' = answers \cup {x} PROVE [Abstract!Next]_(Abstract!vars)
        <4>1. \/ \E a \in Applied : Abstract!Acknowledge(a)
              \/ UNCHANGED <<Revisions, Applied, Acknowledged>>
          BY <1>2, <2>3, <3>2, AnswerAcknowledges
        <4>2. ASSUME NEW a \in Applied, Abstract!Acknowledge(a) PROVE Abstract!Next
          BY <4>2 DEF Abstract!Next, Applied
        <4> QED
          BY <2>1, <4>1, <4>2
      <3> QED
        BY <1>2, <3>1, <3>2, AnswersStep
    <2> QED
      BY <1>2, <2>2, <2>3, LengthStep
  <1> QED
    BY <1>1, <1>2, Invariance, PTL DEF Spec, ImplementsDurableWrites, Abstract!Spec

-----------------------------------------------------------------------------
(* One core: the lock makes conflicts unreachable                          *)

\* lock_data_dir admits one process: all handlers belong to one core.
OneCore == \A t, u \in Handlers : CoreOf[t] = CoreOf[u]

\* Another document has spent the key.
SpentElsewhere(r) == \E o \in operations : SameKey(o.req, r) /\ o.req.doc # r.doc
\* No request for the same document has spent the key.
KeyFree(r) == \A k \in RowsFor(r) : k.req.doc # r.doc

\* The lock is held, and the reply of the second check of the key has not come yet.
Rechecks(t) == handler[t].pc = "recheck" /\ ~handler[t].replied

OneHolderPerDocument ==
  \A t, u \in Handlers :
    Holds(t) /\ Holds(u) /\ handler[t].req.doc = handler[u].req.doc => t = u

\* A commit of another handler, which was dropped, is in front of the request with
\* which the holder of the lock checks the key again.
DroppedCommitsFirst ==
  \A c \in Cores : \A i \in 1..Len(queue[c]) : queue[c][i].call = "commit" =>
    \A t \in Handlers :
      Holds(t) /\ handler[t].req.doc = queue[c][i].req.doc /\ t # queue[c][i].by =>
        Rechecks(t) /\ \E j \in 1..Len(queue[c]) : i < j /\ queue[c][j].by = t

OneCommitPerDocument ==
  \A c \in Cores : \A i, j \in 1..Len(queue[c]) :
    queue[c][i].call = "commit" /\ queue[c][j].call = "commit"
      /\ queue[c][i].req.doc = queue[c][j].req.doc => i = j

\* What a handler that waits for its commit, or comes before that, has learnt.
HasChecked(t) ==
  \/ handler[t].pc = "recheck" /\ handler[t].replied /\ handler[t].cause = "NONE"
       /\ handler[t].found = {}
  \/ handler[t].pc \in {"load", "head"}
  \/ handler[t].pc = "commit" /\ ~handler[t].replied
HasLoaded(t) ==
  \/ handler[t].pc = "load" /\ handler[t].replied
  \/ handler[t].pc = "head"
  \/ handler[t].pc = "commit" /\ ~handler[t].replied
HasHead(t) ==
  \/ handler[t].pc = "head" /\ handler[t].replied
  \/ handler[t].pc = "commit" /\ ~handler[t].replied

\* What the holder of the lock has read is what the tables still say.
ReadsAreCurrent(t) ==
  /\ HasChecked(t) => KeyFree(handler[t].req)
  /\ HasLoaded(t) => handler[t].base = UpdatesOf(handler[t].req.doc)
  /\ HasHead(t) => handler[t].head = HeadOf(handler[t].req.doc)

\* A cause that may be told of request r.
Tellable(cause, r) == cause # "CONFLICT" /\ (cause = "CONSTRAINT" => SpentElsewhere(r))

\* A hash names its request and its place.
Named(o) == o.hash[1] = o.req /\ o.hash[2] = o.seq

CommitIsCurrent(e) ==
  e.call = "commit" =>
    /\ e.base = UpdatesOf(e.req.doc)
    /\ KeyFree(e.req)
    /\ \A op \in e.op : HeadMatches(op, HeadOf(e.req.doc)) /\ Named(op)

LockInv ==
  /\ OneHolderPerDocument /\ DroppedCommitsFirst /\ OneCommitPerDocument
  /\ \A t \in Handlers : ReadsAreCurrent(t) /\ Tellable(handler[t].cause, handler[t].req)
  /\ \A c \in Cores : \A i \in 1..Len(queue[c]) : CommitIsCurrent(queue[c][i])
  /\ \A o \in operations : Named(o)

\* What a step that writes no table leaves of what was read.
LEMMA TablesSame ==
  ASSUME UNCHANGED tables
  PROVE  /\ \A d : UpdatesOf(d)' = UpdatesOf(d) /\ HeadOf(d)' = HeadOf(d)
         /\ \A r : RowsFor(r)' = RowsFor(r) /\ (KeyFree(r)' <=> KeyFree(r))
         /\ \A r : SpentElsewhere(r)' <=> SpentElsewhere(r)
         /\ operations' = operations
  BY DEF UpdatesOf, HeadOf, RowsFor, KeyFree, SpentElsewhere, tables

\* What a handler relies on while its record and the tables stay.
LEMMA HandlerKept ==
  ASSUME UNCHANGED tables, LockInv, NEW u \in Handlers, handler'[u] = handler[u]
  PROVE  ReadsAreCurrent(u)' /\ Tellable(handler[u].cause, handler[u].req)'
  <1>1. ReadsAreCurrent(u) /\ Tellable(handler[u].cause, handler[u].req)
    BY DEF LockInv
  <1>2. PICK r : r = handler[u].req
    OBVIOUS
  <1>3. /\ (KeyFree(r)' <=> KeyFree(r)) /\ (SpentElsewhere(r)' <=> SpentElsewhere(r))
        /\ UpdatesOf(r.doc)' = UpdatesOf(r.doc) /\ HeadOf(r.doc)' = HeadOf(r.doc)
    BY TablesSame
  <1>4. HasChecked(u)' = HasChecked(u) /\ HasLoaded(u)' = HasLoaded(u) /\ HasHead(u)' = HasHead(u)
    BY DEF HasChecked, HasLoaded, HasHead
  <1> QED
    BY <1>1, <1>2, <1>3, <1>4 DEF ReadsAreCurrent, Tellable

\* A handler that does not hold the lock relies on nothing.
LEMMA HandlerWithoutLock ==
  ASSUME NEW u \in Handlers, ~Holds(u)'
  PROVE  ReadsAreCurrent(u)'
  BY DEF Holds, ReadsAreCurrent, HasChecked, HasLoaded, HasHead

LEMMA EntryKept ==
  ASSUME UNCHANGED tables, NEW e, CommitIsCurrent(e)
  PROVE  CommitIsCurrent(e)'
  <1>1. PICK d : d = e.req.doc
    OBVIOUS
  <1>2. PICK r : r = e.req
    OBVIOUS
  <1>3. UpdatesOf(d)' = UpdatesOf(d) /\ HeadOf(d)' = HeadOf(d) /\ (KeyFree(r)' <=> KeyFree(r))
    BY TablesSame
  <1> QED
    BY <1>1, <1>2, <1>3 DEF CommitIsCurrent, Named, HeadMatches

\* Handlers that end or let the lock go, and queues that are lost, disturb nothing.
LEMMA LockLetGo ==
  ASSUME LockInv, UNCHANGED tables,
         \A c \in Cores : queue'[c] = queue[c] \/ queue'[c] = <<>>,
         \A u \in Handlers :
           \/ handler'[u] = handler[u]
           \/ ~Holds(u)' /\ (\/ handler'[u].cause = "NONE"
                             \/ /\ handler'[u].cause = handler[u].cause
                                /\ handler'[u].req = handler[u].req)
  PROVE  LockInv'
  <1>1. \A u \in Handlers : Holds(u)' => handler'[u] = handler[u] /\ Holds(u)
    BY DEF Holds
  <1>2. OneHolderPerDocument'
    <2> SUFFICES ASSUME NEW t \in Handlers, NEW u \in Handlers, Holds(t)', Holds(u)',
                        handler'[t].req.doc = handler'[u].req.doc
                 PROVE  t = u
      BY DEF OneHolderPerDocument
    <2> QED
      BY <1>1 DEF LockInv, OneHolderPerDocument
  <1>3. DroppedCommitsFirst'
    <2> SUFFICES ASSUME NEW c \in Cores, NEW i \in 1..Len(queue'[c]),
                        queue'[c][i].call = "commit", NEW t \in Handlers, Holds(t)',
                        handler'[t].req.doc = queue'[c][i].req.doc, t # queue'[c][i].by
                 PROVE  /\ Rechecks(t)'
                        /\ \E j \in 1..Len(queue'[c]) : i < j /\ queue'[c][j].by = t
      BY DEF DroppedCommitsFirst
    <2>1. queue'[c] = queue[c]
      OBVIOUS
    <2>2. handler'[t] = handler[t] /\ Holds(t)
      BY <1>1
    <2>3. Rechecks(t) /\ \E j \in 1..Len(queue[c]) : i < j /\ queue[c][j].by = t
      BY <2>1, <2>2 DEF LockInv, DroppedCommitsFirst
    <2> QED
      BY <2>1, <2>2, <2>3 DEF Rechecks
  <1>4. OneCommitPerDocument'
    <2> SUFFICES ASSUME NEW c \in Cores, NEW i \in 1..Len(queue'[c]), NEW j \in 1..Len(queue'[c]),
                        queue'[c][i].call = "commit", queue'[c][j].call = "commit",
                        queue'[c][i].req.doc = queue'[c][j].req.doc
                 PROVE  i = j
      BY DEF OneCommitPerDocument
    <2>1. queue'[c] = queue[c]
      OBVIOUS
    <2> QED
      BY <2>1 DEF LockInv, OneCommitPerDocument
  <1>5. ASSUME NEW u \in Handlers
        PROVE  ReadsAreCurrent(u)' /\ Tellable(handler[u].cause, handler[u].req)'
    <2>1. CASE handler'[u] = handler[u]
      BY <2>1, HandlerKept
    <2>2. CASE ~Holds(u)' /\ handler'[u].cause = "NONE"
      BY <2>2, HandlerWithoutLock DEF Tellable
    <2>3. CASE ~Holds(u)' /\ handler'[u].cause = handler[u].cause
                 /\ handler'[u].req = handler[u].req
      <3>1. Tellable(handler[u].cause, handler[u].req)
        BY DEF LockInv
      <3>2. PICK r : r = handler[u].req
        OBVIOUS
      <3>3. SpentElsewhere(r)' <=> SpentElsewhere(r)
        BY TablesSame
      <3> QED
        BY <2>3, <3>1, <3>2, <3>3, HandlerWithoutLock DEF Tellable
    <2> QED
      BY <2>1, <2>2, <2>3
  <1>6. ASSUME NEW c \in Cores, NEW i \in 1..Len(queue'[c]) PROVE CommitIsCurrent(queue[c][i])'
    <2>1. queue'[c] = queue[c]
      BY <1>6
    <2>2. PICK e : e = queue[c][i]
      OBVIOUS
    <2>3. CommitIsCurrent(e)
      BY <1>6, <2>1, <2>2 DEF LockInv
    <2>4. CommitIsCurrent(e)'
      BY <2>3, EntryKept
    <2> QED
      BY <2>1, <2>2, <2>4 DEF CommitIsCurrent, Named
  <1>7. \A o \in operations' : Named(o)'
    BY TablesSame DEF LockInv, Named
  <1> QED
    BY <1>2, <1>3, <1>4, <1>5, <1>6, <1>7 DEF LockInv

\* The holder of the lock that has the reply to its check has no commit in front of it
\* or behind it.
LEMMA NoRivalCommit ==
  ASSUME TypeInv, InFlight, LockInv, NEW t \in Handlers, Busy(t), Holds(t), handler[t].replied
  PROVE  \A c \in Cores : \A i \in 1..Len(queue[c]) :
           queue[c][i].call = "commit" => queue[c][i].req.doc # handler[t].req.doc
  <1> SUFFICES ASSUME NEW c \in Cores, NEW i \in 1..Len(queue[c]),
                      queue[c][i].call = "commit", queue[c][i].req.doc = handler[t].req.doc
               PROVE  FALSE
    OBVIOUS
  <1>1. queue[c][i].by # t
    BY NoEntry
  <1> QED
    BY <1>1 DEF LockInv, DroppedCommitsFirst, Rechecks

\* The operation forged on the head of a log fits that head.
LEMMA ForgedOnHead ==
  ASSUME TypeInv, Chain, NEW t \in Handlers, Busy(t),
         handler[t].head = HeadOf(handler[t].req.doc)
  PROVE  HeadMatches(Forge(t), HeadOf(handler[t].req.doc)) /\ Named(Forge(t))
  <1>1. PICK d \in Docs : d = handler[t].req.doc
    BY RequestAssumption DEF TypeInv
  <1>2. /\ Forge(t).seq = NextSeq(HeadOf(d)) /\ Forge(t).backlink = {h.hash : h \in HeadOf(d)}
        /\ Named(Forge(t))
    BY <1>1 DEF Forge, Named
  <1>3. CASE HeadOf(d) = {}
    BY <1>1, <1>2, <1>3 DEF HeadMatches, NextSeq
  <1>4. CASE HeadOf(d) # {}
    <2>1. PICK h \in logHeads : h.seq \in Nat /\ Length(d) = h.seq + 1
                                /\ HeadOf(d) = {[seq |-> h.seq, hash |-> h.hash]}
      BY <1>4, HeadLength
    <2>2. PICK g : g = [seq |-> h.seq, hash |-> h.hash]
      OBVIOUS
    <2>3. HeadOf(d) = {g} /\ g.seq = h.seq /\ Forge(t).seq = g.seq + 1
      BY <2>1, <2>2, <1>2 DEF Length
    <2>4. Forge(t).backlink = {g.hash}
      BY <1>2, <2>3
    <2> QED
      BY <1>1, <1>2, <2>3, <2>4 DEF HeadMatches
  <1> QED
    BY <1>3, <1>4

\* A handler asks for what comes next.  Behind the lock it is alone with its document
\* and has read what is there; when it takes the lock, it checks the key again.
LEMMA AskLocked ==
  ASSUME OneCore, TypeInv, Chain, InFlight, LockInv, NEW t \in Handlers, NEW s \in HandlerState,
         NEW call \in Waiting, NEW op \in SUBSET Operation, Ask(t, s, call, op),
         \/ Busy(t) /\ (handler[t].pc = "locking" \/ handler[t].replied)
         \/ ~Busy(t) /\ phase[CoreOf[t]] = "up",
         Tellable(s.cause, s.req),
         call # "precheck" => \A u \in Handlers :
           u # t /\ Holds(u) => handler[u].req.doc # s.req.doc,
         call \in {"load", "head", "commit"} =>
           Busy(t) /\ Holds(t) /\ handler[t].replied /\ s = handler[t] /\ KeyFree(s.req),
         call \in {"head", "commit"} => s.base = UpdatesOf(s.req.doc),
         call = "commit" => s.head = HeadOf(s.req.doc) /\ op = {Forge(t)}
  PROVE  LockInv'
  <1> DEFINE e == [call |-> call, by |-> t, req |-> s.req, op |-> op, base |-> s.base]
             n == [s EXCEPT !.pc = call, !.replied = FALSE]
             c0 == CoreOf[t]
  <1>1. /\ c0 \in Cores
        /\ queue' = [queue EXCEPT ![c0] = Append(@, e)]
        /\ handler' = [handler EXCEPT ![t] = n]
        /\ UNCHANGED <<tables, phase, answers>>
    BY CoreAssumption DEF Ask
  <1>2. /\ n.pc = call /\ n.replied = FALSE /\ n.req = s.req /\ n.base = s.base
        /\ n.head = s.head /\ n.cause = s.cause
    BY DEF HandlerState
  <1>3. /\ handler'[t] = n
        /\ \A u \in Handlers : u # t => handler'[u] = handler[u]
    BY <1>1 DEF TypeInv, TypeOK
  <1>4. \A c \in Cores : \A i \in 1..Len(queue[c]) : queue[c][i].by # t
    BY NoEntry
  <1>6. /\ queue[c0] \in Seq(Entry) /\ queue'[c0] = Append(queue[c0], e)
        /\ \A c \in Cores : c # c0 => queue'[c] = queue[c]
    BY <1>1 DEF TypeInv, TypeOK
  <1>0. e.call = call /\ e.by = t /\ e.req = s.req /\ e.op = op /\ e.base = s.base
    OBVIOUS
  <1>a. UNCHANGED tables
    BY <1>1
  <1> HIDE DEF n, c0, e
  <1>7. Len(queue'[c0]) = Len(queue[c0]) + 1 /\ queue'[c0][Len(queue[c0]) + 1] = e
        /\ Len(queue[c0]) \in Nat
        /\ \A i \in 1..Len(queue[c0]) : queue'[c0][i] = queue[c0][i]
    BY <1>6
  <1>8. ASSUME NEW c \in Cores, NEW i \in 1..Len(queue'[c])
        PROVE  \/ c = c0 /\ i = Len(queue[c0]) + 1 /\ queue'[c][i] = e
               \/ i \in 1..Len(queue[c]) /\ queue'[c][i] = queue[c][i]
    BY <1>6, <1>7
  <1>9. ASSUME NEW c \in Cores, NEW i \in 1..Len(queue[c])
        PROVE  i \in 1..Len(queue'[c]) /\ queue'[c][i] = queue[c][i]
    BY <1>6, <1>7
  <1>10. /\ Holds(t)' => call # "precheck"
         /\ \A u \in Handlers : u # t => (Holds(u)' <=> Holds(u))
    BY <1>2, <1>3 DEF Holds
  <1>11. call \in {"load", "head", "commit"} =>
           \A c \in Cores : \A i \in 1..Len(queue[c]) :
             queue[c][i].call = "commit" => queue[c][i].req.doc # s.req.doc
    BY NoRivalCommit
  <1>12. OneHolderPerDocument'
    <2> SUFFICES ASSUME NEW u \in Handlers, NEW v \in Handlers, Holds(u)', Holds(v)',
                        handler'[u].req.doc = handler'[v].req.doc
                 PROVE  u = v
      BY DEF OneHolderPerDocument
    <2>1. CASE u # t /\ v # t
      BY <2>1, <1>3, <1>10 DEF LockInv, OneHolderPerDocument
    <2>2. CASE u = t /\ v # t
      BY <2>2, <1>2, <1>3, <1>10
    <2>3. CASE v = t /\ u # t
      BY <2>3, <1>2, <1>3, <1>10
    <2> QED
      BY <2>1, <2>2, <2>3
  <1>13. DroppedCommitsFirst'
    <2> SUFFICES ASSUME NEW c \in Cores, NEW i \in 1..Len(queue'[c]),
                        queue'[c][i].call = "commit", NEW u \in Handlers, Holds(u)',
                        handler'[u].req.doc = queue'[c][i].req.doc, u # queue'[c][i].by
                 PROVE  /\ Rechecks(u)'
                        /\ \E j \in 1..Len(queue'[c]) : i < j /\ queue'[c][j].by = u
      BY DEF DroppedCommitsFirst
    <2>1. CASE c = c0 /\ i = Len(queue[c0]) + 1 /\ queue'[c][i] = e
      <3>1. u # t /\ call = "commit" /\ handler[u].req.doc = s.req.doc /\ Holds(u)
        BY <2>1, <1>0, <1>3, <1>10
      <3> QED
        BY <3>1
    <2>2. CASE i \in 1..Len(queue[c]) /\ queue'[c][i] = queue[c][i] /\ u # t
      <3>1. Holds(u) /\ handler'[u] = handler[u]
        BY <2>2, <1>3, <1>10
      <3>2. Rechecks(u) /\ \E j \in 1..Len(queue[c]) : i < j /\ queue[c][j].by = u
        BY <2>2, <3>1 DEF LockInv, DroppedCommitsFirst
      <3> QED
        BY <3>1, <3>2, <1>9 DEF Rechecks
    <2>3. CASE i \in 1..Len(queue[c]) /\ queue'[c][i] = queue[c][i] /\ u = t
      <3>1. call = "recheck"
        BY <2>3, <1>2, <1>3, <1>10, <1>11 DEF Waiting
      <3>2. Rechecks(t)'
        BY <3>1, <1>2, <1>3 DEF Rechecks
      <3>3. ASSUME c # c0
            PROVE  FALSE
        <4>1. EntryInv(c, queue[c][i]) /\ queue[c][i] \in Entry
          <5>1. queue[c] \in Seq(Entry)
            BY DEF TypeInv, TypeOK
          <5> QED
            BY <5>1, <2>3 DEF InFlight
        <4>2. CoreOf[queue[c][i].by] = c /\ queue[c][i].by \in Handlers
          BY <4>1 DEF EntryInv, Entry
        <4> QED
          BY <4>2, <3>3 DEF OneCore, c0
      <3>4. Len(queue[c0]) + 1 \in 1..Len(queue'[c0]) /\ i < Len(queue[c0]) + 1
        BY <2>3, <3>3, <1>7
      <3> QED
        BY <2>3, <3>2, <3>3, <3>4, <1>0, <1>7
    <2> QED
      BY <1>8, <2>1, <2>2, <2>3
  <1>14. OneCommitPerDocument'
    <2> SUFFICES ASSUME NEW c \in Cores, NEW i \in 1..Len(queue'[c]), NEW j \in 1..Len(queue'[c]),
                        queue'[c][i].call = "commit", queue'[c][j].call = "commit",
                        queue'[c][i].req.doc = queue'[c][j].req.doc
                 PROVE  i = j
      BY DEF OneCommitPerDocument
    <2>1. CASE i \in 1..Len(queue[c]) /\ j \in 1..Len(queue[c])
      BY <2>1, <1>9 DEF LockInv, OneCommitPerDocument
    <2>2. CASE i \notin 1..Len(queue[c]) /\ j \notin 1..Len(queue[c])
      BY <2>2, <1>8
    <2>3. CASE i \in 1..Len(queue[c]) /\ j \notin 1..Len(queue[c])
      BY <2>3, <1>0, <1>8, <1>9, <1>11
    <2>4. CASE i \notin 1..Len(queue[c]) /\ j \in 1..Len(queue[c])
      BY <2>4, <1>0, <1>8, <1>9, <1>11
    <2> QED
      BY <2>1, <2>2, <2>3, <2>4
  <1>15. PICK d : d = s.req.doc
    OBVIOUS
  <1>16. PICK r : r = s.req
    OBVIOUS
  <1>17. /\ (KeyFree(r)' <=> KeyFree(r)) /\ (SpentElsewhere(r)' <=> SpentElsewhere(r))
         /\ UpdatesOf(d)' = UpdatesOf(d) /\ HeadOf(d)' = HeadOf(d)
    BY <1>a, TablesSame
  <1>18. ASSUME NEW u \in Handlers
         PROVE  ReadsAreCurrent(u)' /\ Tellable(handler[u].cause, handler[u].req)'
    <2>1. CASE u # t
      BY <2>1, <1>a, <1>3, HandlerKept
    <2>2. CASE u = t
      <3>1. HasChecked(t)' => call \in {"load", "head", "commit"}
        BY <1>2, <1>3 DEF HasChecked
      <3>2. HasLoaded(t)' => call \in {"head", "commit"}
        BY <1>2, <1>3 DEF HasLoaded
      <3>3. HasHead(t)' => call = "commit"
        BY <1>2, <1>3 DEF HasHead
      <3>4. ReadsAreCurrent(t)'
        BY <1>2, <1>3, <1>15, <1>16, <1>17, <3>1, <3>2, <3>3 DEF ReadsAreCurrent
      <3>5. Tellable(handler[t].cause, handler[t].req)'
        BY <1>2, <1>3, <1>16, <1>17 DEF Tellable
      <3> QED
        BY <2>2, <3>4, <3>5
    <2> QED
      BY <2>1, <2>2
  <1>19. ASSUME call = "commit"
         PROVE  \A o \in op : HeadMatches(o, HeadOf(d)) /\ Named(o)
    BY <1>15, <1>19, ForgedOnHead
  <1>20. CommitIsCurrent(e)'
    BY <1>0, <1>15, <1>16, <1>17, <1>19 DEF CommitIsCurrent, HeadMatches, Named
  <1>21. ASSUME NEW c \in Cores, NEW i \in 1..Len(queue'[c])
         PROVE  CommitIsCurrent(queue[c][i])'
    <2>1. PICK x : x = queue'[c][i]
      OBVIOUS
    <2>2. x = e \/ CommitIsCurrent(x)
      BY <1>8, <2>1 DEF LockInv
    <2>3. CommitIsCurrent(x)'
      BY <1>a, <1>20, <2>2, EntryKept
    <2> QED
      BY <2>1, <2>3 DEF CommitIsCurrent, Named
  <1>22. \A o \in operations' : Named(o)'
    BY <1>a, TablesSame DEF LockInv, Named
  <1> QED
    BY <1>12, <1>13, <1>14, <1>18, <1>21, <1>22 DEF LockInv

\* What is known of the request the store serves, and of its handler.
LEMMA ServedEntry ==
  ASSUME TypeInv, InFlight, NEW c \in Cores, queue[c] # <<>>, NEW e, e = Head(queue[c])
  PROVE  /\ queue[c] \in Seq(Entry) /\ e = queue[c][1] /\ 1 \in 1..Len(queue[c])
         /\ e \in Entry /\ e.by \in Handlers /\ EntryInv(c, e)
         /\ handler[e.by] \in HandlerState
  <1>1. queue[c] \in Seq(Entry) /\ Len(queue[c]) \in Nat
    BY DEF TypeInv, TypeOK
  <1>2. e = queue[c][1] /\ 1 \in 1..Len(queue[c])
    BY <1>1
  <1>3. e \in Entry
    BY <1>1, <1>2
  <1> QED
    BY <1>1, <1>2, <1>3 DEF InFlight, Entry, TypeInv, TypeOK

\* Serving the first request shifts the others.
LEMMA QueueShifts ==
  ASSUME TypeInv, NEW c \in Cores, queue[c] # <<>>,
         queue' = [queue EXCEPT ![c] = Tail(@)], NEW d \in Cores
  PROVE  /\ \A i \in 1..Len(queue'[d]) :
              \E j \in 1..Len(queue[d]) :
                queue'[d][i] = queue[d][j] /\ j = (IF d = c THEN i + 1 ELSE i)
         /\ \A j \in 1..Len(queue[d]) : ~(d = c /\ j = 1) =>
              \E i \in 1..Len(queue'[d]) :
                queue'[d][i] = queue[d][j] /\ j = (IF d = c THEN i + 1 ELSE i)
  <1>1. queue[c] \in Seq(Entry) /\ Len(queue[c]) \in Nat
    BY DEF TypeInv, TypeOK
  <1>2. CASE d # c
    BY <1>2 DEF TypeInv, TypeOK
  <1>3. CASE d = c
    <2>1. queue'[c] = Tail(queue[c])
      BY DEF TypeInv, TypeOK
    <2>0. PICK q \in Seq(Entry) : q = queue[c] /\ q # <<>>
      BY <1>1
    <2>2. /\ Len(queue'[c]) = Len(queue[c]) - 1
          /\ \A i \in 1..Len(queue'[c]) : queue'[c][i] = queue[c][i + 1]
      <3>1. Len(Tail(q)) = Len(q) - 1
        BY <2>0
      <3>2. \A i \in 1..Len(Tail(q)) : Tail(q)[i] = q[i + 1]
        BY <2>0, <3>1
      <3> QED
        BY <2>0, <2>1, <3>1, <3>2
    <2>3. ASSUME NEW j \in 1..Len(queue[d]), j # 1
          PROVE  \E i \in 1..Len(queue'[d]) : queue'[d][i] = queue[d][j]
                                                /\ j = (IF d = c THEN i + 1 ELSE i)
      <3>1. j - 1 \in 1..Len(queue'[d]) /\ j = (j - 1) + 1
        BY <1>1, <1>3, <2>2, <2>3
      <3> QED
        BY <1>3, <2>2, <3>1
    <2>4. ASSUME NEW i \in 1..Len(queue'[d])
          PROVE  \E j \in 1..Len(queue[d]) : queue'[d][i] = queue[d][j]
                                                /\ j = (IF d = c THEN i + 1 ELSE i)
      <3>1. i + 1 \in 1..Len(queue[d])
        BY <1>1, <1>3, <2>2
      <3> QED
        BY <1>3, <2>2, <3>1
    <2> QED
      BY <1>3, <2>3, <2>4
  <1> QED
    BY <1>2, <1>3

\* Locks and commits keep their places when the store serves the first request; its
\* handler had no other.
LEMMA ReplyLocked ==
  ASSUME TypeInv, InFlight, LockInv, NEW c \in Cores, queue[c] # <<>>,
         NEW e, e = Head(queue[c]), NEW s, Reply(c, e, s),
         s.pc = handler[e.by].pc, s.req = handler[e.by].req
  PROVE  OneHolderPerDocument' /\ DroppedCommitsFirst' /\ OneCommitPerDocument'
  <1>1. /\ e = queue[c][1] /\ 1 \in 1..Len(queue[c]) /\ e.by \in Handlers
        /\ EntryInv(c, e) /\ queue[c] \in Seq(Entry)
    BY ServedEntry
  <1>2. /\ queue' = [queue EXCEPT ![c] = Tail(@)]
        /\ \A u \in Handlers : u # e.by => handler'[u] = handler[u]
        /\ \A u \in Handlers : handler'[u].pc = handler[u].pc /\ handler'[u].req = handler[u].req
    BY <1>1 DEF Reply, TypeInv, TypeOK
  <1>3. \A u \in Handlers : Holds(u)' <=> Holds(u)
    BY <1>2 DEF Holds
  <1>4. \A d \in Cores :
          /\ \A i \in 1..Len(queue'[d]) :
               \E j \in 1..Len(queue[d]) :
                 queue'[d][i] = queue[d][j] /\ j = (IF d = c THEN i + 1 ELSE i)
          /\ \A j \in 1..Len(queue[d]) : ~(d = c /\ j = 1) =>
               \E i \in 1..Len(queue'[d]) :
                 queue'[d][i] = queue[d][j] /\ j = (IF d = c THEN i + 1 ELSE i)
    BY <1>2, QueueShifts
  <1>5. OneHolderPerDocument'
    BY <1>2, <1>3 DEF LockInv, OneHolderPerDocument
  <1>6. DroppedCommitsFirst'
    <2> SUFFICES ASSUME NEW d \in Cores, NEW i \in 1..Len(queue'[d]),
                        queue'[d][i].call = "commit", NEW u \in Handlers, Holds(u)',
                        handler'[u].req.doc = queue'[d][i].req.doc, u # queue'[d][i].by
                 PROVE  /\ Rechecks(u)'
                        /\ \E j \in 1..Len(queue'[d]) : i < j /\ queue'[d][j].by = u
      BY DEF DroppedCommitsFirst
    <2>1. PICK k \in 1..Len(queue[d]) :
            queue'[d][i] = queue[d][k] /\ k = (IF d = c THEN i + 1 ELSE i)
      BY <1>4
    <2>2. Rechecks(u) /\ \E j \in 1..Len(queue[d]) : k < j /\ queue[d][j].by = u
      BY <1>2, <1>3, <2>1 DEF LockInv, DroppedCommitsFirst
    <2>3. PICK j \in 1..Len(queue[d]) : k < j /\ queue[d][j].by = u
      BY <2>2
    <2>4. j # 1 /\ i \in Nat
      BY <2>1, <2>3
    <2>5. u # e.by
      <3>1. CASE d = c
        BY <1>1, <2>3, <2>4, <3>1 DEF InFlight
      <3>2. CASE d # c
        <4>1. EntryInv(d, queue[d][j])
          BY DEF InFlight
        <4> QED
          BY <1>1, <2>3, <3>2, <4>1 DEF EntryInv
      <3> QED
        BY <3>1, <3>2
    <2>6. PICK m \in 1..Len(queue'[d]) :
            queue'[d][m] = queue[d][j] /\ j = (IF d = c THEN m + 1 ELSE m)
      BY <1>4, <2>4
    <2>7. i < m
      BY <2>1, <2>3, <2>6
    <2> QED
      BY <1>2, <2>2, <2>3, <2>5, <2>6, <2>7 DEF Rechecks
  <1>7. OneCommitPerDocument'
    <2> SUFFICES ASSUME NEW d \in Cores, NEW i \in 1..Len(queue'[d]), NEW j \in 1..Len(queue'[d]),
                        queue'[d][i].call = "commit", queue'[d][j].call = "commit",
                        queue'[d][i].req.doc = queue'[d][j].req.doc
                 PROVE  i = j
      BY DEF OneCommitPerDocument
    <2>1. PICK k \in 1..Len(queue[d]) :
            queue'[d][i] = queue[d][k] /\ k = (IF d = c THEN i + 1 ELSE i)
      BY <1>4
    <2>2. PICK m \in 1..Len(queue[d]) :
            queue'[d][j] = queue[d][m] /\ m = (IF d = c THEN j + 1 ELSE j)
      BY <1>4
    <2>3. k = m
      BY <2>1, <2>2 DEF LockInv, OneCommitPerDocument
    <2> QED
      BY <2>1, <2>2, <2>3
  <1> QED
    BY <1>5, <1>6, <1>7

\* What a served read tells its handler is what the tables say.
LEMMA ReadLocked ==
  ASSUME TypeInv, InFlight, LockInv, NEW c \in Cores,
         ServeIdempotency(c) \/ ServeLoadUpdates(c) \/ ServeLogHead(c)
  PROVE  LockInv'
  <1>1. queue[c] # <<>> /\ UNCHANGED tables
    BY DEF ServeIdempotency, ServeLoadUpdates, ServeLogHead, Serving
  <1>2. PICK e : e = Head(queue[c])
    OBVIOUS
  <1>3. EntryInv(c, e) /\ e.by \in Handlers /\ handler[e.by] \in HandlerState
    BY <1>1, <1>2, ServedEntry
  <1>4. PICK s : s = handler[e.by]
    OBVIOUS
  <1>5. PICK q : q = s.req
    OBVIOUS
  <1>6. ASSUME NEW r, Reply(c, e, r), r.pc = s.pc, r.req = s.req, r.replied = TRUE,
               r.cause \in {"NONE", "IDEMPOTENCY_CONFLICT"},
               Busy(e.by) =>
                 /\ r.pc # "commit"
                 /\ r.pc = "recheck" /\ r.cause = "NONE" /\ r.found = {} => KeyFree(q)
                 /\ r.pc = "load" => r.base = UpdatesOf(q.doc)
                 /\ r.pc = "head" => r.base = s.base /\ r.head = HeadOf(q.doc)
        PROVE  LockInv'
    <2>1. OneHolderPerDocument' /\ DroppedCommitsFirst' /\ OneCommitPerDocument'
      BY <1>1, <1>2, <1>4, <1>6, ReplyLocked
    <2>2. ASSUME NEW u \in Handlers
          PROVE  ReadsAreCurrent(u)' /\ Tellable(handler[u].cause, handler[u].req)'
      <3>1. CASE u # e.by \/ ~Busy(u)
        <4>1. handler'[u] = handler[u]
          BY <1>3, <1>6, <3>1 DEF Reply, Busy, TypeInv, TypeOK
        <4> QED
          BY <1>1, <4>1, HandlerKept
      <3>2. CASE u = e.by /\ Busy(u)
        <4>1. handler'[u] = r
          BY <1>3, <1>6, <3>2 DEF Reply, Busy, TypeInv, TypeOK
        <4>2. /\ (KeyFree(q)' <=> KeyFree(q)) /\ UpdatesOf(q.doc)' = UpdatesOf(q.doc)
              /\ HeadOf(q.doc)' = HeadOf(q.doc)
          BY <1>1, TablesSame
        <4>3. ReadsAreCurrent(u)
          BY DEF LockInv
        <4>4. /\ s.pc \in {"load", "head"} => KeyFree(q)
              /\ s.pc = "head" => s.base = UpdatesOf(q.doc)
          BY <1>4, <1>5, <3>2, <4>3 DEF ReadsAreCurrent, HasChecked, HasLoaded
        <4>5. HasChecked(u)' => KeyFree(q)'
          BY <1>6, <3>2, <4>1, <4>2, <4>4 DEF HasChecked
        <4>6. HasLoaded(u)' => r.base = UpdatesOf(q.doc)'
          BY <1>6, <3>2, <4>1, <4>2, <4>4 DEF HasLoaded
        <4>7. HasHead(u)' => r.head = HeadOf(q.doc)'
          BY <1>6, <3>2, <4>1, <4>2 DEF HasHead
        <4>8. r.req = q
          BY <1>5, <1>6
        <4>9. ReadsAreCurrent(u)'
          BY <4>1, <4>5, <4>6, <4>7, <4>8 DEF ReadsAreCurrent
        <4> QED
          BY <1>6, <4>1, <4>9 DEF Tellable
      <3> QED
        BY <3>1, <3>2
    <2>3. ASSUME NEW d \in Cores, NEW i \in 1..Len(queue'[d])
          PROVE  CommitIsCurrent(queue[d][i])'
      <3>1. PICK j \in 1..Len(queue[d]) : queue'[d][i] = queue[d][j]
        BY <1>1, <1>6, QueueShifts DEF Reply
      <3>2. PICK x : x = queue[d][j]
        OBVIOUS
      <3>3. CommitIsCurrent(x)'
        BY <1>1, <3>1, <3>2, EntryKept DEF LockInv
      <3> QED
        BY <3>1, <3>2, <3>3 DEF CommitIsCurrent, Named
    <2>4. \A o \in operations' : Named(o)'
      BY <1>1, TablesSame DEF LockInv, Named
    <2> QED
      BY <2>1, <2>2, <2>3, <2>4 DEF LockInv
  <1>7. Busy(e.by) => s.pc = e.call /\ q = e.req
    BY <1>3, <1>4, <1>5 DEF EntryInv
  <1>8. CASE ServeIdempotency(c)
    <2> DEFINE other == {k \in RowsFor(e.req) : k.req # e.req}
    <2>1. PICK r : r = [s EXCEPT !.replied = TRUE,
                          !.cause = IF other # {} THEN "IDEMPOTENCY_CONFLICT" ELSE "NONE",
                          !.found = {k.response : k \in RowsFor(e.req)}]
      OBVIOUS
    <2>2. Reply(c, e, r) /\ e.call \in {"precheck", "recheck"}
      BY <1>2, <1>4, <1>8, <2>1 DEF ServeIdempotency, Serving
    <2>3. /\ r.pc = s.pc /\ r.req = s.req /\ r.replied = TRUE
          /\ r.found = {k.response : k \in RowsFor(e.req)}
          /\ r.cause \in {"NONE", "IDEMPOTENCY_CONFLICT"}
      BY <1>3, <1>4, <2>1 DEF HandlerState
    <2>4. r.found = {} => KeyFree(e.req)
      BY <2>3 DEF KeyFree
    <2> QED
      BY <1>6, <1>7, <2>2, <2>3, <2>4
  <1>9. CASE ServeLoadUpdates(c)
    <2>1. PICK r : r = [s EXCEPT !.replied = TRUE, !.cause = "NONE",
                                 !.base = UpdatesOf(e.req.doc)]
      OBVIOUS
    <2>2. Reply(c, e, r) /\ e.call = "load"
      BY <1>2, <1>4, <1>9, <2>1 DEF ServeLoadUpdates, Serving
    <2>3. r.pc = s.pc /\ r.req = s.req /\ r.replied = TRUE /\ r.cause = "NONE"
          /\ r.base = UpdatesOf(e.req.doc)
      BY <1>3, <1>4, <2>1 DEF HandlerState
    <2> QED
      BY <1>6, <1>7, <2>2, <2>3
  <1>10. CASE ServeLogHead(c)
    <2>1. PICK r : r = [s EXCEPT !.replied = TRUE, !.cause = "NONE",
                                 !.head = HeadOf(e.req.doc)]
      OBVIOUS
    <2>2. Reply(c, e, r) /\ e.call = "head"
      BY <1>2, <1>4, <1>10, <2>1 DEF ServeLogHead, Serving
    <2>3. r.pc = s.pc /\ r.req = s.req /\ r.replied = TRUE /\ r.cause = "NONE"
          /\ r.base = s.base /\ r.head = HeadOf(e.req.doc)
      BY <1>3, <1>4, <2>1 DEF HandlerState
    <2> QED
      BY <1>6, <1>7, <2>2, <2>3
  <1> QED
    BY <1>8, <1>9, <1>10

\* An operation that fits the head of its log takes a place that is free.
LEMMA PlaceIsFree ==
  ASSUME TypeInv, Chain, NEW op \in Operation, HeadMatches(op, HeadOf(op.req.doc))
  PROVE  \A o \in operations : o.req.doc = op.req.doc => o.seq # op.seq
  <1>1. PICK d \in Docs : d = op.req.doc
    BY RequestAssumption DEF Operation
  <1> SUFFICES ASSUME NEW o \in operations, o.req.doc = d, o.seq = op.seq
               PROVE  FALSE
    BY <1>1
  <1>2. PICK h \in logHeads : h.doc = d /\ o.seq <= h.seq
    BY DEF Chain
  <1>3. h.seq \in Nat /\ op.seq \in Nat /\ HeadOf(d) = {[seq |-> h.seq, hash |-> h.hash]}
    <2>1. h.seq \in Nat /\ op.seq \in Nat
      BY BoundAssumption DEF TypeInv, TypeOK, Operation
    <2>2. HeadOf(d) = {[seq |-> h.seq, hash |-> h.hash]}
      BY <1>2, HeadLength DEF Chain
    <2> QED
      BY <2>1, <2>2
  <1>4. PICK g : g = [seq |-> h.seq, hash |-> h.hash]
    OBVIOUS
  <1>5. HeadOf(d) = {g} /\ g.seq = h.seq
    BY <1>3, <1>4
  <1>6. op.seq = h.seq + 1
    BY <1>1, <1>5 DEF HeadMatches
  <1> QED
    BY <1>2, <1>3, <1>6

\* A current commit is accepted, or its key was spent by another document.
LEMMA CurrentCommitIsTellable ==
  ASSUME TypeInv, Chain, Keys, \A o \in operations : Named(o),
         NEW op \in Operation, NEW base, base = UpdatesOf(op.req.doc), KeyFree(op.req),
         HeadMatches(op, HeadOf(op.req.doc)), Named(op)
  PROVE  Tellable(CommitCause(op, base), op.req)
  <1>1. \A o \in operations : o.req.doc = op.req.doc => o.seq # op.seq
    BY PlaceIsFree
  <1>2. \A o \in operations : o.hash # op.hash
    BY <1>1 DEF Named
  <1>3. CommitCause(op, base) # "CONFLICT"
    BY DEF CommitCause, Revision
  <1>4. ASSUME CommitCause(op, base) = "CONSTRAINT" PROVE SpentElsewhere(op.req)
    <2>1. RowsFor(op.req) # {}
      BY <1>1, <1>2, <1>4 DEF CommitCause
    <2>2. PICK k \in RowsFor(op.req) : TRUE
      BY <2>1
    <2>3. k \in idempotencyKeys /\ SameKey(k.req, op.req) /\ k.req.doc # op.req.doc
      BY <2>2 DEF RowsFor, KeyFree
    <2>4. PICK o \in operations : o.req = k.req
      BY <2>3 DEF Keys
    <2> QED
      BY <2>3, <2>4 DEF SpentElsewhere
  <1> QED
    BY <1>3, <1>4 DEF Tellable

\* A commit leaves what is known of other documents.
LEMMA OtherDocumentsKept ==
  ASSUME NEW op, NEW base, Write(op, base), NEW r, r.doc # op.req.doc
  PROVE  /\ UpdatesOf(r.doc)' = UpdatesOf(r.doc) /\ HeadOf(r.doc)' = HeadOf(r.doc)
         /\ KeyFree(r) => KeyFree(r)'
  <1>1. PICK u : u = [hash |-> op.hash, doc |-> op.req.doc]
    OBVIOUS
  <1>2. documentUpdates' = documentUpdates \cup {u} /\ u.doc # r.doc
    BY <1>1 DEF Write
  <1>3. PICK g : g = [doc |-> op.req.doc, seq |-> op.seq, hash |-> op.hash]
    OBVIOUS
  <1>4. logHeads' = {h \in logHeads : h.doc # op.req.doc} \cup {g} /\ g.doc # r.doc
    BY <1>3 DEF Write
  <1>5. PICK k : k = [req |-> op.req, response |-> Prepared(op, base)]
    OBVIOUS
  <1>6. idempotencyKeys' = idempotencyKeys \cup {k} /\ k.req = op.req
    BY <1>5 DEF Write
  <1>7. UpdatesOf(r.doc)' = UpdatesOf(r.doc)
    <2>1. {v \in documentUpdates' : v.doc = r.doc} = {v \in documentUpdates : v.doc = r.doc}
      BY <1>2
    <2> QED
      BY <2>1 DEF UpdatesOf
  <1>8. HeadOf(r.doc)' = HeadOf(r.doc)
    <2>1. {h \in logHeads' : h.doc = r.doc} = {h \in logHeads : h.doc = r.doc}
      BY <1>4
    <2> QED
      BY <2>1 DEF HeadOf
  <1>9. KeyFree(r) => KeyFree(r)'
    BY <1>6 DEF KeyFree, RowsFor
  <1> QED
    BY <1>7, <1>8, <1>9

\* The store serves a commit: it is current, nobody else relies on the document, and no
\* other commit of the document is queued.
LEMMA CommitLocked ==
  ASSUME OneCore, TypeInv, Chain, Keys, InFlight, LockInv, NEW c \in Cores,
         ServeCommitLocal(c)
  PROVE  LockInv'
  <1>1. queue[c] # <<>>
    BY DEF ServeCommitLocal, Serving
  <1>2. PICK e : e = Head(queue[c])
    OBVIOUS
  <1>3. /\ queue[c] \in Seq(Entry) /\ e = queue[c][1] /\ 1 \in 1..Len(queue[c])
        /\ e \in Entry /\ e.by \in Handlers /\ EntryInv(c, e)
        /\ handler[e.by] \in HandlerState
    BY <1>1, <1>2, ServedEntry
  <1>4. PICK s : s = handler[e.by]
    OBVIOUS
  <1>5. PICK op \in e.op :
          /\ Reply(c, e, [s EXCEPT !.replied = TRUE, !.cause = CommitCause(op, e.base)])
          /\ IF CommitCause(op, e.base) = "NONE" THEN Write(op, e.base) ELSE UNCHANGED tables
    BY <1>2, <1>4 DEF ServeCommitLocal
  <1>6. PICK r : r = [s EXCEPT !.replied = TRUE, !.cause = CommitCause(op, e.base)]
    OBVIOUS
  <1>7. /\ Reply(c, e, r) /\ r.pc = s.pc /\ r.req = s.req /\ r.replied = TRUE
        /\ r.cause = CommitCause(op, e.base)
    BY <1>3, <1>4, <1>5, <1>6 DEF HandlerState
  <1>8. PICK q : q = e.req
    OBVIOUS
  <1>9. e.call = "commit" /\ op \in Operation /\ op.req = q
    <2>1. e.call = "commit" /\ e.op \subseteq Operation
      BY <1>2, <1>3 DEF ServeCommitLocal, Serving, Entry
    <2> QED
      BY <1>3, <1>5, <1>8, <2>1 DEF EntryInv
  <1>10. /\ e.base = UpdatesOf(q.doc) /\ KeyFree(q)
         /\ HeadMatches(op, HeadOf(q.doc)) /\ Named(op)
    BY <1>3, <1>5, <1>8, <1>9 DEF LockInv, CommitIsCurrent
  <1>11. Tellable(r.cause, q)
    BY <1>7, <1>9, <1>10, CurrentCommitIsTellable DEF LockInv
  <1>12. Busy(e.by) => s.pc = "commit" /\ s.req = q
    BY <1>3, <1>4, <1>8, <1>9 DEF EntryInv
  <1>13. OneHolderPerDocument' /\ DroppedCommitsFirst' /\ OneCommitPerDocument'
    BY <1>1, <1>2, <1>4, <1>7, ReplyLocked
  <1>14. operations \subseteq operations' /\ \A o \in operations' : o \in operations \/ o = op
    BY <1>5 DEF Write, tables
  <1>15. \A x : SpentElsewhere(x) => SpentElsewhere(x)'
    BY <1>14 DEF SpentElsewhere
  <1>16. \A o \in operations' : Named(o)'
    BY <1>10, <1>14 DEF LockInv, Named
  <1>17. ASSUME NEW x, x.doc # q.doc
         PROVE  /\ UpdatesOf(x.doc)' = UpdatesOf(x.doc) /\ HeadOf(x.doc)' = HeadOf(x.doc)
                /\ KeyFree(x) => KeyFree(x)'
    <2>1. CASE UNCHANGED tables
      BY <2>1, TablesSame
    <2>2. CASE Write(op, e.base)
      BY <1>9, <1>17, <2>2, OtherDocumentsKept
    <2> QED
      BY <1>5, <2>1, <2>2
  <1>18. ASSUME NEW u \in Handlers
         PROVE  ReadsAreCurrent(u)' /\ Tellable(handler[u].cause, handler[u].req)'
    <2>1. ReadsAreCurrent(u) /\ Tellable(handler[u].cause, handler[u].req)
      BY DEF LockInv
    <2>2. CASE u = e.by /\ Busy(u)
      <3>1. handler'[u] = r
        BY <1>3, <1>7, <2>2 DEF Reply, Busy, TypeInv, TypeOK
      <3>2. ~HasChecked(u)' /\ ~HasLoaded(u)' /\ ~HasHead(u)'
        BY <1>7, <1>12, <2>2, <3>1 DEF HasChecked, HasLoaded, HasHead
      <3>3. r.req = q /\ Tellable(r.cause, q)'
        BY <1>7, <1>11, <1>12, <1>15, <2>2 DEF Tellable
      <3> QED
        BY <3>1, <3>2, <3>3 DEF ReadsAreCurrent, Tellable
    <2>3. CASE u # e.by \/ ~Busy(u)
      <3>1. handler'[u] = handler[u]
        BY <1>3, <1>7, <2>3 DEF Reply, Busy, TypeInv, TypeOK
      <3>2. PICK x : x = handler[u].req
        OBVIOUS
      <3>3. Tellable(handler[u].cause, handler[u].req)'
        BY <1>15, <2>1, <3>1, <3>2 DEF Tellable
      <3>4. CASE ~Holds(u)
        <4>1. ~Holds(u)'
          BY <3>1, <3>4 DEF Holds
        <4> QED
          BY <3>3, <4>1, HandlerWithoutLock
      <3>5. CASE Holds(u) /\ x.doc = q.doc
        <4>1. u # e.by
          BY <2>3, <3>5 DEF Holds, Busy
        <4>2. Rechecks(u)
          BY <1>3, <1>8, <1>9, <3>2, <3>5, <4>1 DEF LockInv, DroppedCommitsFirst
        <4>3. ~HasChecked(u)' /\ ~HasLoaded(u)' /\ ~HasHead(u)'
          BY <3>1, <4>2 DEF Rechecks, HasChecked, HasLoaded, HasHead
        <4> QED
          BY <3>3, <4>3 DEF ReadsAreCurrent
      <3>6. CASE Holds(u) /\ x.doc # q.doc
        <4>1. HasChecked(u)' = HasChecked(u) /\ HasLoaded(u)' = HasLoaded(u)
              /\ HasHead(u)' = HasHead(u)
          BY <3>1 DEF HasChecked, HasLoaded, HasHead
        <4>2. /\ UpdatesOf(x.doc)' = UpdatesOf(x.doc) /\ HeadOf(x.doc)' = HeadOf(x.doc)
              /\ KeyFree(x) => KeyFree(x)'
          BY <1>17, <3>6
        <4>3. ReadsAreCurrent(u)'
          BY <2>1, <3>1, <3>2, <4>1, <4>2 DEF ReadsAreCurrent
        <4> QED
          BY <3>3, <4>3
      <3> QED
        BY <3>4, <3>5, <3>6
    <2> QED
      BY <2>2, <2>3
  <1>19. ASSUME NEW d \in Cores, NEW i \in 1..Len(queue'[d])
         PROVE  CommitIsCurrent(queue[d][i])'
    <2>1. PICK j \in 1..Len(queue[d]) :
            queue'[d][i] = queue[d][j] /\ j = (IF d = c THEN i + 1 ELSE i)
      <3>1. queue' = [queue EXCEPT ![c] = Tail(@)]
        BY <1>7 DEF Reply
      <3>2. \A k \in 1..Len(queue'[d]) : \E j \in 1..Len(queue[d]) :
              queue'[d][k] = queue[d][j] /\ j = (IF d = c THEN k + 1 ELSE k)
        BY <1>1, <3>1, QueueShifts
      <3> QED
        BY <3>2
    <2>2. PICK x : x = queue[d][j]
      OBVIOUS
    <2>3. CommitIsCurrent(x)
      BY <2>2 DEF LockInv
    <2>4. d = c
      <3>1. EntryInv(d, x) /\ queue[d] \in Seq(Entry)
        BY <2>2 DEF InFlight, TypeInv, TypeOK
      <3>2. x \in Entry
        BY <2>2, <3>1
      <3>3. x.by \in Handlers
        BY <3>2 DEF Entry
      <3> QED
        BY <1>3, <3>1, <3>3 DEF EntryInv, OneCore
    <2>5. x.call = "commit" => x.req.doc # q.doc
      <3>1. j # 1 /\ j \in 1..Len(queue[c])
        <4>1. Len(queue'[c]) \in Nat
          BY <1>3, <1>7 DEF Reply, TypeInv, TypeOK
        <4> QED
          BY <2>1, <2>4, <4>1
      <3> QED
        BY <1>3, <1>8, <1>9, <2>2, <2>4, <3>1 DEF LockInv, OneCommitPerDocument
    <2>6. PICK y : y = x.req
      OBVIOUS
    <2>7. ASSUME x.call = "commit"
          PROVE  /\ UpdatesOf(y.doc)' = UpdatesOf(y.doc) /\ HeadOf(y.doc)' = HeadOf(y.doc)
                 /\ KeyFree(y) => KeyFree(y)'
      BY <1>17, <2>5, <2>6, <2>7
    <2>8. CommitIsCurrent(x)'
      BY <2>3, <2>6, <2>7 DEF CommitIsCurrent, HeadMatches, Named
    <2> QED
      BY <2>1, <2>2, <2>8 DEF CommitIsCurrent, HeadMatches, Named
  <1> QED
    BY <1>13, <1>16, <1>18, <1>19 DEF LockInv

LEMMA InitLocked == Init => LockInv /\ NoConflictOnOneCore
  <1> SUFFICES ASSUME Init PROVE LockInv /\ NoConflictOnOneCore
    OBVIOUS
  <1>1. \A t \in Handlers : ~Holds(t) /\ handler[t].cause = "NONE"
    BY DEF Init, Idle, Holds
  <1>2. \A t \in Handlers : ReadsAreCurrent(t) /\ Tellable(handler[t].cause, handler[t].req)
    BY <1>1 DEF Holds, ReadsAreCurrent, HasChecked, HasLoaded, HasHead, Tellable
  <1>3. \A c \in Cores : queue[c] = <<>> /\ Len(queue[c]) = 0
    BY DEF Init
  <1> QED
    BY <1>1, <1>2, <1>3 DEF Init, LockInv, OneHolderPerDocument, DroppedCommitsFirst,
         OneCommitPerDocument, NoConflictOnOneCore

\* What a handler that ends tells its caller may be told.
LEMMA FinishLocked ==
  ASSUME TypeInv, LockInv, NoConflictOnOneCore, NEW t \in Handlers, NEW cause, NEW response,
         Finish(t, cause, response), Tellable(cause, handler[t].req)
  PROVE  LockInv' /\ NoConflictOnOneCore'
  <1>1. UNCHANGED <<tables, queue>> /\ handler' = [handler EXCEPT ![t] = Idle]
    BY DEF Finish
  <1>2. \A u \in Handlers : handler'[u] = handler[u]
                              \/ (~Holds(u)' /\ handler'[u].cause = "NONE")
    BY <1>1 DEF TypeInv, TypeOK, Idle, Holds
  <1>3. UNCHANGED tables
    BY <1>1
  <1>4. \A c \in Cores : queue'[c] = queue[c] \/ queue'[c] = <<>>
    BY <1>1
  <1>5. LockInv'
    BY <1>2, <1>3, <1>4, LockLetGo
  <1>6. \A a \in answers' : a \in answers \/ (a.cause = cause /\ a.req = handler[t].req)
    BY DEF Finish
  <1>7. operations' = operations
    BY <1>3, TablesSame
  <1> QED
    BY <1>5, <1>6, <1>7 DEF NoConflictOnOneCore, Tellable, SpentElsewhere

LEMMA StepLocked ==
  ASSUME OneCore, IInv, LockInv, NoConflictOnOneCore, [Next]_vars
  PROVE  LockInv' /\ NoConflictOnOneCore'
  <1>0. TypeInv /\ Chain /\ Keys /\ InFlight
    BY DEF IInv
  <1>1. ASSUME LockInv', UNCHANGED answers, operations \subseteq operations'
        PROVE  LockInv' /\ NoConflictOnOneCore'
    BY <1>1 DEF NoConflictOnOneCore
  <1>2. ASSUME NEW t \in Handlers, NEW r \in Requests, Begin(t, r)
        PROVE  LockInv' /\ NoConflictOnOneCore'
    <2> DEFINE s == [Idle EXCEPT !.req = r]
    <2>1. s \in HandlerState /\ s.cause = "NONE"
      BY IdleTyped DEF HandlerState, Idle
    <2>2. Ask(t, s, "precheck", {}) /\ ~Busy(t) /\ phase[CoreOf[t]] = "up"
      BY <1>2 DEF Begin, Busy
    <2> HIDE DEF s
    <2>3. "precheck" \in Waiting /\ {} \in SUBSET Operation /\ Tellable(s.cause, s.req)
      BY <2>1 DEF Waiting, Tellable
    <2>4. LockInv'
      BY <1>0, <2>1, <2>2, <2>3, AskLocked
    <2> QED
      BY <1>1, <2>2, <2>4 DEF Ask, tables
  <1>3. ASSUME NEW t \in Handlers, HandlerStep(t)
        PROVE  LockInv' /\ NoConflictOnOneCore'
    <2> DEFINE s == handler[t]
    <2>1. /\ s \in HandlerState /\ ReadsAreCurrent(t) /\ Tellable(s.cause, s.req)
      BY <1>0 DEF LockInv, TypeInv, TypeOK
    <2>2. ASSUME NEW cause, NEW response, Finish(t, cause, response), Tellable(cause, s.req)
          PROVE  LockInv' /\ NoConflictOnOneCore'
      BY <1>0, <2>2, FinishLocked
    <2>3. ASSUME Holds(t)
          PROVE  \A u \in Handlers : u # t /\ Holds(u) => handler[u].req.doc # s.req.doc
      BY <2>3 DEF LockInv, OneHolderPerDocument
    <2>4. ASSUME NEW call \in Waiting, NEW op \in SUBSET Operation, Ask(t, s, call, op), LockInv'
          PROVE  LockInv' /\ NoConflictOnOneCore'
      BY <1>1, <2>4 DEF Ask, tables
    <2>5. \A x : /\ Tellable("NONE", x) /\ Tellable("REVISION_CONFLICT", x)
                 /\ Tellable("STAGING", x) /\ Tellable("EXHAUSTED", x)
      BY DEF Tellable
    <2>6. CASE Fail(t)
      BY <2>1, <2>2, <2>6 DEF Fail
    <2>7. CASE Replay(t)
      BY <2>2, <2>5, <2>7 DEF Replay
    <2>8. CASE WantLock(t)
      <3>1. /\ handler' = [handler EXCEPT ![t].pc = "locking", ![t].replied = FALSE]
            /\ UNCHANGED tables /\ UNCHANGED <<queue, answers>>
        BY <2>8 DEF WantLock
      <3>2. \A u \in Handlers :
              \/ handler'[u] = handler[u]
              \/ ~Holds(u)' /\ handler'[u].cause = handler[u].cause
                            /\ handler'[u].req = handler[u].req
        BY <1>0, <3>1 DEF TypeInv, TypeOK, HandlerState, Holds
      <3>3. \A c \in Cores : queue'[c] = queue[c] \/ queue'[c] = <<>>
        BY <3>1
      <3>4. LockInv'
        BY <3>1, <3>2, <3>3, LockLetGo
      <3> QED
        BY <1>1, <3>1, <3>4 DEF tables
    <2>9. CASE Acquire(t)
      <3>1. /\ Ask(t, s, "recheck", {}) /\ s.pc = "locking" /\ Busy(t)
            /\ \A u \in Handlers : ~Competes(t, u)
        BY <2>9 DEF Acquire, Busy
      <3>2. \A u \in Handlers : u # t /\ Holds(u) => handler[u].req.doc # s.req.doc
        BY <3>1 DEF Competes, OneCore
      <3>3. "recheck" \in Waiting /\ {} \in SUBSET Operation
        BY DEF Waiting
      <3>4. LockInv'
        BY <1>0, <2>1, <3>1, <3>2, <3>3, AskLocked
      <3> QED
        BY <2>4, <3>1, <3>3, <3>4
    <2>10. CASE LoadUpdates(t)
      <3>1. /\ Ask(t, s, "load", {}) /\ s.pc = "recheck" /\ Busy(t) /\ s.replied
            /\ Holds(t) /\ HasChecked(t)
        BY <2>10 DEF LoadUpdates, Ok, Replied, Busy, Holds, HasChecked
      <3>2. KeyFree(s.req)
        BY <2>1, <3>1 DEF ReadsAreCurrent
      <3>3. "load" \in Waiting /\ {} \in SUBSET Operation
        BY DEF Waiting
      <3>4. LockInv'
        BY <1>0, <2>1, <2>3, <3>1, <3>2, <3>3, AskLocked
      <3> QED
        BY <2>4, <3>1, <3>3, <3>4
    <2>11. CASE RefuseRevision(t)
      BY <2>2, <2>5, <2>11 DEF RefuseRevision
    <2>12. CASE RefuseStaging(t)
      BY <2>2, <2>5, <2>12 DEF RefuseStaging
    <2>13. CASE Stage(t)
      <3>1. /\ Ask(t, s, "head", {}) /\ s.pc = "load" /\ Busy(t) /\ s.replied
            /\ Holds(t) /\ HasChecked(t) /\ HasLoaded(t)
        BY <2>13 DEF Stage, Ok, Replied, Busy, Holds, HasChecked, HasLoaded
      <3>2. KeyFree(s.req) /\ s.base = UpdatesOf(s.req.doc)
        BY <2>1, <3>1 DEF ReadsAreCurrent
      <3>3. "head" \in Waiting /\ {} \in SUBSET Operation
        BY DEF Waiting
      <3>4. LockInv'
        BY <1>0, <2>1, <2>3, <3>1, <3>2, <3>3, AskLocked
      <3> QED
        BY <2>4, <3>1, <3>3, <3>4
    <2>14. CASE RefuseSequence(t)
      BY <2>2, <2>5, <2>14 DEF RefuseSequence
    <2>15. CASE Submit(t)
      <3>1. /\ Ask(t, s, "commit", {Forge(t)}) /\ s.pc = "head" /\ Busy(t) /\ s.replied
            /\ Holds(t) /\ HasChecked(t) /\ HasLoaded(t) /\ HasHead(t)
            /\ ~Exhausted(s.head)
        BY <2>15 DEF Submit, Ok, Replied, Busy, Holds, HasChecked, HasLoaded, HasHead
      <3>2. /\ KeyFree(s.req) /\ s.base = UpdatesOf(s.req.doc)
            /\ s.head = HeadOf(s.req.doc)
        BY <2>1, <3>1 DEF ReadsAreCurrent
      <3>3. Forge(t) \in Operation
        BY <1>0, <3>1, ForgeTyped
      <3>4. "commit" \in Waiting /\ {Forge(t)} \in SUBSET Operation
        BY <3>3 DEF Waiting
      <3>5. LockInv'
        BY <1>0, <2>1, <2>3, <3>1, <3>2, <3>4, AskLocked
      <3> QED
        BY <2>4, <3>1, <3>4, <3>5
    <2>16. CASE Acknowledge(t)
      BY <2>2, <2>5, <2>16 DEF Acknowledge
    <2> QED
      BY <1>3, <2>6, <2>7, <2>8, <2>9, <2>10, <2>11, <2>12, <2>13, <2>14, <2>15, <2>16
        DEF HandlerStep
  <1>4. ASSUME UNCHANGED <<tables, answers>>,
               \A c \in Cores : queue'[c] = queue[c] \/ queue'[c] = <<>>,
               \A u \in Handlers : handler'[u] = handler[u] \/ handler'[u] = Idle
        PROVE  LockInv' /\ NoConflictOnOneCore'
    <2>1. \A u \in Handlers : handler'[u] = handler[u]
                                \/ (~Holds(u)' /\ handler'[u].cause = "NONE")
      BY <1>4 DEF Idle, Holds
    <2>2. UNCHANGED tables
      BY <1>4
    <2>3. LockInv'
      BY <1>4, <2>1, <2>2, LockLetGo
    <2> QED
      BY <1>1, <1>4, <2>3 DEF tables
  <1>5. ASSUME NEW t \in Handlers, Cancel(t) PROVE LockInv' /\ NoConflictOnOneCore'
    BY <1>0, <1>4, <1>5 DEF Cancel, TypeInv, TypeOK
  <1>6. ASSUME NEW c \in Cores, AbortAll(c) \/ Stop(c) \/ Start(c)
        PROVE  LockInv' /\ NoConflictOnOneCore'
    <2>1. UNCHANGED <<tables, answers>>
      BY <1>6 DEF AbortAll, Stop, Start
    <2>2. \A u \in Handlers : handler'[u] = handler[u] \/ handler'[u] = Idle
      BY <1>6 DEF AbortAll, Stop, Start
    <2>3. \A d \in Cores : queue'[d] = queue[d] \/ queue'[d] = <<>>
      BY <1>0, <1>6 DEF AbortAll, Stop, Start, TypeInv, TypeOK
    <2> QED
      BY <1>4, <2>1, <2>2, <2>3
  <1>7. ASSUME NEW c \in Cores, StoreStep(c) PROVE LockInv' /\ NoConflictOnOneCore'
    <2>1. LockInv'
      BY <1>0, <1>7, ReadLocked, CommitLocked, SMTT(60) DEF StoreStep
    <2>2. UNCHANGED answers /\ operations \subseteq operations'
      BY <1>7 DEF StoreStep, ServeIdempotency, ServeLoadUpdates, ServeLogHead,
                  ServeCommitLocal, Reply, Write, tables
    <2> QED
      BY <1>1, <2>1, <2>2
  <1>8. CASE UNCHANGED vars
    BY <1>4, <1>8 DEF vars
  <1> QED
    BY <1>2, <1>3, <1>5, <1>6, <1>7, <1>8 DEF Next

\* On one core the lock of the document and the order of the store's queue make the
\* conflict checks of commit_local unreachable, also for the commits that dropped
\* handlers left behind; the raw constraint error needs one key on two documents.  For
\* any number of handlers, documents and requests.
THEOREM ConflictsUnreachable ==
  ASSUME OneCore
  PROVE  Spec => []NoConflictOnOneCore
  <1>1. Init => LockInv /\ NoConflictOnOneCore
    BY InitLocked
  <1>2. IInv /\ LockInv /\ NoConflictOnOneCore /\ [Next]_vars
          => LockInv' /\ NoConflictOnOneCore'
    BY StepLocked
  <1> QED
    BY <1>1, <1>2, Invariance, PTL DEF Spec

-----------------------------------------------------------------------------
(* The change feed and the document list.  ChangesInv relates the change   *)
(* table, the history and the cursor of a reader; ListingInv what a        *)
(* listing owes, what it has found and its cursor.                         *)

\* A non-empty finite set of numbers has a greatest element: one with as few
\* elements above it as any.
LEMMA Greatest ==
  ASSUME NEW S, S \subseteq Nat, IsFiniteSet(S), S # {}
  PROVE  \E m \in S : \A k \in S : k <= m
  <1> DEFINE above(k) == {j \in S : j > k}
             families == {above(k) : k \in S}
  <1>1. families \subseteq FiniteSubsetsOf(S) /\ families # {}
    <2>1. \A k \in S : above(k) \subseteq S
      OBVIOUS
    <2>2. \A k \in S : IsFiniteSet(above(k))
      <3> HIDE DEF above
      <3> QED
        BY <2>1, FS_Subset
    <2> HIDE DEF above
    <2> QED
      BY <2>1, <2>2 DEF FiniteSubsetsOf
  <1>2. PICK A \in families : \A B \in families : ~ (<<B, A>> \in StrictSubsetOrdering(S))
    <2> HIDE DEF families
    <2> QED
      BY <1>1, WFMin, FS_StrictSubsetOrderingWellFounded
  <1>3. PICK m \in S : A = above(m)
    OBVIOUS
  <1>4. ASSUME NEW k \in S, ~(k <= m) PROVE FALSE
    <2>0. \A j \in S : j \in Nat
      OBVIOUS
    <2>1. k \in above(m) /\ k \notin above(k) /\ \A j \in above(k) : j \in above(m)
      BY <1>4, <2>0
    <2>2. <<above(k), above(m)>> \in (SUBSET S) \X (SUBSET S) /\ above(k) # above(m)
      BY <2>1
    <2>3. <<above(k), above(m)>> \in StrictSubsetOrdering(S)
      BY <2>1, <2>2 DEF StrictSubsetOrdering
    <2> QED
      BY <1>2, <1>3, <2>3
  <1> QED
    BY <1>4

\* And a smallest one, in the same way.
LEMMA Smallest ==
  ASSUME NEW S, S \subseteq Nat, IsFiniteSet(S), S # {}
  PROVE  \E m \in S : \A k \in S : m <= k
  <1> DEFINE below(k) == {j \in S : j < k}
             families == {below(k) : k \in S}
  <1>1. families \subseteq FiniteSubsetsOf(S) /\ families # {}
    <2>1. \A k \in S : below(k) \subseteq S
      OBVIOUS
    <2>2. \A k \in S : IsFiniteSet(below(k))
      <3> HIDE DEF below
      <3> QED
        BY <2>1, FS_Subset
    <2> HIDE DEF below
    <2> QED
      BY <2>1, <2>2 DEF FiniteSubsetsOf
  <1>2. PICK A \in families : \A B \in families : ~ (<<B, A>> \in StrictSubsetOrdering(S))
    <2> HIDE DEF families
    <2> QED
      BY <1>1, WFMin, FS_StrictSubsetOrderingWellFounded
  <1>3. PICK m \in S : A = below(m)
    OBVIOUS
  <1>4. ASSUME NEW k \in S, ~(m <= k) PROVE FALSE
    <2>0. \A j \in S : j \in Nat
      OBVIOUS
    <2>1. k \in below(m) /\ k \notin below(k) /\ \A j \in below(k) : j \in below(m)
      BY <1>4, <2>0
    <2>2. <<below(k), below(m)>> \in (SUBSET S) \X (SUBSET S) /\ below(k) # below(m)
      BY <2>1
    <2>3. <<below(k), below(m)>> \in StrictSubsetOrdering(S)
      BY <2>1, <2>2 DEF StrictSubsetOrdering
    <2> QED
      BY <1>2, <1>3, <2>3
  <1> QED
    BY <1>4

\* What a page holds: the first keys without a gap, at most n of them, one at
\* least when there is a key, and all of them when one more would still fit.
LEMMA FirstIsPage ==
  ASSUME NEW K, K \subseteq Nat, IsFiniteSet(K), NEW n \in Nat
  PROVE  /\ First(K, n) \subseteq K /\ IsFiniteSet(First(K, n))
         /\ \A k \in First(K, n), j \in K : j <= k => j \in First(K, n)
         /\ Cardinality(First(K, n)) <= n
         /\ K # {} /\ n > 0 => First(K, n) # {}
         /\ Cardinality(First(K, n + 1)) <= n => First(K, n) = K
  <1> DEFINE upTo(k) == {j \in K : j <= k}
  <1>1. \A k \in K : IsFiniteSet(upTo(k)) /\ Cardinality(upTo(k)) \in Nat
    BY FS_Subset, FS_CardinalityType
  <1>2. ASSUME NEW m \in Nat
        PROVE  /\ First(K, m) \subseteq K /\ IsFiniteSet(First(K, m))
               /\ \A k \in First(K, m), j \in K : j <= k => j \in First(K, m)
               /\ Cardinality(First(K, m)) <= m
    <2>1. First(K, m) = {k \in K : Cardinality(upTo(k)) <= m}
      BY DEF First
    <2>2. First(K, m) \subseteq K /\ IsFiniteSet(First(K, m))
      BY <2>1, FS_Subset
    <2>3. ASSUME NEW k \in First(K, m), NEW j \in K, j <= k PROVE j \in First(K, m)
      <3>0. k \in K /\ \A i \in K : i \in Nat
        BY <2>2
      <3>1. \A i \in upTo(j) : i \in upTo(k)
        BY <2>3, <3>0
      <3>2. Cardinality(upTo(j)) <= Cardinality(upTo(k))
        <4> HIDE DEF upTo
        <4> QED BY <3>1, <1>1, <2>2, FS_Subset
      <3>3. Cardinality(upTo(k)) <= m
        BY <2>1
      <3>4. Cardinality(upTo(j)) \in Nat /\ Cardinality(upTo(k)) \in Nat
        BY <1>1, <2>2
      <3> HIDE DEF upTo
      <3> QED
        BY <2>1, <3>2, <3>3, <3>4
    <2>4. Cardinality(First(K, m)) <= m
      <3>1. CASE First(K, m) = {}
        BY <3>1, FS_EmptySet
      <3>2. CASE First(K, m) # {}
        <4>0. First(K, m) \subseteq Nat
          BY <2>2
        <4>1. PICK k \in First(K, m) : \A j \in First(K, m) : j <= k
          BY <2>2, <3>2, <4>0, Greatest
        <4>2. First(K, m) = upTo(k)
          BY <2>2, <2>3, <4>1
        <4> HIDE DEF upTo
        <4> QED
          BY <2>1, <4>1, <4>2
      <3> QED
        BY <3>1, <3>2
    <2> QED
      BY <2>2, <2>3, <2>4
  <1>3. K # {} /\ n > 0 => First(K, n) # {}
    <2> SUFFICES ASSUME K # {}, n > 0 PROVE First(K, n) # {}
      OBVIOUS
    <2>1. PICK k \in K : \A j \in K : k <= j
      BY Smallest
    <2>2. upTo(k) = {k}
      <3>1. \A i \in K : i \in Nat
        OBVIOUS
      <3>2. \A i \in upTo(k) : i = k
        BY <2>1, <3>1
      <3>3. k \in upTo(k)
        BY <3>1
      <3> HIDE DEF upTo
      <3> QED
        BY <3>2, <3>3
    <2>3. Cardinality(upTo(k)) = 1
      BY <2>2, FS_Singleton
    <2> QED
      BY <2>3 DEF First
  <1>4. ASSUME Cardinality(First(K, n + 1)) <= n, First(K, n) # K PROVE FALSE
    <2> DEFINE page == First(K, n)
               left == K \ First(K, n)
               more == First(K, n + 1)
    <2>1. left \subseteq Nat /\ IsFiniteSet(left) /\ left # {}
      BY <1>2, <1>4, FS_Subset
    <2>2. PICK k \in left : \A j \in left : k <= j
      <3> HIDE DEF left
      <3> QED
        BY <2>1, Smallest
    <2>3. upTo(k) = page \cup {k} /\ k \notin page
      <3>0. /\ page \subseteq K /\ \A i \in K : i \in Nat
            /\ \A i \in page, j \in K : j <= i => j \in page
        BY <1>2
      <3>1. \A j \in page : j <= k
        <4>1. k \in K /\ k \notin page
          BY <2>2
        <4> HIDE DEF page
        <4> QED
          BY <3>0, <4>1
      <3>2. \A j \in K : j <= k => j \in page \cup {k}
        BY <2>2
      <3>3. k \in upTo(k) /\ k \notin page
        BY <2>2, <3>0
      <3>4. \A j \in page : j \in upTo(k)
        BY <3>0, <3>1
      <3>5. \A j \in upTo(k) : j \in page \cup {k}
        BY <3>2
      <3> HIDE DEF upTo, page
      <3> QED
        BY <3>3, <3>4, <3>5
    <2>4. Cardinality(upTo(k)) = Cardinality(page) + 1
      <3> HIDE DEF upTo
      <3> QED
        BY <1>2, <2>3, FS_AddElement
    <2>5. Cardinality(page) \in Nat /\ Cardinality(page) <= n
      BY <1>2, FS_CardinalityType
    <2>6. k \in K /\ Cardinality(upTo(k)) \in Nat /\ ~(Cardinality(upTo(k)) <= n)
      BY <1>1, <2>2 DEF First
    <2>7. k \in more
      <3>1. Cardinality(upTo(k)) <= n + 1
        <4> HIDE DEF upTo, page
        <4> QED
          BY <2>4, <2>5
      <3> QED
        BY <2>6, <3>1 DEF First
    <2>8. upTo(k) \subseteq more
      <3>1. n + 1 \in Nat
        OBVIOUS
      <3> QED
        BY <1>2, <2>7, <3>1
    <2>9. Cardinality(upTo(k)) <= Cardinality(more) /\ Cardinality(more) \in Nat
      <3>1. n + 1 \in Nat
        OBVIOUS
      <3>2. IsFiniteSet(more)
        BY <1>2, <3>1
      <3> HIDE DEF upTo, more
      <3> QED
        BY <2>8, <3>2, FS_Subset, FS_CardinalityType
    <2> HIDE DEF upTo, more
    <2> QED
      BY <1>4, <2>6, <2>9 DEF more
  <1> QED
    BY <1>2, <1>3, <1>4

\* The cursor of a page is its last key.
LEMMA CursorIsLast ==
  ASSUME NEW K, K \subseteq Nat, IsFiniteSet(K), K # {}
  PROVE  /\ Cursor(K) \in First(K, Limit) /\ Cursor(K) \in K
         /\ \A k \in K : k \in First(K, Limit) <=> k <= Cursor(K)
  <1> DEFINE page == First(K, Limit)
  <1>1. Limit \in Nat /\ Limit > 0
    BY PageAssumption DEF ValidLimit
  <1>2. /\ page \subseteq K /\ IsFiniteSet(page) /\ page # {}
        /\ \A k \in page, j \in K : j <= k => j \in page
    BY <1>1, FirstIsPage
  <1> HIDE DEF page
  <1>3. \E m \in page : \A k \in page : k <= m
    BY <1>2, Greatest
  <1>4. \E m \in page : \A k \in page : m >= k
    BY <1>2, <1>3
  <1>5. Cursor(K) = CHOOSE m \in page : \A k \in page : m >= k
    BY DEF Cursor, Max, page
  <1>6. Cursor(K) \in page /\ \A k \in page : Cursor(K) >= k
    BY <1>4, <1>5
  <1> QED
    BY <1>2, <1>6 DEF page

\* SetToSeq lists a finite set.
LEMMA SetToSeqLists ==
  ASSUME NEW S, IsFiniteSet(S)
  PROVE  SetToSeq(S) \in Seq(S) /\ ToSet(SetToSeq(S)) = S
  <1> DEFINE n == Cardinality(S)
             s == SetToSeq(S)
  <1>1. n \in Nat /\ ExistsBijection(1..n, S)
    BY FS_CardinalityType
  <1>2. \E f \in [1..n -> S] : IsInjective(f)
    BY <1>1 DEF ExistsBijection, Bijection, Injection
  <1>3. s \in [1..n -> S] /\ IsInjective(s)
    BY <1>2 DEF SetToSeq
  <1>4. s \in Injection(1..n, S)
    BY <1>3 DEF Injection
  <1>5. IsFiniteSet(1..n) /\ Cardinality(1..n) = n
    BY <1>1, FS_Interval
  <1>6. s \in Surjection(1..n, S)
    <2> HIDE DEF s
    <2> QED
      BY <1>4, <1>5, FS_Injection
  <1> HIDE DEF s, n
  <1>7. \A x \in S : \E i \in 1..n : s[i] = x
    BY <1>6 DEF Surjection
  <1>8. s \in Seq(S)
    BY <1>1, <1>3
  <1>9. DOMAIN s = 1..n
    BY <1>3
  <1>10. ToSet(s) = S
    BY <1>3, <1>7, <1>9 DEF ToSet
  <1> QED
    BY <1>8, <1>10 DEF s

ChangeRow == [hash : Hash, doc : Docs]

\* The change table holds the rows of the history, and the reader has seen what
\* the scope has at its cursor and before it.
ChangesInv ==
  /\ documentChanges \in Seq(ChangeRow)
  /\ ToSet(documentChanges) = documentUpdates
  /\ feed \in [after : Nat, seen : SUBSET Hash]
  /\ feed.after <= Len(documentChanges)
  /\ feed.seen = {documentChanges[i].hash :
                    i \in {j \in 1..feed.after : documentChanges[j].doc \in Scope}}

\* Before the first page the reader is at the beginning.
LEMMA InitChanges == FeedInit => ChangesInv
  <1> SUFFICES ASSUME FeedInit PROVE ChangesInv
    OBVIOUS
  <1>1. documentChanges = <<>> /\ feed = [after |-> 0, seen |-> {}] /\ documentUpdates = {}
    BY DEF FeedInit, NoFeed, Init
  <1>2. documentChanges \in Seq(ChangeRow) /\ Len(documentChanges) = 0
    BY <1>1
  <1>3. ToSet(documentChanges) = {}
    BY <1>1 DEF ToSet
  <1>4. {documentChanges[i].hash :
           i \in {j \in 1..feed.after : documentChanges[j].doc \in Scope}} = {}
    BY <1>1
  <1> QED
    BY <1>1, <1>2, <1>3, <1>4 DEF ChangesInv

\* A commit appends its rows; what lies behind the cursor stays.
LEMMA WriteKeepsChanges ==
  ASSUME IInv, IInv', ChangesInv, Written
  PROVE  ChangesInv'
  <1> DEFINE new == documentUpdates' \ documentUpdates
             s == SetToSeq(new)
  <1>1. documentUpdates \subseteq documentUpdates'
    <2>1. [Next]_vars
      BY DEF Written
    <2>2. CASE UNCHANGED tables
      BY <2>2 DEF tables
    <2>3. CASE \E op \in Operation : \E base : Write(op, base)
      BY <2>3 DEF Write
    <2> QED
      BY <2>1, <2>2, <2>3, TablesStep
  <1>2. IsFiniteSet(new)
    <2>1. IsFiniteSet(documentUpdates')
      BY DEF IInv, TypeInv, Finite
    <2> HIDE DEF new
    <2>2. new \subseteq documentUpdates'
      BY DEF new
    <2> QED
      BY <2>1, <2>2, FS_Subset
  <1>3. new \subseteq ChangeRow
    BY DEF IInv, TypeInv, TypeOK, ChangeRow
  <1>4. s \in Seq(new) /\ ToSet(s) = new
    <2> HIDE DEF new
    <2> QED
      BY <1>2, SetToSeqLists
  <1>5. documentChanges' = documentChanges \o s /\ feed' = feed
    BY DEF Written, Trigger
  <1>6. documentChanges \in Seq(ChangeRow) /\ s \in Seq(ChangeRow)
    <2> HIDE DEF new, s
    <2> QED
      BY <1>3, <1>4 DEF ChangesInv
  <1> HIDE DEF s
  <1> DEFINE m == Len(documentChanges)
             k == Len(s)
  <1>7. m \in Nat /\ k \in Nat
    BY <1>6
  <1>8. /\ documentChanges' \in Seq(ChangeRow) /\ Len(documentChanges') = m + k
        /\ \A i \in 1..m : documentChanges'[i] = documentChanges[i]
        /\ \A i \in 1..k : documentChanges'[m + i] = s[i]
    BY <1>5, <1>6
  <1>9. ToSet(documentChanges') = ToSet(documentChanges) \cup ToSet(s)
    <2>1. /\ DOMAIN documentChanges = 1..m /\ DOMAIN s = 1..k
          /\ DOMAIN documentChanges' = 1..(m + k)
      BY <1>6, <1>8
    <2>2. ASSUME NEW i \in 1..(m + k), ~(i \in 1..m) PROVE \E j \in 1..k : i = m + j
      <3>1. i - m \in 1..k /\ i = m + (i - m)
        BY <1>7, <2>2
      <3> QED
        BY <3>1
    <2>3. \A i \in 1..k : m + i \in 1..(m + k)
      BY <1>7
    <2>4. \A i \in 1..m : i \in 1..(m + k)
      BY <1>7
    <2> HIDE DEF m, k
    <2> QED
      BY <1>8, <2>1, <2>2, <2>3, <2>4 DEF ToSet
  <1>10. ToSet(documentChanges') = documentUpdates'
    BY <1>1, <1>4, <1>9 DEF ChangesInv
  <1>11. /\ feed'.after \in Nat /\ feed'.after <= m
         /\ \A i \in 1..feed'.after : i \in 1..m
    BY <1>5, <1>7 DEF ChangesInv
  <1>12. feed'.seen = {documentChanges'[i].hash :
                         i \in {j \in 1..feed'.after : documentChanges'[j].doc \in Scope}}
    <2> HIDE DEF m
    <2> QED
      BY <1>5, <1>8, <1>11 DEF ChangesInv
  <1>13. feed'.after <= Len(documentChanges')
    BY <1>7, <1>8, <1>11
  <1>14. feed' \in [after : Nat, seen : SUBSET Hash]
    BY <1>5 DEF ChangesInv
  <1> QED
    BY <1>8, <1>10, <1>12, <1>13, <1>14 DEF ChangesInv

\* A page takes the reader to its last row, past no row of the scope; a page
\* after which there is no more takes it to the end.
LEMMA ReadKeepsChanges ==
  ASSUME ChangesInv, ReadChanges
  PROVE  /\ ChangesInv'
         /\ ~Changes(feed.after).more =>
              feed'.seen = {documentChanges[i].hash :
                 i \in {j \in 1..Len(documentChanges) : documentChanges[j].doc \in Scope}}
  <1> DEFINE n == Len(documentChanges)
             keys == {i \in DOMAIN documentChanges : documentChanges[i].doc \in Scope /\ i > feed.after}
             page == First(keys, Limit)
             next == IF keys = {} THEN feed.after ELSE Cursor(keys)
  <1>1. /\ n \in Nat /\ DOMAIN documentChanges = 1..n /\ feed.after \in Nat /\ feed.after <= n
        /\ \A i \in 1..n : documentChanges[i] \in ChangeRow
    BY DEF ChangesInv
  <1>2. /\ keys \subseteq Nat /\ IsFiniteSet(keys)
        /\ \A i \in keys : i \in 1..n /\ i > feed.after /\ documentChanges[i].doc \in Scope
        /\ \A i \in 1..n : documentChanges[i].doc \in Scope /\ i > feed.after => i \in keys
    <2>1. keys \subseteq 1..n
      BY <1>1
    <2>2. IsFiniteSet(1..n)
      BY <1>1, FS_Interval
    <2>3. IsFiniteSet(keys)
      <3> HIDE DEF keys
      <3> QED
        BY <2>1, <2>2, FS_Subset
    <2> QED
      BY <1>1, <2>3
  <1>3. /\ feed' = [after |-> next, seen |-> feed.seen \cup {documentChanges[i].hash : i \in page}]
        /\ Changes(feed.after).more = HasMore(keys)
        /\ UNCHANGED <<documentUpdates, documentChanges>>
    BY DEF ReadChanges, Changes, vars, tables
  <1> HIDE DEF keys
  <1>4. Limit \in Nat /\ Limit + 1 \in Nat /\ Limit > 0
    BY PageAssumption DEF ValidLimit
  <1>5. /\ page \subseteq keys
        /\ ~HasMore(keys) => page = keys
    <2>1. Cardinality(First(keys, Limit + 1)) \in Nat
      BY <1>2, <1>4, FirstIsPage, FS_CardinalityType
    <2>2. /\ page \subseteq keys
          /\ Cardinality(First(keys, Limit + 1)) <= Limit => page = keys
      BY <1>2, <1>4, FirstIsPage
    <2>3. ~HasMore(keys) => Cardinality(First(keys, Limit + 1)) <= Limit
      BY <1>4, <2>1 DEF HasMore
    <2> QED
      BY <2>2, <2>3
  <1>6. /\ next \in Nat /\ next <= n /\ feed.after <= next
        /\ \A i \in keys : i \in page <=> i <= next
    <2>1. CASE keys = {}
      BY <1>1, <2>1
    <2>2. CASE keys # {}
      <3>1. Cursor(keys) \in keys /\ \A i \in keys : i \in page <=> i <= Cursor(keys)
        BY <1>2, <2>2, CursorIsLast
      <3>2. next = Cursor(keys)
        BY <2>2
      <3>3. next \in 1..n /\ next > feed.after
        BY <1>2, <3>1, <3>2
      <3> HIDE DEF next, page
      <3>4. \A i \in keys : i \in page <=> i <= next
        BY <3>1, <3>2 DEF page
      <3> QED
        BY <1>1, <3>3, <3>4
    <2> QED
      BY <2>1, <2>2
  <1> HIDE DEF page, next
  <1> DEFINE upTo(k) == {j \in 1..k : documentChanges[j].doc \in Scope}
  <1>7. \A i \in upTo(next) : i \in upTo(feed.after) \/ i \in page
    BY <1>1, <1>2, <1>6
  <1>8. /\ \A i \in upTo(feed.after) : i \in upTo(next)
        /\ \A i \in page : i \in upTo(next)
    BY <1>1, <1>2, <1>5, <1>6
  <1>9. feed.seen = {documentChanges[i].hash : i \in upTo(feed.after)}
    BY DEF ChangesInv
  <1>10. feed'.seen = {documentChanges[i].hash : i \in upTo(next)}
    <2>1. feed'.seen = {documentChanges[i].hash : i \in upTo(feed.after)}
                         \cup {documentChanges[i].hash : i \in page}
      BY <1>3, <1>9
    <2> HIDE DEF upTo
    <2> QED
      BY <1>7, <1>8, <2>1
  <1>11. ChangesInv'
    <2>1. feed'.after = next
      BY <1>3
    <2>2. feed' \in [after : Nat, seen : SUBSET Hash]
      <3>1. feed.seen \in SUBSET Hash
        BY DEF ChangesInv
      <3>2. {documentChanges[i].hash : i \in page} \in SUBSET Hash
        BY <1>1, <1>2, <1>5 DEF ChangeRow
      <3> QED
        BY <1>3, <1>6, <3>1, <3>2
    <2> QED
      BY <1>3, <1>6, <1>10, <2>1, <2>2 DEF ChangesInv
  <1>12. ASSUME ~HasMore(keys) PROVE feed'.seen = {documentChanges[i].hash : i \in upTo(n)}
    <2>1. page = keys
      BY <1>5, <1>12
    <2>2. \A i \in upTo(n) : i \in upTo(next)
      BY <1>1, <1>2, <1>6, <2>1
    <2>3. \A i \in upTo(next) : i \in upTo(n)
      BY <1>1, <1>6
    <2> HIDE DEF upTo
    <2> QED
      BY <1>10, <2>2, <2>3
  <1> QED
    BY <1>3, <1>11, <1>12

\* The rows of a listing: a document of the scope with the number of its updates.
Row == [doc : Scope, revision : Nat]

\* ORDER BY document_id lists every row once, in the order of the documents.
LEMMA InOrderLists ==
  ASSUME NEW S \in SUBSET Row, IsFiniteSet(S),
         \A r, s \in S : r.doc = s.doc => r = s
  PROVE  /\ InOrder(S) \in Seq(S)
         /\ \A s \in S : \E i \in 1..Len(InOrder(S)) : InOrder(S)[i] = s
         /\ \A i, j \in 1..Len(InOrder(S)) :
              i < j => Rank[InOrder(S)[i].doc] < Rank[InOrder(S)[j].doc]
  <1> DEFINE n == Cardinality(S)
             before(s) == {r \in S : Rank[r.doc] < Rank[s.doc]}
             place == [s \in S |-> Cardinality(before(s)) + 1]
             list == InOrder(S)
  <1>1. n \in Nat
    BY FS_CardinalityType
  <1>2. \A s \in S : Rank[s.doc] \in Nat
    BY ScopeAssumption, RankAssumption DEF Row
  <1>3. \A r, s \in S : Rank[r.doc] = Rank[s.doc] => r = s
    <2>1. \A s \in S : s.doc \in Docs
      BY ScopeAssumption DEF Row
    <2> QED
      BY <2>1, RankAssumption
  <1>4. ASSUME NEW r \in S, NEW s \in S, Rank[r.doc] < Rank[s.doc]
        PROVE  place[r] < place[s]
    <2>1. \A q \in before(r) : q \in before(s)
      BY <1>2, <1>4
    <2>2. r \in before(s) /\ r \notin before(r)
      BY <1>2, <1>4
    <2>3. before(s) \subseteq S
      OBVIOUS
    <2> HIDE DEF before
    <2>4. IsFiniteSet(before(s)) /\ before(r) \subseteq before(s) /\ before(r) # before(s)
      BY <2>1, <2>2, <2>3, FS_Subset
    <2>5. /\ Cardinality(before(r)) \in Nat /\ Cardinality(before(s)) \in Nat
          /\ Cardinality(before(r)) < Cardinality(before(s))
      <3>1. /\ IsFiniteSet(before(r)) /\ Cardinality(before(r)) <= Cardinality(before(s))
            /\ Cardinality(before(s)) # Cardinality(before(r))
        BY <2>4, FS_Subset
      <3> QED
        BY <2>4, <3>1, FS_CardinalityType
    <2> QED
      BY <2>5
  <1>5. ASSUME NEW s \in S PROVE place[s] \in 1..n
    <2>1. before(s) \subseteq S /\ s \notin before(s)
      BY <1>2
    <2> HIDE DEF before
    <2>2. /\ IsFiniteSet(before(s)) /\ Cardinality(before(s)) <= n
          /\ Cardinality(before(s)) # n
      BY <2>1, FS_Subset
    <2>3. Cardinality(before(s)) \in Nat
      BY <2>2, FS_CardinalityType
    <2> HIDE DEF n
    <2> QED
      BY <1>1, <2>2, <2>3
  <1>6. \A r, s \in S : place[r] = place[s] => r = s
    <2> SUFFICES ASSUME NEW r \in S, NEW s \in S, place[r] = place[s] PROVE r = s
      OBVIOUS
    <2>1. place[r] \in Nat /\ place[s] \in Nat
      BY <1>5, <1>1
    <2>2. ~(Rank[r.doc] < Rank[s.doc]) /\ ~(Rank[s.doc] < Rank[r.doc])
      <3> HIDE DEF place
      <3> QED
        BY <1>4, <2>1
    <2> QED
      BY <1>2, <1>3, <2>2
  <1>7. place \in Injection(S, 1..n)
    <2>1. place \in [S -> 1..n]
      BY <1>5
    <2>2. IsInjective(place)
      BY <1>6 DEF IsInjective
    <2> QED
      BY <2>1, <2>2 DEF Injection
  <1>8. place \in Surjection(S, 1..n)
    <2>1. IsFiniteSet(1..n) /\ Cardinality(1..n) = n
      BY <1>1, FS_Interval
    <2> HIDE DEF place
    <2> QED
      BY <1>7, <2>1, FS_Injection
  <1>9. \A i \in 1..n : \E s \in S : place[s] = i
    <2> HIDE DEF place
    <2> QED
      BY <1>8 DEF Surjection
  <1>10. ASSUME NEW i \in 1..n PROVE list[i] \in S /\ place[list[i]] = i
    <2>1. list[i] = CHOOSE s \in S : Cardinality(before(s)) = i - 1
      BY DEF InOrder
    <2>2. PICK s \in S : place[s] = i
      BY <1>9
    <2>3. \A r \in S : Cardinality(before(r)) = i - 1 <=> place[r] = i
      <3>1. \A r \in S : Cardinality(before(r)) \in Nat
        BY FS_Subset, FS_CardinalityType
      <3> HIDE DEF before
      <3> QED
        BY <1>1, <3>1
    <2>4. \E r \in S : Cardinality(before(r)) = i - 1
      BY <2>2, <2>3
    <2> HIDE DEF before, place, list
    <2>5. list[i] \in S /\ Cardinality(before(list[i])) = i - 1
      BY <2>1, <2>4
    <2> QED
      BY <2>3, <2>5
  <1>11. list \in Seq(S) /\ Len(list) = n
    <2>1. list \in [1..n -> S]
      <3> DEFINE row(i) == CHOOSE s \in S : Cardinality(before(s)) = i - 1
      <3>1. list = [i \in 1..n |-> row(i)]
        BY DEF InOrder
      <3>2. \A i \in 1..n : row(i) = list[i]
        <4> HIDE DEF list, row, n
        <4> QED
          BY <3>1
      <3>3. \A i \in 1..n : row(i) \in S
        <4> HIDE DEF list, row, n
        <4> QED
          BY <1>10, <3>2
      <3> HIDE DEF list, row, n
      <3> QED
        BY <3>1, <3>3
    <2> HIDE DEF list, n
    <2> QED
      BY <1>1, <2>1
  <1>12. ASSUME NEW s \in S PROVE \E i \in 1..n : list[i] = s
    <2>1. place[s] \in 1..n
      BY <1>5
    <2>2. list[place[s]] \in S /\ place[list[place[s]]] = place[s]
      <3> HIDE DEF list, place
      <3> QED
        BY <1>10, <2>1
    <2> HIDE DEF list, place
    <2> QED
      BY <1>6, <2>1, <2>2
  <1>13. ASSUME NEW i \in 1..n, NEW j \in 1..n, i < j
         PROVE  Rank[list[i].doc] < Rank[list[j].doc]
    <2>1. /\ list[i] \in S /\ list[j] \in S /\ i \in Nat /\ j \in Nat
          /\ place[list[i]] = i /\ place[list[j]] = j
      BY <1>1, <1>10
    <2>2. Rank[list[i].doc] \in Nat /\ Rank[list[j].doc] \in Nat
      BY <1>2, <2>1
    <2>3. ~(Rank[list[j].doc] < Rank[list[i].doc])
      <3> HIDE DEF place, list
      <3> QED
        BY <1>4, <1>13, <2>1
    <2>4. list[i] # list[j]
      <3> HIDE DEF place, list
      <3> QED
        BY <1>13, <2>1
    <2>5. Rank[list[i].doc] # Rank[list[j].doc]
      <3> HIDE DEF list
      <3> QED
        BY <1>3, <2>1, <2>4
    <2> HIDE DEF list
    <2> QED
      BY <2>2, <2>3, <2>5
  <1> HIDE DEF list, n
  <1> QED
    BY <1>11, <1>12, <1>13 DEF list

\* What a listing under way may rely on: it owes what it has found up to its
\* cursor, in order, and no document has fewer updates than it owes.
ListingInv ==
  /\ listing \in [after : SUBSET Nat, owed : SUBSET Row, found : Seq(Row), wrong : SUBSET Row]
  /\ listing.wrong = {}
  /\ listing.after = {} \/ \E a \in Nat : listing.after = {a}
  /\ listing.after = {} => listing.owed = {}
  /\ \A s \in listing.owed : UpdatesOf(s.doc) # {} /\ s.revision <= Cardinality(UpdatesOf(s.doc))
  /\ \A i \in 1..Len(listing.found) : \E a \in listing.after : Rank[listing.found[i].doc] <= a
  /\ \A i, j \in 1..Len(listing.found) :
       i < j => Rank[listing.found[i].doc] < Rank[listing.found[j].doc]
  /\ \A s \in listing.owed : (\E a \in listing.after : Rank[s.doc] <= a) =>
       \E i \in 1..Len(listing.found) :
         listing.found[i].doc = s.doc /\ listing.found[i].revision >= s.revision

\* No listing is under way at first.
LEMMA InitListing == FeedInit => ListingInv
  <1> SUFFICES ASSUME FeedInit PROVE ListingInv
    OBVIOUS
  <1>1. listing = [after |-> {}, owed |-> {}, found |-> <<>>, wrong |-> {}]
    BY DEF FeedInit, NoListing
  <1>2. <<>> \in Seq(Row) /\ Len(<<>>) = 0
    OBVIOUS
  <1> QED
    BY <1>1, <1>2 DEF ListingInv

\* The history of one document is finite in every state.
LEMMA HashesFinite ==
  ASSUME NEW U, IsFiniteSet(U), NEW d
  PROVE  IsFiniteSet({u.hash : u \in {v \in U : v.doc = d}})
  <1> DEFINE rows == {v \in U : v.doc = d}
             hashes == {u.hash : u \in rows}
             f == [u \in rows |-> u.hash]
  <1>1. IsFiniteSet(rows)
    BY FS_Subset
  <1>2. f \in Surjection(rows, hashes)
    BY DEF Surjection
  <1> QED
    BY <1>1, <1>2, FS_Surjection

\* A write takes nothing away that a listing owes or has found.
LEMMA WriteKeepsListing ==
  ASSUME IInv, IInv', ListingInv, Written
  PROVE  ListingInv'
  <1>1. listing' = listing
    BY DEF Written
  <1>2. documentUpdates \subseteq documentUpdates'
    <2>1. [Next]_vars
      BY DEF Written
    <2>2. CASE UNCHANGED tables
      BY <2>2 DEF tables
    <2>3. CASE \E op \in Operation : \E base : Write(op, base)
      BY <2>3 DEF Write
    <2> QED
      BY <2>1, <2>2, <2>3, TablesStep
  <1>3. ASSUME NEW s \in listing.owed
        PROVE  UpdatesOf(s.doc)' # {} /\ s.revision <= Cardinality(UpdatesOf(s.doc)')
    <2> DEFINE d == s.doc
    <2>1. UpdatesOf(d) \subseteq UpdatesOf(d)'
      BY <1>2 DEF UpdatesOf
    <2>2. IsFiniteSet(UpdatesOf(d)')
      <3>1. IsFiniteSet(documentUpdates)'
        BY DEF IInv, TypeInv, Finite
      <3> QED
        BY <3>1, HashesFinite DEF UpdatesOf
    <2>3. /\ Cardinality(UpdatesOf(d)) <= Cardinality(UpdatesOf(d)')
          /\ Cardinality(UpdatesOf(d)) \in Nat /\ Cardinality(UpdatesOf(d)') \in Nat
      BY <2>1, <2>2, FS_Subset, FS_CardinalityType
    <2>4. UpdatesOf(d) # {} /\ s.revision <= Cardinality(UpdatesOf(d)) /\ s.revision \in Nat
      BY DEF ListingInv, Row
    <2> QED
      BY <2>1, <2>3, <2>4
  <1> QED
    BY <1>1, <1>3 DEF ListingInv

\* The documents that can be listed are finitely many, at one revision each.
LEMMA SummariesTyped ==
  ASSUME IsFiniteSet(documentUpdates)
  PROVE  /\ Summaries \in SUBSET Row /\ IsFiniteSet(Summaries)
         /\ \A r, s \in Summaries : r.doc = s.doc => r = s
         /\ \A s \in Summaries : UpdatesOf(s.doc) # {} /\ s.revision = Cardinality(UpdatesOf(s.doc))
         /\ \A d \in Scope : UpdatesOf(d) # {} =>
              [doc |-> d, revision |-> Cardinality(UpdatesOf(d))] \in Summaries
  <1> DEFINE Of(d) == [doc |-> d, revision |-> Cardinality(UpdatesOf(d))]
             shown == {d \in Scope : UpdatesOf(d) # {}}
  <1>1. Summaries = {Of(d) : d \in shown}
    BY DEF Summaries
  <1>2. \A d : Cardinality(UpdatesOf(d)) \in Nat
    BY UpdatesFinite, FS_CardinalityType
  <1>3. IsFiniteSet(shown)
    <2> DEFINE rows == {u \in documentUpdates : u.doc \in shown}
               f == [u \in rows |-> u.doc]
    <2>1. IsFiniteSet(rows)
      BY FS_Subset
    <2>2. ASSUME NEW d \in shown PROVE \E u \in rows : f[u] = d
      <3>1. PICK u \in documentUpdates : u.doc = d
        BY DEF UpdatesOf
      <3> QED
        BY <3>1
    <2>3. f \in Surjection(rows, shown)
      <3> HIDE DEF shown
      <3>1. f \in [rows -> shown]
        OBVIOUS
      <3> HIDE DEF f, rows
      <3> QED
        BY <2>2, <3>1 DEF Surjection
    <2> HIDE DEF f, rows, shown
    <2> QED
      BY <2>1, <2>3, FS_Surjection
  <1>4. IsFiniteSet(Summaries)
    <2> DEFINE f == [d \in shown |-> Of(d)]
    <2>1. f \in Surjection(shown, Summaries)
      <3> HIDE DEF shown
      <3> QED
        BY <1>1 DEF Surjection
    <2> HIDE DEF f, shown
    <2> QED
      BY <1>3, <2>1, FS_Surjection
  <1> QED
    BY <1>1, <1>2, <1>4 DEF Row

\* A page continues the listing: it goes on behind the cursor, in order, and
\* shows what is owed up to its last row; the last page shows the rest.
LEMMA ListKeepsListing ==
  ASSUME IInv, ListingInv, ListDocuments
  PROVE  ListingInv'
  <1> DEFINE after == listing.after
             rows == ListedBehind(after)
             keys == {Rank[s.doc] : s \in rows}
             shown == {s \in rows : Rank[s.doc] \in First(keys, Limit)}
             page == InOrder(shown)
             owed == IF after = {} THEN Summaries ELSE listing.owed
             old == listing.found
             found == old \o page
  <1>1. /\ HasMore(keys) =>
             listing' = [listing EXCEPT !.after = {Cursor(keys)}, !.owed = owed, !.found = found]
        /\ ~HasMore(keys) =>
             listing' = [NoListing EXCEPT !.wrong = listing.wrong \cup Wrong(owed, found)]
        /\ documentUpdates' = documentUpdates
    BY DEF ListDocuments, List, vars, tables
  <1>2. IsFiniteSet(documentUpdates)
    BY DEF IInv, TypeInv, Finite
  <1>3. /\ rows \subseteq Summaries /\ rows \in SUBSET Row /\ IsFiniteSet(rows)
        /\ \A s \in Summaries : (\A a \in after : Rank[s.doc] > a) => s \in rows
        /\ \A s \in rows : \A a \in after : Rank[s.doc] > a
    <2>1. rows = {s \in Summaries : \A a \in after : Rank[s.doc] > a}
      BY DEF ListedBehind
    <2>2. Summaries \in SUBSET Row /\ IsFiniteSet(Summaries)
      BY <1>2, SummariesTyped
    <2>3. rows \subseteq Summaries
      BY <2>1
    <2>4. IsFiniteSet(rows)
      <3> HIDE DEF rows
      <3> QED
        BY <2>2, <2>3, FS_Subset
    <2> HIDE DEF rows, after
    <2> QED
      BY <2>1, <2>2, <2>3, <2>4
  <1> HIDE DEF rows
  <1>4. \A s \in Row : Rank[s.doc] \in Nat
    BY ScopeAssumption, RankAssumption DEF Row
  <1>5. keys \subseteq Nat /\ IsFiniteSet(keys)
    <2> DEFINE f == [s \in rows |-> Rank[s.doc]]
    <2>1. f \in Surjection(rows, keys)
      BY DEF Surjection
    <2>2. keys \subseteq Nat
      BY <1>3, <1>4
    <2> HIDE DEF f, keys
    <2> QED
      BY <1>3, <2>1, <2>2, FS_Surjection
  <1>6. Limit \in Nat /\ Limit + 1 \in Nat /\ Limit > 0
    BY PageAssumption DEF ValidLimit
  <1>7. Cardinality(First(keys, Limit + 1)) \in Nat
    <2> HIDE DEF keys
    <2> QED
      BY <1>5, <1>6, FirstIsPage, FS_CardinalityType
  <1>8. ~HasMore(keys) => First(keys, Limit) = keys
    <2>1. ~HasMore(keys) => Cardinality(First(keys, Limit + 1)) <= Limit
      <3> HIDE DEF keys
      <3> QED
        BY <1>6, <1>7 DEF HasMore
    <2> HIDE DEF keys
    <2> QED
      BY <1>5, <1>6, <2>1, FirstIsPage
  <1>9. HasMore(keys) =>
          /\ Cursor(keys) \in Nat
          /\ \A a \in after : a < Cursor(keys)
          /\ \A k \in keys : k \in First(keys, Limit) <=> k <= Cursor(keys)
    <2> SUFFICES ASSUME HasMore(keys)
                 PROVE  /\ Cursor(keys) \in Nat
                        /\ \A a \in after : a < Cursor(keys)
                        /\ \A k \in keys : k \in First(keys, Limit) <=> k <= Cursor(keys)
      OBVIOUS
    <2>1. keys # {}
      <3>1. SUFFICES ASSUME keys = {} PROVE FALSE
        OBVIOUS
      <3>2. First(keys, Limit + 1) = {}
        BY <3>1 DEF First
      <3>3. Cardinality(First(keys, Limit + 1)) = 0
        BY <3>2, FS_EmptySet
      <3> HIDE DEF keys
      <3> QED
        BY <1>6, <3>3 DEF HasMore
    <2>2. Cursor(keys) \in keys /\ \A k \in keys : k \in First(keys, Limit) <=> k <= Cursor(keys)
      <3> HIDE DEF keys
      <3> QED
        BY <1>5, <2>1, CursorIsLast
    <2>3. \A a \in after : a \in Nat
      BY DEF ListingInv
    <2>4. \A k \in keys : \A a \in after : k > a
      BY <1>3
    <2>5. Cursor(keys) \in Nat /\ \A a \in after : Cursor(keys) > a
      <3> HIDE DEF keys, after
      <3> QED
        BY <1>5, <2>2, <2>4
    <2> HIDE DEF keys, after
    <2> QED
      BY <2>2, <2>3, <2>5
  <1>10. /\ page \in Seq(shown)
         /\ \A s \in shown : \E i \in 1..Len(page) : page[i] = s
         /\ \A i, j \in 1..Len(page) : i < j => Rank[page[i].doc] < Rank[page[j].doc]
    <2>1. shown \subseteq rows
      OBVIOUS
    <2>2. IsFiniteSet(shown) /\ shown \in SUBSET Row
      <3> HIDE DEF shown
      <3> QED
        BY <1>3, <2>1, FS_Subset
    <2>3. \A r, s \in shown : r.doc = s.doc => r = s
      BY <1>2, <1>3, SummariesTyped
    <2> HIDE DEF shown
    <2> QED
      BY <2>2, <2>3, InOrderLists
  <1>11. /\ \A s \in shown : s \in Row /\ Rank[s.doc] \in Nat /\ Rank[s.doc] \in keys
         /\ \A s \in shown : Rank[s.doc] \in First(keys, Limit) /\ \A a \in after : Rank[s.doc] > a
         /\ \A s \in rows : Rank[s.doc] \in First(keys, Limit) => s \in shown
         /\ \A s \in rows : Rank[s.doc] \in keys
    BY <1>3, <1>4
  <1> HIDE DEF keys, shown, page
  <1> DEFINE m == Len(old)
             k == Len(page)
  <1>12. /\ old \in Seq(Row) /\ m \in Nat /\ k \in Nat
         /\ \A i \in 1..m : old[i] \in Row /\ Rank[old[i].doc] \in Nat
         /\ \A i \in 1..k : page[i] \in shown /\ page[i] \in Row
    <2>1. old \in Seq(Row)
      BY DEF ListingInv
    <2> HIDE DEF old
    <2>2. m \in Nat /\ \A i \in 1..m : old[i] \in Row
      BY <2>1
    <2>3. k \in Nat /\ \A i \in 1..k : page[i] \in shown
      BY <1>10
    <2> QED
      BY <1>4, <1>11, <2>1, <2>2, <2>3
  <1>13. /\ found \in Seq(Row) /\ Len(found) = m + k
         /\ \A i \in 1..m : found[i] = old[i]
         /\ \A i \in 1..k : found[m + i] = page[i]
    <2>1. page \in Seq(Row)
      BY <1>10, <1>11
    <2> HIDE DEF old
    <2> QED
      BY <1>12, <2>1
  <1>14. \A i \in 1..(m + k) : i \in 1..m \/ \E j \in 1..k : i = m + j
    <2> SUFFICES ASSUME NEW i \in 1..(m + k), ~(i \in 1..m) PROVE \E j \in 1..k : i = m + j
      OBVIOUS
    <2> HIDE DEF m, k
    <2>1. i - m \in 1..k /\ i = m + (i - m)
      BY <1>12
    <2> QED
      BY <2>1
  <1>15. \A a \in after : a \in Nat
    BY DEF ListingInv
  <1>16. /\ \A i \in 1..m : \E a \in after : Rank[old[i].doc] <= a
         /\ \A i, j \in 1..m : i < j => Rank[old[i].doc] < Rank[old[j].doc]
    BY DEF ListingInv
  <1>17. \A a, b \in after : a = b
    BY DEF ListingInv
  <1> HIDE DEF old, after, found, owed
  <1>18. ASSUME NEW i \in 1..(m + k), NEW j \in 1..(m + k), i < j
         PROVE  Rank[found[i].doc] < Rank[found[j].doc]
    <2> HIDE DEF m, k
    <2>1. CASE i \in 1..m /\ j \in 1..m
      BY <1>13, <1>16, <1>18, <2>1
    <2>2. ASSUME i \in 1..m, NEW y \in 1..k, j = m + y
          PROVE  Rank[found[i].doc] < Rank[found[j].doc]
      <3>1. PICK a \in after : Rank[old[i].doc] <= a
        BY <1>16, <2>2
      <3>2. Rank[page[y].doc] > a /\ Rank[page[y].doc] \in Nat
        BY <1>11, <1>12
      <3>3. Rank[old[i].doc] < Rank[page[y].doc]
        BY <1>12, <1>15, <2>2, <3>1, <3>2
      <3> QED
        BY <1>13, <2>2, <3>3
    <2>3. ASSUME NEW x \in 1..k, i = m + x, NEW y \in 1..k, j = m + y
          PROVE  Rank[found[i].doc] < Rank[found[j].doc]
      <3>1. x < y
        BY <1>12, <1>18, <2>3
      <3>2. Rank[page[x].doc] < Rank[page[y].doc]
        BY <1>10, <3>1 DEF k
      <3> QED
        BY <1>13, <2>3, <3>2
    <2>4. ASSUME NEW x \in 1..k, i = m + x PROVE ~(j \in 1..m)
      BY <1>12, <1>18, <2>4
    <2> QED
      BY <1>14, <2>1, <2>2, <2>3, <2>4
  <1>19. ASSUME NEW i \in 1..(m + k), HasMore(keys) PROVE Rank[found[i].doc] <= Cursor(keys)
    <2> HIDE DEF m, k
    <2>1. CASE i \in 1..m
      <3>1. PICK a \in after : Rank[old[i].doc] <= a
        BY <1>16, <2>1
      <3>2. a \in Nat /\ a < Cursor(keys) /\ Rank[old[i].doc] \in Nat /\ Cursor(keys) \in Nat
        BY <1>9, <1>12, <1>15, <1>19, <2>1
      <3>3. Rank[old[i].doc] <= Cursor(keys)
        BY <3>1, <3>2
      <3> QED
        BY <1>13, <2>1, <3>3
    <2>2. ASSUME NEW y \in 1..k, i = m + y PROVE Rank[found[i].doc] <= Cursor(keys)
      <3>1. Rank[page[y].doc] <= Cursor(keys)
        BY <1>9, <1>11, <1>12, <1>19
      <3> QED
        BY <1>13, <2>2, <3>1
    <2> QED
      BY <1>14, <2>1, <2>2
  <1>20. \A s \in owed : /\ s \in Row /\ UpdatesOf(s.doc) # {}
                         /\ s.revision <= Cardinality(UpdatesOf(s.doc))
    <2>1. CASE after = {}
      <3>1. owed = Summaries
        BY <2>1 DEF owed
      <3>2. \A s \in Summaries : s.revision \in Nat
        BY <1>2, SummariesTyped DEF Row
      <3> QED
        BY <1>2, <3>1, <3>2, SummariesTyped
    <2>2. CASE after # {}
      <3>1. owed = listing.owed
        BY <2>2 DEF owed
      <3> QED
        BY <3>1 DEF ListingInv
    <2> QED
      BY <2>1, <2>2
  <1>21. ASSUME NEW s \in owed, HasMore(keys) => Rank[s.doc] <= Cursor(keys)
         PROVE  \E i \in 1..(m + k) : found[i].doc = s.doc /\ found[i].revision >= s.revision
    <2> HIDE DEF m, k
    <2>1. ASSUME NEW a \in after, Rank[s.doc] <= a
          PROVE  \E i \in 1..(m + k) : found[i].doc = s.doc /\ found[i].revision >= s.revision
      <3>1. s \in listing.owed
        BY <2>1 DEF owed
      <3>2. PICK i \in 1..m : old[i].doc = s.doc /\ old[i].revision >= s.revision
        BY <2>1, <3>1 DEF ListingInv, m, old, after
      <3>3. i \in 1..(m + k)
        BY <1>12
      <3> QED
        BY <1>13, <3>2, <3>3
    <2>2. ASSUME \A a \in after : ~(Rank[s.doc] <= a)
          PROVE  \E i \in 1..(m + k) : found[i].doc = s.doc /\ found[i].revision >= s.revision
      <3> DEFINE r == [doc |-> s.doc, revision |-> Cardinality(UpdatesOf(s.doc))]
      <3>1. s \in Row /\ Rank[s.doc] \in Nat
        BY <1>4, <1>20
      <3>2. r \in Summaries /\ r.doc = s.doc /\ r.revision >= s.revision
        <4>1. s.doc \in Scope /\ UpdatesOf(s.doc) # {} /\ s.revision \in Nat
          BY <1>20, <3>1 DEF Row
        <4>2. Cardinality(UpdatesOf(s.doc)) \in Nat
          BY <1>2, UpdatesFinite, FS_CardinalityType
        <4> QED
          BY <1>2, <1>20, <4>1, <4>2, SummariesTyped
      <3> HIDE DEF r
      <3>3. r \in rows
        <4>1. \A a \in after : Rank[r.doc] > a
          BY <1>15, <2>2, <3>1, <3>2
        <4> QED
          BY <1>3, <3>2, <4>1
      <3>4. Rank[r.doc] \in First(keys, Limit)
        BY <1>8, <1>9, <1>11, <1>21, <3>2, <3>3
      <3>5. r \in shown
        BY <1>11, <3>3, <3>4
      <3>6. PICK i \in 1..k : page[i] = r
        BY <1>10, <3>5 DEF k
      <3>7. m + i \in 1..(m + k)
        BY <1>12
      <3> QED
        BY <1>13, <3>2, <3>6, <3>7
    <2> QED
      BY <2>1, <2>2
  <1>22. CASE HasMore(keys)
    <2>1. listing' = [listing EXCEPT !.after = {Cursor(keys)}, !.owed = owed, !.found = found]
      BY <1>1, <1>22 DEF after, owed, found, old, keys, page, shown
    <2>2. /\ listing'.after = {Cursor(keys)} /\ listing'.owed = owed
          /\ listing'.found = found /\ listing'.wrong = {}
          /\ listing' \in [after : SUBSET Nat, owed : SUBSET Row, found : Seq(Row), wrong : SUBSET Row]
      <3>1. owed \in SUBSET Row
        BY <1>20
      <3>2. {Cursor(keys)} \in SUBSET Nat
        BY <1>9, <1>22
      <3> QED
        BY <1>13, <2>1, <3>1, <3>2 DEF ListingInv
    <2>3. \A s \in listing'.owed :
            UpdatesOf(s.doc)' # {} /\ s.revision <= Cardinality(UpdatesOf(s.doc)')
      BY <1>1, <1>20, <2>2 DEF UpdatesOf
    <2>4. \A i \in 1..Len(listing'.found) : \E a \in listing'.after : Rank[listing'.found[i].doc] <= a
      BY <1>13, <1>19, <1>22, <2>2
    <2>5. \A i, j \in 1..Len(listing'.found) :
            i < j => Rank[listing'.found[i].doc] < Rank[listing'.found[j].doc]
      BY <1>13, <1>18, <2>2
    <2>6. \A s \in listing'.owed : (\E a \in listing'.after : Rank[s.doc] <= a) =>
            \E i \in 1..Len(listing'.found) :
              listing'.found[i].doc = s.doc /\ listing'.found[i].revision >= s.revision
      BY <1>13, <1>21, <2>2
    <2>7. Cursor(keys) \in Nat
      BY <1>9, <1>22
    <2> QED
      BY <2>2, <2>3, <2>4, <2>5, <2>6, <2>7 DEF ListingInv
  <1>23. CASE ~HasMore(keys)
    <2>1. Wrong(owed, found) = {}
      <3>1. DOMAIN found = 1..(m + k)
        BY <1>12, <1>13
      <3>2. \A s \in owed : \E f \in ToSet(found) : f.doc = s.doc /\ f.revision >= s.revision
        BY <1>21, <1>23, <3>1 DEF ToSet
      <3>3. ASSUME NEW i \in DOMAIN found, NEW j \in 1..i - 1, found[j].doc = found[i].doc PROVE FALSE
        <4>1. j \in 1..(m + k) /\ i \in 1..(m + k) /\ j < i
          BY <1>12, <3>1
        <4>2. Rank[found[j].doc] < Rank[found[i].doc]
          BY <1>18, <4>1
        <4>3. found[i] \in Row
          BY <1>13, <4>1
        <4>4. Rank[found[i].doc] \in Nat
          BY <1>4, <4>3
        <4> QED
          BY <3>3, <4>2, <4>4
      <3> QED
        BY <3>2, <3>3 DEF Wrong
    <2>2. listing' = [after |-> {}, owed |-> {}, found |-> <<>>, wrong |-> {}]
      <3>1. listing' = [NoListing EXCEPT !.wrong = listing.wrong \cup Wrong(owed, found)]
        BY <1>1, <1>23 DEF after, owed, found, old, keys, page, shown
      <3>2. listing.wrong = {}
        BY DEF ListingInv
      <3> QED
        BY <2>1, <3>1, <3>2 DEF NoListing
    <2>3. <<>> \in Seq(Row) /\ Len(<<>>) = 0
      OBVIOUS
    <2> QED
      BY <2>2, <2>3 DEF ListingInv
  <1> QED
    BY <1>22, <1>23

\* The write path below, the feed and the listing.
FeedInv == IInv /\ ChangesInv /\ ListingInv

\* Writes, pages of the feed and pages of a listing preserve the invariant.
LEMMA StepFeed == FeedInv /\ [FeedNext]_feedVars => FeedInv'
  <1> SUFFICES ASSUME FeedInv, [FeedNext]_feedVars PROVE FeedInv'
    OBVIOUS
  <1>1. CASE Written
    <2>1. IInv'
      <3>1. [Next]_vars
        BY <1>1 DEF Written
      <3> QED
        BY <3>1, StepInvariant DEF FeedInv
    <2> QED
      BY <1>1, <2>1, WriteKeepsChanges, WriteKeepsListing DEF FeedInv
  <1>2. ASSUME UNCHANGED vars PROVE IInv'
    BY <1>2, StepInvariant DEF FeedInv
  <1>3. CASE ReadChanges
    <2>1. UNCHANGED <<vars, documentUpdates, listing>>
      BY <1>3 DEF ReadChanges, vars, tables
    <2>2. ListingInv'
      BY <2>1 DEF FeedInv, ListingInv, UpdatesOf
    <2> QED
      BY <1>2, <1>3, <2>1, <2>2, ReadKeepsChanges DEF FeedInv
  <1>4. CASE ListDocuments
    <2>1. UNCHANGED <<vars, documentUpdates, documentChanges, feed>>
      BY <1>4 DEF ListDocuments, vars, tables
    <2>2. ChangesInv'
      BY <2>1 DEF FeedInv, ChangesInv
    <2> QED
      BY <1>2, <1>4, <2>1, <2>2, ListKeepsListing DEF FeedInv
  <1>5. CASE UNCHANGED feedVars
    <2>1. UNCHANGED <<vars, documentUpdates, documentChanges, feed, listing>>
      BY <1>5 DEF feedVars, vars, tables
    <2>2. ChangesInv' /\ ListingInv'
      BY <2>1 DEF FeedInv, ChangesInv, ListingInv, UpdatesOf
    <2> QED
      BY <1>2, <2>1, <2>2 DEF FeedInv
  <1> QED
    BY <1>1, <1>3, <1>4, <1>5 DEF FeedNext

\* The invariant of the write path and of both readers holds in every state.
LEMMA FeedInvariance == FeedSpec => []FeedInv
  <1>1. FeedInit => FeedInv
    BY InitInvariant, InitChanges, InitListing DEF FeedInit, FeedInv
  <1> QED
    BY <1>1, StepFeed, PTL DEF FeedSpec

\* A listing that has ended has shown every document that existed when it
\* began, once, at the revision it had then or a later one, for every page size
\* and whatever is written, committed or restarted between its pages.
THEOREM ListingComplete == FeedSpec => []ListingIsComplete
  <1>1. FeedInv => ListingIsComplete
    BY DEF FeedInv, ListingInv, ListingIsComplete
  <1> QED
    BY <1>1, FeedInvariance, PTL

\* A reader of the change feed that is told there is no more has been given
\* every update of its scope: nothing becomes visible behind its cursor.
THEOREM FeedComplete == FeedSpec => FeedTellsAll
  <1>1. ASSUME FeedInv, [FeedNext]_feedVars
        PROVE  [feed' # feed /\ ~Changes(feed.after).more =>
                  feed'.seen = UNION {UpdatesOf(d) : d \in Scope}]_feedVars
    <2> SUFFICES ASSUME feed' # feed, ~Changes(feed.after).more
                 PROVE  feed'.seen = UNION {UpdatesOf(d) : d \in Scope}
      OBVIOUS
    <2>1. ReadChanges
      BY <1>1 DEF FeedNext, Written, ListDocuments, feedVars
    <2>2. feed'.seen = {documentChanges[i].hash :
             i \in {j \in 1..Len(documentChanges) : documentChanges[j].doc \in Scope}}
      BY <1>1, <2>1, ReadKeepsChanges DEF FeedInv
    <2>3. documentUpdates = {documentChanges[i] : i \in 1..Len(documentChanges)}
      BY <1>1 DEF FeedInv, ChangesInv, ToSet
    <2>4. UNION {UpdatesOf(d) : d \in Scope} =
            {u.hash : u \in {v \in documentUpdates : v.doc \in Scope}}
      BY DEF UpdatesOf
    <2>5. ASSUME NEW h
          PROVE  h \in feed'.seen <=>
                   h \in {u.hash : u \in {v \in documentUpdates : v.doc \in Scope}}
      BY <2>2, <2>3
    <2> QED
      BY <2>4, <2>5
  <1> QED
    BY <1>1, FeedInvariance, PTL DEF FeedSpec, FeedTellsAll
=============================================================================
