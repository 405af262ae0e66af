----------------------------- MODULE LocalWrite -----------------------------
(***************************************************************************)
(* The local write path: document.mutate from the API handler down to the  *)
(* SQLite commit.  A handler checks the idempotency key, takes the lock of *)
(* the document, checks the key again, loads the document, stages the      *)
(* update, reads the log head, forges the operation, and hands one commit  *)
(* to the store, whose single thread serves a FIFO queue.  Cores share the *)
(* database file; locks and queues belong to one core.                     *)
(*                                                                         *)
(* Database tables are sets of rows, an Option is a set of at most one     *)
(* element, and an operation hash is the tuple <<request, sequence,        *)
(* handler>> (collision-free over what a handler can forge).  The author   *)
(* is fixed by the data directory, so the log of a document is the         *)
(* document itself.                                                        *)
(***************************************************************************)
EXTENDS Naturals, Sequences, FiniteSets

CONSTANTS
  Cores,        \* processes serving the same database file
  Handlers,     \* handler slots: API calls that may run at the same time
  CoreOf,       \* the core a handler slot belongs to
  Docs,         \* documents, each with its namespace
  Requests,     \* document.mutate requests with the caller that sends them
  NoRequest,    \* what an idle handler slot holds
  MaxSequence,  \* largest log sequence number (u32::MAX in the code)
  MaxCalls,     \* bound: calls started in a behaviour
  MaxStops      \* bound: shutdowns and crashes in a behaviour

ASSUME CoreAssumption == CoreOf \in [Handlers -> Cores]
ASSUME RequestAssumption ==
  \A r \in Requests : r.doc \in Docs /\ r.expected \in SUBSET Nat
ASSUME NoRequestAssumption == NoRequest \notin Requests
ASSUME BoundAssumption ==
  MaxSequence \in Nat /\ MaxCalls \in Nat /\ MaxStops \in Nat

VARIABLES
  operations,       \* rows [hash, req, seq, backlink] of the signed log
  documentUpdates,  \* rows [hash, doc] of the document history
  logHeads,         \* rows [doc, seq, hash]
  durableOutbox,    \* operation hashes offered to every transport
  idempotencyKeys,  \* rows [req, response]; the key is (req.app, req.key)
  phase,            \* "up", "aborting" or "down", per core
  queue,            \* requests sent to the store thread of each core
  handler,          \* what every handler slot is doing
  answers,          \* every answer handlers have returned (history)
  calls, stops      \* the two bounded counters

tables == <<operations, documentUpdates, logHeads, durableOutbox, idempotencyKeys>>
counters == <<calls, stops>>
vars == <<tables, phase, queue, handler, answers, counters>>

-----------------------------------------------------------------------------
(* Rows, messages and handler states                                       *)

Hash == Requests \X (0..MaxSequence) \X Handlers
Head0 == [seq : 0..MaxSequence, hash : Hash]
Response == [hash : Hash, revision : Nat, state : SUBSET Hash]
Operation ==
  [hash : Hash, req : Requests, seq : 0..MaxSequence, backlink : SUBSET Hash]
\* The typed errors of the core, and the raw SQLite constraint error.
Causes == {"NONE", "IDEMPOTENCY_CONFLICT", "REVISION_CONFLICT", "CONFLICT",
           "CONSTRAINT", "EXHAUSTED", "STAGING"}
Waiting == {"precheck", "recheck", "load", "head", "commit"}
HandlerState ==
  [pc : Waiting \cup {"idle", "locking"}, req : Requests \cup {NoRequest},
   replied : BOOLEAN, cause : Causes, found : SUBSET Response,
   base : SUBSET Hash, head : SUBSET Head0]
Entry ==
  [call : Waiting, by : Handlers, req : Requests,
   op : SUBSET Operation, base : SUBSET Hash]
Answer ==
  [req : Requests, code : Causes \cup {"INVALID_REQUEST"}, cause : Causes,
   response : SUBSET Response]

Idle ==
  [pc |-> "idle", req |-> NoRequest, replied |-> FALSE, cause |-> "NONE",
   found |-> {}, base |-> {}, head |-> {}]

SameKey(r, s) == r.app = s.app /\ r.key = s.key

\* SELECTs of the store.
UpdatesOf(d) == {u.hash : u \in {v \in documentUpdates : v.doc = d}}
HeadOf(d) == {[seq |-> h.seq, hash |-> h.hash] : h \in {k \in logHeads : k.doc = d}}
RowsFor(r) == {k \in idempotencyKeys : SameKey(k.req, r)}

-----------------------------------------------------------------------------
(* What a handler computes between two calls of the store                  *)

Revision(base) == Cardinality(base)
NextSeq(head) == IF head = {} THEN 0 ELSE (CHOOSE h \in head : TRUE).seq + 1
\* Seeded fault: the sequence number is never checked against its width.
ExhaustedNever(head) == FALSE
Exhausted(head) == \E h \in head : h.seq = MaxSequence

\* forge_document_update on what the handler has read.
Forge(t) ==
  LET s == handler[t] IN
  [hash |-> <<s.req, NextSeq(s.head), t>>, req |-> s.req,
   seq |-> NextSeq(s.head), backlink |-> {h.hash : h \in s.head}]

\* The response prepared before the commit: it shows the document with the
\* staged update applied to the updates the handler loaded.
Prepared(op, base) ==
  [hash |-> op.hash, revision |-> Revision(base) + 1, state |-> base \cup {op.hash}]

\* The error code a client sees.  Errors of the store cross its reply channel
\* as strings, so response_for_error no longer finds the typed marker.
RaisedByCore == {"REVISION_CONFLICT"}
ClientCode(cause) ==
  CASE cause = "NONE" -> "NONE"
    [] cause \in RaisedByCore -> cause
    [] OTHER -> "INVALID_REQUEST"

-----------------------------------------------------------------------------
(* Handler steps                                                           *)

\* Send a request to the store and wait for its reply.
Ask(t, s, call, op) ==
  /\ queue' = [queue EXCEPT ![CoreOf[t]] =
                 Append(@, [call |-> call, by |-> t, req |-> s.req,
                            op |-> op, base |-> s.base])]
  /\ handler' = [handler EXCEPT ![t] = [s EXCEPT !.pc = call, !.replied = FALSE]]
  /\ UNCHANGED <<tables, phase, answers>>

\* Return to the caller; the lock guard, if any, is dropped.
Finish(t, cause, response) ==
  /\ answers' = answers \cup
       {[req |-> handler[t].req, code |-> ClientCode(cause), cause |-> cause,
         response |-> response]}
  /\ handler' = [handler EXCEPT ![t] = Idle]
  /\ UNCHANGED <<tables, phase, queue, counters>>

\* The handler is at call and the reply of the store has arrived, Ok or Err.
Replied(t, call) == handler[t].pc = call /\ handler[t].replied
\* Seeded fault: success is reported without waiting for the store.
OkWithoutReply(t, call) == handler[t].pc = call /\ handler[t].cause = "NONE"
Ok(t, call) == Replied(t, call) /\ handler[t].cause = "NONE"

\* The lock of a document is held from its acquisition to the end of the call.
\* Seeded fault: the guard is dropped once the history is loaded.
HoldsToLoad(t) == handler[t].pc \in {"recheck", "load"}
\* Seeded fault: waiters exclude one another.
HoldsWhileWaiting(t) == handler[t].pc \notin {"idle", "precheck"}
Holds(t) == handler[t].pc \in {"recheck", "load", "head", "commit"}
Competes(t, u) ==
  u # t /\ CoreOf[u] = CoreOf[t] /\ Holds(u) /\ handler[u].req.doc = handler[t].req.doc

Begin(t, r) ==
  /\ phase[CoreOf[t]] = "up"
  /\ handler[t].pc = "idle"
  /\ calls < MaxCalls
  /\ calls' = calls + 1
  /\ Ask(t, [Idle EXCEPT !.req = r], "precheck", {})
  /\ UNCHANGED stops

\* A store call failed: the error goes to the caller.
Fail(t) ==
  /\ handler[t].pc \in Waiting
  /\ handler[t].replied
  /\ handler[t].cause # "NONE"
  /\ Finish(t, handler[t].cause, {})

\* The key is spent by this very request: replay its response.
Replay(t) ==
  /\ Ok(t, "precheck") \/ Ok(t, "recheck")
  /\ handler[t].found # {}
  /\ Finish(t, "NONE", handler[t].found)

WantLock(t) ==
  /\ Ok(t, "precheck")
  /\ handler[t].found = {}
  /\ handler' = [handler EXCEPT ![t].pc = "locking", ![t].replied = FALSE]
  /\ UNCHANGED <<tables, phase, queue, answers, counters>>

Acquire(t) ==
  /\ handler[t].pc = "locking"
  /\ \A u \in Handlers : ~Competes(t, u)
  /\ Ask(t, handler[t], "recheck", {})
  /\ UNCHANGED counters

LoadUpdates(t) ==
  /\ Ok(t, "recheck")
  /\ handler[t].found = {}
  /\ Ask(t, handler[t], "load", {})
  /\ UNCHANGED counters

RevisionMatches(t) ==
  handler[t].req.expected \in {{}, {Revision(handler[t].base)}}

RefuseRevision(t) ==
  /\ Ok(t, "load")
  /\ ~RevisionMatches(t)
  /\ Finish(t, "REVISION_CONFLICT", {})

\* Loro refuses the mutations on this state (no change, bad index, size).
RefuseStaging(t) ==
  /\ Ok(t, "load")
  /\ RevisionMatches(t)
  /\ Finish(t, "STAGING", {})

Stage(t) ==
  /\ Ok(t, "load")
  /\ RevisionMatches(t)
  /\ Ask(t, handler[t], "head", {})
  /\ UNCHANGED counters

RefuseSequence(t) ==
  /\ Ok(t, "head")
  /\ Exhausted(handler[t].head)
  /\ Finish(t, "EXHAUSTED", {})

Submit(t) ==
  /\ Ok(t, "head")
  /\ ~Exhausted(handler[t].head)
  /\ Ask(t, handler[t], "commit", {Forge(t)})
  /\ UNCHANGED counters

Acknowledge(t) ==
  /\ Ok(t, "commit")
  /\ Finish(t, "NONE", {Prepared(Forge(t), handler[t].base)})

-----------------------------------------------------------------------------
(* The store thread of a core: one request at a time, in arrival order     *)

Serving(c, calls0) == queue[c] # <<>> /\ Head(queue[c]).call \in calls0

\* Send the reply; it is dropped when the handler was cancelled meanwhile.
Reply(c, e, s) ==
  /\ queue' = [queue EXCEPT ![c] = Tail(@)]
  /\ handler' = IF handler[e.by].pc = "idle" THEN handler
                ELSE [handler EXCEPT ![e.by] = s]
  /\ UNCHANGED <<phase, answers, counters>>

ServeIdempotency(c) ==
  /\ Serving(c, {"precheck", "recheck"})
  /\ LET e == Head(queue[c])
         other == {k \in RowsFor(e.req) : k.req # e.req}
     IN Reply(c, e, [handler[e.by] EXCEPT !.replied = TRUE,
               !.cause = IF other # {} THEN "IDEMPOTENCY_CONFLICT" ELSE "NONE",
               !.found = {k.response : k \in RowsFor(e.req)}])
  /\ UNCHANGED tables

ServeLoadUpdates(c) ==
  /\ Serving(c, {"load"})
  /\ LET e == Head(queue[c])
     IN Reply(c, e, [handler[e.by] EXCEPT !.replied = TRUE, !.cause = "NONE",
                                          !.base = UpdatesOf(e.req.doc)])
  /\ UNCHANGED tables

ServeLogHead(c) ==
  /\ Serving(c, {"head"})
  /\ LET e == Head(queue[c])
     IN Reply(c, e, [handler[e.by] EXCEPT !.replied = TRUE, !.cause = "NONE",
                                          !.head = HeadOf(e.req.doc)])
  /\ UNCHANGED tables

\* The head is still the one the operation was forged on.
HeadMatches(op, head) ==
  \/ op.seq = 0 /\ head = {}
  \/ \E h \in head : op.seq = h.seq + 1 /\ op.backlink = {h.hash}

\* Seeded fault: the number of loaded updates is not compared.
CommitCauseWithoutCount(op, base) ==
  IF ~HeadMatches(op, HeadOf(op.req.doc)) THEN "CONFLICT"
  ELSE IF RowsFor(op.req) # {} THEN "CONSTRAINT" ELSE "NONE"

\* Seeded fault: INSERT OR IGNORE into idempotency_keys.
CommitCauseIgnoringKey(op, base) ==
  IF \/ Cardinality(UpdatesOf(op.req.doc)) # Revision(base)
     \/ ~HeadMatches(op, HeadOf(op.req.doc))
  THEN "CONFLICT" ELSE "NONE"

\* What commit_local decides inside its transaction.
CommitCause(op, base) ==
  LET d == op.req.doc IN
  IF \/ Cardinality(UpdatesOf(d)) # Revision(base)
     \/ ~HeadMatches(op, HeadOf(d))
  THEN "CONFLICT"
  ELSE IF \/ RowsFor(op.req) # {}
          \/ \E o \in operations : o.hash = op.hash \/ (o.req.doc = d /\ o.seq = op.seq)
  THEN "CONSTRAINT"
  ELSE "NONE"

\* Seeded fault: ON CONFLICT DO NOTHING leaves the old log head in place.
WriteKeepingHead(op, base) ==
  /\ operations' = operations \cup {op}
  /\ documentUpdates' = documentUpdates \cup {[hash |-> op.hash, doc |-> op.req.doc]}
  /\ logHeads' = IF HeadOf(op.req.doc) # {} THEN logHeads
                 ELSE logHeads \cup {[doc |-> op.req.doc, seq |-> op.seq, hash |-> op.hash]}
  /\ durableOutbox' = durableOutbox \cup {op.hash}
  /\ idempotencyKeys' = idempotencyKeys
       \cup {[req |-> op.req, response |-> Prepared(op, base)]}

\* The rows one commit writes; they stand or fall together.
Write(op, base) ==
  /\ operations' = operations \cup {op}
  /\ documentUpdates' = documentUpdates \cup {[hash |-> op.hash, doc |-> op.req.doc]}
  /\ logHeads' = {h \in logHeads : h.doc # op.req.doc}
                   \cup {[doc |-> op.req.doc, seq |-> op.seq, hash |-> op.hash]}
  /\ durableOutbox' = durableOutbox \cup {op.hash}
  /\ idempotencyKeys' = idempotencyKeys
       \cup {[req |-> op.req, response |-> Prepared(op, base)]}

ServeCommitLocal(c) ==
  /\ Serving(c, {"commit"})
  /\ LET e == Head(queue[c]) IN
     \E op \in e.op :
       /\ Reply(c, e, [handler[e.by] EXCEPT !.replied = TRUE,
                                            !.cause = CommitCause(op, e.base)])
       /\ IF CommitCause(op, e.base) = "NONE"
          THEN Write(op, e.base)
          ELSE UNCHANGED tables

-----------------------------------------------------------------------------
(* Shutdown, crash and restart of a core                                   *)

\* Shutdown's grace period is over: abort_all, no call starts any more.
AbortAll(c) ==
  /\ phase[c] = "up"
  /\ stops < MaxStops
  /\ phase' = [phase EXCEPT ![c] = "aborting"]
  /\ UNCHANGED <<tables, queue, handler, answers, counters>>

\* An aborted handler is dropped where it waits; what it sent stays queued.
Cancel(t) ==
  /\ phase[CoreOf[t]] = "aborting"
  /\ handler[t].pc # "idle"
  /\ handler' = [handler EXCEPT ![t] = Idle]
  /\ UNCHANGED <<tables, phase, queue, answers, counters>>

\* The process ends, by exit or by a crash: only the database survives.
Stop(c) ==
  /\ phase[c] # "down"
  /\ stops < MaxStops
  /\ stops' = stops + 1
  /\ phase' = [phase EXCEPT ![c] = "down"]
  /\ queue' = [queue EXCEPT ![c] = <<>>]
  /\ handler' = [t \in Handlers |-> IF CoreOf[t] = c THEN Idle ELSE handler[t]]
  /\ UNCHANGED <<tables, answers, calls>>

Start(c) ==
  /\ phase[c] = "down"
  /\ phase' = [phase EXCEPT ![c] = "up"]
  /\ UNCHANGED <<tables, queue, handler, answers, counters>>

-----------------------------------------------------------------------------
Init ==
  /\ operations = {} /\ documentUpdates = {} /\ logHeads = {}
  /\ durableOutbox = {} /\ idempotencyKeys = {}
  /\ phase = [c \in Cores |-> "up"]
  /\ queue = [c \in Cores |-> <<>>]
  /\ handler = [t \in Handlers |-> Idle]
  /\ answers = {}
  /\ calls = 0 /\ stops = 0

HandlerStep(t) ==
  \/ Fail(t) \/ Replay(t) \/ WantLock(t) \/ Acquire(t) \/ LoadUpdates(t)
  \/ RefuseRevision(t) \/ RefuseStaging(t) \/ Stage(t)
  \/ RefuseSequence(t) \/ Submit(t) \/ Acknowledge(t)

StoreStep(c) ==
  \/ ServeIdempotency(c) \/ ServeLoadUpdates(c) \/ ServeLogHead(c)
  \/ ServeCommitLocal(c)

Next ==
  \/ \E t \in Handlers, r \in Requests : Begin(t, r)
  \/ \E t \in Handlers : HandlerStep(t) \/ Cancel(t)
  \/ \E c \in Cores : StoreStep(c) \/ AbortAll(c) \/ Stop(c) \/ Start(c)

Spec == Init /\ [][Next]_vars

\* The runtime keeps polling handlers, the store thread keeps serving, and
\* tokio's mutex admits its waiters in order, so none waits for ever.
FairSpec ==
  /\ Spec
  /\ \A t \in Handlers : WF_vars(HandlerStep(t)) /\ SF_vars(Acquire(t))
  /\ \A c \in Cores : WF_vars(StoreStep(c))

-----------------------------------------------------------------------------
(* Properties                                                              *)

TypeOK ==
  /\ operations \subseteq Operation
  /\ documentUpdates \subseteq [hash : Hash, doc : Docs]
  /\ logHeads \subseteq [doc : Docs, seq : 0..MaxSequence, hash : Hash]
  /\ durableOutbox \subseteq Hash
  /\ idempotencyKeys \subseteq [req : Requests, response : Response]
  /\ phase \in [Cores -> {"up", "aborting", "down"}]
  /\ queue \in [Cores -> Seq(Entry)]
  /\ handler \in [Handlers -> HandlerState]
  /\ answers \subseteq Answer
  /\ calls \in 0..MaxCalls /\ stops \in 0..MaxStops

OperationsOf(d) == {o \in operations : o.req.doc = d}
Length(d) == NextSeq(HeadOf(d))

\* The log of a document is a chain without gap or fork: sequence numbers
\* 0..n-1 once each, every backlink the hash of the predecessor, the head the
\* last operation, and as many history rows as operations.  commit_local keeps
\* these four tables together by comparing the row count and the head.
LogIsChain ==
  \A d \in Docs :
    /\ \A o, p \in OperationsOf(d) : o.seq = p.seq => o = p
    /\ {o.seq : o \in OperationsOf(d)} = {i \in 0..MaxSequence : i < Length(d)}
    /\ \A o \in OperationsOf(d) :
         o.backlink = {p.hash : p \in {q \in OperationsOf(d) : q.seq + 1 = o.seq}}
    /\ \A h \in HeadOf(d) : \E o \in OperationsOf(d) : o.hash = h.hash /\ o.seq = h.seq
    /\ Cardinality(UpdatesOf(d)) = Length(d)

\* Two executions of a call, overlapping, retried or on two cores, write at most
\* one operation per (caller, idempotency key), and a key is spent exactly by the
\* request of an operation that every other table knows: no commit is partial.
OneOperationPerKey ==
  /\ \A o, p \in operations : SameKey(o.req, p.req) => o = p
  /\ {<<k.req, k.response.hash>> : k \in idempotencyKeys} = {<<o.req, o.hash>> : o \in operations}
  /\ {<<u.doc, u.hash>> : u \in documentUpdates} = {<<o.req.doc, o.hash>> : o \in operations}
  /\ durableOutbox = {o.hash : o \in operations}

\* "durable": true is never said too early: an answered success is the stored
\* response of that very request, so every later retry, whatever crashed in
\* between, is answered the same, and its revision is the operation's place.
AnswersAreDurable ==
  \A a \in answers : a.code = "NONE" =>
    \E k \in idempotencyKeys, o \in operations :
      /\ k.req = a.req /\ a.response = {k.response}
      /\ o.req = a.req /\ o.hash = k.response.hash /\ o.seq + 1 = k.response.revision

\* The document state in a success was staged on exactly the history that
\* precedes the operation: no update of another core is missing from it.
ShowsItsHistory ==
  \A k \in idempotencyKeys :
    k.response.state =
      {o.hash : o \in {p \in OperationsOf(k.req.doc) : p.seq < k.response.revision}}

\* An operation asked for at a revision was committed at that revision: the
\* check in the handler stays true until the commit, on two cores as well.
ExpectedRevisionHonoured ==
  \A o \in operations : o.req.expected \in {{}, {o.seq}}

\* On one core the document lock and the FIFO store queue make the conflict
\* checks of commit_local unreachable, even for the commit that a cancelled
\* handler left in the queue after its lock was dropped.  What is left is the raw
\* constraint error, when one key is spent on two documents at once, under two
\* locks: the unique key rolls the loser back.
NoConflictOnOneCore ==
  \A a \in answers :
    /\ a.cause # "CONFLICT"
    /\ a.cause = "CONSTRAINT" =>
         \E o \in operations : SameKey(o.req, a.req) /\ o.req.doc # a.req.doc

\* History is append-only: rows of the log, of the document history and of the
\* key table are never changed or removed, not by conflicts, crashes or restarts.
HistoryOnlyGrows ==
  [][/\ operations \subseteq operations' /\ documentUpdates \subseteq documentUpdates'
     /\ idempotencyKeys \subseteq idempotencyKeys' /\ durableOutbox \subseteq durableOutbox'
     /\ \A d \in Docs : Length(d)' \in {Length(d), Length(d) + 1}]_vars

\* Every call that starts ends: with an answer, by cancellation or with its core.
EveryCallEnds ==
  \A t \in Handlers : handler[t].pc # "idle" ~> handler[t].pc = "idle"

\* The documented error for a reused key (protocol/local-api.md): the client
\* that reuses a key for another request is told IDEMPOTENCY_CONFLICT.
ReusedKeyIsReported ==
  \A a \in answers : a.cause = "IDEMPOTENCY_CONFLICT" => a.code = "IDEMPOTENCY_CONFLICT"

\* LocalWrite implements DurableWrites.
Abstract == INSTANCE DurableWrites WITH
  revision <- [d \in Docs |-> Length(d)],
  applied <- {[req |-> o.req, revision |-> o.seq + 1] : o \in operations},
  acknowledged <- {[req |-> a.req, revision |-> (CHOOSE r \in a.response : TRUE).revision] :
                     a \in {b \in answers : b.code = "NONE"}}

\* Through locks, queues, conflicts, cancellation and crashes a caller sees
\* writes applied once, in revision order, and acknowledged after the fact.
ImplementsDurableWrites == Abstract!Spec
=============================================================================
