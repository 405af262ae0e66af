----------------------------- MODULE FactsProofs -----------------------------
(***************************************************************************)
(* Proofs about Facts and FactHistory.  A commit is the only step that     *)
(* changes the projection tables (Quiet, OtherStepsQuiet).  IInv adds to   *)
(* the checked properties: every hash in sight belongs to an operation     *)
(* (Known), so the hash of a new operation is fresh; a current row is the  *)
(* last revision of its claim (RowIsLast); and what a handler has read and *)
(* validated is still true of the current row if that row still has the    *)
(* same hash (Validated), which is why comparing the hash in the           *)
(* transaction makes the handler's decision the transaction's own.         *)
(* HistoryInv adds, for FactHistory, that the revisions of a claim differ  *)
(* in time and what a client that turns the pages of fact.history relies   *)
(* on (ReadingInv).                                                        *)
(***************************************************************************)
EXTENDS FactHistory, FiniteSetTheorems, TLAPS

Known ==
  /\ \A p \in claims : p.hash \in UsedHashes
  /\ \A v \in revisions : v.hash \in UsedHashes
  /\ \A t \in Handlers : \A p \in handler[t].previous : p.hash \in UsedHashes

RowIsLast ==
  /\ \A p, q \in claims : p.hash = q.hash => p = q
  /\ \A v, w \in revisions : v.hash = w.hash => v = w
  /\ \A p \in claims : \E v \in revisions :
       /\ v.claim = p.claim /\ v.hash = p.hash /\ v.subject = p.subject
       /\ v.schema = p.schema /\ v.status = p.status /\ v.at = p.at
  /\ \A v \in revisions : \E p \in claims :
       p.claim = v.claim /\ (v.hash = p.hash \/ v.at < p.at)

ValidatedBy(t) ==
  /\ \A p \in handler[t].previous : \A q \in claims : q.hash = p.hash => q = p
  /\ \A p \in handler[t].previous : p.claim = Req(t).claim
  /\ handler[t].pc \in {"conflict", "load", "commit", "abandoned"} =>
       SameClaim(Req(t), handler[t].previous) /\ Transition(Req(t), handler[t].previous)
Validated == \A t \in Handlers : ValidatedBy(t)

IInv == TypeOK /\ Known /\ RowIsLast /\ RevisionsAreChain /\ OneActiveClaim /\ Validated

-----------------------------------------------------------------------------
(* Steps                                                                   *)

\* The steps that leave the projection tables alone and use no hash again.
Quiet ==
  /\ claims' = claims /\ revisions' = revisions
  /\ UsedHashes \subseteq UsedHashes'
  /\ \A t \in Handlers :
       \/ handler'[t].previous \in {handler[t].previous, {}} /\
          (handler'[t].previous = {} \/ handler'[t].req = handler[t].req)
       \/ handler'[t].previous = CurrentOf(Req(t).claim) /\ handler'[t].req = handler[t].req

HashesOf(rows) == {p.hash : p \in rows}

\* A commit that is accepted.
Accepted(t, h) ==
  /\ handler[t].pc \in {"commit", "abandoned"}
  /\ Accepts(Req(t), handler[t].previous, handler[t].base)
  /\ h \in Hashes \ UsedHashes
  /\ Write(Req(t), h)
  /\ Stop(t)
  /\ UNCHANGED <<clock, mutations>>

LEMMA RequestTyped ==
  ASSUME TypeOK, NEW t \in Handlers, handler[t].pc # "idle"
  PROVE  Req(t) \in Requests /\ handler[t].req = {Req(t)}
<1>1. PICK r \in Requests : handler[t].req = {r}
  BY DEF TypeOK
<1>2. Req(t) = r
  BY <1>1 DEF Req
<1> QED BY <1>1, <1>2

LEMMA StopTyped ==
  ASSUME TypeOK, NEW t \in Handlers, Stop(t)
  PROVE  /\ handler' \in [Handlers -> HandlerState]
         /\ \A u \in Handlers : handler'[u].pc # "idle" => \E r \in Requests : handler'[u].req = {r}
<1>1. Idle \in HandlerState
  BY DEF Idle, HandlerState
<1>2. \A u \in Handlers : handler'[u] = IF u = t THEN Idle ELSE handler[u]
  BY DEF Stop, TypeOK
<1> QED BY <1>1, <1>2 DEF Stop, TypeOK, Idle

LEMMA MoveTyped ==
  ASSUME TypeOK, NEW t \in Handlers, NEW pc \in Holding \cup {"abandoned"}, Move(t, pc),
         handler[t].pc # "idle"
  PROVE  /\ handler' \in [Handlers -> HandlerState]
         /\ \A u \in Handlers : handler'[u].pc # "idle" => \E r \in Requests : handler'[u].req = {r}
<1>1. handler[t] \in HandlerState
  BY DEF TypeOK
<1>2. [handler[t] EXCEPT !.pc = pc] \in HandlerState
  BY <1>1 DEF HandlerState
<1>3. handler' = [handler EXCEPT ![t] = [handler[t] EXCEPT !.pc = pc]]
  BY DEF Move
<1>4. \A u \in Handlers : handler'[u].req = handler[u].req
  BY <1>1, <1>3 DEF TypeOK, HandlerState
<1>5. \A u \in Handlers : u # t => handler'[u] = handler[u]
  BY <1>3 DEF TypeOK
<1>6. \A u \in Handlers : handler'[u].pc # "idle" => handler[u].pc # "idle"
  BY <1>5
<1> QED BY <1>2, <1>3, <1>4, <1>6 DEF TypeOK

-----------------------------------------------------------------------------
(* Type correctness                                                        *)

LEMMA InitTyped == Init => TypeOK
  BY BoundAssumption, FS_EmptySet DEF Init, TypeOK, Idle, HandlerState, Holding

LEMMA ReadTyped ==
  ASSUME TypeOK, NEW t \in Handlers,
         Acquire(t) \/ Recheck(t) \/ CheckConflict(t) \/ Cancel(t) \/ Abandon(t) \/ Lose(t)
  PROVE  TypeOK'
<1>1. CASE Stop(t)
  BY <1>1, StopTyped DEF TypeOK, Acquire, Recheck, CheckConflict, Cancel, Abandon, Lose, tables
<1>2. ASSUME NEW pc \in Holding \cup {"abandoned"}, Move(t, pc)
      PROVE  TypeOK'
  <2>1. handler[t].pc # "idle"
    BY DEF Acquire, Recheck, CheckConflict, Cancel, Abandon, Lose
  <2> QED BY <1>2, <2>1, MoveTyped
        DEF TypeOK, Acquire, Recheck, CheckConflict, Cancel, Abandon, Lose, tables
<1> QED BY <1>1, <1>2 DEF Acquire, Recheck, CheckConflict, Cancel, Abandon, Lose, Holding

\* A handler replaced by a well-typed one with the same request.
LEMMA HandlerTyped ==
  ASSUME TypeOK, NEW t \in Handlers, NEW s \in HandlerState,
         handler' = [handler EXCEPT ![t] = s], \E r \in Requests : s.req = {r}
  PROVE  /\ handler' \in [Handlers -> HandlerState]
         /\ \A u \in Handlers : handler'[u].pc # "idle" => \E r \in Requests : handler'[u].req = {r}
<1>1. \A u \in Handlers : handler'[u] = IF u = t THEN s ELSE handler[u]
  BY DEF TypeOK
<1> QED BY <1>1 DEF TypeOK

LEMMA BeginTyped ==
  ASSUME TypeOK, NEW t \in Handlers, NEW r \in Requests, Begin(t, r)
  PROVE  TypeOK'
<1> DEFINE s == [pc |-> "locking", req |-> {r}, previous |-> {}, base |-> 0]
<1>1. s \in HandlerState /\ s.req = {r}
  BY DEF HandlerState
<1>2. handler' = [handler EXCEPT ![t] = s]
  BY DEF Begin
<1> HIDE DEF s
<1>3. /\ handler' \in [Handlers -> HandlerState]
      /\ \A u \in Handlers : handler'[u].pc # "idle" => \E q \in Requests : handler'[u].req = {q}
  BY <1>1, <1>2, HandlerTyped
<1> QED BY <1>3 DEF Begin, TypeOK, tables

LEMMA ProceedTyped ==
  ASSUME TypeOK, NEW t \in Handlers, handler[t].pc # "idle", NEW pc \in Holding,
         NEW previous \in SUBSET Current, NEW base \in Nat, Proceed(t, pc, previous, base)
  PROVE  /\ handler' \in [Handlers -> HandlerState]
         /\ \A u \in Handlers : handler'[u].pc # "idle" => \E r \in Requests : handler'[u].req = {r}
<1> DEFINE s == [pc |-> pc, req |-> handler[t].req, previous |-> previous, base |-> base]
<1>1. handler[t].req = {Req(t)} /\ Req(t) \in Requests
  BY RequestTyped
<1>2. s \in HandlerState /\ s.req = {Req(t)}
  BY <1>1 DEF HandlerState
<1>3. handler' = [handler EXCEPT ![t] = s]
  BY DEF Proceed
<1> HIDE DEF s
<1> QED BY <1>1, <1>2, <1>3, HandlerTyped

LEMMA ReadCurrentTyped ==
  ASSUME TypeOK, NEW t \in Handlers, ReadCurrent(t)
  PROVE  TypeOK'
<1>1. CASE Stop(t)
  BY <1>1, StopTyped DEF TypeOK, ReadCurrent, tables
<1>2. ASSUME NEW pc \in Holding, Proceed(t, pc, CurrentOf(Req(t).claim), 0)
      PROVE  TypeOK'
  <2>1. CurrentOf(Req(t).claim) \in SUBSET Current /\ handler[t].pc # "idle"
    BY DEF TypeOK, CurrentOf, ReadCurrent
  <2> QED BY <1>2, <2>1, ProceedTyped DEF ReadCurrent, TypeOK, tables
<1> QED BY <1>1, <1>2 DEF ReadCurrent, Holding

LEMMA LoadTyped ==
  ASSUME TypeOK, NEW t \in Handlers, Load(t)
  PROVE  TypeOK'
<1>1. CASE Stop(t)
  BY <1>1, StopTyped DEF TypeOK, Load, tables
<1>2. CASE Proceed(t, "commit", handler[t].previous, Cardinality(OperationsOf(Req(t).claim)))
  <2>1. Cardinality(OperationsOf(Req(t).claim)) \in Nat
    <3>1. OperationsOf(Req(t).claim) \subseteq operations
      BY DEF OperationsOf
    <3> QED BY <3>1, FS_Subset, FS_CardinalityType DEF TypeOK
  <2>2. handler[t].previous \in SUBSET Current /\ handler[t].pc # "idle"
    BY DEF TypeOK, HandlerState, Load
  <2> QED BY <1>2, <2>1, <2>2, ProceedTyped DEF Load, TypeOK, tables, Holding
<1> QED BY <1>1, <1>2 DEF Load

LEMMA MutateTyped ==
  ASSUME TypeOK, NEW c \in Claims, MutateDocument(c)
  PROVE  TypeOK'
<1>1. PICK h \in Hashes \ UsedHashes : operations' = operations \cup {[hash |-> h, doc |-> c]}
  BY DEF MutateDocument
<1>2. IsFiniteSet(operations') /\ operations' \subseteq [hash : Hashes, doc : Claims]
  <2>1. IsFiniteSet(operations')
    BY <1>1, FS_AddElement DEF TypeOK
  <2>2. operations' \subseteq [hash : Hashes, doc : Claims]
    BY <1>1 DEF TypeOK
  <2> QED BY <2>1, <2>2
<1>3. mutations' \in 0..MaxMutations
  BY BoundAssumption DEF MutateDocument, TypeOK
<1> QED BY <1>2, <1>3 DEF MutateDocument, TypeOK

\* The time of a revision is later than the row it replaces.
LEMMA RevisionTimeTyped ==
  ASSUME TypeOK, NEW c \in Claims
  PROVE  /\ RevisionTime(CurrentOf(c)) \in Nat
         /\ \A p \in CurrentOf(c) : p.at \in Nat /\ RevisionTime(CurrentOf(c)) > p.at
<1>0. clock \in Nat
  BY TimeAssumption DEF TypeOK
<1>1. CASE CurrentOf(c) = {}
  BY <1>0, <1>1 DEF RevisionTime
<1>2. ASSUME NEW p \in CurrentOf(c)
      PROVE  p.at \in Nat /\ RevisionTime(CurrentOf(c)) = Later(clock, p.at + 1)
  <2>1. CurrentOf(c) = {p}
    BY DEF CurrentOf, TypeOK
  <2>2. (CHOOSE q \in CurrentOf(c) : TRUE) = p
    BY <2>1
  <2>3. p.at \in Nat
    BY DEF CurrentOf, TypeOK, Current
  <2> QED BY <2>1, <2>2, <2>3 DEF RevisionTime
<1> QED BY <1>0, <1>1, <1>2 DEF Later

LEMMA SupersededTyped ==
  ASSUME TypeOK, NEW hashes
  PROVE  Supersede(hashes) \subseteq Revision
<1> DEFINE up(v) == IF v.hash \in hashes THEN [v EXCEPT !.status = "SUPERSEDED"] ELSE v
<1>1. \A v \in Revision : up(v) \in Revision
  BY DEF Revision
<1>2. revisions \subseteq Revision
  BY DEF TypeOK
<1>3. Supersede(hashes) = {up(v) : v \in revisions}
  BY DEF Supersede
<1> HIDE DEF up
<1> QED BY <1>1, <1>2, <1>3

LEMMA AcceptedTyped ==
  ASSUME TypeOK, NEW t \in Handlers, NEW h, Accepted(t, h)
  PROVE  TypeOK'
<1> DEFINE r == Req(t)
           at == RevisionTime(CurrentOf(r.claim))
           hashes == {p.hash : p \in CurrentOf(r.claim)}
<1>1. r \in Requests
  BY RequestTyped DEF Accepted
<1>2. r.claim \in Claims /\ r.subject \in Subjects /\ r.schema \in Schemas /\ r.status \in Statuses
  BY <1>1, RequestAssumption DEF Statuses
<1>3. at \in Nat /\ hashes \subseteq Hashes /\ h \in Hashes
  BY <1>2, RevisionTimeTyped DEF Accepted, TypeOK, CurrentOf, Current
<1>4. NewRevision(r, h, at, hashes) \in Revision
  BY <1>2, <1>3 DEF NewRevision, Revision
<1>5. NewCurrent(r, h, at) \in Current /\ NewCurrent(r, h, at).claim = r.claim
  BY <1>2, <1>3 DEF NewCurrent, Current
<1>6. /\ revisions' = Supersede(hashes) \cup {NewRevision(r, h, at, hashes)}
      /\ claims' = (claims \ CurrentOf(r.claim)) \cup {NewCurrent(r, h, at)}
  BY DEF Accepted, Write, AppendRevision
<1>7. revisions' \subseteq Revision /\ claims' \subseteq Current
  BY <1>4, <1>5, <1>6, SupersededTyped DEF TypeOK
<1>8. \A p, q \in claims' : p.claim = q.claim => p = q
  BY <1>5, <1>6 DEF TypeOK, CurrentOf
<1>9. /\ operations' \subseteq [hash : Hashes, doc : Claims] /\ IsFiniteSet(operations')
      /\ keys' \subseteq [req : Requests, hash : Hashes]
      /\ content' \in [Claims -> SUBSET (Statuses \cup {"EDITED"})]
  <2>1. operations' = operations \cup {[hash |-> h, doc |-> r.claim]}
    BY DEF Accepted, Write
  <2>2. IsFiniteSet(operations')
    BY <2>1, FS_AddElement DEF TypeOK
  <2>3. operations' \subseteq [hash : Hashes, doc : Claims]
    BY <1>2, <1>3, <2>1 DEF TypeOK
  <2>4. keys' \subseteq [req : Requests, hash : Hashes]
    BY <1>1, <1>3 DEF Accepted, Write, TypeOK
  <2>5. content' \in [Claims -> SUBSET (Statuses \cup {"EDITED"})]
    BY <1>2 DEF Accepted, Write, TypeOK
  <2> QED BY <2>2, <2>3, <2>4, <2>5
<1> QED BY <1>7, <1>8, <1>9, StopTyped DEF Accepted, Write, TypeOK

\* A commit is accepted or changes no table.
LEMMA CommitSplits ==
  ASSUME NEW t \in Handlers, Commit(t)
  PROVE  (\E h \in Hashes \ UsedHashes : Accepted(t, h)) \/ (UNCHANGED <<tables, clock, mutations>> /\ Stop(t))
  BY DEF Commit, Accepted

LEMMA StepTyped == TypeOK /\ [Next]_vars => TypeOK'
<1> SUFFICES ASSUME TypeOK, [Next]_vars PROVE TypeOK'
  OBVIOUS
<1>1. ASSUME NEW s \in Schemas, RegisterSchema(s) PROVE TypeOK'
  BY <1>1 DEF RegisterSchema, TypeOK
<1>2. ASSUME NEW t \in Handlers, NEW r \in Requests, Begin(t, r) PROVE TypeOK'
  BY <1>2, BeginTyped
<1>3. ASSUME NEW t \in Handlers, HandlerStep(t) PROVE TypeOK'
  <2>1. CASE Commit(t)
    <3>1. CASE UNCHANGED <<tables, clock, mutations>> /\ Stop(t)
      BY <3>1, StopTyped DEF TypeOK, tables
    <3> QED BY <2>1, <3>1, CommitSplits, AcceptedTyped
  <2> QED BY <1>3, <2>1, ReadTyped, ReadCurrentTyped, LoadTyped DEF HandlerStep
<1>4. ASSUME NEW c \in Claims, MutateDocument(c) PROVE TypeOK'
  BY <1>4, MutateTyped
<1>5. ASSUME NEW now \in Times, SetClock(now) PROVE TypeOK'
  BY <1>5 DEF SetClock, TypeOK, tables
<1>6. CASE UNCHANGED vars
  BY <1>6 DEF vars, tables, TypeOK
<1> QED BY <1>1, <1>2, <1>3, <1>4, <1>5, <1>6 DEF Next

\* Tables and handlers stay well typed, and a claim has at most one current row.
THEOREM FactsTyped == Spec => []TypeOK
  BY InitTyped, StepTyped, PTL DEF Spec

-----------------------------------------------------------------------------
(* The steps that are no commit                                            *)

LEMMA OtherStepsQuiet ==
  ASSUME TypeOK, [Next]_vars
  PROVE  Quiet \/ \E t \in Handlers : \E h \in Hashes \ UsedHashes : Accepted(t, h)
<1>1. ASSUME NEW t \in Handlers, Stop(t), claims' = claims, revisions' = revisions,
             operations' = operations
      PROVE  Quiet
  <2>1. \A u \in Handlers : handler'[u] = handler[u] \/ handler'[u].previous = {}
    BY <1>1 DEF Stop, Idle, TypeOK
  <2>2. UsedHashes' = UsedHashes
    BY <1>1 DEF UsedHashes
  <2> QED BY <1>1, <2>1, <2>2 DEF Quiet
<1>2. ASSUME NEW t \in Handlers, NEW pc, Move(t, pc), claims' = claims, revisions' = revisions,
             operations' = operations
      PROVE  Quiet
  <2>1. \A u \in Handlers : handler'[u].previous = handler[u].previous /\ handler'[u].req = handler[u].req
    BY <1>2 DEF Move, TypeOK, HandlerState
  <2>2. UsedHashes' = UsedHashes
    BY <1>2 DEF UsedHashes
  <2> QED BY <1>2, <2>1, <2>2 DEF Quiet
<1>3. ASSUME handler' = handler, claims' = claims, revisions' = revisions,
             operations \subseteq operations'
      PROVE  Quiet
  BY <1>3 DEF Quiet, UsedHashes
<1>4. ASSUME NEW s \in Schemas, RegisterSchema(s) PROVE Quiet
  BY <1>3, <1>4 DEF RegisterSchema
<1>5. ASSUME NEW t \in Handlers, NEW r \in Requests, Begin(t, r) PROVE Quiet
  <2>1. \A u \in Handlers : handler'[u] = handler[u] \/ handler'[u].previous = {}
    BY <1>5 DEF Begin, TypeOK
  <2>2. UsedHashes' = UsedHashes /\ claims' = claims /\ revisions' = revisions
    BY <1>5 DEF UsedHashes, Begin, tables
  <2> QED BY <2>1, <2>2 DEF Quiet
<1>6. ASSUME NEW t \in Handlers, HandlerStep(t), ~Commit(t) PROVE Quiet
  <2>0. claims' = claims /\ revisions' = revisions /\ operations' = operations
    BY <1>6 DEF HandlerStep, Acquire, Recheck, ReadCurrent, CheckConflict, Load, Cancel, Abandon,
                Lose, tables
  <2>1. CASE Acquire(t) \/ Recheck(t) \/ CheckConflict(t) \/ Cancel(t) \/ Abandon(t) \/ Lose(t)
    BY <1>1, <1>2, <2>0, <2>1 DEF Acquire, Recheck, CheckConflict, Cancel, Abandon, Lose
  <2>2. UsedHashes' = UsedHashes
    BY <2>0 DEF UsedHashes
  <2>3. ASSUME NEW pc, NEW base, Proceed(t, pc, CurrentOf(Req(t).claim), base) PROVE Quiet
    <3>1. \A u \in Handlers :
            IF u = t THEN /\ handler'[u].previous = CurrentOf(Req(t).claim)
                          /\ handler'[u].req = handler[u].req
                     ELSE handler'[u] = handler[u]
      BY <2>3 DEF Proceed, TypeOK
    <3> QED BY <2>0, <2>2, <3>1 DEF Quiet
  <2>4. ASSUME NEW pc, NEW base, Proceed(t, pc, handler[t].previous, base) PROVE Quiet
    <3>1. \A u \in Handlers :
            IF u = t THEN /\ handler'[u].previous = handler[u].previous
                          /\ handler'[u].req = handler[u].req
                     ELSE handler'[u] = handler[u]
      BY <2>4 DEF Proceed, TypeOK
    <3> QED BY <2>0, <2>2, <3>1 DEF Quiet
  <2>5. CASE ReadCurrent(t)
    BY <1>1, <2>0, <2>3, <2>5 DEF ReadCurrent
  <2>6. CASE Load(t)
    BY <1>1, <2>0, <2>4, <2>6 DEF Load
  <2> QED BY <1>6, <2>1, <2>5, <2>6 DEF HandlerStep
<1>7. ASSUME NEW t \in Handlers, Commit(t)
      PROVE  Quiet \/ \E h \in Hashes \ UsedHashes : Accepted(t, h)
  BY <1>1, <1>7, CommitSplits DEF tables
<1>8. ASSUME NEW c \in Claims, MutateDocument(c) PROVE Quiet
  BY <1>3, <1>8 DEF MutateDocument
<1>9. ASSUME NEW now \in Times, SetClock(now) PROVE Quiet
  BY <1>3, <1>9 DEF SetClock, tables
<1>10. CASE UNCHANGED vars
  BY <1>3, <1>10 DEF vars, tables
<1> QED BY <1>4, <1>5, <1>6, <1>7, <1>8, <1>9, <1>10 DEF Next

\* What a handler has validated stays validated: steps of t itself.
LEMMA QuietKeepsValidated ==
  ASSUME IInv, [Next]_vars, Quiet, TypeOK'
  PROVE  Validated'
<1> SUFFICES ASSUME NEW t \in Handlers PROVE ValidatedBy(t)'
  BY DEF Validated
<1>0. claims' = claims /\ ValidatedBy(t)
  BY DEF Quiet, IInv, Validated
<1>1. CASE handler'[t] = handler[t]
  BY <1>0, <1>1 DEF ValidatedBy, Req, SameClaim, Transition
<1>2. CASE handler'[t].previous = {} /\ handler'[t].pc \in {"idle", "locking", "recheck", "current"}
  BY <1>2 DEF ValidatedBy
<1>3. CASE /\ handler'[t].previous = handler[t].previous /\ handler'[t].req = handler[t].req
           /\ handler'[t].pc \in {"conflict", "load", "commit", "abandoned"} =>
                handler[t].pc \in {"conflict", "load", "commit", "abandoned"}
  BY <1>0, <1>3 DEF ValidatedBy, Req, SameClaim, Transition
<1>4. CASE ReadCurrent(t)
  <2>1. CASE Stop(t)
    BY <1>2, <2>1 DEF Stop, Idle, IInv, TypeOK
  <2>2. ASSUME NEW pc, Proceed(t, pc, CurrentOf(Req(t).claim), 0),
               SameClaim(Req(t), CurrentOf(Req(t).claim)),
               Transition(Req(t), CurrentOf(Req(t).claim))
        PROVE  ValidatedBy(t)'
    <3>1. handler'[t].previous = CurrentOf(Req(t).claim) /\ Req(t)' = Req(t)
      BY <2>2 DEF Proceed, IInv, TypeOK, Req
    <3>2. \A p \in CurrentOf(Req(t).claim) : p \in claims /\ p.claim = Req(t).claim
      BY DEF CurrentOf
    <3>3. \A p, q \in claims : p.hash = q.hash => p = q
      BY DEF IInv, RowIsLast
    <3> QED BY <1>0, <2>2, <3>1, <3>2, <3>3 DEF ValidatedBy, SameClaim, Transition
  <2> QED BY <1>4, <2>1, <2>2 DEF ReadCurrent
<1>5. ASSUME HandlerStep(t) PROVE ValidatedBy(t)'
  <2>1. CASE Stop(t)
    BY <1>2, <2>1 DEF Stop, Idle, IInv, TypeOK
  <2>2. ASSUME NEW pc, Move(t, pc),
               pc \in {"conflict", "load", "commit", "abandoned"} =>
                 handler[t].pc \in {"conflict", "load", "commit", "abandoned"}
        PROVE  ValidatedBy(t)'
    <3>1. /\ handler'[t].pc = pc /\ handler'[t].previous = handler[t].previous
          /\ handler'[t].req = handler[t].req
      BY <2>2 DEF Move, IInv, TypeOK, HandlerState
    <3> QED BY <1>3, <2>2, <3>1
  <2>3. ASSUME NEW base, Proceed(t, "commit", handler[t].previous, base), handler[t].pc = "load"
        PROVE  ValidatedBy(t)'
    <3>1. /\ handler'[t].previous = handler[t].previous /\ handler'[t].req = handler[t].req
      BY <2>3 DEF Proceed, IInv, TypeOK
    <3> QED BY <1>3, <2>3, <3>1
  <2> QED BY <1>4, <1>5, <2>1, <2>2, <2>3
        DEF HandlerStep, Acquire, Recheck, CheckConflict, Load, Commit, Cancel, Abandon, Lose
<1>6. ASSUME NEW r \in Requests, Begin(t, r) PROVE ValidatedBy(t)'
  BY <1>2, <1>6 DEF Begin, IInv, TypeOK
<1>7. ASSUME NEW u \in Handlers, u # t, HandlerStep(u) \/ \E r \in Requests : Begin(u, r)
      PROVE  handler'[t] = handler[t]
  BY <1>7 DEF HandlerStep, Acquire, Recheck, ReadCurrent, CheckConflict, Load, Commit, Cancel,
              Abandon, Lose, Begin, Move, Stop, Proceed, IInv, TypeOK
<1>8. ASSUME (\E s \in Schemas : RegisterSchema(s)) \/ (\E c \in Claims : MutateDocument(c))
             \/ (\E now \in Times : SetClock(now)) \/ UNCHANGED vars
      PROVE  handler'[t] = handler[t]
  BY <1>8 DEF RegisterSchema, MutateDocument, SetClock, vars
<1> QED BY <1>1, <1>5, <1>6, <1>7, <1>8 DEF Next

LEMMA QuietKeepsTables ==
  ASSUME IInv, Quiet
  PROVE  Known' /\ RowIsLast' /\ RevisionsAreChain' /\ OneActiveClaim'
<1>1. Known'
  BY DEF IInv, Known, Quiet, CurrentOf
<1>2. RowIsLast' /\ OneActiveClaim'
  BY DEF IInv, RowIsLast, OneActiveClaim, Quiet
<1>3. RevisionsAreChain'
  BY DEF IInv, RevisionsAreChain, RevisionsOf, Quiet
<1> QED BY <1>1, <1>2, <1>3

-----------------------------------------------------------------------------
(* An accepted commit                                                      *)

\* What it writes, and that the handler's decision holds for the rows as they
\* are at the commit.
LEMMA AcceptedEffect ==
  ASSUME IInv, NEW t \in Handlers, NEW h, Accepted(t, h),
         NEW r, r = Req(t), NEW stored, stored = CurrentOf(r.claim),
         NEW hashes, hashes = HashesOf(stored),
         NEW at, at = RevisionTime(stored)
  PROVE  /\ r \in Requests /\ r.claim \in Claims /\ at \in Nat
         /\ h \notin UsedHashes /\ UsedHashes' = UsedHashes \cup {h}
         /\ \A p \in stored : p \in claims /\ p.claim = r.claim /\ p.at \in Nat /\ p.at < at
         /\ \A p, q \in stored : p = q
         /\ stored = handler[t].previous
         /\ SameClaim(r, stored) /\ Transition(r, stored)
         /\ NeedsUniqueness(r) => ~ActiveConflict(r)
         /\ revisions' = Supersede(hashes) \cup {NewRevision(r, h, at, hashes)}
         /\ claims' = (claims \ stored) \cup {NewCurrent(r, h, at)}
         /\ \A u \in Handlers : handler'[u] = IF u = t THEN Idle ELSE handler[u]
<1>1. r \in Requests /\ r.claim \in Claims
  BY RequestTyped, RequestAssumption DEF Accepted, IInv
<1>2. h \notin UsedHashes /\ UsedHashes' = UsedHashes \cup {h}
  <2> DEFINE o == [hash |-> h, doc |-> r.claim]
  <2>1. h \notin UsedHashes /\ operations' = operations \cup {o} /\ o.hash = h
    BY DEF Accepted, Write
  <2> HIDE DEF o
  <2>2. UsedHashes' = {q.hash : q \in operations \cup {o}}
    BY <2>1 DEF UsedHashes
  <2> QED BY <2>1, <2>2 DEF UsedHashes
<1>3. at \in Nat /\ \A p \in stored : p.at \in Nat /\ p.at < at
  BY <1>1, RevisionTimeTyped DEF IInv
<1>4. /\ \A p \in stored : p \in claims /\ p.claim = r.claim
      /\ \A p, q \in stored : p = q
  BY DEF CurrentOf, IInv, TypeOK
<1>5. ValidatedBy(t) /\ handler[t].pc \in {"commit", "abandoned"}
  BY DEF IInv, Validated, Accepted
<1>6. HashesOf(stored) = {p.hash : p \in handler[t].previous}
  BY DEF Accepted, Accepts, HashesOf
<1>7. stored = handler[t].previous
  <2>1. ASSUME NEW q \in stored PROVE q \in handler[t].previous
    <3>1. PICK p \in handler[t].previous : p.hash = q.hash
      BY <1>6 DEF HashesOf
    <3> QED BY <1>4, <1>5, <3>1 DEF ValidatedBy
  <2>2. ASSUME NEW p \in handler[t].previous PROVE p \in stored
    <3>1. PICK q \in stored : q.hash = p.hash
      BY <1>6 DEF HashesOf
    <3> QED BY <1>4, <1>5, <3>1 DEF ValidatedBy
  <2> QED BY <2>1, <2>2
<1>8. SameClaim(r, stored) /\ Transition(r, stored)
  BY <1>5, <1>7 DEF ValidatedBy
<1>9. /\ NeedsUniqueness(r) => ~ActiveConflict(r)
      /\ revisions' = Supersede(hashes) \cup {NewRevision(r, h, at, hashes)}
      /\ claims' = (claims \ stored) \cup {NewCurrent(r, h, at)}
  BY DEF Accepted, Accepts, Write, AppendRevision, HashesOf
<1>10. \A u \in Handlers : handler'[u] = IF u = t THEN Idle ELSE handler[u]
  BY DEF Accepted, Stop, IInv, TypeOK
<1> QED BY <1>1, <1>2, <1>3, <1>4, <1>7, <1>8, <1>9, <1>10

\* The revisions after the commit: the new one, and the old ones with at most the
\* status changed.
LEMMA AcceptedRevisions ==
  ASSUME IInv, NEW hashes, NEW new, revisions' = Supersede(hashes) \cup {new}
  PROVE  /\ \A v \in revisions' \ {new} : \E w \in revisions :
              /\ v.claim = w.claim /\ v.hash = w.hash /\ v.subject = w.subject
              /\ v.schema = w.schema /\ v.at = w.at /\ v.supersedes = w.supersedes
              /\ v.status = IF w.hash \in hashes THEN "SUPERSEDED" ELSE w.status
              /\ (w.hash \notin hashes => v = w)
         /\ \A w \in revisions : \E v \in revisions' :
              /\ v.claim = w.claim /\ v.hash = w.hash /\ v.subject = w.subject
              /\ v.schema = w.schema /\ v.at = w.at /\ v.supersedes = w.supersedes
              /\ v.status = IF w.hash \in hashes THEN "SUPERSEDED" ELSE w.status
<1> DEFINE up(w) == IF w.hash \in hashes THEN [w EXCEPT !.status = "SUPERSEDED"] ELSE w
<1>1. \A w \in revisions :
        LET v == up(w) IN
        /\ v.claim = w.claim /\ v.hash = w.hash /\ v.subject = w.subject
        /\ v.schema = w.schema /\ v.at = w.at /\ v.supersedes = w.supersedes
        /\ v.status = IF w.hash \in hashes THEN "SUPERSEDED" ELSE w.status
        /\ (w.hash \notin hashes => v = w)
  BY DEF IInv, TypeOK, Revision
<1>2. revisions' = {up(w) : w \in revisions} \cup {new}
  BY DEF Supersede
<1> HIDE DEF up
<1>3. \A v \in revisions' \ {new} : \E w \in revisions : v = up(w)
  BY <1>2
<1>4. \A w \in revisions : up(w) \in revisions'
  BY <1>2
<1> QED BY <1>1, <1>3, <1>4

LEMMA AcceptedKeeps ==
  ASSUME IInv, NEW t \in Handlers, NEW h, Accepted(t, h), TypeOK'
  PROVE  IInv'
<1> DEFINE r == Req(t)
           stored == CurrentOf(r.claim)
           hashes == {p.hash : p \in stored}
           at == RevisionTime(stored)
           rev == NewRevision(r, h, at, hashes)
           cur == NewCurrent(r, h, at)
<1>0. /\ r = Req(t) /\ stored = CurrentOf(r.claim) /\ hashes = HashesOf(stored)
      /\ at = RevisionTime(stored) /\ rev = NewRevision(r, h, at, hashes)
      /\ cur = NewCurrent(r, h, at)
  BY DEF HashesOf
<1>1. /\ r.claim \in Claims /\ at \in Nat
      /\ h \notin UsedHashes /\ UsedHashes' = UsedHashes \cup {h}
      /\ \A p \in stored : p \in claims /\ p.claim = r.claim /\ p.at \in Nat /\ p.at < at
      /\ \A p, q \in stored : p = q
      /\ NeedsUniqueness(r) => ~ActiveConflict(r)
      /\ revisions' = Supersede(hashes) \cup {rev}
      /\ claims' = (claims \ stored) \cup {cur}
      /\ \A u \in Handlers : handler'[u] = IF u = t THEN Idle ELSE handler[u]
  <2> HIDE DEF r, stored, hashes, at, rev, cur
  <2> QED BY <1>0, AcceptedEffect
<1>2. /\ rev.claim = r.claim /\ rev.hash = h /\ rev.subject = r.subject /\ rev.schema = r.schema
      /\ rev.status = r.status /\ rev.at = at /\ rev.supersedes = hashes
      /\ cur.claim = r.claim /\ cur.hash = h /\ cur.subject = r.subject /\ cur.schema = r.schema
      /\ cur.status = r.status /\ cur.at = at
  BY DEF NewRevision, NewCurrent
<1>3. /\ \A v \in revisions' \ {rev} : \E w \in revisions :
           /\ v.claim = w.claim /\ v.hash = w.hash /\ v.subject = w.subject
           /\ v.schema = w.schema /\ v.at = w.at /\ v.supersedes = w.supersedes
           /\ v.status = IF w.hash \in hashes THEN "SUPERSEDED" ELSE w.status
           /\ (w.hash \notin hashes => v = w)
      /\ \A w \in revisions : \E v \in revisions' :
           /\ v.claim = w.claim /\ v.hash = w.hash /\ v.subject = w.subject
           /\ v.schema = w.schema /\ v.at = w.at /\ v.supersedes = w.supersedes
           /\ v.status = IF w.hash \in hashes THEN "SUPERSEDED" ELSE w.status
  <2> HIDE DEF rev, hashes
  <2> QED BY <1>1, AcceptedRevisions
<1>4. rev \in revisions' /\ cur \in claims'
  BY <1>1
<1>5. \A p \in claims : p \notin stored => p.claim # r.claim
  BY DEF CurrentOf
<1>6. \A v \in revisions : v.hash # h
  BY <1>1 DEF IInv, Known
<1>7. \A p \in claims : p.hash # h
  BY <1>1 DEF IInv, Known
<1> HIDE DEF rev, cur
<1>8. r.status \in {"ASSERTED", "RETRACTED", "DISPUTED", "EXPIRED"}
  BY RequestTyped, RequestAssumption DEF Accepted, IInv
<1> HIDE DEF r, at
<1>9. Known'
  <2>1. \A p \in claims' : p.hash \in UsedHashes'
    BY <1>1, <1>2 DEF IInv, Known
  <2>2. \A v \in revisions' : v.hash \in UsedHashes'
    BY <1>1, <1>2, <1>3 DEF IInv, Known
  <2>3. \A u \in Handlers : \A p \in handler'[u].previous : p.hash \in UsedHashes'
    BY <1>1 DEF IInv, Known, Idle
  <2> QED BY <2>1, <2>2, <2>3 DEF Known
<1>10. Validated'
  <2> SUFFICES ASSUME NEW u \in Handlers PROVE ValidatedBy(u)'
    BY DEF Validated
  <2>1. CASE u = t
    BY <1>1, <2>1 DEF ValidatedBy, Idle
  <2>2. CASE u # t
    <3>1. handler'[u] = handler[u] /\ ValidatedBy(u)
      BY <1>1, <2>2 DEF IInv, Validated
    <3>2. \A p \in handler[u].previous : p.hash # h
      BY <1>1 DEF IInv, Known
    <3>3. Req(u)' = Req(u)
      BY <3>1 DEF Req
    <3> QED BY <1>1, <1>2, <3>1, <3>2, <3>3 DEF ValidatedBy, SameClaim, Transition
  <2> QED BY <2>1, <2>2
<1>11. \A w \in revisions : w.claim = r.claim =>
         \E p \in stored : w.hash = p.hash \/ w.at < p.at
  BY DEF IInv, RowIsLast, CurrentOf
<1>12. \A w \in revisions : w.claim = r.claim => w.at < at
  <2> SUFFICES ASSUME NEW w \in revisions, w.claim = r.claim PROVE w.at < at
    OBVIOUS
  <2>1. PICK p \in stored : w.hash = p.hash \/ w.at < p.at
    BY <1>11
  <2>2. w.at \in Nat /\ p.at \in Nat /\ p.at < at
    BY <1>1 DEF IInv, TypeOK, Revision
  <2>3. PICK x \in revisions : x.hash = p.hash /\ x.at = p.at
    BY <1>1 DEF IInv, RowIsLast
  <2>4. w.hash = p.hash => w = x
    BY <2>3 DEF IInv, RowIsLast
  <2> QED BY <1>1, <2>1, <2>2, <2>3, <2>4
<1>13. RowIsLast'
  <2>1. \A p, q \in claims' : p.hash = q.hash => p = q
    BY <1>1, <1>2, <1>7 DEF IInv, RowIsLast
  <2>2. \A v, w \in revisions' : v.hash = w.hash => v = w
    <3> SUFFICES ASSUME NEW v \in revisions', NEW w \in revisions', v.hash = w.hash PROVE v = w
      OBVIOUS
    <3>1. CASE v = rev \/ w = rev
      BY <1>2, <1>3, <1>6, <3>1
    <3>2. CASE v # rev /\ w # rev
      <4>2. v \in Supersede(hashes) /\ w \in Supersede(hashes)
        BY <1>1, <3>2
      <4>3. PICK x \in revisions :
              v = IF x.hash \in hashes THEN [x EXCEPT !.status = "SUPERSEDED"] ELSE x
        BY <4>2 DEF Supersede
      <4>4. PICK y \in revisions :
              w = IF y.hash \in hashes THEN [y EXCEPT !.status = "SUPERSEDED"] ELSE y
        BY <4>2 DEF Supersede
      <4>5. v.hash = x.hash /\ w.hash = y.hash
        BY <4>3, <4>4 DEF IInv, TypeOK, Revision
      <4>6. \A a, b \in revisions : a.hash = b.hash => a = b
        BY DEF IInv, RowIsLast
      <4>7. x = y
        BY <4>5, <4>6
      <4> QED BY <4>3, <4>4, <4>7
    <3> QED BY <3>1, <3>2
  <2>3. \A p \in claims' : \E v \in revisions' :
          /\ v.claim = p.claim /\ v.hash = p.hash /\ v.subject = p.subject
          /\ v.schema = p.schema /\ v.status = p.status /\ v.at = p.at
    <3> SUFFICES ASSUME NEW p \in claims'
                 PROVE  \E v \in revisions' :
                          /\ v.claim = p.claim /\ v.hash = p.hash /\ v.subject = p.subject
                          /\ v.schema = p.schema /\ v.status = p.status /\ v.at = p.at
      OBVIOUS
    <3>1. CASE p = cur
      BY <1>2, <1>4, <3>1
    <3>2. CASE p # cur
      <4>1. p \in claims /\ p \notin stored
        BY <1>1, <3>2
      <4>2. PICK w \in revisions :
              /\ w.claim = p.claim /\ w.hash = p.hash /\ w.subject = p.subject
              /\ w.schema = p.schema /\ w.status = p.status /\ w.at = p.at
        BY <4>1 DEF IInv, RowIsLast
      <4>3. w.hash \notin hashes
        BY <1>1, <4>1, <4>2 DEF IInv, RowIsLast
      <4> QED BY <1>3, <4>2, <4>3
    <3> QED BY <3>1, <3>2
  <2>4. \A v \in revisions' : \E p \in claims' :
          p.claim = v.claim /\ (v.hash = p.hash \/ v.at < p.at)
    <3> SUFFICES ASSUME NEW v \in revisions'
                 PROVE  \E p \in claims' : p.claim = v.claim /\ (v.hash = p.hash \/ v.at < p.at)
      OBVIOUS
    <3>1. CASE v = rev
      BY <1>2, <1>4, <3>1
    <3>2. CASE v # rev
      <4>1. PICK w \in revisions : v.claim = w.claim /\ v.hash = w.hash /\ v.at = w.at
        BY <1>3, <3>2
      <4>2. CASE w.claim = r.claim
        BY <1>2, <1>4, <1>12, <4>1, <4>2
      <4>3. CASE w.claim # r.claim
        <5>1. PICK p \in claims : p.claim = w.claim /\ (w.hash = p.hash \/ w.at < p.at)
          BY DEF IInv, RowIsLast
        <5>2. p \in claims'
          BY <1>1, <4>3, <5>1
        <5> QED BY <4>1, <5>1, <5>2
      <4> QED BY <4>2, <4>3
    <3> QED BY <3>1, <3>2
  <2> QED BY <2>1, <2>2, <2>3, <2>4 DEF RowIsLast
<1>14. OneActiveClaim'
  <2> SUFFICES ASSUME NEW p \in claims', NEW q \in claims',
                      p.status = "ASSERTED", q.status = "ASSERTED", p.subject = q.subject,
                      p.schema = q.schema, p.schema \notin Multiple
               PROVE  p.claim = q.claim
    BY DEF OneActiveClaim
  <2>1. CASE p # cur /\ q # cur
    BY <1>1, <2>1 DEF IInv, OneActiveClaim
  <2>2. ASSUME NEW a \in {p, q}, NEW b \in {p, q}, a = cur, b # cur
        PROVE  a.claim = b.claim
    <3>1. NeedsUniqueness(r)
      BY <1>2, <2>2 DEF NeedsUniqueness
    <3>2. b \in claims /\ b.subject = r.subject /\ b.schema = r.schema /\ b.status = "ASSERTED"
      BY <1>1, <1>2, <2>2
    <3> QED BY <1>1, <1>2, <2>2, <3>1, <3>2 DEF ActiveConflict
  <2> QED BY <2>1, <2>2
<1>15. RevisionsAreChain'
  <2>0. \A p \in stored : \A w \in revisions : p.hash \notin w.supersedes
    <3> SUFFICES ASSUME NEW p \in stored, NEW w \in revisions, p.hash \in w.supersedes PROVE FALSE
      OBVIOUS
    <3>1. PICK v \in revisions : v.claim = p.claim /\ v.hash = p.hash /\ v.status = p.status
      BY <1>1 DEF IInv, RowIsLast
    <3>2. PICK x \in revisions : x.claim = w.claim /\ x.hash = p.hash
      BY DEF IInv, RevisionsAreChain, RevisionsOf, TypeOK, Revision
    <3>3. x = v
      BY <3>1, <3>2 DEF IInv, RowIsLast
    <3>4. v.status = "SUPERSEDED" /\ p.status # "SUPERSEDED"
      <4>1. v.claim \in Claims /\ v \in RevisionsOf(v.claim) /\ w \in RevisionsOf(v.claim)
        BY <3>1, <3>2, <3>3 DEF RevisionsOf, IInv, TypeOK, Revision
      <4>2. v.status = "SUPERSEDED"
        BY <3>1, <4>1 DEF IInv, RevisionsAreChain
      <4> QED BY <1>1, <4>2 DEF IInv, TypeOK, Current, Statuses
    <3> QED BY <3>1, <3>4
  <2>1. \A v \in revisions' \ {rev} : v.supersedes # hashes \/ v.claim # r.claim
    <3> SUFFICES ASSUME NEW v \in revisions' \ {rev}, v.supersedes = hashes, v.claim = r.claim
                 PROVE  FALSE
      OBVIOUS
    <3>1. PICK w \in revisions : v.claim = w.claim /\ v.supersedes = w.supersedes
      BY <1>3
    <3>2. PICK p \in stored : TRUE
      BY <1>11, <3>1
    <3>3. p.hash \in hashes
      BY <3>2
    <3> QED BY <2>0, <3>1, <3>3
  <2>2. \A v \in revisions, w \in revisions :
          v.claim = w.claim /\ v.supersedes = w.supersedes => v = w
    BY DEF IInv, RevisionsAreChain, RevisionsOf, TypeOK, Revision
  <2>3. ASSUME NEW c \in Claims, NEW v \in RevisionsOf(c)', NEW w \in RevisionsOf(c)',
               v.supersedes = w.supersedes
        PROVE  v = w
    <3>0. v \in revisions' /\ w \in revisions' /\ v.claim = c /\ w.claim = c
      BY DEF RevisionsOf
    <3>1. CASE v = rev \/ w = rev
      BY <1>2, <2>1, <3>0, <2>3, <3>1
    <3>2. CASE v # rev /\ w # rev
      <4>1. PICK a \in revisions :
              v.hash = a.hash /\ v.claim = a.claim /\ v.supersedes = a.supersedes
        BY <1>3, <3>0, <3>2
      <4>2. PICK b \in revisions :
              w.hash = b.hash /\ w.claim = b.claim /\ w.supersedes = b.supersedes
        BY <1>3, <3>0, <3>2
      <4>3. a = b
        BY <2>2, <2>3, <3>0, <4>1, <4>2
      <4>4. \A x, y \in revisions' : x.hash = y.hash => x = y
        BY <1>13 DEF RowIsLast
      <4> QED BY <3>0, <4>1, <4>2, <4>3, <4>4
    <3> QED BY <3>1, <3>2
  <2>4. ASSUME NEW c \in Claims, NEW v \in RevisionsOf(c)', NEW k \in v.supersedes
        PROVE  \E w \in RevisionsOf(c)' : w.hash = k /\ w.at < v.at
    <3>0. v \in revisions' /\ v.claim = c
      BY DEF RevisionsOf
    <3>1. \E x \in revisions : x.claim = c /\ x.hash = k /\ x.at < v.at
      <4>1. CASE v = rev
        <5>1. PICK p \in stored : k = p.hash
          BY <1>2, <2>4, <4>1
        <5>2. PICK x \in revisions : x.claim = p.claim /\ x.hash = p.hash /\ x.at = p.at
          BY <1>1 DEF IInv, RowIsLast
        <5> QED BY <1>1, <1>2, <3>0, <4>1, <5>1, <5>2
      <4>2. CASE v # rev
        <5>1. PICK a \in revisions :
                v.claim = a.claim /\ v.at = a.at /\ v.supersedes = a.supersedes
          BY <1>3, <3>0, <4>2
        <5>2. a \in RevisionsOf(c) /\ k \in a.supersedes
          BY <2>4, <3>0, <5>1 DEF RevisionsOf
        <5>3. PICK x \in RevisionsOf(c) : x.hash = k /\ x.at < a.at
          BY <5>2 DEF IInv, RevisionsAreChain
        <5> QED BY <5>1, <5>3 DEF RevisionsOf
      <4> QED BY <4>1, <4>2
    <3>2. PICK x \in revisions : x.claim = c /\ x.hash = k /\ x.at < v.at
      BY <3>1
    <3>3. PICK w \in revisions' : w.claim = x.claim /\ w.hash = x.hash /\ w.at = x.at
      BY <1>3
    <3> QED BY <3>2, <3>3 DEF RevisionsOf
  <2>5. ASSUME NEW c \in Claims, NEW v \in RevisionsOf(c)'
        PROVE  v.status = "SUPERSEDED" <=> \E w \in RevisionsOf(c)' : v.hash \in w.supersedes
    <3>0. v \in revisions' /\ v.claim = c
      BY DEF RevisionsOf
    <3>1. CASE v = rev
      <4>1. v.status # "SUPERSEDED"
        BY <1>2, <1>8, <3>1
      <4>2. ASSUME NEW w \in RevisionsOf(c)', h \in w.supersedes PROVE FALSE
        <5>1. PICK x \in RevisionsOf(c)' : x.hash = h /\ x.at < w.at
          BY <2>4, <4>2
        <5>2. x \in revisions' /\ w \in revisions'
          BY DEF RevisionsOf
        <5>3. x = rev
          BY <1>2, <1>3, <1>6, <5>1, <5>2
        <5>4. w # rev
          BY <1>2, <5>1, <5>3, <1>1
        <5>5. PICK b \in revisions : w.claim = b.claim /\ w.supersedes = b.supersedes
          BY <1>3, <5>2, <5>4
        <5>6. b \in RevisionsOf(c) /\ h \in b.supersedes
          BY <4>2, <5>5 DEF RevisionsOf
        <5>7. PICK y \in RevisionsOf(c) : y.hash = h
          BY <5>6 DEF IInv, RevisionsAreChain
        <5> QED BY <1>6, <5>7 DEF RevisionsOf
      <4> QED BY <1>2, <3>1, <4>1, <4>2
    <3>2. CASE v # rev
      <4>1. PICK a \in revisions :
              /\ v.claim = a.claim /\ v.hash = a.hash
              /\ v.status = IF a.hash \in hashes THEN "SUPERSEDED" ELSE a.status
        BY <1>3, <3>0, <3>2
      <4>2. a \in RevisionsOf(c)
        BY <3>0, <4>1 DEF RevisionsOf
      <4>3. a.status = "SUPERSEDED" <=> \E b \in RevisionsOf(c) : a.hash \in b.supersedes
        BY <4>2 DEF IInv, RevisionsAreChain
      <4>4. a.hash \in hashes => c = r.claim
        <5> SUFFICES ASSUME NEW p \in stored, a.hash = p.hash PROVE c = r.claim
          OBVIOUS
        <5>1. PICK x \in revisions : x.claim = p.claim /\ x.hash = p.hash
          BY <1>1 DEF IInv, RowIsLast
        <5>2. x = a
          BY <5>1 DEF IInv, RowIsLast
        <5> QED BY <1>1, <3>0, <4>1, <5>1, <5>2
      <4>5. (\E w \in RevisionsOf(c)' : v.hash \in w.supersedes) <=>
              \/ \E b \in RevisionsOf(c) : a.hash \in b.supersedes
              \/ a.hash \in hashes
        <5>1. ASSUME NEW w \in RevisionsOf(c)', v.hash \in w.supersedes, w # rev
              PROVE  \E b \in RevisionsOf(c) : a.hash \in b.supersedes
          <6>1. PICK b \in revisions : w.claim = b.claim /\ w.supersedes = b.supersedes
            BY <1>3, <5>1 DEF RevisionsOf
          <6> QED BY <4>1, <5>1, <6>1 DEF RevisionsOf
        <5>2. ASSUME NEW b \in RevisionsOf(c), a.hash \in b.supersedes
              PROVE  \E w \in RevisionsOf(c)' : v.hash \in w.supersedes
          <6>1. PICK w \in revisions' : w.claim = b.claim /\ w.supersedes = b.supersedes
            BY <1>3 DEF RevisionsOf
          <6> QED BY <4>1, <5>2, <6>1 DEF RevisionsOf
        <5>3. a.hash \in hashes => rev \in RevisionsOf(c)' /\ v.hash \in rev.supersedes
          BY <1>2, <1>4, <4>1, <4>4 DEF RevisionsOf
        <5> QED BY <1>2, <4>1, <5>1, <5>2, <5>3
      <4> QED BY <4>1, <4>3, <4>5
    <3> QED BY <3>1, <3>2
  <2> QED BY <2>3, <2>4, <2>5 DEF RevisionsAreChain
<1> QED BY <1>9, <1>10, <1>13, <1>14, <1>15 DEF IInv

-----------------------------------------------------------------------------
(* The invariant                                                           *)

LEMMA InitInvariant == Init => IInv
  BY InitTyped DEF Init, IInv, Known, RowIsLast, RevisionsAreChain, RevisionsOf, OneActiveClaim,
     Validated, ValidatedBy, Idle

LEMMA StepInvariant == IInv /\ [Next]_vars => IInv'
<1> SUFFICES ASSUME IInv, [Next]_vars PROVE IInv'
  OBVIOUS
<1>1. TypeOK /\ TypeOK'
  BY StepTyped DEF IInv
<1>2. CASE Quiet
  BY <1>1, <1>2, QuietKeepsTables, QuietKeepsValidated DEF IInv
<1> QED BY <1>1, <1>2, OtherStepsQuiet, AcceptedKeeps

LEMMA Invariant == Spec => []IInv
  BY InitInvariant, StepInvariant, PTL DEF Spec

\* The revisions of a claim form one chain, without fork, cycle or a step back in
\* time, whatever the clock shows and in whatever order hashes come.
THEOREM RevisionsFormChain == Spec => []RevisionsAreChain
  BY Invariant, PTL DEF IInv

\* A schema with one active claim per subject never has two: the transaction
\* repeats the check no lock protects.
THEOREM OneClaimIsActive == Spec => []OneActiveClaim
  BY Invariant, PTL DEF IInv

-----------------------------------------------------------------------------
(* The projection and its latest revisions                                 *)

LEMMA RowsAreLatest == IInv => ProjectionConsistent
<1> SUFFICES ASSUME IInv PROVE ProjectionConsistent
  OBVIOUS
<1> DEFINE row(v) == [claim |-> v.claim, hash |-> v.hash, subject |-> v.subject,
                      schema |-> v.schema, status |-> v.status, at |-> v.at]
<1>1. \A v \in revisions : v.at \in Nat /\ v.hash \in Nat
  BY HashAssumption DEF IInv, TypeOK, Revision
<1>2. ASSUME NEW p \in claims PROVE \E v \in Latest : row(v) = p
  <2>1. PICK v \in revisions :
          /\ v.claim = p.claim /\ v.hash = p.hash /\ v.subject = p.subject
          /\ v.schema = p.schema /\ v.status = p.status /\ v.at = p.at
    BY DEF IInv, RowIsLast
  <2>2. row(v) = p
    BY <2>1 DEF IInv, TypeOK, Current
  <2>3. ASSUME NEW w \in RevisionsOf(v.claim) PROVE ~Newer(w, v)
    <3>1. w \in revisions /\ w.claim = v.claim
      BY DEF RevisionsOf
    <3>2. PICK q \in claims : q.claim = w.claim /\ (w.hash = q.hash \/ w.at < q.at)
      BY <3>1 DEF IInv, RowIsLast
    <3>3. q = p
      BY <2>1, <3>1, <3>2 DEF IInv, TypeOK
    <3>4. w.hash = v.hash => w = v
      BY <3>1 DEF IInv, RowIsLast
    <3> QED BY <1>1, <2>1, <3>1, <3>2, <3>3, <3>4 DEF Newer
  <2> QED BY <2>2, <2>3 DEF Latest
<1>3. ASSUME NEW v \in Latest PROVE row(v) \in claims
  <2>0. v \in revisions
    BY DEF Latest
  <2>1. PICK p \in claims : p.claim = v.claim /\ (v.hash = p.hash \/ v.at < p.at)
    BY <2>0 DEF IInv, RowIsLast
  <2>2. PICK x \in revisions :
          /\ x.claim = p.claim /\ x.hash = p.hash /\ x.subject = p.subject
          /\ x.schema = p.schema /\ x.status = p.status /\ x.at = p.at
    BY DEF IInv, RowIsLast
  <2>3. ~Newer(x, v)
    BY <2>1, <2>2 DEF Latest, RevisionsOf
  <2>4. v.hash = x.hash
    BY <1>1, <2>0, <2>1, <2>2, <2>3 DEF Newer
  <2>5. v = x
    BY <2>0, <2>4 DEF IInv, RowIsLast
  <2>6. row(v) = p
    BY <2>2, <2>5 DEF IInv, TypeOK, Current
  <2> QED BY <2>6
<1>4. ProjectionConsistent <=> {row(v) : v \in Latest} = claims
  BY DEF ProjectionConsistent
<1> HIDE DEF row
<1> QED BY <1>2, <1>3, <1>4

\* The current table is always exactly the latest revisions: projection.check has
\* nothing to report, in whatever order times and hashes come.
THEOREM ProjectionIsConsistent == Spec => []ProjectionConsistent
  BY Invariant, RowsAreLatest, PTL

-----------------------------------------------------------------------------
(* Refinement                                                              *)

View(rows) == {[subject |-> p.subject, schema |-> p.schema, status |-> p.status] : p \in rows}

LEMMA ViewMembers ==
  ASSUME NEW rows
  PROVE  /\ \A x \in View(rows) : \E p \in rows :
              x.subject = p.subject /\ x.schema = p.schema /\ x.status = p.status
         /\ \A subject, schema, status :
              [subject |-> subject, schema |-> schema, status |-> status] \in View(rows) =>
                \E p \in rows : p.subject = subject /\ p.schema = schema /\ p.status = status
         /\ \A p \in rows :
              View({p}) = {[subject |-> p.subject, schema |-> p.schema, status |-> p.status]}
         /\ View(rows) = {} => rows = {}
<1>1. \A x \in View(rows) : \E p \in rows :
        x.subject = p.subject /\ x.schema = p.schema /\ x.status = p.status
  BY DEF View
<1>2. \A p \in rows :
        View({p}) = {[subject |-> p.subject, schema |-> p.schema, status |-> p.status]}
  BY DEF View
<1>3. View(rows) = {} => rows = {}
  BY DEF View
<1>4. ASSUME NEW subject, NEW schema, NEW status,
             [subject |-> subject, schema |-> schema, status |-> status] \in View(rows)
      PROVE  \E p \in rows : p.subject = subject /\ p.schema = schema /\ p.status = status
  <2>1. PICK p \in rows : /\ subject = p.subject /\ schema = p.schema /\ status = p.status
    BY <1>1, <1>4
  <2> QED BY <2>1
<1> QED BY <1>1, <1>2, <1>3, <1>4

LEMMA AcceptedAsserts ==
  ASSUME IInv, NEW t \in Handlers, NEW h, Accepted(t, h), TypeOK', NEW r, r = Req(t)
  PROVE  Abstract!Next
<1> DEFINE stored == CurrentOf(r.claim)
           hashes == HashesOf(stored)
           at == RevisionTime(stored)
           cur == NewCurrent(r, h, at)
           before == [c \in Claims |-> View(CurrentOf(c))]
           after == [c \in Claims |-> View(CurrentOf(c)')]
           row == [subject |-> r.subject, schema |-> r.schema, status |-> r.status]
<1>0. /\ r = Req(t) /\ stored = CurrentOf(r.claim) /\ hashes = HashesOf(stored)
      /\ at = RevisionTime(stored) /\ cur = NewCurrent(r, h, at)
  OBVIOUS
<1>1. /\ r \in Requests /\ r.claim \in Claims
      /\ \A p \in stored : p \in claims /\ p.claim = r.claim
      /\ SameClaim(r, stored) /\ Transition(r, stored)
      /\ NeedsUniqueness(r) => ~ActiveConflict(r)
      /\ claims' = (claims \ stored) \cup {cur}
  <2> HIDE DEF stored, hashes, at, cur
  <2> QED BY <1>0, AcceptedEffect
<1>2. r.subject \in Subjects /\ r.schema \in Schemas /\ r.status \in Abstract!Statuses
  BY <1>1, RequestAssumption DEF Abstract!Statuses
<1>3. /\ cur.claim = r.claim /\ cur.subject = r.subject /\ cur.schema = r.schema
      /\ cur.status = r.status
  BY DEF NewCurrent
<1> HIDE DEF cur
<1>4. \A c \in Claims : CurrentOf(c)' = IF c = r.claim THEN {cur} ELSE CurrentOf(c)
  BY <1>1, <1>3 DEF CurrentOf
<1>5. View({cur}) = {row}
  BY <1>3, ViewMembers
<1>6. after = [before EXCEPT ![r.claim] = {row}]
  BY <1>1, <1>4, <1>5
<1>7. before[r.claim] = View(stored)
  BY <1>1
<1>8. View(stored) = {} => r.status = "ASSERTED"
  BY <1>1, ViewMembers DEF Transition
<1>9. \A p \in View(stored) :
        /\ p.subject = r.subject /\ p.schema = r.schema
        /\ p.status \notin Terminal /\ r.status \in Allows[r.schema]
  <2> SUFFICES ASSUME NEW p \in View(stored)
               PROVE  /\ p.subject = r.subject /\ p.schema = r.schema
                      /\ p.status \notin Terminal /\ r.status \in Allows[r.schema]
    OBVIOUS
  <2>1. PICK q \in stored : p.subject = q.subject /\ p.schema = q.schema /\ p.status = q.status
    BY ViewMembers
  <2> QED BY <1>1, <2>1 DEF SameClaim, Transition
<1>10. ASSUME r.status = "ASSERTED", r.schema \notin Multiple, NEW d \in Claims \ {r.claim}
       PROVE  [subject |-> r.subject, schema |-> r.schema, status |-> "ASSERTED"] \notin before[d]
  <2>1. ~ActiveConflict(r)
    BY <1>1, <1>10 DEF NeedsUniqueness
  <2>2. ASSUME NEW p \in CurrentOf(d)
        PROVE  ~(p.subject = r.subject /\ p.schema = r.schema /\ p.status = "ASSERTED")
    BY <2>1, <1>10 DEF ActiveConflict, CurrentOf
  <2> QED BY <2>2, ViewMembers
<1> HIDE DEF stored, hashes, at
<1>11. Abstract!Permitted(r.claim, r.subject, r.schema, r.status)
  <2> SUFFICES /\ before[r.claim] = {} => r.status = "ASSERTED"
               /\ \A p \in before[r.claim] :
                    /\ p.subject = r.subject /\ p.schema = r.schema
                    /\ p.status \notin Terminal /\ r.status \in Allows[r.schema]
    BY DEF Abstract!Permitted, Abstract!Terminal, Terminal, View
  <2> QED BY <1>7, <1>8, <1>9
<1>12. r.status = "ASSERTED" /\ r.schema \notin Multiple =>
         Abstract!Single(r.claim, r.subject, r.schema)
  BY <1>10 DEF Abstract!Single, View
<1>13. Abstract!Assert(r.claim, r.subject, r.schema, r.status)
  BY <1>6, <1>11, <1>12 DEF Abstract!Assert, View
<1>14. r.claim \in Claims
  BY <1>1
<1>15. ASSUME NEW c \in Claims, NEW subject \in Subjects, NEW schema \in Schemas,
              NEW status \in Abstract!Statuses, Abstract!Assert(c, subject, schema, status)
       PROVE  Abstract!Next
  BY <1>15 DEF Abstract!Next
<1> QED BY <1>2, <1>13, <1>14, <1>15

LEMMA InitAbstract == Init => Abstract!Init
  BY DEF Init, Abstract!Init, CurrentOf

LEMMA StepAbstract ==
  ASSUME IInv, TypeOK', [Next]_vars
  PROVE  Abstract!Next \/ UNCHANGED [c \in Claims |-> View(CurrentOf(c))]
<1>1. CASE Quiet
  BY <1>1 DEF Quiet, CurrentOf
<1>2. ASSUME NEW t \in Handlers, NEW h, Accepted(t, h) PROVE Abstract!Next
  <2>1. PICK r : r = Req(t)
    OBVIOUS
  <2> QED BY <1>2, <2>1, AcceptedAsserts
<1> QED BY <1>1, <1>2, OtherStepsQuiet DEF IInv

\* Every change of a claim is one the lifecycle policy permits for the revision it
\* replaces, and every active claim is the only one of its subject where the schema
\* says so: what a handler validated against earlier reads holds in the transaction.
THEOREM FactsImplementGovernedClaims == Spec => ImplementsGovernedClaims
<1>1. IInv /\ TypeOK' /\ [Next]_vars =>
        [Abstract!Next]_[c \in Claims |->
          {[subject |-> p.subject, schema |-> p.schema, status |-> p.status] : p \in CurrentOf(c)}]
  BY StepAbstract DEF View
<1>2. IInv => TypeOK
  BY DEF IInv
<1> QED BY <1>1, <1>2, Invariant, InitAbstract, PTL DEF Spec, ImplementsGovernedClaims, Abstract!Spec

-----------------------------------------------------------------------------
(* Reading the history of a claim page by page                             *)

\* The times of the revisions of a claim differ.
TimesDiffer == \A v, w \in revisions : v.claim = w.claim /\ v.at = w.at => v = w

\* A new revision is later than all of its claim.
LEMMA AcceptedKeepsTimes ==
  ASSUME IInv, TimesDiffer, IsFiniteSet(revisions),
         NEW t \in Handlers, NEW h, Accepted(t, h)
  PROVE  /\ TimesDiffer' /\ IsFiniteSet(revisions')
         /\ \A w \in revisions : \E v \in revisions' :
              v.claim = w.claim /\ v.hash = w.hash /\ v.at = w.at
<1>0. PICK r, stored, hashes, at :
        /\ r = Req(t) /\ stored = CurrentOf(r.claim) /\ hashes = HashesOf(stored)
        /\ at = RevisionTime(stored)
  OBVIOUS
<1> DEFINE new == NewRevision(r, h, at, hashes)
<1>1. /\ at \in Nat /\ \A p \in stored : p \in claims /\ p.at \in Nat /\ p.at < at
      /\ revisions' = Supersede(hashes) \cup {new}
  BY <1>0, AcceptedEffect
<1>2. new.claim = r.claim /\ new.at = at
  BY DEF NewRevision
<1> HIDE DEF new
<1>3. \A w \in revisions : w.claim = r.claim => w.at < at
  <2> SUFFICES ASSUME NEW w \in revisions, w.claim = r.claim PROVE w.at < at
    OBVIOUS
  <2>1. PICK p \in claims : p.claim = w.claim /\ (w.hash = p.hash \/ w.at < p.at)
    BY DEF IInv, RowIsLast
  <2>2. p \in stored
    BY <1>0, <2>1 DEF CurrentOf
  <2>3. PICK x \in revisions : x.hash = p.hash /\ x.at = p.at
    BY <2>1 DEF IInv, RowIsLast
  <2>4. w.hash = p.hash => w.at = p.at
    BY <2>3 DEF IInv, RowIsLast
  <2>5. w.at \in Nat /\ p.at \in Nat /\ p.at < at
    BY <1>1, <2>2 DEF IInv, TypeOK, Revision
  <2> QED BY <1>1, <2>1, <2>4, <2>5
<1> DEFINE up(w) == IF w.hash \in hashes THEN [w EXCEPT !.status = "SUPERSEDED"] ELSE w
<1>4. Supersede(hashes) = {up(w) : w \in revisions}
  BY DEF Supersede
<1>5. \A w \in revisions : up(w).claim = w.claim /\ up(w).hash = w.hash /\ up(w).at = w.at
  BY DEF IInv, TypeOK, Revision
<1>6. IsFiniteSet(revisions')
  <2> DEFINE f == [w \in revisions |-> up(w)]
  <2> HIDE DEF up
  <2>1. f \in Surjection(revisions, Supersede(hashes))
    BY <1>4 DEF Surjection
  <2> HIDE DEF f
  <2>2. IsFiniteSet(Supersede(hashes))
    BY <2>1, FS_Surjection
  <2> QED BY <1>1, <2>2, FS_AddElement
<1> HIDE DEF up
<1>7. ASSUME NEW v \in revisions', NEW w \in revisions', v.claim = w.claim, v.at = w.at
      PROVE  v = w
  <2>1. \A x \in revisions' : x = new \/ \E y \in revisions : x = up(y)
    BY <1>1, <1>4
  <2>2. ASSUME NEW y \in revisions, new.claim = up(y).claim, new.at = up(y).at PROVE FALSE
    <3>1. y.at \in Nat /\ y.at < at
      BY <1>2, <1>3, <1>5, <2>2 DEF IInv, TypeOK, Revision
    <3> QED BY <1>1, <1>2, <1>5, <2>2, <3>1
  <2>3. ASSUME NEW x \in revisions, NEW y \in revisions, v = up(x), w = up(y) PROVE v = w
    BY <1>5, <1>7, <2>3 DEF TimesDiffer
  <2> QED BY <1>7, <2>1, <2>2, <2>3
<1>8. \A w \in revisions : up(w) \in revisions'
  BY <1>1, <1>4
<1> QED BY <1>5, <1>6, <1>7, <1>8 DEF TimesDiffer

\* ORDER BY lists every row once, the newest first.
LEMMA OrderedLists ==
  ASSUME NEW S \in SUBSET Revision, IsFiniteSet(S),
         \A v, w \in S : v.at = w.at => v = w
  PROVE  /\ Ordered(S) \in Seq(S) /\ Len(Ordered(S)) = Cardinality(S)
         /\ \A v \in S : \E i \in 1..Len(Ordered(S)) : Ordered(S)[i] = v
         /\ \A i, j \in 1..Len(Ordered(S)) : i < j => Ordered(S)[i].at > Ordered(S)[j].at
<1> DEFINE n == Cardinality(S)
           before(v) == {w \in S : Newer(w, v)}
           place == [v \in S |-> Cardinality(before(v)) + 1]
           list == Ordered(S)
<1>1. n \in Nat
  BY FS_CardinalityType
<1>2. \A v \in S : v.at \in Nat /\ v.hash \in Nat
  BY HashAssumption DEF Revision
<1>3. \A v, w \in S : Newer(v, w) <=> v.at > w.at
  BY <1>2 DEF Newer
<1>4. ASSUME NEW v \in S, NEW w \in S, v.at > w.at
      PROVE  place[v] < place[w]
  <2>1. \A x \in before(v) : x \in before(w)
    BY <1>2, <1>3, <1>4
  <2>2. v \in before(w) /\ v \notin before(v)
    BY <1>2, <1>3, <1>4
  <2>3. before(w) \subseteq S
    OBVIOUS
  <2> HIDE DEF before
  <2>4. IsFiniteSet(before(w)) /\ before(v) \subseteq before(w) /\ before(v) # before(w)
    BY <2>1, <2>2, <2>3, FS_Subset
  <2>5. /\ Cardinality(before(v)) \in Nat /\ Cardinality(before(w)) \in Nat
        /\ Cardinality(before(v)) < Cardinality(before(w))
    <3>1. /\ IsFiniteSet(before(v)) /\ Cardinality(before(v)) <= Cardinality(before(w))
          /\ Cardinality(before(w)) # Cardinality(before(v))
      BY <2>4, FS_Subset
    <3> QED BY <2>4, <3>1, FS_CardinalityType
  <2> QED BY <2>5
<1>5. ASSUME NEW v \in S PROVE place[v] \in 1..n
  <2>1. before(v) \subseteq S /\ v \notin before(v)
    BY <1>2, <1>3
  <2> HIDE DEF before
  <2>2. /\ IsFiniteSet(before(v)) /\ Cardinality(before(v)) <= n
        /\ Cardinality(before(v)) # n
    BY <2>1, FS_Subset
  <2>3. Cardinality(before(v)) \in Nat
    BY <2>2, FS_CardinalityType
  <2> HIDE DEF n
  <2> QED BY <1>1, <2>2, <2>3
<1>6. ASSUME NEW v \in S, NEW w \in S, place[v] = place[w] PROVE v = w
  <2>1. place[v] \in Nat /\ place[w] \in Nat
    BY <1>5, <1>1
  <2>2. ~(v.at > w.at) /\ ~(w.at > v.at)
    <3> HIDE DEF place
    <3> QED BY <1>4, <1>6, <2>1
  <2> QED BY <1>2, <2>2
<1>7. place \in Injection(S, 1..n)
  <2>1. place \in [S -> 1..n]
    BY <1>5
  <2>2. IsInjective(place)
    BY <1>6 DEF IsInjective
  <2> QED BY <2>1, <2>2 DEF Injection
<1>8. place \in Surjection(S, 1..n)
  <2>1. IsFiniteSet(1..n) /\ Cardinality(1..n) = n
    BY <1>1, FS_Interval
  <2> HIDE DEF place
  <2> QED BY <1>7, <2>1, FS_Injection
<1>9. \A i \in 1..n : \E v \in S : place[v] = i
  <2> HIDE DEF place
  <2> QED BY <1>8 DEF Surjection
<1> DEFINE row(i) == CHOOSE v \in S : Cardinality(before(v)) = i - 1
<1>10. list = [i \in 1..n |-> row(i)]
  BY DEF Ordered
<1>11. ASSUME NEW i \in 1..n PROVE row(i) \in S /\ place[row(i)] = i
  <2>1. PICK v \in S : place[v] = i
    BY <1>9
  <2>2. \A w \in S : Cardinality(before(w)) = i - 1 <=> place[w] = i
    <3>1. \A w \in S : Cardinality(before(w)) \in Nat
      BY FS_Subset, FS_CardinalityType
    <3> HIDE DEF before
    <3> QED BY <1>1, <3>1
  <2>3. \E w \in S : Cardinality(before(w)) = i - 1
    BY <2>1, <2>2
  <2> HIDE DEF before, place
  <2>4. row(i) \in S /\ Cardinality(before(row(i))) = i - 1
    BY <2>3
  <2> QED BY <2>2, <2>4
<1>12. list \in Seq(S) /\ Len(list) = n /\ \A i \in 1..n : list[i] = row(i)
  <2> HIDE DEF list, n, row
  <2>1. list \in [1..n -> S]
    BY <1>10, <1>11
  <2> QED BY <1>1, <1>10, <2>1
<1>13. ASSUME NEW v \in S PROVE \E i \in 1..n : list[i] = v
  <2>1. place[v] \in 1..n
    BY <1>5
  <2> HIDE DEF list, place, row
  <2>2. row(place[v]) \in S /\ place[row(place[v])] = place[v]
    BY <1>11, <2>1
  <2> QED BY <1>6, <1>12, <2>1, <2>2
<1>14. ASSUME NEW i \in 1..n, NEW j \in 1..n, i < j PROVE list[i].at > list[j].at
  <2> HIDE DEF place, list, row
  <2>1. /\ list[i] \in S /\ list[j] \in S /\ i \in Nat /\ j \in Nat
        /\ place[list[i]] = i /\ place[list[j]] = j
    BY <1>1, <1>11, <1>12
  <2>2. list[i].at \in Nat /\ list[j].at \in Nat
    BY <1>2, <2>1
  <2>3. ~(list[j].at > list[i].at)
    BY <1>4, <1>14, <2>1
  <2>4. list[i] # list[j]
    BY <1>14, <2>1
  <2>5. list[i].at # list[j].at
    BY <2>1, <2>4
  <2> QED BY <2>2, <2>3, <2>5
<1> HIDE DEF list, n
<1> QED BY <1>12, <1>13, <1>14 DEF list, n

\* What a reading under way may rely on: its cursor is a revision of the claim,
\* what it was given is newest first and no older than the cursor, and what it is
\* owed was given or lies behind the cursor.
ReadingInv ==
  /\ reader \in [claim : SUBSET Claims, cursor : SUBSET [at : Nat, hash : Hashes],
                 pages : Seq(Revision), owed : SUBSET Hashes, wrong : SUBSET Hashes]
  /\ reader.wrong = {}
  /\ \/ reader.claim = {} /\ reader.cursor = {} /\ reader.pages = <<>> /\ reader.owed = {}
     \/ \E c \in Claims, k \in [at : Nat, hash : Hashes] :
          reader.claim = {c} /\ reader.cursor = {k}
  /\ \A c \in reader.claim, k \in reader.cursor :
       \E v \in revisions : v.claim = c /\ v.hash = k.hash /\ v.at = k.at
  /\ \A i \in 1..Len(reader.pages) : \A k \in reader.cursor : reader.pages[i].at >= k.at
  /\ \A i, j \in 1..Len(reader.pages) : i < j => reader.pages[i].at > reader.pages[j].at
  /\ \A c \in reader.claim : \A h \in reader.owed :
       \/ \E i \in 1..Len(reader.pages) : reader.pages[i].hash = h
       \/ \E v \in revisions : v.claim = c /\ v.hash = h /\ Behind(v, reader.cursor)

\* The invariant of Facts, with what its history and a reader add.
HistoryInv == IInv /\ TimesDiffer /\ IsFiniteSet(revisions) /\ ReadingInv

\* Nothing is being read at first.
LEMMA InitHistory == HistoryInit => HistoryInv
<1> SUFFICES ASSUME HistoryInit PROVE HistoryInv
  OBVIOUS
<1>1. IInv /\ revisions = {}
  BY InitInvariant DEF HistoryInit, Init
<1>2. TimesDiffer /\ IsFiniteSet(revisions)
  BY <1>1, FS_EmptySet DEF TimesDiffer
<1>3. reader = [claim |-> {}, cursor |-> {}, pages |-> <<>>, owed |-> {}, wrong |-> {}]
  BY DEF HistoryInit, NoReader
<1>4. <<>> \in Seq(Revision) /\ Len(<<>>) = 0
  OBVIOUS
<1>5. ReadingInv
  BY <1>3, <1>4 DEF ReadingInv
<1> QED BY <1>1, <1>2, <1>5 DEF HistoryInv

\* A commit keeps every revision, with at most its status changed.
LEMMA CommitKeepsReading ==
  ASSUME HistoryInv, [Next]_vars, UNCHANGED reader
  PROVE  HistoryInv'
<1>1. IInv' /\ TypeOK
  BY StepInvariant DEF HistoryInv, IInv
<1>2. /\ TimesDiffer' /\ IsFiniteSet(revisions')
      /\ \A w \in revisions : \E v \in revisions' :
           v.claim = w.claim /\ v.hash = w.hash /\ v.at = w.at
  <2>1. CASE Quiet
    BY <2>1 DEF Quiet, HistoryInv, TimesDiffer
  <2>2. ASSUME NEW t \in Handlers, NEW h, Accepted(t, h)
        PROVE  /\ TimesDiffer' /\ IsFiniteSet(revisions')
               /\ \A w \in revisions : \E v \in revisions' :
                    v.claim = w.claim /\ v.hash = w.hash /\ v.at = w.at
    BY <2>2, AcceptedKeepsTimes DEF HistoryInv
  <2> QED BY <1>1, <2>1, <2>2, OtherStepsQuiet
<1>3. \A c \in reader.claim, k \in reader.cursor :
        \E v \in revisions' : v.claim = c /\ v.hash = k.hash /\ v.at = k.at
  BY <1>2 DEF HistoryInv, ReadingInv
<1>4. ASSUME NEW c \in reader.claim, NEW h \in reader.owed
      PROVE  \/ \E i \in 1..Len(reader.pages) : reader.pages[i].hash = h
             \/ \E v \in revisions' : v.claim = c /\ v.hash = h /\ Behind(v, reader.cursor)
  <2>1. CASE \E i \in 1..Len(reader.pages) : reader.pages[i].hash = h
    BY <2>1
  <2>2. ASSUME NEW w \in revisions, w.claim = c, w.hash = h, Behind(w, reader.cursor)
        PROVE  \E v \in revisions' : v.claim = c /\ v.hash = h /\ Behind(v, reader.cursor)
    <3>1. PICK v \in revisions' : v.claim = w.claim /\ v.hash = w.hash /\ v.at = w.at
      BY <1>2
    <3> QED BY <2>2, <3>1 DEF Behind
  <2> QED BY <2>1, <2>2 DEF HistoryInv, ReadingInv
<1>5. ReadingInv'
  BY <1>3, <1>4 DEF HistoryInv, ReadingInv, Behind
<1> QED BY <1>1, <1>2, <1>5 DEF HistoryInv

\* A page: the first of the rows B, newest first, at most Limit of them, with the
\* last one as the cursor when there are more.
Shows(page, B) ==
  LET list == Ordered(B)
      n == Cardinality(B)
  IN /\ n \in Nat /\ page.revisions \in Seq(B)
     /\ Len(page.revisions) = IF n > Limit THEN Limit ELSE n
     /\ \A i \in 1..Len(page.revisions) : page.revisions[i] = list[i]
     /\ n > Limit => page.next = {[at |-> list[Limit].at, hash |-> list[Limit].hash]}
     /\ ~(n > Limit) => page.next = {}

\* The page of a claim shows the rows behind the cursor.
LEMMA PageShows ==
  ASSUME NEW c, NEW cursor, NEW B, B = {v \in RevisionsOf(c) : Behind(v, cursor)},
         B \in SUBSET Revision, IsFiniteSet(B), \A v, w \in B : v.at = w.at => v = w
  PROVE  Shows(Page(c, cursor), B)
<1> DEFINE list == Ordered(B)
           n == Cardinality(B)
           m == IF n < Limit + 1 THEN n ELSE Limit + 1
           rows == Fetched(B)
           shown == IF Len(rows) > Limit THEN Front(rows) ELSE rows
<1>1. n \in Nat /\ list \in Seq(B) /\ Len(list) = n
  BY OrderedLists, FS_CardinalityType
<1>2. Limit \in Nat /\ Limit >= 1
  BY LimitAssumption
<1>3. rows = SubSeq(list, 1, m)
  BY DEF Fetched
<1>4. /\ Page(c, cursor).revisions = shown
      /\ Page(c, cursor).next =
           IF Len(rows) > Limit THEN {[at |-> Last(shown).at, hash |-> Last(shown).hash]} ELSE {}
  BY DEF Page
<1> HIDE DEF list, n, rows
<1>5. m \in Nat /\ m <= n /\ (n > Limit => m = Limit + 1) /\ (~(n > Limit) => m = n)
  BY <1>1, <1>2
<1> HIDE DEF m
<1>6. rows \in Seq(B) /\ Len(rows) = m /\ \A i \in 1..m : rows[i] = list[i]
  BY <1>1, <1>3, <1>5
<1>7. CASE n > Limit
  <2>1. shown = SubSeq(rows, 1, Limit)
    BY <1>2, <1>5, <1>6, <1>7 DEF Front
  <2> HIDE DEF shown
  <2>2. shown \in Seq(B) /\ Len(shown) = Limit /\ \A i \in 1..Limit : shown[i] = rows[i]
    BY <1>2, <1>5, <1>6, <1>7, <2>1
  <2>3. \A i \in 1..Limit : shown[i] = list[i]
    BY <1>2, <1>5, <1>6, <1>7, <2>2
  <2>4. Last(shown) = list[Limit]
    BY <1>2, <2>2, <2>3 DEF Last
  <2>5. Len(rows) > Limit
    BY <1>2, <1>5, <1>6, <1>7
  <2> QED BY <1>1, <1>4, <1>7, <2>2, <2>3, <2>4, <2>5 DEF list, n, Shows
<1>8. CASE ~(n > Limit)
  <2>1. ~(Len(rows) > Limit)
    BY <1>2, <1>5, <1>6, <1>8
  <2>2. shown = rows
    BY <2>1
  <2> HIDE DEF shown
  <2> QED BY <1>1, <1>4, <1>5, <1>6, <1>8, <2>1, <2>2 DEF list, n, Shows
<1> QED BY <1>7, <1>8

\* A page continues the reading; the last page shows the rest of what is owed.
LEMMA PageKeepsReading ==
  ASSUME HistoryInv, NEW c \in Claims, ReadPage(c)
  PROVE  ReadingInv'
<1> DEFINE B == {v \in RevisionsOf(c) : Behind(v, reader.cursor)}
           list == Ordered(B)
           n == Cardinality(B)
           shown == Page(c, reader.cursor).revisions
           next == Page(c, reader.cursor).next
           old == reader.pages
           pages == old \o shown
           owed == IF reader.claim = {} THEN {v.hash : v \in RevisionsOf(c)} ELSE reader.owed
<1>1. /\ next # {} => reader' = [reader EXCEPT !.claim = {c}, !.cursor = next,
                                             !.pages = pages, !.owed = owed]
      /\ next = {} => reader' = [NoReader EXCEPT !.wrong = reader.wrong \cup Wrong(owed, pages)]
      /\ revisions' = revisions /\ reader.claim \in {{}, {c}}
  BY DEF ReadPage, vars, tables
<1>0. \A v \in Revision : v.at \in Nat /\ v.hash \in Hashes /\ v.hash \in Nat
  BY HashAssumption DEF Revision
<1>2. /\ \A v \in revisions : v \in Revision /\ v.at \in Nat /\ v.hash \in Hashes /\ v.hash \in Nat
      /\ Limit \in Nat /\ Limit >= 1
  <2>1. Limit \in Nat /\ Limit >= 1
    BY LimitAssumption
  <2>2. revisions \subseteq Revision
    BY DEF HistoryInv, IInv, TypeOK
  <2> QED BY <1>0, <2>1, <2>2
<1>3. /\ \A v \in B : v \in revisions /\ v.claim = c /\ Behind(v, reader.cursor)
      /\ \A v \in revisions : v.claim = c /\ Behind(v, reader.cursor) => v \in B
  BY DEF RevisionsOf
<1>4. B \in SUBSET Revision /\ IsFiniteSet(B) /\ \A v, w \in B : v.at = w.at => v = w
  <2>1. \A v, w \in B : v.at = w.at => v = w
    BY <1>3 DEF HistoryInv, TimesDiffer
  <2>2. B \subseteq revisions
    BY <1>3
  <2> HIDE DEF B
  <2>3. IsFiniteSet(B)
    BY <2>2, FS_Subset DEF HistoryInv
  <2> QED BY <1>2, <2>1, <2>2, <2>3
<1>5. \A v \in B : \A k \in reader.cursor : v.at < k.at
  <2> SUFFICES ASSUME NEW v \in B, NEW k \in reader.cursor PROVE v.at < k.at
    OBVIOUS
  <2>1. v \in revisions /\ v.claim = c /\ (v.at < k.at \/ (v.at = k.at /\ v.hash < k.hash))
    BY <1>3 DEF Behind
  <2>2. reader.claim = {c}
    BY <1>1 DEF HistoryInv, ReadingInv
  <2>3. PICK w \in revisions : w.claim = c /\ w.hash = k.hash /\ w.at = k.at
    BY <2>2 DEF HistoryInv, ReadingInv
  <2>4. v.at = k.at => v = w
    BY <2>1, <2>3 DEF HistoryInv, TimesDiffer
  <2> QED BY <1>2, <2>1, <2>3, <2>4
<1>6. /\ n \in Nat /\ shown \in Seq(B)
      /\ Len(shown) = IF n > Limit THEN Limit ELSE n
      /\ \A i \in 1..Len(shown) : shown[i] = list[i]
      /\ n > Limit => next = {[at |-> list[Limit].at, hash |-> list[Limit].hash]}
      /\ ~(n > Limit) => next = {}
  <2>1. B = {v \in RevisionsOf(c) : Behind(v, reader.cursor)}
    OBVIOUS
  <2> HIDE DEF B
  <2>2. Shows(Page(c, reader.cursor), B)
    BY <1>4, <2>1, PageShows
  <2> QED BY <2>2 DEF Shows
<1> HIDE DEF B
<1>7. /\ list \in Seq(B) /\ Len(list) = n
      /\ \A v \in B : \E i \in 1..n : list[i] = v
      /\ \A i, j \in 1..n : i < j => list[i].at > list[j].at
      /\ \A i \in 1..n : list[i] \in B
  BY <1>4, OrderedLists
<1> HIDE DEF list, n, shown, next
<1> DEFINE m == Len(old)
           l == Len(shown)
<1>8. /\ m \in Nat /\ l \in Nat /\ l <= n /\ old \in Seq(Revision) /\ shown \in Seq(Revision)
      /\ \A i \in 1..m : old[i] \in Revision /\ old[i].at \in Nat
      /\ \A i \in 1..l : shown[i] \in B /\ shown[i].at \in Nat /\ i \in 1..n
  <2>1. old \in Seq(Revision)
    BY DEF HistoryInv, ReadingInv
  <2> HIDE DEF old
  <2>2. m \in Nat /\ \A i \in 1..m : old[i] \in Revision /\ old[i].at \in Nat
    BY <1>0, <2>1
  <2>3. l \in Nat /\ l <= n
    BY <1>2, <1>6
  <2>4. \A i \in 1..l : shown[i] \in B
    BY <1>6
  <2>5. \A v \in B : v.at \in Nat
    BY <1>2, <1>3
  <2>6. shown \in Seq(Revision)
    BY <1>4, <1>6
  <2> HIDE DEF l, m
  <2>7. \A i \in 1..l : i \in 1..n
    BY <1>6, <2>3
  <2> QED BY <2>1, <2>2, <2>3, <2>4, <2>5, <2>6, <2>7
<1>9. /\ pages \in Seq(Revision) /\ Len(pages) = m + l
      /\ \A i \in 1..m : pages[i] = old[i]
      /\ \A i \in 1..l : pages[m + i] = shown[i]
  <2> HIDE DEF old
  <2> QED BY <1>8
<1>10. /\ \A i \in 1..m : \A k \in reader.cursor : old[i].at >= k.at
       /\ \A i, j \in 1..m : i < j => old[i].at > old[j].at
       /\ \A k \in reader.cursor : k.at \in Nat
       /\ m > 0 => \E k \in reader.cursor : TRUE
  BY DEF HistoryInv, ReadingInv
<1>11. \A i \in 1..(m + l) : i \in 1..m \/ \E j \in 1..l : i = m + j
  <2> SUFFICES ASSUME NEW i \in 1..(m + l), ~(i \in 1..m) PROVE \E j \in 1..l : i = m + j
    OBVIOUS
  <2> HIDE DEF m, l
  <2>1. i - m \in 1..l /\ i = m + (i - m)
    BY <1>8
  <2> QED BY <2>1
<1> HIDE DEF old, pages, owed
<1>12. ASSUME NEW i \in 1..(m + l), NEW j \in 1..(m + l), i < j PROVE pages[i].at > pages[j].at
  <2>0. l = Len(shown)
    OBVIOUS
  <2> HIDE DEF m, l
  <2>1. CASE i \in 1..m /\ j \in 1..m
    BY <1>9, <1>10, <1>12, <2>1
  <2>2. ASSUME i \in 1..m, NEW y \in 1..l, j = m + y PROVE pages[i].at > pages[j].at
    <3>1. PICK k \in reader.cursor : TRUE
      BY <1>8, <1>10, <2>2
    <3>2. old[i].at >= k.at /\ shown[y].at < k.at
      BY <1>5, <1>8, <1>10, <2>2
    <3>3. old[i].at \in Nat /\ shown[y].at \in Nat /\ k.at \in Nat
      BY <1>8, <1>10, <2>2
    <3>4. old[i].at > shown[y].at
      BY <3>2, <3>3
    <3> QED BY <1>9, <2>2, <3>4
  <2>3. ASSUME NEW x \in 1..l, i = m + x, NEW y \in 1..l, j = m + y PROVE pages[i].at > pages[j].at
    <3>1. x < y
      BY <1>8, <1>12, <2>3
    <3>2. shown[x].at > shown[y].at
      BY <1>6, <1>7, <1>8, <2>0, <3>1
    <3> QED BY <1>9, <2>3, <3>2
  <2>4. ASSUME NEW x \in 1..l, i = m + x PROVE ~(j \in 1..m)
    BY <1>8, <1>12, <2>4
  <2> QED BY <1>11, <2>1, <2>2, <2>3, <2>4
\* What is owed is given by now, or comes after this page.
<1>13. ASSUME NEW h \in owed
       PROVE  \/ \E i \in 1..(m + l) : pages[i].hash = h
              \/ \E i \in 1..n : i > l /\ list[i].hash = h
  <2>0. l = Len(shown) /\ m = Len(old)
    OBVIOUS
  <2> HIDE DEF m, l
  <2>1. \/ \E i \in 1..m : old[i].hash = h
        \/ \E v \in B : v.hash = h
    <3>1. CASE reader.claim = {}
      <4>1. PICK v \in RevisionsOf(c) : v.hash = h
        BY <3>1 DEF owed
      <4>2. reader.cursor = {}
        BY <3>1 DEF HistoryInv, ReadingInv
      <4>3. v \in revisions /\ v.claim = c /\ Behind(v, reader.cursor)
        BY <4>1, <4>2 DEF RevisionsOf, Behind
      <4> QED BY <1>3, <4>1, <4>3
    <3>2. CASE reader.claim = {c}
      <4>1. h \in reader.owed /\ c \in reader.claim
        BY <3>2 DEF owed
      <4>2. \/ \E i \in 1..Len(reader.pages) : reader.pages[i].hash = h
            \/ \E v \in revisions : v.claim = c /\ v.hash = h /\ Behind(v, reader.cursor)
        BY <4>1 DEF HistoryInv, ReadingInv
      <4> QED BY <1>3, <2>0, <4>2 DEF old
    <3> QED BY <1>1, <3>1, <3>2
  <2>2. ASSUME NEW i \in 1..m, old[i].hash = h PROVE \E j \in 1..(m + l) : pages[j].hash = h
    <3>1. i \in 1..(m + l)
      BY <1>8
    <3> QED BY <1>9, <2>2, <3>1
  <2>3. ASSUME NEW v \in B, v.hash = h
        PROVE  \/ \E i \in 1..(m + l) : pages[i].hash = h
               \/ \E i \in 1..n : i > l /\ list[i].hash = h
    <3>1. PICK i \in 1..n : list[i] = v
      BY <1>7
    <3>2. CASE i > l
      BY <2>3, <3>1, <3>2
    <3>3. CASE ~(i > l)
      <4>1. i \in 1..l /\ m + i \in 1..(m + l)
        BY <1>6, <1>8, <3>3
      <4>2. pages[m + i] = v
        BY <1>6, <1>9, <2>0, <3>1, <4>1
      <4> QED BY <2>3, <4>1, <4>2
    <3> QED BY <3>2, <3>3
  <2> QED BY <2>1, <2>2, <2>3
<1>14. owed \in SUBSET Hashes
  <2>1. reader.owed \in SUBSET Hashes
    BY DEF HistoryInv, ReadingInv
  <2>2. {v.hash : v \in RevisionsOf(c)} \in SUBSET Hashes
    BY <1>2 DEF RevisionsOf
  <2> QED BY <2>1, <2>2 DEF owed
<1>15. CASE n > Limit
  <2> DEFINE last == list[Limit]
             k == [at |-> last.at, hash |-> last.hash]
  <2>0. l = Limit /\ l = Len(shown) /\ Limit \in 1..n /\ Limit \in 1..l
    BY <1>2, <1>6, <1>15
  <2> HIDE DEF m, l
  <2>1. next = {k}
    BY <1>6, <1>15
  <2>2. last \in B /\ last \in revisions /\ last.claim = c /\ last.at \in Nat /\ last.hash \in Hashes
    BY <1>2, <1>3, <1>7, <2>0
  <2> HIDE DEF last
  <2>3. k \in [at : Nat, hash : Hashes] /\ k.at = last.at /\ k.hash = last.hash
    BY <2>2
  <2> HIDE DEF k
  <2>4. reader' = [reader EXCEPT !.claim = {c}, !.cursor = {k}, !.pages = pages, !.owed = owed]
    BY <1>1, <2>1 DEF pages, owed, old, shown, next
  <2>5. /\ reader'.claim = {c} /\ reader'.cursor = {k} /\ reader'.pages = pages
        /\ reader'.owed = owed /\ reader'.wrong = {}
        /\ reader' \in [claim : SUBSET Claims, cursor : SUBSET [at : Nat, hash : Hashes],
                        pages : Seq(Revision), owed : SUBSET Hashes, wrong : SUBSET Hashes]
    BY <1>9, <1>14, <2>3, <2>4 DEF HistoryInv, ReadingInv
  <2>6. ASSUME NEW i \in 1..(m + l) PROVE pages[i].at >= k.at
    <3>1. pages[m + l] = last /\ m + l \in 1..(m + l)
      BY <1>6, <1>8, <1>9, <2>0 DEF last
    <3>2. pages[i].at \in Nat
      BY <1>0, <1>8, <1>9
    <3>3. CASE i = m + l
      BY <2>2, <2>3, <3>1, <3>3
    <3>4. CASE i < m + l
      <4>1. pages[i].at > pages[m + l].at
        BY <1>12, <3>1, <3>4
      <4> QED BY <2>2, <2>3, <3>1, <3>2, <4>1
    <3> QED BY <1>8, <3>3, <3>4
  <2>7. ASSUME NEW i \in 1..n, i > l
        PROVE  list[i] \in revisions /\ list[i].claim = c /\ Behind(list[i], {k})
    <3>1. list[i] \in revisions /\ list[i].claim = c
      BY <1>3, <1>7
    <3>2. list[i].at < k.at
      <4>1. last.at > list[i].at
        BY <1>7, <2>0, <2>7 DEF last
      <4>2. list[i].at \in Nat
        BY <1>2, <3>1
      <4> QED BY <2>2, <2>3, <4>1, <4>2
    <3> QED BY <3>1, <3>2 DEF Behind
  <2>8. \A h \in owed :
          \/ \E i \in 1..Len(pages) : pages[i].hash = h
          \/ \E v \in revisions : v.claim = c /\ v.hash = h /\ Behind(v, {k})
    BY <1>9, <1>13, <2>7
  <2>9. \A i, j \in 1..Len(pages) : i < j => pages[i].at > pages[j].at
    BY <1>9, <1>12
  <2>10. \A i \in 1..Len(pages) : pages[i].at >= k.at
    BY <1>9, <2>6
  <2> QED BY <1>1, <2>2, <2>3, <2>5, <2>8, <2>9, <2>10 DEF ReadingInv, Behind
<1>16. CASE ~(n > Limit)
  <2>0. l = n
    BY <1>6, <1>16
  <2> HIDE DEF m, l
  <2>1. \A h \in owed : \E i \in 1..(m + l) : pages[i].hash = h
    BY <1>6, <1>13, <2>0
  <2>2. DOMAIN pages = 1..(m + l) /\ Len(pages) = m + l
    BY <1>8, <1>9
  <2>3. owed \ {v.hash : v \in ToSet(pages)} = {}
    BY <2>1, <2>2 DEF ToSet
  <2>4. ASSUME NEW i \in 1..Len(pages) - 1, pages[i].at <= pages[i + 1].at PROVE FALSE
    <3>1. i \in 1..(m + l) /\ i + 1 \in 1..(m + l) /\ i < i + 1
      BY <1>8, <2>2
    <3>2. pages[i].at > pages[i + 1].at
      BY <1>12, <3>1
    <3>3. pages[i].at \in Nat /\ pages[i + 1].at \in Nat
      BY <1>0, <1>9, <3>1
    <3> QED BY <2>4, <3>2, <3>3
  <2>5. Wrong(owed, pages) = {}
    BY <2>3, <2>4 DEF Wrong
  <2>6. reader' = [claim |-> {}, cursor |-> {}, pages |-> <<>>, owed |-> {}, wrong |-> {}]
    <3>1. next = {}
      BY <1>6, <1>16
    <3>2. reader' = [NoReader EXCEPT !.wrong = reader.wrong \cup Wrong(owed, pages)]
      BY <1>1, <3>1 DEF pages, owed, old, shown, next
    <3>3. reader.wrong = {}
      BY DEF HistoryInv, ReadingInv
    <3> QED BY <2>5, <3>2, <3>3 DEF NoReader
  <2>7. <<>> \in Seq(Revision) /\ Len(<<>>) = 0
    OBVIOUS
  <2> QED BY <2>6, <2>7 DEF ReadingInv
<1> QED BY <1>15, <1>16

\* Every step of the writers and of the reader preserves the invariant.
LEMMA StepHistory == HistoryInv /\ [HistoryNext]_<<vars, reader>> => HistoryInv'
<1> SUFFICES ASSUME HistoryInv, [HistoryNext]_<<vars, reader>> PROVE HistoryInv'
  OBVIOUS
<1>1. CASE [Next]_vars /\ UNCHANGED reader
  BY <1>1, CommitKeepsReading
<1>2. ASSUME NEW c \in Claims, ReadPage(c) PROVE HistoryInv'
  <2>1. UNCHANGED vars /\ UNCHANGED revisions
    BY <1>2 DEF ReadPage, vars, tables
  <2>2. IInv'
    BY <2>1, StepInvariant DEF HistoryInv
  <2>3. TimesDiffer' /\ IsFiniteSet(revisions')
    BY <2>1 DEF HistoryInv, TimesDiffer
  <2> QED BY <1>2, <2>2, <2>3, PageKeepsReading DEF HistoryInv
<1> QED BY <1>1, <1>2 DEF HistoryNext

\* A reading of fact.history that has come to its end has shown every revision
\* that existed when it began, none twice, newest first, for every page size,
\* whatever was committed and however the clock moved between the pages.
THEOREM ReadingComplete == HistorySpec => []ReadingIsComplete
<1>1. HistoryInv => ReadingIsComplete
  BY DEF HistoryInv, ReadingInv, ReadingIsComplete
<1> QED BY <1>1, InitHistory, StepHistory, PTL DEF HistorySpec

=============================================================================
