------------------------ MODULE DocumentLocksProofs ------------------------
(***************************************************************************)
(* Proofs about DocumentLocks, for any handlers, plans, cap and number of  *)
(* mutexes.  The argument: as long as a handler has an Arc of a mutex, the *)
(* table has the entry that leads from the key to it, because the purge    *)
(* keeps what is alive and an insertion replaces only what is dead.  Two   *)
(* handlers of one key then wait at one mutex, and a fair mutex has one    *)
(* first waiter.                                                           *)
(***************************************************************************)
EXTENDS DocumentLocks, SequenceTheorems, FiniteSetTheorems, TLAPS

\* How far a handler is with its plan.
Shaped ==
  \A t \in Handlers :
    /\ handler[t].pc = "idle" <=> handler[t].plan = <<>>
    /\ handler[t].pc = "idle" => handler[t].arcs = <<>>
    /\ handler[t].pc = "fetch" => Len(handler[t].arcs) < Len(handler[t].plan)
    /\ handler[t].pc \in {"join", "wait", "work"} => handler[t].arcs # <<>>

\* The table leads from each key a handler has an Arc for to that mutex.
Named ==
  \A t \in Handlers : \A i \in 1..Len(handler[t].arcs) :
    [key |-> handler[t].plan[i], lock |-> handler[t].arcs[i]] \in table

\* A mutex is the lock of one key.
OneKeyPerLock == \A e, f \in table : e.lock = f.lock => e = f

\* Who has locked a key is the first in the queue of the mutex.
HolderIsFirst ==
  \A t \in Handlers : \A i \in 1..Len(handler[t].arcs) :
    Has(t, i) => /\ queue[handler[t].arcs[i]] # <<>>
                 /\ Head(queue[handler[t].arcs[i]]) = t

\* A handler has taken its place in the queue of its i-th mutex.
Joined(t, i) == i < Len(handler[t].arcs) \/ handler[t].pc # "join"
\* A handler stands once in a queue, and only where it has an Arc: no handler that
\* has ended or was aborted keeps a mutex from the others.
QueuesAreOfHandlers ==
  \A l \in Locks :
    /\ IsInjective(queue[l])
    /\ \A t \in ToSet(queue[l]) :
         \E i \in 1..Len(handler[t].arcs) : handler[t].arcs[i] = l /\ Joined(t, i)

IInv ==
  /\ TypeOK /\ IsFiniteSet(table)
  /\ Shaped /\ Named /\ OneKeyPerLock
  /\ HolderIsFirst /\ QueuesAreOfHandlers

-----------------------------------------------------------------------------
(* Operators of the model                                                  *)

LEMMA HeadIsFirst == ASSUME NEW S, NEW q \in Seq(S), q # <<>> PROVE Head(q) = q[1]
  OBVIOUS

\* Appending keeps what a sequence has, and adds one element at its end.
LEMMA AppendKeeps ==
  ASSUME NEW S, NEW q \in Seq(S), NEW x \in S
  PROVE  /\ Append(q, x) \in Seq(S)
         /\ Len(Append(q, x)) = Len(q) + 1
         /\ \A i \in 1..Len(q) : Append(q, x)[i] = q[i]
         /\ Append(q, x)[Len(q) + 1] = x
  BY AppendProperties

LEMMA RemovedAt ==
  ASSUME NEW S, NEW q \in Seq(S), NEW n \in 1..Len(q)
  PROVE  /\ RemoveAt(q, n) \in Seq(S)
         /\ Len(RemoveAt(q, n)) = Len(q) - 1
         /\ \A j \in 1..Len(q) - 1 :
              RemoveAt(q, n)[j] = IF j < n THEN q[j] ELSE q[j + 1]
<1> DEFINE a == SubSeq(q, 1, n - 1)
           b == SubSeq(q, n + 1, Len(q))
<1>0. Len(q) \in Nat /\ n \in Int /\ n >= 1 /\ n <= Len(q)
      /\ \A i \in 1..Len(q) : q[i] \in S
  BY LenProperties
<1>1. /\ a \in Seq(S) /\ Len(a) = n - 1
      /\ \A i \in 1..n - 1 : a[i] = q[i]
  <2>1. \A i \in 1..n - 1 : q[i] \in S
    BY <1>0
  <2>2. /\ a \in Seq(S) /\ Len(a) = IF 1 <= n - 1 THEN n - 1 - 1 + 1 ELSE 0
        /\ \A i \in 1..n - 1 - 1 + 1 : a[i] = q[1 + i - 1]
    BY <1>0, <2>1, SubSeqProperties
  <2> QED BY <1>0, <2>2
<1>2. /\ b \in Seq(S) /\ Len(b) = Len(q) - n
      /\ \A i \in 1..Len(q) - n : b[i] = q[n + i]
  <2>1. \A i \in n + 1..Len(q) : q[i] \in S
    BY <1>0
  <2>2. /\ b \in Seq(S) /\ Len(b) = IF n + 1 <= Len(q) THEN Len(q) - (n + 1) + 1 ELSE 0
        /\ \A i \in 1..Len(q) - (n + 1) + 1 : b[i] = q[n + 1 + i - 1]
    BY <1>0, <2>1, SubSeqProperties
  <2> QED BY <1>0, <2>2
<1>3. RemoveAt(q, n) = a \o b
  BY DEF RemoveAt
<1> HIDE DEF a, b
<1>4. /\ a \o b \in Seq(S) /\ Len(a \o b) = Len(a) + Len(b)
      /\ \A i \in 1..Len(a) + Len(b) : (a \o b)[i] = IF i <= Len(a) THEN a[i] ELSE b[i - Len(a)]
  BY <1>1, <1>2, ConcatProperties
<1>5. ASSUME NEW j \in 1..Len(q) - 1
      PROVE  (a \o b)[j] = IF j < n THEN q[j] ELSE q[j + 1]
  <2>1. (a \o b)[j] = IF j <= n - 1 THEN a[j] ELSE b[j - (n - 1)]
    BY <1>0, <1>1, <1>2, <1>4
  <2>2. CASE j < n
    BY <1>0, <1>1, <2>1, <2>2
  <2>3. CASE ~(j < n)
    <3>1. j - (n - 1) \in 1..Len(q) - n /\ n + (j - (n - 1)) = j + 1
      BY <1>0, <2>3
    <3>2. b[j - (n - 1)] = q[j + 1]
      BY <1>2, <3>1
    <3> QED BY <1>0, <2>1, <2>3, <3>2
  <2> QED BY <2>2, <2>3
<1> QED BY <1>0, <1>1, <1>2, <1>3, <1>4, <1>5

\* A handler that leaves a queue is gone from it; the others keep their order, and
\* the first keeps its place.
LEMMA WithoutLeaves ==
  ASSUME NEW S, NEW q \in Seq(S), NEW t, IsInjective(q)
  PROVE  /\ Without(q, t) \in Seq(S)
         /\ IsInjective(Without(q, t))
         /\ ToSet(Without(q, t)) = ToSet(q) \ {t}
         /\ q # <<>> /\ Head(q) # t => /\ Without(q, t) # <<>>
                                       /\ Head(Without(q, t)) = Head(q)
<1>0. Len(q) \in Nat /\ DOMAIN q = 1..Len(q)
  BY LenProperties
<1>1. CASE t \notin ToSet(q)
  BY <1>1 DEF Without
<1>2. CASE t \in ToSet(q)
  <2> DEFINE n == CHOOSE i \in DOMAIN q : q[i] = t
             r == RemoveAt(q, n)
  <2>1. n \in 1..Len(q) /\ q[n] = t
    <3>1. \E i \in DOMAIN q : q[i] = t
      BY <1>2 DEF ToSet
    <3> QED BY <1>0, <3>1
  <2>2. Without(q, t) = r
    BY <1>2 DEF Without
  <2> HIDE DEF n
  <2>3. /\ r \in Seq(S) /\ Len(r) = Len(q) - 1
        /\ \A j \in 1..Len(q) - 1 : r[j] = IF j < n THEN q[j] ELSE q[j + 1]
    BY <2>1, RemovedAt
  <2> HIDE DEF r
  <2>4. DOMAIN r = 1..Len(q) - 1
    BY <2>3, LenProperties
  <2>5. \A i, j \in 1..Len(q) : q[i] = q[j] => i = j
    BY <1>0 DEF IsInjective
  <2>6. IsInjective(r)
    <3> SUFFICES ASSUME NEW i \in 1..Len(q) - 1, NEW j \in 1..Len(q) - 1, r[i] = r[j]
                 PROVE  i = j
      BY <2>4 DEF IsInjective
    <3> DEFINE at(k) == IF k < n THEN k ELSE k + 1
    <3>1. at(i) \in 1..Len(q) /\ at(j) \in 1..Len(q)
      BY <1>0, <2>1
    <3>2. r[i] = q[at(i)] /\ r[j] = q[at(j)]
      BY <2>3
    <3>3. at(i) = at(j)
      BY <2>5, <3>1, <3>2
    <3> QED BY <1>0, <2>1, <3>3
  <2>7. ToSet(r) = ToSet(q) \ {t}
    <3>1. ASSUME NEW x \in ToSet(r) PROVE x \in ToSet(q) /\ x # t
      <4>1. PICK j \in 1..Len(q) - 1 : x = r[j]
        BY <2>4 DEF ToSet
      <4> DEFINE m == IF j < n THEN j ELSE j + 1
      <4>2. m \in 1..Len(q) /\ m # n /\ x = q[m]
        BY <1>0, <2>1, <2>3, <4>1
      <4> HIDE DEF m
      <4> QED BY <1>0, <2>1, <2>5, <4>2 DEF ToSet
    <3>2. ASSUME NEW x \in ToSet(q), x # t PROVE x \in ToSet(r)
      <4>1. PICK m \in 1..Len(q) : x = q[m]
        BY <1>0 DEF ToSet
      <4>2. m # n
        BY <2>1, <3>2, <4>1
      <4> DEFINE j == IF m < n THEN m ELSE m - 1
      <4>3. j \in 1..Len(q) - 1 /\ (IF j < n THEN j ELSE j + 1) = m
        BY <1>0, <2>1, <4>2
      <4>4. r[j] = x
        BY <2>3, <4>1, <4>3
      <4> HIDE DEF j
      <4> QED BY <2>4, <4>3, <4>4 DEF ToSet
    <3> QED BY <3>1, <3>2
  <2>8. ASSUME q # <<>>, Head(q) # t PROVE r # <<>> /\ Head(r) = Head(q)
    <3>1. Head(q) = q[1]
      BY <2>8, HeadIsFirst
    <3>2. n # 1 /\ 1 \in 1..Len(q) - 1 /\ 1 < n
      BY <1>0, <2>1, <2>8, <3>1
    <3>3. r[1] = q[1] /\ r # <<>>
      BY <2>3, <3>2
    <3> QED BY <2>3, <3>1, <3>3, HeadIsFirst
  <2> QED BY <2>2, <2>3, <2>6, <2>7, <2>8
<1> QED BY <1>1, <1>2

-----------------------------------------------------------------------------
(* The steps                                                               *)

Handler == [plan : Plans \cup {<<>>}, arcs : Seq(Locks), pc : Pcs]

\* What the steps use of the types.
LEMMA Types ==
  ASSUME TypeOK, NEW t \in Handlers
  PROVE  /\ handler[t] \in Handler
         /\ handler[t].plan \in Seq(Keys) /\ Len(handler[t].plan) \in Nat
         /\ handler[t].arcs \in Seq(Locks) /\ Len(handler[t].arcs) \in Nat
         /\ \A i \in 1..Len(handler[t].arcs) : handler[t].arcs[i] \in Locks
         /\ Len(handler[t].arcs) <= Len(handler[t].plan)
         /\ handler[t].pc \in Pcs
<1>1. handler[t] \in Handler
  BY DEF TypeOK, Handler
<1>2. handler[t].plan \in Seq(Keys)
  BY <1>1, PlanAssumption, EmptySeq DEF Handler
<1>3. handler[t].arcs \in Seq(Locks) /\ handler[t].pc \in Pcs
  BY <1>1 DEF Handler
<1>4. Len(handler[t].arcs) <= Len(handler[t].plan)
  BY DEF TypeOK
<1> QED BY <1>1, <1>2, <1>3, <1>4, LenProperties, ElementOfSeq

\* A mutex is alive exactly as long as some handler has an Arc of it.
LEMMA AliveArcs ==
  ASSUME TypeOK, NEW l
  PROVE  Alive(l) <=> \E t \in Handlers : \E i \in 1..Len(handler[t].arcs) : handler[t].arcs[i] = l
<1>1. \A t \in Handlers : DOMAIN handler[t].arcs = 1..Len(handler[t].arcs)
  BY Types, LenProperties
<1> QED BY <1>1 DEF Alive, ToSet

\* What a Fetch does: the handler has an Arc of the mutex its next key leads to, and
\* every entry of a mutex in use is still there.
Fetched(t, l) ==
  /\ l \in Locks
  /\ Obtain(t, l)
  /\ [key |-> NextKey(t), lock |-> l] \in table'
  /\ \A e \in table : Alive(e.lock) => e \in table'
  /\ UNCHANGED queue

LEMMA FetchObtains ==
  ASSUME IInv, NEW t \in Handlers, Fetch(t)
  PROVE  /\ \E l \in Locks : Fetched(t, l)
         /\ table' \subseteq [key : Keys, lock : Locks]
         /\ \A e, f \in table' : e.key = f.key => e = f
         /\ OneKeyPerLock'
         /\ IsFiniteSet(table')
<1> DEFINE k == NextKey(t)
           live == {e \in Entry(k) : Alive(e.lock)}
<1>0. TypeOK /\ OneKeyPerLock /\ IsFiniteSet(table)
  BY DEF IInv
<1>1. k \in Keys
  <2>1. Len(handler[t].arcs) + 1 \in 1..Len(handler[t].plan)
    BY <1>0, Types DEF Fetch, IInv, Shaped
  <2> QED BY <1>0, <2>1, Types, ElementOfSeq DEF NextKey
<1> HIDE DEF k
<1>2. table \subseteq [key : Keys, lock : Locks] /\ \A e, f \in table : e.key = f.key => e = f
  BY <1>0 DEF TypeOK
<1>3. ASSUME NEW e \in live, Obtain(t, e.lock), UNCHANGED <<table, queue>>
      PROVE  \E l \in Locks : Fetched(t, l)
  <2>1. e \in table /\ e.key = k
    BY DEF Entry
  <2>2. e.lock \in Locks /\ e = [key |-> k, lock |-> e.lock]
    BY <1>2, <2>1
  <2> QED BY <1>3, <2>1, <2>2 DEF Fetched, k
<1>4. ASSUME live = {}, NEW l \in Unused, Obtain(t, l), table' = Inserted(k, l), UNCHANGED queue
      PROVE  /\ \E m \in Locks : Fetched(t, m)
             /\ table' \subseteq [key : Keys, lock : Locks]
             /\ \A e, f \in table' : e.key = f.key => e = f
             /\ OneKeyPerLock'
             /\ IsFiniteSet(table')
  <2>1. l \in Locks /\ \A e \in table : e.lock # l
    BY DEF Unused
  <2> DEFINE new == [key |-> k, lock |-> l]
             old == {e \in Purged : e.key # k}
  <2>2. old \subseteq table /\ \A e \in old : e.key # k
    BY DEF Purged
  <2>3. table' = old \cup {new}
    BY <1>4 DEF Inserted
  <2>4. \A e \in table : Alive(e.lock) => e \in old
    <3> SUFFICES ASSUME NEW e \in table, Alive(e.lock) PROVE e \in old
      OBVIOUS
    <3>1. e.key # k
      BY <1>4 DEF Entry
    <3> QED BY <3>1 DEF Purged
  <2> HIDE DEF old
  <2>5. new \in [key : Keys, lock : Locks] /\ new.key = k /\ new.lock = l
    BY <1>1, <2>1
  <2> HIDE DEF new
  <2>6. IsFiniteSet(table')
    BY <1>0, <2>2, <2>3, FS_Subset, FS_AddElement
  <2>7. Fetched(t, l)
    BY <1>4, <2>1, <2>3, <2>4 DEF Fetched, new, k
  <2>8. table' \subseteq [key : Keys, lock : Locks]
    BY <1>2, <2>2, <2>3, <2>5
  <2>9. \A e, f \in table' : e.key = f.key => e = f
    BY <1>2, <2>2, <2>3, <2>5
  <2>10. \A e, f \in table' : e.lock = f.lock => e = f
    BY <1>0, <2>1, <2>2, <2>3, <2>5 DEF OneKeyPerLock
  <2> QED BY <2>1, <2>6, <2>7, <2>8, <2>9, <2>10 DEF OneKeyPerLock
<1>5. \/ \E e \in live : Obtain(t, e.lock) /\ UNCHANGED <<table, queue>>
      \/ live = {} /\ \E l \in Unused : Obtain(t, l) /\ table' = Inserted(k, l) /\ UNCHANGED queue
  BY DEF Fetch, k
<1>6. CASE \E e \in live : Obtain(t, e.lock) /\ UNCHANGED <<table, queue>>
  BY <1>0, <1>2, <1>3, <1>6 DEF OneKeyPerLock
<1> QED BY <1>4, <1>5, <1>6

LEMMA ObtainAdds ==
  ASSUME IInv, NEW t \in Handlers, handler[t].pc = "fetch", NEW l \in Locks, Obtain(t, l)
  PROVE  /\ handler' \in [Handlers -> Handler]
         /\ \A u \in Handlers : u # t => handler'[u] = handler[u]
         /\ handler'[t].plan = handler[t].plan
         /\ handler'[t].pc = "join"
         /\ Len(handler'[t].arcs) = Len(handler[t].arcs) + 1
         /\ \A i \in 1..Len(handler[t].arcs) : handler'[t].arcs[i] = handler[t].arcs[i]
         /\ handler'[t].arcs[Len(handler[t].arcs) + 1] = l
<1> DEFINE to == [plan |-> handler[t].plan, arcs |-> Append(handler[t].arcs, l), pc |-> "join"]
<1>1. handler[t].arcs \in Seq(Locks) /\ handler[t] \in Handler
  BY Types DEF IInv
<1>2. /\ Append(handler[t].arcs, l) \in Seq(Locks)
      /\ Len(Append(handler[t].arcs, l)) = Len(handler[t].arcs) + 1
      /\ \A i \in 1..Len(handler[t].arcs) : Append(handler[t].arcs, l)[i] = handler[t].arcs[i]
      /\ Append(handler[t].arcs, l)[Len(handler[t].arcs) + 1] = l
  BY <1>1, AppendKeeps
<1>3. to \in Handler
  BY <1>1, <1>2 DEF Handler, Pcs
<1>4. handler \in [Handlers -> Handler]
  BY DEF IInv, TypeOK, Handler
<1>5. handler' = [handler EXCEPT ![t] = to]
  BY DEF Obtain
<1>6. to.plan = handler[t].plan /\ to.pc = "join" /\ to.arcs = Append(handler[t].arcs, l)
  OBVIOUS
<1> HIDE DEF to
<1>7. handler' \in [Handlers -> Handler] /\ handler'[t] = to
      /\ \A u \in Handlers : u # t => handler'[u] = handler[u]
  BY <1>3, <1>4, <1>5
<1> QED BY <1>2, <1>6, <1>7

LEMMA FetchKeeps ==
  ASSUME IInv, NEW t \in Handlers, Fetch(t)
  PROVE  IInv'
<1>1. PICK l \in Locks : Fetched(t, l)
  BY FetchObtains
<1>2. handler[t].pc = "fetch" /\ Len(handler[t].arcs) < Len(handler[t].plan)
  BY DEF Fetch, IInv, Shaped
<1>3. /\ handler' \in [Handlers -> Handler]
      /\ \A u \in Handlers : u # t => handler'[u] = handler[u]
      /\ handler'[t].plan = handler[t].plan
      /\ handler'[t].pc = "join"
      /\ Len(handler'[t].arcs) = Len(handler[t].arcs) + 1
      /\ \A i \in 1..Len(handler[t].arcs) : handler'[t].arcs[i] = handler[t].arcs[i]
      /\ handler'[t].arcs[Len(handler[t].arcs) + 1] = l
  BY <1>1, <1>2, ObtainAdds DEF Fetched
<1>4. queue' = queue
  BY <1>1 DEF Fetched
<1>5. TypeOK
  BY DEF IInv
<1>6. Len(handler[t].arcs) \in Nat /\ Len(handler[t].plan) \in Nat
  BY <1>5, Types
<1>7. TypeOK'
  <2>1. \A u \in Handlers : Len(handler'[u].arcs) <= Len(handler'[u].plan)
    <3>1. Len(handler'[t].arcs) <= Len(handler'[t].plan)
      BY <1>2, <1>3, <1>6
    <3>2. \A u \in Handlers : Len(handler[u].arcs) <= Len(handler[u].plan)
      BY <1>5 DEF TypeOK
    <3> QED BY <1>3, <3>1, <3>2
  <2>2. queue' \in [Locks -> Seq(Handlers)]
    BY <1>4, <1>5 DEF TypeOK
  <2> QED BY <1>3, <2>1, <2>2, FetchObtains DEF TypeOK, Handler
<1>8. Shaped'
  <2>1. handler'[t].arcs # <<>> /\ handler'[t].plan # <<>>
    BY <1>2, <1>3, <1>6 DEF IInv, Shaped
  <2> QED BY <1>3, <2>1 DEF IInv, Shaped
<1>9. Named'
  <2> SUFFICES ASSUME NEW u \in Handlers, NEW i \in 1..Len(handler'[u].arcs)
               PROVE  [key |-> handler'[u].plan[i], lock |-> handler'[u].arcs[i]] \in table'
    BY DEF Named
  <2>1. ASSUME i \in 1..Len(handler[u].arcs),
               handler'[u].plan[i] = handler[u].plan[i], handler'[u].arcs[i] = handler[u].arcs[i]
        PROVE  [key |-> handler'[u].plan[i], lock |-> handler'[u].arcs[i]] \in table'
    <3> DEFINE e == [key |-> handler[u].plan[i], lock |-> handler[u].arcs[i]]
    <3>1. e \in table /\ e.lock = handler[u].arcs[i]
      BY <2>1 DEF IInv, Named
    <3>2. Alive(e.lock)
      BY <1>5, <2>1, <3>1, AliveArcs
    <3> QED BY <1>1, <2>1, <3>1, <3>2 DEF Fetched
  <2>2. CASE u # t
    BY <1>3, <2>1, <2>2
  <2>3. CASE u = t /\ i \in 1..Len(handler[t].arcs)
    BY <1>3, <2>1, <2>3
  <2>4. CASE u = t /\ i \notin 1..Len(handler[t].arcs)
    <3>1. i = Len(handler[t].arcs) + 1
      BY <1>3, <1>6, <2>4
    <3>2. handler'[u].plan[i] = NextKey(t) /\ handler'[u].arcs[i] = l
      BY <1>3, <2>4, <3>1 DEF NextKey
    <3> QED BY <1>1, <3>2 DEF Fetched
  <2> QED BY <2>2, <2>3, <2>4
<1>10. HolderIsFirst'
  <2> SUFFICES ASSUME NEW u \in Handlers, NEW i \in 1..Len(handler'[u].arcs), Has(u, i)'
               PROVE  /\ queue[handler'[u].arcs[i]] # <<>>
                      /\ Head(queue[handler'[u].arcs[i]]) = u
    BY <1>4 DEF HolderIsFirst
  <2>1. i \in 1..Len(handler[u].arcs) /\ Has(u, i) /\ handler'[u].arcs[i] = handler[u].arcs[i]
    BY <1>2, <1>3, <1>6 DEF Has
  <2> QED BY <2>1 DEF IInv, HolderIsFirst
<1>11. QueuesAreOfHandlers'
  <2> SUFFICES ASSUME NEW m \in Locks, NEW u \in ToSet(queue[m])
               PROVE  \E i \in 1..Len(handler'[u].arcs) : handler'[u].arcs[i] = m /\ Joined(u, i)'
    BY <1>4 DEF IInv, QueuesAreOfHandlers
  <2>1. u \in Handlers
    BY <1>5, ElementOfSeq, LenProperties DEF TypeOK, ToSet
  <2>2. PICK i \in 1..Len(handler[u].arcs) : handler[u].arcs[i] = m /\ Joined(u, i)
    BY DEF IInv, QueuesAreOfHandlers
  <2>3. CASE u # t
    BY <1>3, <2>1, <2>2, <2>3 DEF Joined
  <2>4. CASE u = t
    <3>1. i \in 1..Len(handler'[u].arcs) /\ i < Len(handler'[u].arcs)
      BY <1>3, <1>6, <2>2, <2>4
    <3> QED BY <1>3, <2>2, <2>4, <3>1 DEF Joined
  <2> QED BY <2>3, <2>4
<1> QED BY <1>7, <1>8, <1>9, <1>10, <1>11, FetchObtains DEF IInv

\* A handler stands in line at most once.
LEMMA NotYetInLine ==
  ASSUME IInv, NEW t \in Handlers, handler[t].pc = "join"
  PROVE  t \notin ToSet(queue[Last(handler[t].arcs)])
<1> DEFINE n == Len(handler[t].arcs)
           l == handler[t].arcs[n]
<1>0. TypeOK /\ handler[t].pc = "join" /\ handler[t].arcs # <<>>
  BY DEF IInv, Shaped
<1>1. /\ handler[t] \in Handler /\ handler[t].arcs \in Seq(Locks) /\ n \in Nat
      /\ n <= Len(handler[t].plan) /\ Len(handler[t].plan) \in Nat
      /\ DOMAIN handler[t].plan = 1..Len(handler[t].plan)
  BY <1>0, Types, LenProperties
<1>2. n \in 1..n
  BY <1>0, <1>1, EmptySeq
<1>3. l \in Locks
  BY <1>1, <1>2, ElementOfSeq
<1> SUFFICES ASSUME t \in ToSet(queue[l]) PROVE FALSE
  BY DEF Last
<1>4. PICK i \in 1..n : handler[t].arcs[i] = l /\ i < n
  BY <1>0, <1>3 DEF IInv, QueuesAreOfHandlers, Joined
<1>5. handler[t].plan[i] = handler[t].plan[n]
  <2> DEFINE e == [key |-> handler[t].plan[i], lock |-> handler[t].arcs[i]]
             f == [key |-> handler[t].plan[n], lock |-> handler[t].arcs[n]]
  <2>1. e \in table /\ f \in table
    BY <1>2 DEF IInv, Named
  <2>2. e = f
    BY <1>4, <2>1 DEF IInv, OneKeyPerLock
  <2> QED BY <2>2
<1>6. IsInjective(handler[t].plan)
  BY <1>0, <1>1, PlanAssumption DEF IInv, Shaped, Handler
<1> QED BY <1>1, <1>2, <1>4, <1>5, <1>6 DEF IsInjective

\* A handler that only moves on keeps its plan and its Arcs.
LEMMA MovesOn ==
  ASSUME IInv, NEW t \in Handlers, NEW pc \in Pcs, Move(t, pc)
  PROVE  /\ handler' \in [Handlers -> Handler]
         /\ \A u \in Handlers : u # t => handler'[u] = handler[u]
         /\ \A u \in Handlers : /\ handler'[u].plan = handler[u].plan
                                /\ handler'[u].arcs = handler[u].arcs
         /\ handler'[t].pc = pc
<1>1. handler \in [Handlers -> Handler]
  BY DEF IInv, TypeOK, Handler
<1>2. handler[t] \in Handler
  BY <1>1
<1> DEFINE to == [handler[t] EXCEPT !.pc = pc]
<1>3. to \in Handler
  BY <1>2 DEF Handler
<1>4. to.plan = handler[t].plan /\ to.arcs = handler[t].arcs /\ to.pc = pc
  BY <1>2 DEF Handler
<1>5. handler' = [handler EXCEPT ![t] = to]
  BY DEF Move
<1> HIDE DEF to
<1>6. handler' \in [Handlers -> Handler] /\ handler'[t] = to
      /\ \A u \in Handlers : u # t => handler'[u] = handler[u]
  BY <1>1, <1>3, <1>5
<1> QED BY <1>4, <1>6

\* What no handler that only moves on disturbs.
LEMMA MovesKeep ==
  ASSUME IInv, NEW t \in Handlers, NEW pc \in Pcs, Move(t, pc), UNCHANGED table,
         handler[t].pc # "idle", pc \in {"wait", "work"} \/ (pc = "fetch"
                /\ Len(handler[t].arcs) < Len(handler[t].plan)),
         handler[t].arcs # <<>>,
         queue' \in [Locks -> Seq(Handlers)]
  PROVE  TypeOK' /\ IsFiniteSet(table)' /\ Shaped' /\ Named' /\ OneKeyPerLock'
<1>1. /\ handler' \in [Handlers -> Handler]
      /\ \A u \in Handlers : u # t => handler'[u] = handler[u]
      /\ \A u \in Handlers : /\ handler'[u].plan = handler[u].plan
                             /\ handler'[u].arcs = handler[u].arcs
      /\ handler'[t].pc = pc
  BY MovesOn
<1>2. TypeOK'
  BY <1>1 DEF IInv, TypeOK, Handler
<1>3. Shaped'
  BY <1>1 DEF IInv, Shaped
<1>4. Named'
  BY <1>1 DEF IInv, Named
<1> QED BY <1>2, <1>3, <1>4 DEF IInv, OneKeyPerLock

LEMMA JoinKeeps ==
  ASSUME IInv, NEW t \in Handlers, Join(t)
  PROVE  IInv'
<1> DEFINE l == Last(handler[t].arcs)
<1>0. TypeOK /\ handler[t].pc = "join" /\ handler[t].arcs # <<>> /\ Move(t, "wait")
      /\ queue' = [queue EXCEPT ![l] = Append(@, t)] /\ table' = table
  BY DEF IInv, Shaped, Join
<1>1. /\ handler[t].arcs \in Seq(Locks) /\ Len(handler[t].arcs) \in 1..Len(handler[t].arcs)
      /\ l = handler[t].arcs[Len(handler[t].arcs)] /\ l \in Locks
  BY <1>0, Types, EmptySeq DEF Last
<1>2. t \notin ToSet(queue[l])
  BY <1>0, NotYetInLine
<1> HIDE DEF l
<1>3. queue \in [Locks -> Seq(Handlers)] /\ queue[l] \in Seq(Handlers)
  BY <1>0, <1>1 DEF TypeOK
<1>4. \A m \in Locks : m # l => queue'[m] = queue[m]
  BY <1>0, <1>1, <1>3
<1>5. queue'[l] = Append(queue[l], t)
  BY <1>0, <1>1, <1>3
<1>6. /\ Append(queue[l], t) \in Seq(Handlers)
      /\ Len(Append(queue[l], t)) = Len(queue[l]) + 1
      /\ \A i \in 1..Len(queue[l]) : Append(queue[l], t)[i] = queue[l][i]
      /\ Append(queue[l], t)[Len(queue[l]) + 1] = t
      /\ Len(queue[l]) \in Nat
  BY <1>3, AppendKeeps, LenProperties
<1>7. queue' \in [Locks -> Seq(Handlers)]
  BY <1>0, <1>3, <1>4, <1>5, <1>6
<1>8. /\ \A u \in Handlers : u # t => handler'[u] = handler[u]
      /\ \A u \in Handlers : handler'[u].arcs = handler[u].arcs
      /\ handler'[t].pc = "wait"
  BY <1>0, MovesOn DEF Pcs
<1>9. TypeOK' /\ IsFiniteSet(table)' /\ Shaped' /\ Named' /\ OneKeyPerLock'
  BY <1>0, <1>7, MovesKeep DEF Pcs
<1>10. HolderIsFirst'
  <2> SUFFICES ASSUME NEW u \in Handlers, NEW i \in 1..Len(handler[u].arcs), Has(u, i)'
               PROVE  /\ queue'[handler[u].arcs[i]] # <<>>
                      /\ Head(queue'[handler[u].arcs[i]]) = u
    BY <1>8 DEF HolderIsFirst
  <2>1. Has(u, i)
    BY <1>8 DEF Has
  <2>2. queue[handler[u].arcs[i]] # <<>> /\ Head(queue[handler[u].arcs[i]]) = u
    BY <2>1 DEF IInv, HolderIsFirst
  <2>3. CASE handler[u].arcs[i] # l
    <3>1. handler[u].arcs[i] \in Locks
      BY <1>0, Types
    <3> QED BY <1>4, <2>2, <2>3, <3>1
  <2>4. CASE handler[u].arcs[i] = l
    BY <1>3, <1>5, <2>2, <2>4, HeadTailAppend, AppendProperties
  <2> QED BY <2>3, <2>4
<1>11. QueuesAreOfHandlers'
  <2>0. \A m \in Locks : DOMAIN queue[m] = 1..Len(queue[m]) /\ queue[m] \in Seq(Handlers)
    BY <1>3, LenProperties
  <2>1. DOMAIN queue'[l] = 1..Len(queue[l]) + 1
    BY <1>5, <1>6, LenProperties
  <2>2. IsInjective(queue'[l])
    <3>1. \A i \in 1..Len(queue[l]) : queue[l][i] # t
      BY <1>1, <1>2, <2>0 DEF ToSet
    <3>2. \A i, j \in 1..Len(queue[l]) : queue[l][i] = queue[l][j] => i = j
      BY <1>1, <2>0, SMTT(30) DEF IInv, QueuesAreOfHandlers, IsInjective
    <3>3. \A i \in 1..Len(queue[l]) + 1 : i \in 1..Len(queue[l]) \/ i = Len(queue[l]) + 1
      BY <1>6
    <3> QED BY <1>5, <1>6, <2>1, <3>1, <3>2, <3>3 DEF IsInjective
  <2>3. ToSet(queue'[l]) \subseteq ToSet(queue[l]) \cup {t}
    <3> SUFFICES ASSUME NEW j \in 1..Len(queue[l]) + 1, queue'[l][j] # t
                 PROVE  queue'[l][j] \in ToSet(queue[l])
      BY <2>1 DEF ToSet
    <3>1. j \in 1..Len(queue[l])
      BY <1>5, <1>6
    <3> QED BY <1>1, <1>5, <1>6, <2>0, <3>1 DEF ToSet
  <2>4. ASSUME NEW m \in Locks, NEW u \in ToSet(queue'[m])
        PROVE  \E i \in 1..Len(handler'[u].arcs) : handler'[u].arcs[i] = m /\ Joined(u, i)'
    <3>1. CASE u \in ToSet(queue[m])
      <4>1. u \in Handlers
        BY <2>0, <3>1, ElementOfSeq DEF ToSet
      <4>2. PICK i \in 1..Len(handler[u].arcs) : handler[u].arcs[i] = m /\ Joined(u, i)
        BY <3>1 DEF IInv, QueuesAreOfHandlers
      <4> QED BY <1>8, <4>1, <4>2 DEF Joined
    <3>2. CASE u \notin ToSet(queue[m])
      <4>1. m = l /\ u = t
        BY <1>4, <2>3, <3>2
      <4> QED BY <1>1, <1>8, <4>1 DEF Joined
    <3> QED BY <3>1, <3>2
  <2>5. \A m \in Locks : IsInjective(queue'[m])
    BY <1>4, <2>2 DEF IInv, QueuesAreOfHandlers
  <2> QED BY <2>4, <2>5 DEF QueuesAreOfHandlers
<1> QED BY <1>9, <1>10, <1>11 DEF IInv

LEMMA EnterKeeps ==
  ASSUME IInv, NEW t \in Handlers, Enter(t)
  PROVE  IInv'
<1> DEFINE pc == IF Len(handler[t].arcs) = Len(handler[t].plan) THEN "work" ELSE "fetch"
<1>0. /\ TypeOK /\ handler[t].pc = "wait" /\ handler[t].arcs # <<>>
      /\ Move(t, pc) /\ table' = table /\ queue' = queue
      /\ queue[Last(handler[t].arcs)] # <<>> /\ Head(queue[Last(handler[t].arcs)]) = t
  BY DEF IInv, Shaped, Enter
<1>1. /\ Len(handler[t].arcs) \in Nat /\ Len(handler[t].plan) \in Nat
      /\ Len(handler[t].arcs) <= Len(handler[t].plan)
  BY <1>0, Types
<1>2. pc \in Pcs /\ (pc = "work" \/ (pc = "fetch" /\ Len(handler[t].arcs) < Len(handler[t].plan)))
  BY <1>1 DEF Pcs
<1> HIDE DEF pc
<1>3. queue' \in [Locks -> Seq(Handlers)]
  BY <1>0 DEF TypeOK
<1>4. TypeOK' /\ IsFiniteSet(table)' /\ Shaped' /\ Named' /\ OneKeyPerLock'
  BY <1>0, <1>2, <1>3, MovesKeep
<1>5. /\ \A u \in Handlers : u # t => handler'[u] = handler[u]
      /\ \A u \in Handlers : handler'[u].arcs = handler[u].arcs
      /\ handler'[t].pc = pc
  BY <1>0, <1>2, MovesOn
<1>6. HolderIsFirst'
  <2> SUFFICES ASSUME NEW u \in Handlers, NEW i \in 1..Len(handler[u].arcs), Has(u, i)'
               PROVE  /\ queue[handler[u].arcs[i]] # <<>>
                      /\ Head(queue[handler[u].arcs[i]]) = u
    BY <1>0, <1>5 DEF HolderIsFirst
  <2>1. CASE u = t /\ i = Len(handler[t].arcs)
    BY <1>0, <2>1 DEF Last
  <2>2. CASE ~(u = t /\ i = Len(handler[t].arcs))
    <3>1. Has(u, i)
      BY <1>1, <1>5, <2>2 DEF Has
    <3> QED BY <3>1 DEF IInv, HolderIsFirst
  <2> QED BY <2>1, <2>2
<1>7. QueuesAreOfHandlers'
  <2> SUFFICES ASSUME NEW m \in Locks, NEW u \in ToSet(queue[m])
               PROVE  \E i \in 1..Len(handler'[u].arcs) : handler'[u].arcs[i] = m /\ Joined(u, i)'
    BY <1>0 DEF IInv, QueuesAreOfHandlers
  <2>1. u \in Handlers
    BY <1>0, ElementOfSeq, LenProperties DEF TypeOK, ToSet
  <2>2. PICK i \in 1..Len(handler[u].arcs) : handler[u].arcs[i] = m /\ Joined(u, i)
    BY DEF IInv, QueuesAreOfHandlers
  <2> QED BY <1>2, <1>5, <2>1, <2>2 DEF Joined
<1> QED BY <1>4, <1>6, <1>7 DEF IInv

LEMMA BeginKeeps ==
  ASSUME IInv, NEW t \in Handlers, NEW p \in Plans, Begin(t, p)
  PROVE  IInv'
<1> DEFINE to == [plan |-> p, arcs |-> <<>>, pc |-> "fetch"]
<1>0. TypeOK /\ handler[t].pc = "idle" /\ table' = table /\ queue' = queue
      /\ handler[t].arcs = <<>>
  BY DEF IInv, Shaped, Begin
<1>1. /\ p \in Seq(Keys) /\ p # <<>>
      /\ Len(<<>>) = 0 /\ Len(p) \in Nat /\ 0 < Len(p) /\ 0 <= Len(p)
  BY PlanAssumption, EmptySeq, LenProperties
<1>2. to \in Handler /\ to.plan = p /\ to.arcs = <<>> /\ to.pc = "fetch"
  BY EmptySeq DEF Handler, Pcs
<1>3. handler \in [Handlers -> Handler] /\ handler' = [handler EXCEPT ![t] = to]
  BY <1>0 DEF TypeOK, Handler, Begin
<1> HIDE DEF to
<1>4. /\ handler' \in [Handlers -> Handler] /\ handler'[t] = to
      /\ \A u \in Handlers : u # t => handler'[u] = handler[u]
      /\ \A u \in Handlers : handler'[u].arcs = handler[u].arcs
  BY <1>0, <1>2, <1>3
<1>5. TypeOK'
  <2>1. \A u \in Handlers : Len(handler'[u].arcs) <= Len(handler'[u].plan)
    BY <1>0, <1>1, <1>2, <1>4 DEF TypeOK
  <2> QED BY <1>0, <1>4, <2>1 DEF TypeOK, Handler
<1>6. Shaped'
  BY <1>1, <1>2, <1>4 DEF IInv, Shaped
<1>7. \A u \in Handlers : \A i \in 1..Len(handler[u].arcs) : handler'[u] = handler[u]
  BY <1>0, <1>4
<1>8. Named'
  BY <1>0, <1>4, <1>7 DEF IInv, Named
<1>9. HolderIsFirst'
  BY <1>0, <1>4, <1>7 DEF IInv, HolderIsFirst, Has
<1>10. QueuesAreOfHandlers'
  <2> SUFFICES ASSUME NEW m \in Locks, NEW u \in ToSet(queue[m])
               PROVE  \E i \in 1..Len(handler'[u].arcs) : handler'[u].arcs[i] = m /\ Joined(u, i)'
    BY <1>0 DEF IInv, QueuesAreOfHandlers
  <2>1. u \in Handlers
    BY <1>0, ElementOfSeq, LenProperties DEF TypeOK, ToSet
  <2>2. PICK i \in 1..Len(handler[u].arcs) : handler[u].arcs[i] = m /\ Joined(u, i)
    BY DEF IInv, QueuesAreOfHandlers
  <2> QED BY <1>7, <2>1, <2>2 DEF Joined
<1> QED BY <1>0, <1>5, <1>6, <1>8, <1>9, <1>10 DEF IInv, OneKeyPerLock

LEMMA GoneKeeps ==
  ASSUME IInv, NEW t \in Handlers, Gone(t)
  PROVE  IInv'
<1>0. /\ TypeOK /\ table' = table
      /\ queue \in [Locks -> Seq(Handlers)]
      /\ \A l \in Locks : queue'[l] = Without(queue[l], t)
  BY DEF IInv, TypeOK, Gone
<1>1. \A l \in Locks : IsInjective(queue[l])
  BY DEF IInv, QueuesAreOfHandlers
<1>2. \A l \in Locks :
        /\ queue'[l] \in Seq(Handlers)
        /\ IsInjective(queue'[l])
        /\ ToSet(queue'[l]) = ToSet(queue[l]) \ {t}
        /\ queue[l] # <<>> /\ Head(queue[l]) # t =>
             queue'[l] # <<>> /\ Head(queue'[l]) = Head(queue[l])
  BY <1>0, <1>1, WithoutLeaves
<1>3. queue' \in [Locks -> Seq(Handlers)]
  BY <1>2 DEF Gone
<1>4. Idle \in Handler /\ Idle.plan = <<>> /\ Idle.arcs = <<>> /\ Idle.pc = "idle"
  BY EmptySeq DEF Idle, Handler, Pcs
<1>5. /\ handler' \in [Handlers -> Handler] /\ handler'[t] = Idle
      /\ \A u \in Handlers : u # t => handler'[u] = handler[u]
  BY <1>0, <1>4 DEF TypeOK, Handler, Gone
<1>6. TypeOK'
  <2>1. \A u \in Handlers : Len(handler'[u].arcs) <= Len(handler'[u].plan)
    <3>1. \A u \in Handlers : Len(handler[u].arcs) <= Len(handler[u].plan)
      BY <1>0 DEF TypeOK
    <3>2. Len(handler'[t].arcs) = 0 /\ Len(handler'[t].plan) = 0
      BY <1>4, <1>5
    <3> QED BY <1>5, <3>1, <3>2
  <2> QED BY <1>0, <1>3, <1>5, <2>1 DEF TypeOK, Handler
<1>7. Shaped'
  BY <1>4, <1>5 DEF IInv, Shaped
<1>8. \A u \in Handlers : \A i \in 1..Len(handler'[u].arcs) : u # t /\ handler'[u] = handler[u]
  <2>1. Len(handler'[t].arcs) = 0
    BY <1>4, <1>5
  <2> QED BY <1>5, <2>1
<1>9. Named'
  BY <1>0, <1>8 DEF IInv, Named
<1>10. HolderIsFirst'
  <2> SUFFICES ASSUME NEW u \in Handlers, NEW i \in 1..Len(handler'[u].arcs), Has(u, i)'
               PROVE  /\ queue'[handler'[u].arcs[i]] # <<>>
                      /\ Head(queue'[handler'[u].arcs[i]]) = u
    BY DEF HolderIsFirst
  <2>1. u # t /\ handler'[u] = handler[u]
    BY <1>8
  <2>2. Has(u, i) /\ i \in 1..Len(handler[u].arcs)
    BY <2>1 DEF Has
  <2>3. queue[handler[u].arcs[i]] # <<>> /\ Head(queue[handler[u].arcs[i]]) = u
    BY <2>2 DEF IInv, HolderIsFirst
  <2>4. handler[u].arcs[i] \in Locks
    BY <1>0, <2>2, Types
  <2> QED BY <1>2, <2>1, <2>3, <2>4
<1>11. QueuesAreOfHandlers'
  <2> SUFFICES ASSUME NEW m \in Locks, NEW u \in ToSet(queue'[m])
               PROVE  \E i \in 1..Len(handler'[u].arcs) : handler'[u].arcs[i] = m /\ Joined(u, i)'
    BY <1>2 DEF QueuesAreOfHandlers
  <2>1. u \in ToSet(queue[m]) /\ u # t
    BY <1>2
  <2>2. u \in Handlers
    BY <1>0, <2>1, ElementOfSeq, LenProperties DEF ToSet
  <2>3. PICK i \in 1..Len(handler[u].arcs) : handler[u].arcs[i] = m /\ Joined(u, i)
    BY <2>1 DEF IInv, QueuesAreOfHandlers
  <2> QED BY <1>5, <2>1, <2>2, <2>3 DEF Joined
<1> QED BY <1>0, <1>6, <1>7, <1>9, <1>10, <1>11 DEF IInv, OneKeyPerLock

LEMMA InitEstablishes == Init => IInv
<1> SUFFICES ASSUME Init PROVE IInv
  OBVIOUS
<1>1. Idle \in Handler /\ Idle.plan = <<>> /\ Idle.arcs = <<>> /\ Idle.pc = "idle"
  BY EmptySeq DEF Idle, Handler, Pcs
<1>2. /\ handler \in [Handlers -> Handler] /\ queue \in [Locks -> Seq(Handlers)]
      /\ \A t \in Handlers : handler[t] = Idle
      /\ \A l \in Locks : queue[l] = <<>>
      /\ table = {}
  BY <1>1, EmptySeq DEF Init
<1>3. \A t \in Handlers : Len(handler[t].arcs) = 0 /\ Len(handler[t].plan) = 0
  BY <1>1, <1>2
<1>4. TypeOK
  BY <1>2, <1>3 DEF TypeOK, Handler
<1>5. Shaped /\ Named /\ HolderIsFirst /\ OneKeyPerLock
  BY <1>1, <1>2, <1>3 DEF Shaped, Named, HolderIsFirst, OneKeyPerLock
<1>6. IsInjective(<<>>) /\ ToSet(<<>>) = {}
  BY DEF IsInjective, ToSet
<1>7. QueuesAreOfHandlers
  BY <1>2, <1>6 DEF QueuesAreOfHandlers
<1> QED BY <1>2, <1>4, <1>5, <1>7, FS_EmptySet DEF IInv

LEMMA NextKeeps == IInv /\ [Next]_vars => IInv'
<1> SUFFICES ASSUME IInv, [Next]_vars PROVE IInv'
  OBVIOUS
<1>1. ASSUME NEW t \in Handlers, NEW p \in Plans, Begin(t, p) PROVE IInv'
  BY <1>1, BeginKeeps
<1>2. ASSUME NEW t \in Handlers, Step(t) \/ Cancel(t) PROVE IInv'
  BY <1>2, FetchKeeps, JoinKeeps, EnterKeeps, GoneKeeps DEF Step, Finish, Cancel
<1>3. CASE UNCHANGED vars
  BY <1>3 DEF vars, IInv, TypeOK, Shaped, Named, OneKeyPerLock, HolderIsFirst, Has,
       QueuesAreOfHandlers, Joined
<1> QED BY <1>1, <1>2, <1>3 DEF Next

LEMMA Invariance == Spec => []IInv
<1>1. Init => IInv
  BY InitEstablishes
<1>2. IInv /\ [Next]_vars => IInv'
  BY NextKeeps
<1> QED BY <1>1, <1>2, PTL DEF Spec

-----------------------------------------------------------------------------
(* The theorems                                                            *)

\* Table, queues and handlers stay well typed, and a key has one entry
\* (CommunityCore::document_lock).
THEOREM LocksTyped == Spec => []TypeOK
<1>1. IInv => TypeOK
  BY DEF IInv
<1> QED BY <1>1, Invariance, PTL

\* Handlers of one key lock the same mutex, although the table holds weak references,
\* forgets dead ones and is purged while handlers wait (CommunityCore::document_lock).
THEOREM OneHolder == Spec => []OneHolderPerKey
<1>1. ASSUME IInv PROVE OneHolderPerKey
  <2> SUFFICES ASSUME NEW t \in Handlers, NEW u \in Handlers, NEW k \in Keys,
                      Holds(t, k), Holds(u, k)
               PROVE  t = u
    BY DEF OneHolderPerKey
  <2>1. PICK i \in 1..Len(handler[t].arcs) : Has(t, i) /\ handler[t].plan[i] = k
    BY DEF Holds
  <2>2. PICK j \in 1..Len(handler[u].arcs) : Has(u, j) /\ handler[u].plan[j] = k
    BY DEF Holds
  <2>3. handler[t].arcs[i] = handler[u].arcs[j]
    <3> DEFINE e == [key |-> k, lock |-> handler[t].arcs[i]]
               f == [key |-> k, lock |-> handler[u].arcs[j]]
    <3>1. e \in table /\ f \in table
      BY <1>1, <2>1, <2>2 DEF IInv, Named
    <3>2. e = f
      BY <1>1, <3>1 DEF IInv, TypeOK
    <3> QED BY <3>2
  <2> QED BY <1>1, <2>1, <2>2, <2>3 DEF IInv, HolderIsFirst
<1> QED BY <1>1, Invariance, PTL

\* Who has no call under way is in no queue.
NobodyIsLeftInLine ==
  \A t \in Handlers, l \in Locks : handler[t].pc = "idle" => t \notin ToSet(queue[l])

\* A handler that has ended or was aborted stands in no queue: whatever it had locked,
\* or was waiting for, is open to the others (guards and Arcs dropped together).
THEOREM EndedHandlersLetGo == Spec => []NobodyIsLeftInLine
<1>1. ASSUME IInv PROVE NobodyIsLeftInLine
  <2> SUFFICES ASSUME NEW t \in Handlers, NEW l \in Locks, handler[t].pc = "idle",
                      t \in ToSet(queue[l])
               PROVE  FALSE
    BY DEF NobodyIsLeftInLine
  <2>1. Len(handler[t].arcs) = 0
    BY <1>1 DEF IInv, Shaped
  <2> QED BY <1>1, <2>1 DEF IInv, QueuesAreOfHandlers
<1> QED BY <1>1, Invariance, PTL

\* A step that inserts into a table below the cap stays within it; from the cap on the
\* purge leaves only mutexes in use (locks.retain in document_lock).
LEMMA FetchGrows ==
  ASSUME IInv, NEW t \in Handlers, Fetch(t),
         Cardinality(table') > Cardinality(table), Cardinality(table') > Cap
  PROVE  \A e \in table' : Alive(e.lock)'
<1> DEFINE k == NextKey(t)
<1>1. table' # table
  BY FS_CardinalityType DEF IInv
<1>2. PICK l \in Unused : Obtain(t, l) /\ table' = Inserted(k, l)
  BY <1>1 DEF Fetch
<1>3. l \in Locks /\ handler[t].pc = "fetch" /\ TypeOK
  BY DEF Unused, Fetch, IInv
<1>4. /\ \A u \in Handlers : u # t => handler'[u] = handler[u]
      /\ Len(handler'[t].arcs) = Len(handler[t].arcs) + 1
      /\ \A i \in 1..Len(handler[t].arcs) : handler'[t].arcs[i] = handler[t].arcs[i]
      /\ handler'[t].arcs[Len(handler[t].arcs) + 1] = l
      /\ Len(handler[t].arcs) \in Nat
  BY <1>2, <1>3, ObtainAdds, Types
<1>5. TypeOK'
  BY FetchKeeps DEF IInv
<1>6. ASSUME NEW m PROVE
        Alive(m)' <=> \E u \in Handlers : \E i \in 1..Len(handler'[u].arcs) : handler'[u].arcs[i] = m
  <2>1. \A u \in Handlers : DOMAIN handler'[u].arcs = 1..Len(handler'[u].arcs)
    <3>1. \A u \in Handlers : handler'[u].arcs \in Seq(Locks)
      BY <1>5 DEF TypeOK
    <3> QED BY <3>1, LenProperties
  <2> QED BY <2>1 DEF Alive, ToSet
<1>7. Alive(l)'
  BY <1>4, <1>6
<1>8. ASSUME NEW m, Alive(m) PROVE Alive(m)'
  <2>1. PICK u \in Handlers : \E i \in 1..Len(handler[u].arcs) : handler[u].arcs[i] = m
    BY <1>3, <1>8, AliveArcs
  <2>2. PICK i \in 1..Len(handler[u].arcs) : handler[u].arcs[i] = m
    BY <2>1
  <2>3. i \in 1..Len(handler'[u].arcs) /\ handler'[u].arcs[i] = m
    <3>1. CASE u # t
      BY <1>4, <2>2, <3>1
    <3>2. CASE u = t
      BY <1>4, <2>2, <3>2
    <3> QED BY <3>1, <3>2
  <2> QED BY <1>6, <2>3
<1>9. CASE Cardinality(table) >= Cap
  <2>1. \A e \in table' : e = [key |-> k, lock |-> l] \/ Alive(e.lock)
    BY <1>2, <1>9 DEF Inserted, Purged
  <2> QED BY <1>7, <1>8, <2>1
<1>10. CASE ~(Cardinality(table) >= Cap)
  <2> DEFINE old == {e \in table : e.key # k}
  <2>1. table' = old \cup {[key |-> k, lock |-> l]}
    BY <1>2, <1>10 DEF Inserted, Purged
  <2>2. /\ IsFiniteSet(old) /\ Cardinality(old) <= Cardinality(table)
        /\ Cardinality(old) \in Nat /\ Cardinality(table) \in Nat
    BY FS_Subset, FS_CardinalityType DEF IInv
  <2> DEFINE new == [key |-> k, lock |-> l]
  <2> HIDE DEF old, new
  <2>3. Cardinality(table') <= Cardinality(old) + 1
    <3>1. table' = old \cup {new}
      BY <2>1 DEF new
    <3>2. Cardinality(old \cup {new}) = IF new \in old THEN Cardinality(old) ELSE Cardinality(old) + 1
      BY <2>2, FS_AddElement
    <3> QED BY <2>2, <3>1, <3>2
  <2>4. Cap \in Nat /\ IsFiniteSet(table')
    BY <2>1, <2>2, FS_AddElement, CapAssumption
  <2>5. Cardinality(table') \in Nat
    BY <2>4, FS_CardinalityType
  <2> QED BY <1>10, <2>2, <2>3, <2>4, <2>5
<1> QED BY <1>9, <1>10

\* The table grows beyond its cap only while every lock in it is in use, for any cap and
\* any number of documents (the purge in CommunityCore::document_lock).
THEOREM TableIsPurged == Spec => GrowsOnlyInUse
<1>1. ASSUME IInv, [Next]_vars PROVE
        [Cardinality(table') > Cardinality(table) /\ Cardinality(table') > Cap =>
           \A e \in table' : Alive(e.lock)']_vars
  <2> SUFFICES ASSUME Cardinality(table') > Cardinality(table), Cardinality(table') > Cap
               PROVE  \A e \in table' : Alive(e.lock)'
    OBVIOUS
  <2>1. table' # table
    BY <1>1, FS_CardinalityType DEF IInv
  <2>2. PICK t \in Handlers : Fetch(t)
    BY <1>1, <2>1 DEF Next, Step, Begin, Join, Enter, Finish, Cancel, Gone, vars
  <2> QED BY <1>1, <2>2, FetchGrows
<1> QED BY <1>1, Invariance, PTL DEF Spec, GrowsOnlyInUse

=============================================================================
