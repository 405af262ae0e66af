---------------------------- MODULE DocumentLocks ----------------------------
(***************************************************************************)
(* The table of document locks of one core (CommunityCore::document_lock). *)
(* The table holds weak references: a lock lives as long as a handler      *)
(* holds an Arc of it, and its entry stays behind until the key is used    *)
(* again or the table is purged.  A handler holds one lock, or, in the     *)
(* planning profile, the lock of the community and then that of the        *)
(* document.  The mutexes are fair: who waits is served in order.          *)
(***************************************************************************)
EXTENDS Naturals, Sequences, FiniteSets, SequencesExt

CONSTANTS
  Handlers,
  Keys,       \* document keys
  Plans,      \* sequences of keys, in the order in which a handler locks them
  Locks,      \* names for the mutexes; bound: how many exist at a time
  Cap         \* entries at which the table is purged, 4096 in the code

\* The lock of a community is not that of a document: no plan names a key twice.
ASSUME PlanAssumption == \A p \in Plans : p \in Seq(Keys) /\ p # <<>> /\ IsInjective(p)
ASSUME CapAssumption == Cap \in Nat \ {0}

VARIABLES
  table,    \* entries: [key, lock]; the lock is a weak reference
  queue,    \* per lock: who has it (first) and who waits, in order
  handler   \* [plan, arcs: locks a handler has an Arc of, in order, pc]

vars == <<table, queue, handler>>

Pcs == {"idle", "fetch", "join", "wait", "work"}
Idle == [plan |-> <<>>, arcs |-> <<>>, pc |-> "idle"]

\* strong_count() > 0: an upgrade succeeds.
Alive(l) == \E t \in Handlers : l \in ToSet(handler[t].arcs)
\* A name not used by a mutex that exists or that a weak reference still names.
Unused == {l \in Locks : ~Alive(l) /\ \A e \in table : e.lock # l}
Entry(k) == {e \in table : e.key = k}
\* Seeded fault: a planning document has the lock of its community.
NextKeyOfCommunity(t) == handler[t].plan[1]
\* The key a handler locks next.
NextKey(t) == handler[t].plan[Len(handler[t].arcs) + 1]

Move(t, pc) == handler' = [handler EXCEPT ![t].pc = pc]

Begin(t, p) ==
  /\ handler[t].pc = "idle"
  /\ handler' = [handler EXCEPT ![t] = [plan |-> p, arcs |-> <<>>, pc |-> "fetch"]]
  /\ UNCHANGED <<table, queue>>

Obtain(t, l) ==
  handler' = [handler EXCEPT ![t] =
    [plan |-> handler[t].plan, arcs |-> Append(handler[t].arcs, l), pc |-> "join"]]

\* Seeded fault: the purge clears the table.
PurgedAll == IF Cardinality(table) >= Cap THEN {} ELSE table
\* Seeded fault: nothing is purged.
PurgedNever == table
\* locks.retain: only entries with a lock in use stay.
Purged == IF Cardinality(table) >= Cap THEN {e \in table : Alive(e.lock)} ELSE table

Inserted(k, l) == {e \in Purged : e.key # k} \cup {[key |-> k, lock |-> l]}

\* document_lock, under the mutex of the table: a live lock of the key is shared,
\* else a new one takes the entry.
Fetch(t) ==
  /\ handler[t].pc = "fetch"
  /\ LET k == NextKey(t)
         live == {e \in Entry(k) : Alive(e.lock)}
     IN \/ \E e \in live : Obtain(t, e.lock) /\ UNCHANGED <<table, queue>>
        \/ /\ live = {}
           /\ \E l \in Unused : Obtain(t, l) /\ table' = Inserted(k, l)
           /\ UNCHANGED queue

\* lock.lock().await: the handler queues and has the lock when it is the first.
Join(t) ==
  /\ handler[t].pc = "join"
  /\ LET l == Last(handler[t].arcs) IN queue' = [queue EXCEPT ![l] = Append(@, t)]
  /\ Move(t, "wait")
  /\ UNCHANGED table

Enter(t) ==
  /\ handler[t].pc = "wait"
  /\ LET q == queue[Last(handler[t].arcs)] IN q # <<>> /\ Head(q) = t
  /\ Move(t, IF Len(handler[t].arcs) = Len(handler[t].plan) THEN "work" ELSE "fetch")
  /\ UNCHANGED <<table, queue>>

\* The queue once t has dropped its guard, or has stopped to wait.
Without(q, t) == IF t \in ToSet(q) THEN RemoveAt(q, CHOOSE i \in DOMAIN q : q[i] = t) ELSE q

\* Guards and Arcs are dropped at the end of the handler, or where it is aborted.
Gone(t) ==
  /\ queue' = [l \in Locks |-> Without(queue[l], t)]
  /\ handler' = [handler EXCEPT ![t] = Idle]
  /\ UNCHANGED table

Finish(t) == handler[t].pc = "work" /\ Gone(t)
Cancel(t) == handler[t].pc \in {"fetch", "join", "wait"} /\ Gone(t)

Init ==
  /\ table = {}
  /\ queue = [l \in Locks |-> <<>>]
  /\ handler = [t \in Handlers |-> Idle]

Step(t) == Fetch(t) \/ Join(t) \/ Enter(t) \/ Finish(t)
Next ==
  \/ \E t \in Handlers, p \in Plans : Begin(t, p)
  \/ \E t \in Handlers : Step(t) \/ Cancel(t)
Spec == Init /\ [][Next]_vars
\* A handler that can go on does: the runtime polls every task that was woken.
FairSpec == Spec /\ \A t \in Handlers : WF_vars(Step(t))

-----------------------------------------------------------------------------
(* Properties                                                              *)

TypeOK ==
  /\ table \subseteq [key : Keys, lock : Locks]
  /\ \A e, f \in table : e.key = f.key => e = f
  /\ queue \in [Locks -> Seq(Handlers)]
  /\ handler \in [Handlers -> [plan : Plans \cup {<<>>}, arcs : Seq(Locks), pc : Pcs]]
  /\ \A t \in Handlers : Len(handler[t].arcs) <= Len(handler[t].plan)

\* The handler has locked its i-th key.
Has(t, i) ==
  /\ i \in 1..Len(handler[t].arcs)
  /\ i < Len(handler[t].arcs) \/ handler[t].pc = "work"
     \/ (i = Len(handler[t].arcs) /\ handler[t].pc = "fetch")
Holds(t, k) == \E i \in 1..Len(handler[t].arcs) : Has(t, i) /\ handler[t].plan[i] = k

\* No key is locked twice, although its lock may have died and come back any
\* number of times and the table may be purged while handlers wait.
OneHolderPerKey ==
  \A t, u \in Handlers, k \in Keys : Holds(t, k) /\ Holds(u, k) => t = u

\* The table grows beyond the cap only when every lock in it is in use: entries of
\* documents that nobody touches any more do not pile up.
GrowsOnlyInUse ==
  [][Cardinality(table') > Cardinality(table) /\ Cardinality(table') > Cap =>
       \A e \in table' : Alive(e.lock)']_vars

\* A handler that wants a lock gets it or is aborted, however many others come and
\* although some wait for a second lock while they hold the first.
EveryHandlerEnds ==
  \A t \in Handlers : handler[t].pc # "idle" ~> handler[t].pc = "idle"
=============================================================================
