---------------------------- MODULE LocalApiProofs ----------------------------
(***************************************************************************)
(* Proofs about LocalApi.  The lock of the data directory orders the       *)
(* processes; while one has it, all connections are its own.  Every entry  *)
(* of the store's queue belongs to the connection that waits for it, or to *)
(* nobody, so that what a handler is answered is what became of its write. *)
(***************************************************************************)
EXTENDS LocalApi, FiniteSetTheorems, TLAPS

Phases ==
  {"off", "starting", "binding", "serving", "signalled", "draining", "removing", "ending"}
Asking == {"sent", "auth", "call", "store", "answered", "writing"}
Ops == {"authenticate", "read", "commit"}
RequestKinds == {"frame", "json", "health", "token", "role", "read", "write", "large"}
Connections ==
  [at : Servers \cup {Nobody}, phase : {"none", "backlog", "reading"} \cup Asking,
   kind : RequestKinds \cup {"none"}, answer : {"none", "ok", "error"}, count : Nat]
Entries == [client : Clients \cup {Nobody}, op : Ops]

Typed ==
  /\ phase \in [Servers -> Phases]
  /\ lock \in Servers \cup {Nobody} /\ socket \in Servers \cup {Nobody}
  /\ store \in Seq(Entries)
  /\ conn \in [Clients -> Connections]
  /\ said \in [Clients -> {"nothing", "ok", "error", "written", "closed"}]
  /\ fate \in [Clients -> {"none", "queued", "committed"}]

\* A process that runs has the lock.
Owned == \A s \in Servers : phase[s] # "off" => lock = s

\* A connection is one of the process that has the lock, while it accepts or drains; what
\* it drains was accepted.
Attached ==
  \A c \in Clients :
    /\ conn[c].phase = "none" => conn[c] = None
    /\ conn[c].phase # "none" =>
         /\ lock \in Servers /\ conn[c].at = lock
         /\ Listening(lock) \/ (phase[lock] = "draining" /\ conn[c].phase # "backlog")

\* What became of the request of a connection at each point of its way.
FateOf(c) ==
  /\ conn[c].phase \in {"sent", "auth", "call"} => fate[c] = "none"
  /\ conn[c].phase = "store" => fate[c] = IF conn[c].kind \in Writes THEN "queued" ELSE "none"
  /\ conn[c].phase \in {"answered", "writing"} =>
       /\ conn[c].answer = "error" => fate[c] = "none"
       /\ conn[c].answer = "ok" /\ conn[c].kind \in Writes => fate[c] = "committed"
       /\ conn[c].answer # "none"
Followed ==
  \A c \in Clients : FateOf(c) /\ (conn[c].phase \in Asking => said[c] = "nothing")

\* The queue of the store: who waits has one entry, of what he waits for.
Fits(e) ==
  e.client \in Clients =>
    IF e.op = "authenticate" THEN conn[e.client].phase = "auth"
    ELSE conn[e.client].phase = "store"
           /\ (e.op = "commit" <=> conn[e.client].kind \in Writes)
Apart(q) ==
  \A i, j \in 1..Len(q) : q[i].client = q[j].client /\ q[i].client \in Clients => i = j
Queued ==
  /\ \A i \in 1..Len(store) : Fits(store[i])
  /\ Apart(store)
  /\ \A c \in Clients :
       conn[c].phase \in {"auth", "store"} => \E i \in 1..Len(store) : store[i].client = c

Permitted == \A s \in Servers : IsFiniteSet(Tasks(s)) /\ Cardinality(Tasks(s)) <= Permits

IInv ==
  /\ Typed /\ Owned /\ Attached /\ Followed /\ Queued /\ Permitted
  /\ SocketReachesServer /\ OutcomeIsKnown

-----------------------------------------------------------------------------
(* What the operators of LocalApi do                                       *)

\* Closing connections ends them, and touches no other.
LEMMA ClosedEnds ==
  ASSUME Typed, NEW X \in SUBSET Clients, Closed(X)
  PROVE  /\ conn' \in [Clients -> Connections]
         /\ said' \in [Clients -> {"nothing", "ok", "error", "written", "closed"}]
         /\ \A c \in X : conn'[c] = None /\ said'[c] \in {said[c], "closed"}
         /\ \A c \in X : conn[c].phase \in Asking => said'[c] = "closed"
         /\ \A c \in Clients \ X : conn'[c] = conn[c] /\ said'[c] = said[c]
<1>1. None \in Connections  BY DEF None, Connections
<1> QED  BY <1>1 DEF Typed, Closed, Waiting, Asking

\* Entries of closed connections are orphaned, the others stay where they are.
LEMMA OrphanedKeeps ==
  ASSUME Typed, NEW X \in SUBSET Clients
  PROVE  /\ Orphaned(X) \in Seq(Entries) /\ Len(Orphaned(X)) = Len(store)
         /\ \A i \in 1..Len(store) :
              IF store[i].client \in X THEN Orphaned(X)[i].client = Nobody
              ELSE Orphaned(X)[i] = store[i]
<1> DEFINE entry(i) == IF store[i].client \in X THEN [store[i] EXCEPT !.client = Nobody] ELSE store[i]
<1>1. Len(store) \in Nat /\ \A i \in 1..Len(store) : store[i] \in Entries  BY DEF Typed
<1>2. \A i \in 1..Len(store) : entry(i) \in Entries  BY <1>1 DEF Entries
<1>3. Orphaned(X) = [i \in 1..Len(store) |-> entry(i)]  BY DEF Orphaned
<1>4. \A i \in 1..Len(store) : store[i].client \in X => entry(i).client = Nobody
  BY <1>1 DEF Entries
<1> HIDE DEF entry
<1>5. Orphaned(X) \in Seq(Entries) /\ Len(Orphaned(X)) = Len(store)  BY <1>1, <1>2, <1>3
<1>6. \A i \in 1..Len(store) : Orphaned(X)[i] = entry(i)  BY <1>3
<1> QED  BY <1>4, <1>5, <1>6 DEF entry

\* No more tasks, no more permits.
LEMMA FewerTasks ==
  ASSUME Permitted, \A s \in Servers : Tasks(s)' \subseteq Tasks(s)
  PROVE  Permitted'
<1> SUFFICES ASSUME NEW s \in Servers
             PROVE  IsFiniteSet(Tasks(s)') /\ Cardinality(Tasks(s)') <= Permits
  BY DEF Permitted
<1>1. IsFiniteSet(Tasks(s)) /\ Cardinality(Tasks(s)) <= Permits  BY DEF Permitted
<1>2. Tasks(s)' \subseteq Tasks(s)  OBVIOUS
<1>3. IsFiniteSet(Tasks(s)') /\ Cardinality(Tasks(s)') <= Cardinality(Tasks(s))
  BY <1>1, <1>2, FS_Subset
<1>4. Cardinality(Tasks(s)) \in Nat /\ Cardinality(Tasks(s)') \in Nat  BY <1>1, <1>3, FS_CardinalityType
<1> QED  BY <1>1, <1>3, <1>4, BoundAssumption

\* Closing connections keeps what is known of the others, whatever becomes of their
\* entries in the queue.
LEMMA ClosedKeeps ==
  ASSUME Typed, Followed, Permitted, OutcomeIsKnown,
         NEW X \in SUBSET Clients, Closed(X), UNCHANGED fate
  PROVE  Followed' /\ Permitted' /\ OutcomeIsKnown'
<1>1. /\ \A c \in X : conn'[c] = None /\ said'[c] \in {said[c], "closed"}
      /\ \A c \in Clients \ X : conn'[c] = conn[c] /\ said'[c] = said[c]
  BY ClosedEnds
<1>2. Followed'
  BY <1>1 DEF Followed, FateOf, None, Asking
<1>3. \A s \in Servers : Tasks(s)' \subseteq Tasks(s)
  BY <1>1, ServerAssumption DEF Tasks, None
<1>4. Permitted'  BY <1>3, FewerTasks
<1>5. OutcomeIsKnown'  BY <1>1 DEF OutcomeIsKnown
<1> QED  BY <1>2, <1>4, <1>5

\* So it keeps the queue, if the entries of the closed connections are orphaned.
LEMMA OrphanedQueue ==
  ASSUME Typed, Queued, NEW X \in SUBSET Clients, Closed(X), store' = Orphaned(X)
  PROVE  Queued'
<1>1. /\ \A c \in X : conn'[c] = None
      /\ \A c \in Clients \ X : conn'[c] = conn[c]
  BY ClosedEnds
<1>2. /\ Len(store') = Len(store)
      /\ \A i \in 1..Len(store) : store[i] \in Entries
      /\ \A i \in 1..Len(store) :
           IF store[i].client \in X THEN store'[i].client = Nobody ELSE store'[i] = store[i]
  BY OrphanedKeeps DEF Typed
<1>3. \A i \in 1..Len(store') : Fits(store[i])'
  <2> SUFFICES ASSUME NEW i \in 1..Len(store')  PROVE Fits(store[i])'  OBVIOUS
  <2>1. Fits(store[i]) /\ store[i] \in Entries  BY <1>2 DEF Queued
  <2>2. CASE store[i].client \in X  BY <2>2, <1>2, ServerAssumption DEF Fits
  <2>3. CASE store[i].client \notin X
    BY <2>1, <2>3, <1>1, <1>2 DEF Fits
  <2> QED  BY <2>2, <2>3
<1>4. Apart(store')
  BY <1>2, ServerAssumption DEF Queued, Apart
<1>5. \A c \in Clients :
        conn'[c].phase \in {"auth", "store"} => \E i \in 1..Len(store') : store'[i].client = c
  BY <1>1, <1>2 DEF Queued, None
<1> QED  BY <1>3, <1>4, <1>5 DEF Queued, Apart

-----------------------------------------------------------------------------
(* What the steps of each part keep                                        *)

\* Where connections and queue stay as they are, so does what is known of them.
LEMMA ConnectionsStay ==
  ASSUME Followed, Queued, Permitted, OutcomeIsKnown, UNCHANGED <<store, conn, said, fate>>
  PROVE  Followed' /\ Queued' /\ Permitted' /\ OutcomeIsKnown'
<1>1. Followed'  BY DEF Followed, FateOf
<1>2. Queued'  BY DEF Queued, Fits, Apart
<1>3. Permitted'  BY DEF Permitted, Tasks
<1>4. OutcomeIsKnown'  BY DEF OutcomeIsKnown
<1> QED  BY <1>1, <1>2, <1>3, <1>4

\* Starting, serving and ending, one process after the other.
LEMMA ProcessSteps ==
  ASSUME IInv, NEW s \in Servers,
         Start(s) \/ PrepareSocket(s) \/ Bind(s) \/ Signal(s) \/ Drained(s) \/ RemoveSocket(s)
  PROVE  IInv'
<1>1. UNCHANGED <<store, conn, said, fate>>
  BY DEF Start, PrepareSocket, Bind, Signal, Drained, RemoveSocket
<1>2. Followed' /\ Queued' /\ Permitted' /\ OutcomeIsKnown'
  BY <1>1, ConnectionsStay DEF IInv
<1>3. Typed /\ Owned /\ Attached /\ SocketReachesServer  BY DEF IInv
<1>4. Typed' /\ Owned' /\ SocketReachesServer'
  BY <1>1, <1>3, ServerAssumption
  DEF Typed, Phases, Owned, SocketReachesServer, Listening,
      Start, PrepareSocket, Bind, Signal, Drained, RemoveSocket
<1>5. Attached'
  <2> SUFFICES ASSUME NEW c \in Clients, conn[c].phase # "none"
               PROVE  /\ lock' \in Servers /\ conn[c].at = lock'
                      /\ Listening(lock)' \/ (phase'[lock'] = "draining" /\ conn[c].phase # "backlog")
    BY <1>1, <1>3 DEF Attached, None
  <2>1. /\ lock \in Servers /\ conn[c].at = lock
        /\ Listening(lock) \/ (phase[lock] = "draining" /\ conn[c].phase # "backlog")
    BY <1>3 DEF Attached
  <2>2. phase[s] # "off" => s = lock  BY <1>3 DEF Owned
  <2>3. Drained(s) => c \in Tasks(s)  BY <2>1, <2>2 DEF Drained, Tasks, Listening
  <2> QED
    BY <2>1, <2>2, <2>3, <1>3, ServerAssumption
    DEF Typed, Listening, Start, PrepareSocket, Bind, Signal, Drained, RemoveSocket
<1> QED  BY <1>2, <1>4, <1>5 DEF IInv

\* The process is gone, and everything that was its own.
LEMMA GoneSteps ==
  ASSUME IInv, NEW s \in Servers, Exit(s) \/ Kill(s)
  PROVE  IInv'
<1>1. lock = s /\ Gone(s)  BY DEF IInv, Owned, Exit, Kill
<1>2. OpenAt(s) \subseteq Clients  BY DEF OpenAt
<1>3. Closed(OpenAt(s)) /\ UNCHANGED <<socket, fate>> /\ store' = <<>> /\ lock' = Nobody
      /\ phase' = [phase EXCEPT ![s] = "off"]
  BY <1>1 DEF Gone
<1>4. Typed /\ Owned /\ Attached /\ Followed /\ Permitted /\ OutcomeIsKnown /\ SocketReachesServer
  BY DEF IInv
<1>5. Followed' /\ Permitted' /\ OutcomeIsKnown'
  BY <1>2, <1>3, <1>4, ClosedKeeps
<1>6. \A c \in Clients : conn'[c] = None
  BY <1>1, <1>2, <1>3, <1>4, ClosedEnds DEF Attached, OpenAt, None
<1>7. Typed'
  BY <1>2, <1>3, <1>4, ClosedEnds DEF Typed, Phases
<1>8. Owned' /\ SocketReachesServer'
  BY <1>1, <1>3, <1>4 DEF Typed, Owned, SocketReachesServer, Listening
<1>9. Attached' /\ Queued'
  BY <1>3, <1>6 DEF Attached, Queued, Apart, None
<1> QED  BY <1>5, <1>7, <1>8, <1>9 DEF IInv

\* Connections end at once, and their entries are orphaned, when the loop breaks, the
\* grace period is over or accept fails.
LEMMA ClosingSteps ==
  ASSUME IInv, NEW s \in Servers, Break(s) \/ GraceExpires(s) \/ AcceptFails(s)
  PROVE  IInv'
<1>1. Typed /\ Owned /\ Attached /\ Followed /\ Queued /\ Permitted /\ OutcomeIsKnown
      /\ SocketReachesServer
  BY DEF IInv
<1>2. lock = s  BY <1>1 DEF Owned, Break, GraceExpires, AcceptFails
<1>3. PICK X \in SUBSET Clients :
        /\ Closed(X) /\ UNCHANGED <<lock, socket, fate>>
        /\ IF Break(s) THEN X = OpenAt(s) \ Tasks(s) /\ store' = store ELSE store' = Orphaned(X)
        /\ phase[s] = "draining" => X = Tasks(s)
        /\ ~Break(s) /\ phase[s] # "draining" => X = OpenAt(s)
        /\ phase' = [phase EXCEPT ![s] = IF Break(s) THEN "draining"
                                         ELSE IF GraceExpires(s) THEN "removing" ELSE "ending"]
  BY DEF Break, GraceExpires, AcceptFails, OpenAt, Tasks
<1>4. /\ conn' \in [Clients -> Connections]
      /\ said' \in [Clients -> {"nothing", "ok", "error", "written", "closed"}]
      /\ \A c \in X : conn'[c] = None
      /\ \A c \in Clients \ X : conn'[c] = conn[c]
  BY <1>1, <1>3, ClosedEnds
<1>5. Followed' /\ Permitted' /\ OutcomeIsKnown'
  BY <1>1, <1>3, ClosedKeeps
<1>6. Typed'
  BY <1>1, <1>3, <1>4, OrphanedKeeps DEF Typed, Phases
<1>7. Owned' /\ SocketReachesServer'
  BY <1>1, <1>2, <1>3 DEF Typed, Owned, SocketReachesServer, Listening
<1>8. Queued'
  <2>1. CASE Break(s)
    <3>1. \A c \in X : conn[c].phase = "backlog"  BY <2>1, <1>3 DEF OpenAt, Tasks
    <3>2. \A c \in Clients : conn'[c].phase \in {"auth", "store"} \/ conn[c].phase \in {"auth", "store"}
            => conn'[c] = conn[c]
      BY <3>1, <1>4 DEF None
    <3> QED  BY <2>1, <3>2, <1>1, <1>3 DEF Queued, Fits, Apart
  <2>2. CASE ~Break(s)
    BY <2>2, <1>1, <1>3, OrphanedQueue
  <2> QED  BY <2>1, <2>2
<1>9. Attached'
  <2> SUFFICES ASSUME NEW c \in Clients
               PROVE  /\ conn'[c].phase = "none" => conn'[c] = None
                      /\ conn'[c].phase # "none" =>
                           /\ lock' \in Servers /\ conn'[c].at = lock'
                           /\ Listening(lock)' \/ (phase'[lock'] = "draining" /\ conn'[c].phase # "backlog")
    BY DEF Attached
  <2>1. CASE c \in X  BY <2>1, <1>4 DEF None
  <2>2. CASE c \notin X /\ conn[c].phase = "none"  BY <2>2, <1>1, <1>4 DEF Attached
  <2>3. CASE c \notin X /\ conn[c].phase # "none"
    <3>1. c \in OpenAt(s)  BY <2>3, <1>1, <1>2 DEF Attached, OpenAt
    <3>2. phase[s] = "draining" => c \in Tasks(s)
      BY <2>3, <1>1, <1>2 DEF Attached, Tasks, Listening
    <3>3. Break(s) /\ conn[c].phase # "backlog"
      BY <2>3, <3>1, <3>2, <1>3 DEF OpenAt, Tasks
    <3> QED  BY <2>3, <3>3, <1>1, <1>2, <1>3, <1>4 DEF Typed, Attached, Listening
  <2> QED  BY <2>1, <2>2, <2>3
<1> QED  BY <1>5, <1>6, <1>7, <1>8, <1>9 DEF IInv

\* Only the connection of c moves, to a point where what it knows is right.
Moves(c) ==
  /\ conn' \in [Clients -> Connections]
  /\ said' \in [Clients -> {"nothing", "ok", "error", "written", "closed"}]
  /\ fate' \in [Clients -> {"none", "queued", "committed"}]
  /\ store' \in Seq(Entries)
  /\ UNCHANGED <<phase, lock, socket>>
  /\ \A d \in Clients \ {c} : conn'[d] = conn[d] /\ said'[d] = said[d] /\ fate'[d] = fate[d]
  /\ conn[c].phase # "none"
  /\ conn'[c] # None => conn'[c].at = conn[c].at /\ conn'[c].phase \notin {"none", "backlog"}
  /\ FateOf(c)' /\ (conn'[c].phase \in Asking => said'[c] = "nothing")
  /\ said'[c] = "written" => fate'[c] = "committed"
  /\ said'[c] = "error" => fate'[c] = "none"

LEMMA MovesKeeps ==
  ASSUME IInv, NEW c \in Clients, Moves(c)
  PROVE  /\ Typed' /\ Owned' /\ Attached' /\ Followed' /\ SocketReachesServer' /\ OutcomeIsKnown'
         /\ conn[c].phase # "backlog" => Permitted'
<1>1. Typed /\ Owned /\ Attached /\ Followed /\ Permitted /\ SocketReachesServer /\ OutcomeIsKnown
  BY DEF IInv
<1>2. Typed'  BY <1>1 DEF Typed, Moves
<1>3. Owned' /\ SocketReachesServer'
  BY <1>1 DEF Moves, Owned, SocketReachesServer, Listening
<1>4. Attached'
  BY <1>1 DEF Moves, Attached, Listening, None
<1>5. Followed'
  <2> SUFFICES ASSUME NEW d \in Clients
               PROVE  FateOf(d)' /\ (conn'[d].phase \in Asking => said'[d] = "nothing")
    BY DEF Followed
  <2>1. CASE d = c  BY <2>1 DEF Moves
  <2>2. CASE d # c  BY <2>2, <1>1 DEF Moves, Followed, FateOf
  <2> QED  BY <2>1, <2>2
<1>6. OutcomeIsKnown'  BY <1>1 DEF Moves, OutcomeIsKnown
<1>7. ASSUME conn[c].phase # "backlog"  PROVE Permitted'
  <2>1. \A s \in Servers : Tasks(s)' \subseteq Tasks(s)
    BY <1>7, ServerAssumption DEF Moves, Tasks, None
  <2> QED  BY <2>1, <1>1, FewerTasks
<1> QED  BY <1>2, <1>3, <1>4, <1>5, <1>6, <1>7

\* The queue when c neither waits nor comes to wait,
LEMMA QueueStays ==
  ASSUME Typed, Queued, NEW c \in Clients, store' = store,
         \A d \in Clients \ {c} : conn'[d] = conn[d],
         conn[c].phase \notin {"auth", "store"}, conn'[c].phase \notin {"auth", "store"}
  PROVE  Queued'
<1>1. \A i \in 1..Len(store) : store[i].client # c
  BY DEF Queued, Fits
<1>2. \A i \in 1..Len(store) : Fits(store[i])'
  BY <1>1 DEF Queued, Fits
<1>3. Apart(store)'  BY DEF Queued, Apart
<1>4. \A d \in Clients :
        conn'[d].phase \in {"auth", "store"} => \E i \in 1..Len(store) : store[i].client = d
  BY DEF Queued
<1> QED  BY <1>2, <1>3, <1>4 DEF Queued

\* when it asks the store,
LEMMA QueueGrows ==
  ASSUME Typed, Queued, NEW c \in Clients, NEW op \in Ops,
         store' = Append(store, [client |-> c, op |-> op]),
         \A d \in Clients \ {c} : conn'[d] = conn[d],
         conn[c].phase \notin {"auth", "store"}, Fits([client |-> c, op |-> op])'
  PROVE  Queued' /\ store' \in Seq(Entries)
<1> DEFINE e == [client |-> c, op |-> op]
<1>1. e \in Entries /\ e.client = c  BY DEF Entries
<1> HIDE DEF e
<1>2. /\ store' \in Seq(Entries) /\ Len(store') = Len(store) + 1 /\ Len(store) \in Nat
      /\ \A i \in 1..Len(store) : store'[i] = store[i]
      /\ store'[Len(store) + 1] = e
  BY <1>1 DEF Typed, e
<1>3. \A i \in 1..Len(store) : store[i].client # c
  BY DEF Queued, Fits
<1>4. \A i \in 1..Len(store') : Fits(store[i])'
  <2> SUFFICES ASSUME NEW i \in 1..Len(store')  PROVE Fits(store[i])'  OBVIOUS
  <2>1. CASE i = Len(store) + 1  BY <2>1, <1>2 DEF e
  <2>2. CASE i \in 1..Len(store)
    BY <2>2, <1>2, <1>3 DEF Queued, Fits
  <2> QED  BY <2>1, <2>2, <1>2
<1>5. Apart(store)'  BY <1>1, <1>2, <1>3 DEF Queued, Apart
<1>6. \A d \in Clients :
        conn'[d].phase \in {"auth", "store"} => \E i \in 1..Len(store') : store'[i].client = d
  BY <1>1, <1>2 DEF Queued
<1> QED  BY <1>2, <1>4, <1>5, <1>6 DEF Queued

\* and when the store takes the first entry.
LEMMA QueueShrinks ==
  ASSUME Typed, Queued, store # <<>>, store' = Tail(store),
         \A d \in Clients \ {Head(store).client} : conn'[d] = conn[d],
         Head(store).client \in Clients => conn'[Head(store).client].phase \notin {"auth", "store"}
  PROVE  Queued' /\ store' \in Seq(Entries)
<1>1. /\ store' \in Seq(Entries) /\ Len(store') = Len(store) - 1 /\ Len(store) \in Nat \ {0}
      /\ \A i \in 1..Len(store') : store'[i] = store[i + 1]
      /\ Head(store) = store[1]
  BY DEF Typed
<1>2. \A i \in 1..Len(store') : store'[i].client = Head(store).client => store'[i].client \notin Clients
  BY <1>1 DEF Queued, Apart
<1>3. \A i \in 1..Len(store') : Fits(store[i])'
  <2> SUFFICES ASSUME NEW i \in 1..Len(store')  PROVE Fits(store[i])'  OBVIOUS
  <2>1. Fits(store[i + 1]) /\ store'[i] = store[i + 1]  BY <1>1 DEF Queued
  <2> QED  BY <2>1, <1>2 DEF Fits
<1>4. Apart(store)'  BY <1>1 DEF Queued, Apart
<1>5. \A d \in Clients :
        conn'[d].phase \in {"auth", "store"} => \E i \in 1..Len(store') : store'[i].client = d
  <2> SUFFICES ASSUME NEW d \in Clients, conn'[d].phase \in {"auth", "store"}
               PROVE  \E i \in 1..Len(store') : store'[i].client = d
    OBVIOUS
  <2>1. PICK j \in 1..Len(store) : store[j].client = d  BY DEF Queued
  <2>2. j # 1  BY <2>1, <1>1
  <2>3. j - 1 \in 1..Len(store') /\ store'[j - 1].client = d  BY <1>1, <2>1, <2>2
  <2> QED  BY <2>3
<1> QED  BY <1>1, <1>3, <1>4, <1>5 DEF Queued

\* A connection that ends by itself is between two requests or has its answer.
LEMMA EndedKeeps ==
  ASSUME IInv, NEW c \in Clients, conn[c].phase \notin {"none", "auth", "store"},
         Closed({c}), UNCHANGED <<phase, lock, socket, store, fate>>
  PROVE  IInv'
<1>1. Typed /\ Attached /\ Followed /\ Queued /\ Permitted /\ OutcomeIsKnown  BY DEF IInv
<1>2. /\ conn' \in [Clients -> Connections]
      /\ said' \in [Clients -> {"nothing", "ok", "error", "written", "closed"}]
      /\ conn'[c] = None /\ said'[c] \in {said[c], "closed"}
      /\ \A d \in Clients \ {c} : conn'[d] = conn[d] /\ said'[d] = said[d]
  BY <1>1, ClosedEnds
<1>3. Moves(c)
  BY <1>1, <1>2 DEF Moves, Typed, FateOf, Asking, None, OutcomeIsKnown
<1>4. Queued'  BY <1>1, <1>2, QueueStays DEF None
<1>5. Followed' /\ Permitted' /\ OutcomeIsKnown'
  BY <1>1, ClosedKeeps
<1> QED  BY <1>3, <1>4, <1>5, MovesKeeps DEF IInv

LEMMA AcceptStep ==
  ASSUME IInv, NEW s \in Servers, NEW c \in Clients, Accept(s, c)
  PROVE  IInv'
<1>1. Typed /\ Attached /\ Followed /\ Queued /\ Permitted /\ OutcomeIsKnown  BY DEF IInv
<1>2. conn[c].phase = "backlog" /\ conn[c].at = s /\ UNCHANGED <<phase, lock, socket, store, fate>>
  BY DEF Accept
<1>3. CASE PermitsTaken(s) < Permits
  <2>1. conn' = [conn EXCEPT ![c].phase = "reading"] /\ said' = said  BY <1>3 DEF Accept
  <2>2. conn' \in [Clients -> Connections] /\ conn'[c].phase = "reading" /\ conn'[c].at = s
        /\ \A d \in Clients \ {c} : conn'[d] = conn[d]
    BY <1>1, <1>2, <2>1, ZenonT(60) DEF Typed, Connections
  <2>3. Moves(c)
    BY <1>1, <1>2, <2>1, <2>2 DEF Moves, Typed, FateOf, Asking, OutcomeIsKnown
  <2>4. Queued'  BY <1>1, <1>2, <2>2, QueueStays
  <2>5. Permitted'
    <3> SUFFICES ASSUME NEW u \in Servers
                 PROVE  IsFiniteSet(Tasks(u)') /\ Cardinality(Tasks(u)') <= Permits
      BY DEF Permitted
    <3>1. IsFiniteSet(Tasks(u)) /\ Cardinality(Tasks(u)) <= Permits  BY <1>1 DEF Permitted
    <3>2. CASE u # s
      <4>1. Tasks(u)' = Tasks(u)  BY <3>2, <1>2, <2>2 DEF Tasks
      <4> QED  BY <3>1, <4>1
    <3>3. CASE u = s
      <4>1. Tasks(u)' = Tasks(u) \cup {c} /\ c \notin Tasks(u)  BY <3>3, <1>2, <2>2 DEF Tasks
      <4>2. IsFiniteSet(Tasks(u)') /\ Cardinality(Tasks(u)') = Cardinality(Tasks(u)) + 1
        BY <3>1, <4>1, FS_AddElement
      <4>3. Cardinality(Tasks(u)) \in Nat  BY <3>1, FS_CardinalityType
      <4> QED  BY <1>3, <3>3, <4>2, <4>3, BoundAssumption DEF PermitsTaken
    <3> QED  BY <3>2, <3>3
  <2> QED  BY <2>3, <2>4, <2>5, MovesKeeps, <1>1 DEF IInv
<1>4. CASE ~(PermitsTaken(s) < Permits)
  BY <1>2, <1>4, EndedKeeps DEF Accept
<1> QED  BY <1>3, <1>4

\* A connection is made to the process that listens, which has the lock.
LEMMA ConnectStep ==
  ASSUME IInv, NEW c \in Clients, Connect(c)
  PROVE  IInv'
<1>1. Typed /\ Owned /\ Attached /\ Followed /\ Queued /\ Permitted /\ OutcomeIsKnown
      /\ SocketReachesServer
  BY DEF IInv
<1>2. conn[c] = None /\ socket \in Servers /\ Listening(socket) /\ UNCHANGED <<phase, lock, socket, store, said, fate>>
  BY <1>1 DEF Connect, Typed
<1>3. lock = socket  BY <1>1, <1>2 DEF Owned, Listening
<1>4. /\ conn'[c] = [at |-> socket, phase |-> "backlog", kind |-> "none", answer |-> "none", count |-> 0]
      /\ \A d \in Clients \ {c} : conn'[d] = conn[d]
      /\ conn' \in [Clients -> Connections]
  BY <1>1, <1>2 DEF Connect, None, Typed, Connections
<1>5. Typed' /\ Owned' /\ SocketReachesServer' /\ OutcomeIsKnown'
  BY <1>1, <1>2, <1>4 DEF Typed, Owned, SocketReachesServer, OutcomeIsKnown, Listening
<1>6. Attached'  BY <1>1, <1>2, <1>3, <1>4 DEF Attached, Listening
<1>7. Followed'
  <2> SUFFICES ASSUME NEW d \in Clients
               PROVE  FateOf(d)' /\ (conn'[d].phase \in Asking => said'[d] = "nothing")
    BY DEF Followed
  <2>1. CASE d = c  BY <2>1, <1>4 DEF FateOf, Asking
  <2>2. CASE d # c  BY <2>2, <1>1, <1>2, <1>4 DEF Followed, FateOf
  <2> QED  BY <2>1, <2>2
<1>8. Queued'  BY <1>1, <1>2, <1>4, QueueStays DEF None
<1>9. Permitted'
  <2>1. \A s \in Servers : Tasks(s)' \subseteq Tasks(s)  BY <1>4 DEF Tasks
  <2> QED  BY <1>1, <2>1, FewerTasks
<1> QED  BY <1>5, <1>6, <1>7, <1>8, <1>9 DEF IInv

\* A step of a connection to a point between its other waits: not to or from the store.
LEMMA MovesAside ==
  ASSUME IInv, NEW c \in Clients, Moves(c), store' = store,
         conn[c].phase \notin {"backlog", "auth", "store"}, conn'[c].phase \notin {"auth", "store"}
  PROVE  IInv'
<1>1. Queued'  BY QueueStays DEF IInv, Moves
<1> QED  BY <1>1, MovesKeeps DEF IInv

\* An answer goes to c, whose connection is otherwise as it was.
LEMMA AnswerMoves ==
  ASSUME Typed, NEW c \in Clients, NEW answer \in {"ok", "error"}, Answer(c, answer)
  PROVE  /\ conn'[c].phase = "answered" /\ conn'[c].answer = answer
         /\ conn'[c].at = conn[c].at /\ conn'[c].kind = conn[c].kind
         /\ conn' \in [Clients -> Connections]
         /\ \A d \in Clients \ {c} : conn'[d] = conn[d]
BY ZenonT(60) DEF Answer, Typed, Connections, Asking

LEMMA SendStep ==
  ASSUME IInv, NEW c \in Clients, NEW kind \in Kinds[c], Send(c, kind)
  PROVE  IInv'
<1>1. Typed /\ kind \in RequestKinds  BY KindAssumption DEF IInv, RequestKinds
<1>2. conn[c].phase = "reading" /\ UNCHANGED <<phase, lock, socket, store>>  BY DEF Send
<1>3. /\ conn'[c].phase = "sent" /\ conn'[c].at = conn[c].at
      /\ conn' \in [Clients -> Connections]
      /\ \A d \in Clients \ {c} : conn'[d] = conn[d]
  <2>1. conn' = [conn EXCEPT ![c].phase = "sent", ![c].kind = kind]  BY DEF Send
  <2>2. conn' \in [Clients -> Connections]
    <3> DEFINE sent == [conn[c] EXCEPT !.phase = "sent"]
               full == [sent EXCEPT !.kind = kind]
    <3>1. sent \in Connections
      <4>1. conn[c] \in Connections /\ "sent" \in Asking  BY <1>1 DEF Typed, Asking
      <4> QED  BY <4>1 DEF Connections
    <3> HIDE DEF sent
    <3>2. full \in Connections
      <4>1. kind \in RequestKinds \cup {"none"}  BY <1>1
      <4> HIDE DEF RequestKinds
      <4> QED  BY <3>1, <4>1 DEF Connections
    <3>3. conn' = [conn EXCEPT ![c] = full]  BY <2>1 DEF sent
    <3> HIDE DEF full
    <3> QED  BY <1>1, <3>2, <3>3 DEF Typed
  <2>3. conn'[c].phase = "sent" /\ conn'[c].at = conn[c].at  BY <1>1, <2>1 DEF Typed, Connections
  <2>4. \A d \in Clients \ {c} : conn'[d] = conn[d]  BY <1>1, <2>1 DEF Typed
  <2> QED  BY <2>2, <2>3, <2>4
<1>4. /\ said'[c] = "nothing" /\ fate'[c] = "none"
      /\ said' \in [Clients -> {"nothing", "ok", "error", "written", "closed"}]
      /\ fate' \in [Clients -> {"none", "queued", "committed"}]
      /\ \A d \in Clients \ {c} : said'[d] = said[d] /\ fate'[d] = fate[d]
  BY <1>1 DEF Send, Typed
<1>5. Moves(c)
  BY <1>1, <1>2, <1>3, <1>4 DEF Moves, Typed, FateOf
<1> QED  BY <1>2, <1>3, <1>5, MovesAside

\* The steps of a handler that leave the store alone.
LEMMA HandlerSteps ==
  ASSUME IInv, NEW c \in Clients,
         \/ conn[c].kind = "json" /\ Dispatch(c)
         \/ Refused(c)
         \/ ~(conn[c].kind = "large" /\ conn[c].answer = "ok") /\ Encode(c)
         \/ Write(c)
  PROVE  IInv'
<1>1. Typed /\ Attached /\ Followed /\ OutcomeIsKnown /\ conn[c] \in Connections  BY DEF IInv, Typed
<1>2. UNCHANGED <<phase, lock, socket, store, fate>>  BY DEF Dispatch, Refused, Encode, Write
<1>3. CASE (conn[c].kind = "json" /\ Dispatch(c)) \/ Refused(c)
  <2>1. conn[c].phase \in {"sent", "call"} /\ Answer(c, "error") /\ said' = said
    BY <1>3 DEF Dispatch, Refused
  <2>2. /\ conn'[c].phase = "answered" /\ conn'[c].answer = "error"
        /\ conn'[c].at = conn[c].at /\ conn'[c].kind = conn[c].kind
        /\ conn' \in [Clients -> Connections]
        /\ \A d \in Clients \ {c} : conn'[d] = conn[d]
    BY <1>1, <2>1, AnswerMoves
  <2> QED  BY <1>1, <1>2, <2>1, <2>2, MovesAside DEF Moves, Typed, Followed, FateOf, Asking, OutcomeIsKnown
<1>4. CASE ~(conn[c].kind = "large" /\ conn[c].answer = "ok") /\ Encode(c)
  <2>1. conn[c].phase = "answered" /\ conn' = [conn EXCEPT ![c].phase = "writing"] /\ said' = said
    BY <1>4 DEF Encode
  <2>2. /\ conn'[c].phase = "writing" /\ conn'[c].answer = conn[c].answer
        /\ conn'[c].at = conn[c].at /\ conn'[c].kind = conn[c].kind
        /\ conn' \in [Clients -> Connections]
        /\ \A d \in Clients \ {c} : conn'[d] = conn[d]
    BY <1>1, <2>1 DEF Typed, Connections, Asking
  <2> QED  BY <1>1, <1>2, <2>1, <2>2, MovesAside DEF Moves, Typed, Followed, FateOf, Asking, OutcomeIsKnown
<1>5. CASE Write(c)
  <2> DEFINE next == IF Count(c) = Limit THEN None
                     ELSE [None EXCEPT !.at = conn[c].at, !.phase = "reading", !.count = Count(c)]
             told == IF conn[c].kind \in Writes /\ conn[c].answer = "ok" THEN "written" ELSE conn[c].answer
  <2>1. /\ conn[c].phase = "writing"
        /\ conn' = [conn EXCEPT ![c] = next] /\ said' = [said EXCEPT ![c] = told]
    BY <1>5 DEF Write
  <2>2. next \in Connections /\ next.phase \in {"none", "reading"}
        /\ (next # None => next.at = conn[c].at /\ next.phase = "reading")
    <3>1. Count(c) \in Nat /\ conn[c].at \in Servers \cup {Nobody}  BY <1>1 DEF Count, Connections
    <3>2. None \in Connections  BY DEF None, Connections
    <3>3. [None EXCEPT !.at = conn[c].at, !.phase = "reading", !.count = Count(c)] \in Connections
      BY <3>1, <3>2 DEF Connections
    <3>4. /\ [None EXCEPT !.at = conn[c].at, !.phase = "reading", !.count = Count(c)].at = conn[c].at
          /\ [None EXCEPT !.at = conn[c].at, !.phase = "reading", !.count = Count(c)].phase = "reading"
      BY <3>1, <3>2 DEF Connections
    <3> QED  BY <3>2, <3>3, <3>4 DEF None
  <2>3. /\ told \in {"ok", "error", "written"}
        /\ told = "written" => fate[c] = "committed"
        /\ told = "error" => fate[c] = "none"
    BY <1>1, <2>1 DEF Followed, FateOf, Connections
  <2> HIDE DEF next, told
  <2>4. /\ conn'[c] = next /\ said'[c] = told
        /\ conn' \in [Clients -> Connections]
        /\ said' \in [Clients -> {"nothing", "ok", "error", "written", "closed"}]
        /\ \A d \in Clients \ {c} : conn'[d] = conn[d] /\ said'[d] = said[d]
    BY <1>1, <2>1, <2>2, <2>3 DEF Typed
  <2>5. Moves(c)
    BY <1>1, <1>2, <2>1, <2>2, <2>3, <2>4 DEF Moves, Typed, FateOf, Asking
  <2> QED  BY <1>2, <2>1, <2>2, <2>4, <2>5, MovesAside
<1> QED  BY <1>3, <1>4, <1>5

\* Asking the store: for the token of a request, for health, or for the request itself.
LEMMA AskKeeps ==
  ASSUME IInv, NEW c \in Clients, NEW op \in Ops, NEW next \in {"auth", "store"},
         Ask(c, op, next), conn[c].phase \in {"sent", "call"},
         fate' \in [Clients -> {"none", "queued", "committed"}],
         \A d \in Clients \ {c} : fate'[d] = fate[d],
         fate'[c] = IF op = "commit" THEN "queued" ELSE "none",
         next = IF op = "authenticate" THEN "auth" ELSE "store",
         op # "authenticate" => (op = "commit" <=> conn[c].kind \in Writes),
         UNCHANGED <<phase, lock, socket, said>>
  PROVE  IInv'
<1>1. Typed /\ Attached /\ Followed /\ Queued /\ OutcomeIsKnown /\ conn[c] \in Connections  BY DEF IInv, Typed
<1>2. /\ conn'[c] = [at |-> conn[c].at, phase |-> next, kind |-> conn[c].kind,
                     answer |-> conn[c].answer, count |-> conn[c].count]
      /\ conn' \in [Clients -> Connections]
      /\ \A d \in Clients \ {c} : conn'[d] = conn[d]
      /\ store' = Append(store, [client |-> c, op |-> op])
  BY <1>1 DEF Ask, Typed, Connections, Asking
<1>3. Fits([client |-> c, op |-> op])'  BY <1>2 DEF Fits
<1>4. Queued' /\ store' \in Seq(Entries)
  BY <1>1, <1>2, <1>3, QueueGrows
<1>5. said[c] = "nothing"  BY <1>1 DEF Followed, Asking
<1>6. Moves(c)
  BY <1>1, <1>2, <1>4, <1>5 DEF Moves, Typed, FateOf
<1> QED  BY <1>4, <1>6, MovesKeeps DEF IInv

LEMMA AskSteps ==
  ASSUME IInv, NEW c \in Clients,
         (conn[c].kind \notin {"frame", "json"} /\ Dispatch(c)) \/ Submit(c)
  PROVE  IInv'
<1>1. Typed /\ Followed  BY DEF IInv
<1>2. fate[c] = "none" /\ conn[c].phase \in {"sent", "call"}
  BY <1>1 DEF Followed, FateOf, Dispatch, Submit
<1>3. CASE conn[c].kind = "health" /\ Dispatch(c)
  <2>1. Ask(c, "read", "store") /\ conn[c].kind \notin Writes /\ UNCHANGED <<phase, lock, socket, fate, said>>
    BY <1>3 DEF Dispatch, Writes
  <2> QED  BY <1>1, <1>2, <2>1, AskKeeps DEF Ops, Typed
<1>4. CASE conn[c].kind \notin {"frame", "json", "health"} /\ Dispatch(c)
  <2>1. Ask(c, "authenticate", "auth") /\ UNCHANGED <<phase, lock, socket, fate, said>>
    BY <1>4 DEF Dispatch
  <2> QED  BY <1>1, <1>2, <2>1, AskKeeps DEF Ops, Typed
<1>5. CASE Submit(c)
  <2> DEFINE op == IF conn[c].kind \in Writes THEN "commit" ELSE "read"
  <2>1. Ask(c, op, "store") /\ UNCHANGED <<phase, lock, socket, said>>
        /\ fate' = [fate EXCEPT ![c] = IF conn[c].kind \in Writes THEN "queued" ELSE "none"]
    BY <1>5 DEF Submit
  <2>2. fate'[c] = (IF op = "commit" THEN "queued" ELSE "none") /\ op \in Ops /\ op # "authenticate"
        /\ (op = "commit" <=> conn[c].kind \in Writes)
        /\ fate' \in [Clients -> {"none", "queued", "committed"}]
        /\ \A d \in Clients \ {c} : fate'[d] = fate[d]
    BY <1>1, <2>1 DEF Ops, Typed
  <2> HIDE DEF op
  <2> QED  BY <1>2, <2>1, <2>2, AskKeeps
<1> QED  BY <1>3, <1>4, <1>5

\* The store answers who waits for the first entry, or nobody.
LEMMA RespondSteps ==
  ASSUME IInv, Respond
  PROVE  IInv'
<1>1. Typed /\ Owned /\ Attached /\ Followed /\ Queued /\ Permitted /\ OutcomeIsKnown
      /\ SocketReachesServer
  BY DEF IInv
<1>2. store # <<>> /\ store' = Tail(store) /\ UNCHANGED <<phase, lock, socket, said>>
  BY DEF Respond, Unheard, Authenticate, Read, Commit, Take
<1>3. ASSUME NEW op, Unheard(op)  PROVE IInv'
  <2>1. Head(store).client = Nobody /\ UNCHANGED <<conn, fate>>  BY <1>3 DEF Unheard
  <2>2. Queued' /\ store' \in Seq(Entries)
    BY <1>1, <1>2, <2>1, QueueShrinks, ServerAssumption
  <2>3. Typed' /\ Owned' /\ SocketReachesServer' /\ OutcomeIsKnown' /\ Attached'
    BY <1>1, <1>2, <2>1, <2>2 DEF Typed, Owned, SocketReachesServer, OutcomeIsKnown, Attached, Listening
  <2>4. Followed' /\ Permitted'
    BY <1>1, <1>2, <2>1 DEF Followed, FateOf, Permitted, Tasks
  <2> QED  BY <2>2, <2>3, <2>4 DEF IInv
<1>4. ASSUME NEW c \in Clients, Authenticate(c) \/ Read(c) \/ Commit(c)  PROVE IInv'
  <2>1. Head(store).client = c /\ Fits(Head(store)) /\ Head(store).op \in Ops
    <3>1. Head(store) = store[1] /\ Len(store) >= 1 /\ store[1] \in Entries  BY <1>1, <1>2 DEF Typed
    <3> QED  BY <1>1, <1>4, <3>1 DEF Queued, Authenticate, Read, Commit, Entries
  <2>2. /\ Authenticate(c) => conn[c].phase = "auth"
        /\ Read(c) => conn[c].phase = "store" /\ conn[c].kind \notin Writes
        /\ Commit(c) => conn[c].phase = "store" /\ conn[c].kind \in Writes
    BY <2>1 DEF Fits, Authenticate, Read, Commit, Take
  <2>3. fate[c] = "none" \/ conn[c].phase = "store"
    BY <1>1, <1>4, <2>2 DEF Followed, FateOf
  <2>4. /\ conn' \in [Clients -> Connections]
        /\ \A d \in Clients \ {c} : conn'[d] = conn[d]
        /\ conn'[c].at = conn[c].at /\ conn'[c].kind = conn[c].kind
        /\ \/ conn'[c].phase = "call" /\ fate' = fate /\ Authenticate(c)
           \/ conn'[c].phase = "answered" /\ conn'[c].answer = "error" /\ fate' = fate /\ Authenticate(c)
           \/ conn'[c].phase = "answered" /\ conn'[c].answer = "ok" /\ fate' = fate /\ Read(c)
           \/ conn'[c].phase = "answered" /\ conn'[c].answer = "ok"
                /\ fate' = [fate EXCEPT ![c] = "committed"]
           \/ conn'[c].phase = "answered" /\ conn'[c].answer = "error"
                /\ fate' = [fate EXCEPT ![c] = "none"]
    <3>1. CASE Authenticate(c) /\ conn[c].kind = "token"
      <4>1. Answer(c, "error") /\ fate' = fate  BY <3>1 DEF Authenticate
      <4> QED  BY <4>1, <3>1, <1>1, AnswerMoves
    <3>2. CASE Authenticate(c) /\ conn[c].kind # "token"
      <4>1. conn' = [conn EXCEPT ![c].phase = "call"] /\ fate' = fate  BY <3>2 DEF Authenticate
      <4>2. conn' \in [Clients -> Connections] /\ \A d \in Clients \ {c} : conn'[d] = conn[d]
        BY <4>1, <1>1, ZenonT(60) DEF Typed, Connections, Asking
      <4>3. conn'[c].at = conn[c].at /\ conn'[c].kind = conn[c].kind /\ conn'[c].phase = "call"
        BY <4>1, <1>1 DEF Typed, Connections
      <4> QED  BY <3>2, <4>1, <4>2, <4>3
    <3>3. CASE Read(c)
      <4>1. Answer(c, "ok") /\ fate' = fate  BY <3>3 DEF Read
      <4> QED  BY <4>1, <3>3, <1>1, AnswerMoves
    <3>4. CASE Commit(c)
      <4>1. \/ Answer(c, "ok") /\ fate' = [fate EXCEPT ![c] = "committed"]
            \/ Answer(c, "error") /\ fate' = [fate EXCEPT ![c] = "none"]
        BY <3>4 DEF Commit
      <4> QED  BY <4>1, <1>1, AnswerMoves
    <3> QED  BY <1>4, <3>1, <3>2, <3>3, <3>4
  <2>5. Queued' /\ store' \in Seq(Entries)
    BY <1>1, <1>2, <2>1, <2>4, QueueShrinks
  <2>6. /\ fate' \in [Clients -> {"none", "queued", "committed"}]
        /\ \A d \in Clients \ {c} : fate'[d] = fate[d]
    BY <1>1, <2>4 DEF Typed
  <2>7. FateOf(c)'
    <3>1. fate'[c] = IF fate' = fate THEN fate[c] ELSE fate'[c]  OBVIOUS
    <3>2. CASE fate' = fate
      <4>1. Authenticate(c) => fate[c] = "none"  BY <1>1, <2>2 DEF Followed, FateOf
      <4>2. Read(c) => conn[c].kind \notin Writes /\ fate[c] = "none"
        BY <1>1, <2>2 DEF Followed, FateOf
      <4>3. fate[c] = "none" \/ ~(Authenticate(c) \/ Read(c))  BY <4>1, <4>2
      <4> QED  BY <3>2, <4>1, <4>2, <4>3, <2>4, <1>1 DEF FateOf, Typed
    <3>3. CASE fate' # fate
      BY <3>3, <2>4, <1>1 DEF FateOf, Typed
    <3> QED  BY <3>2, <3>3
  <2>8. said'[c] = "nothing"
    BY <1>1, <1>2, <1>4, <2>2 DEF Followed, Asking
  <2>9. Moves(c)
    BY <1>1, <1>2, <1>4, <2>2, <2>4, <2>5, <2>6, <2>7, <2>8 DEF Moves, Typed
  <2>10. conn[c].phase # "backlog"  BY <1>4, <2>2
  <2> QED  BY <2>5, <2>9, <2>10, MovesKeeps DEF IInv
<1> QED  BY <1>3, <1>4 DEF Respond

-----------------------------------------------------------------------------
(* The invariant                                                           *)

LEMMA InitEstablishes == Init => IInv
<1> SUFFICES ASSUME Init  PROVE IInv  OBVIOUS
<1>1. Typed /\ Owned /\ Attached /\ SocketReachesServer /\ OutcomeIsKnown
  BY ServerAssumption
  DEF Init, Typed, Phases, Connections, None, Owned, Attached, SocketReachesServer, Listening, OutcomeIsKnown
<1>2. Followed  BY DEF Init, Followed, FateOf, None, Asking
<1>3. Queued  BY DEF Init, Queued, Apart, None
<1>4. Permitted
  <2>1. \A s \in Servers : Tasks(s) = {}  BY ServerAssumption DEF Init, Tasks, None
  <2> QED  BY <2>1, FS_EmptySet, BoundAssumption DEF Permitted
<1> QED  BY <1>1, <1>2, <1>3, <1>4 DEF IInv

LEMMA NextKeeps == IInv /\ [Next]_vars => IInv'
<1> SUFFICES ASSUME IInv, [Next]_vars  PROVE IInv'  OBVIOUS
<1>1. ASSUME NEW s \in Servers, Start(s) \/ Serve(s) \/ Signal(s) \/ AcceptFails(s) \/ Kill(s)
      PROVE  IInv'
  BY <1>1, ProcessSteps, GoneSteps, ClosingSteps DEF Serve
<1>2. ASSUME NEW s \in Servers, NEW c \in Clients, Accept(s, c)  PROVE IInv'
  BY <1>2, AcceptStep
<1>3. ASSUME NEW c \in Clients, Connect(c)  PROVE IInv'  BY <1>3, ConnectStep
<1>4. ASSUME NEW c \in Clients, NEW kind \in Kinds[c], Send(c, kind)  PROVE IInv'
  BY <1>4, SendStep
<1>5. ASSUME NEW c \in Clients, ReadEnds(c) \/ WriteEnds(c)  PROVE IInv'
  BY <1>5, EndedKeeps DEF ReadEnds, WriteEnds
<1>6. ASSUME NEW c \in Clients, Handle(c)  PROVE IInv'
  <2>1. CASE Dispatch(c)
    <3>1. CASE conn[c].kind = "frame"
      <4>1. Closed({c}) /\ UNCHANGED <<phase, lock, socket, store, fate>> /\ conn[c].phase = "sent"
        BY <2>1, <3>1 DEF Dispatch
      <4> QED  BY <4>1, EndedKeeps
    <3> QED  BY <2>1, <3>1, HandlerSteps, AskSteps
  <2>2. CASE Encode(c)
    <3>1. CASE conn[c].kind = "large" /\ conn[c].answer = "ok"
      BY <2>2, <3>1, EndedKeeps DEF Encode
    <3> QED  BY <2>2, <3>1, HandlerSteps
  <2> QED  BY <1>6, <2>1, <2>2, HandlerSteps, AskSteps DEF Handle
<1>7. CASE Respond  BY <1>7, RespondSteps
<1>8. CASE UNCHANGED vars
  BY <1>8, ConnectionsStay
  DEF vars, IInv, Typed, Owned, Attached, SocketReachesServer, Listening
<1> QED  BY <1>1, <1>2, <1>3, <1>4, <1>5, <1>6, <1>7, <1>8 DEF Next

LEMMA Invariance == Spec => []IInv
BY InitEstablishes, NextKeeps, PTL DEF Spec

-----------------------------------------------------------------------------
(* The theorems                                                            *)

\* Who runs has the lock of the data directory, connections are those of who accepts
\* or drains, each that waits for the store has one entry in its queue, and there are no
\* more tasks than permits.
THEOREM ServerTyped == Spec => []TypeOK
<1>1. IInv => TypeOK
  <2> SUFFICES ASSUME IInv  PROVE TypeOK  OBVIOUS
  <2>1. Typed /\ Owned /\ Attached /\ Queued /\ Permitted  BY DEF IInv
  <2>2. \A c \in Clients : conn[c] # None =>
          conn[c].at = lock /\ (Listening(lock) \/ phase[lock] = "draining")
    BY <2>1 DEF Attached
  <2>3. ASSUME NEW c \in Clients
        PROVE  Cardinality({i \in 1..Len(store) : store[i].client = c})
                 = IF conn[c].phase \in {"auth", "store"} THEN 1 ELSE 0
    <3>1. CASE conn[c].phase \in {"auth", "store"}
      <4>1. PICK i \in 1..Len(store) : store[i].client = c  BY <2>1, <3>1 DEF Queued
      <4>2. {j \in 1..Len(store) : store[j].client = c} = {i}
        BY <2>1, <4>1 DEF Queued, Apart
      <4> QED  BY <3>1, <4>2, FS_Singleton
    <3>2. CASE conn[c].phase \notin {"auth", "store"}
      <4>1. {j \in 1..Len(store) : store[j].client = c} = {}
        BY <2>1, <3>2 DEF Queued, Fits
      <4> QED  BY <3>2, <4>1, FS_EmptySet
    <3> QED  BY <3>1, <3>2
  <2>4. \A s \in Servers : Cardinality(Tasks(s)) <= Permits  BY <2>1 DEF Permitted
  <2> QED  BY <2>1, <2>2, <2>3, <2>4 DEF TypeOK, Owned
<1> QED  BY <1>1, Invariance, PTL

\* A client that opens the socket of a process that serves reaches it: prepare_socket, the
\* end of another process and its socket file never come between, for any number of
\* processes.
THEOREM SocketLeadsToServer == Spec => []SocketReachesServer
<1>1. IInv => SocketReachesServer  BY DEF IInv
<1> QED  BY <1>1, Invariance, PTL

\* A client that was told of success or of an error knows what became of its write, although
\* answers that are too large, timeouts, aborts and ends of processes come between.
THEOREM ClientKnowsOutcome == Spec => []OutcomeIsKnown
<1>1. IInv => OutcomeIsKnown  BY DEF IInv
<1> QED  BY <1>1, Invariance, PTL
=============================================================================
