------------------------------ MODULE LocalApi ------------------------------
(***************************************************************************)
(* The local API server: processes that serve one data directory, one      *)
(* after the other, over a Unix socket; their connections, each a task     *)
(* with a permit; the queue of the store thread; and shutdown.             *)
(*                                                                         *)
(* A write is atomic here: LocalWrite has what happens between a request   *)
(* and its commit.  Timeouts may fire whenever they run.                   *)
(***************************************************************************)
EXTENDS Naturals, Sequences, FiniteSets

CONSTANTS
  Servers,   \* processes that are started on the data directory
  Clients,   \* clients, each with one connection at a time
  Nobody,    \* no server, no client
  Kinds,     \* kinds of requests that every client may send
  Permits,   \* connections that a server has tasks for
  Limit      \* requests that a connection may send

ASSUME ServerAssumption == Nobody \notin Servers \cup Clients
ASSUME KindAssumption ==
  Kinds \in [Clients -> SUBSET {"frame", "json", "health", "token", "role", "read", "write", "large"}]
ASSUME BoundAssumption == Permits \in Nat \ {0} /\ Limit \in Nat \ {0}

VARIABLES
  phase,     \* what every process does
  lock,      \* the process that has the lock of the data directory
  socket,    \* the process whose listener the socket file leads to, running or not
  store,     \* requests in the queue of the store thread: [client, op]
  conn,      \* the connection of every client
  said,      \* what a client knows of its last request
  fate       \* what became of it in the database (history)

vars == <<phase, lock, socket, store, conn, said, fate>>

None == [at |-> Nobody, phase |-> "none", kind |-> "none", answer |-> "none", count |-> 0]

Writes == {"write", "large"}
Listening(s) == phase[s] \in {"serving", "signalled"}

\* A task exists from accept to the end of handle_connection, and its permit with it.
Tasks(s) == {c \in Clients : conn[c].at = s /\ conn[c].phase # "backlog"}
\* Seeded fault: the task does not keep its permit.
PermitsDropped(s) == 0
PermitsTaken(s) == Cardinality(Tasks(s))
OpenAt(s) == {c \in Clients : conn[c].at = s}

\* The client sees its connection end; if it waits for an answer it knows nothing.
\* What its handler left in the queue stays there.
Waiting(c) == conn[c].phase \in {"sent", "auth", "call", "store", "answered", "writing"}
Closed(closing) ==
  /\ conn' = [c \in Clients |-> IF c \in closing THEN None ELSE conn[c]]
  /\ said' = [c \in Clients |-> IF c \in closing /\ Waiting(c) THEN "closed" ELSE said[c]]
Orphaned(closing) ==
  [i \in 1..Len(store) |-> IF store[i].client \in closing
                           THEN [store[i] EXCEPT !.client = Nobody] ELSE store[i]]

-----------------------------------------------------------------------------
(* The server                                                              *)

\* lock_data_dir: a second process is refused.
Start(s) ==
  /\ phase[s] = "off" /\ lock = Nobody
  /\ lock' = s
  /\ phase' = [phase EXCEPT ![s] = "starting"]
  /\ UNCHANGED <<socket, store, conn, said, fate>>

\* prepare_socket removes a socket file that is there, whoever's it is.
PrepareSocket(s) ==
  /\ phase[s] = "starting"
  /\ socket' = Nobody
  /\ phase' = [phase EXCEPT ![s] = "binding"]
  /\ UNCHANGED <<lock, store, conn, said, fate>>

Bind(s) ==
  /\ phase[s] = "binding"
  /\ IF socket = Nobody
     THEN socket' = s /\ phase' = [phase EXCEPT ![s] = "serving"]
     ELSE UNCHANGED socket /\ phase' = [phase EXCEPT ![s] = "ending"]
  /\ UNCHANGED <<lock, store, conn, said, fate>>

\* Seeded fault: the select looks for connections first.
AcceptFirst(s) == Listening(s)
\* The select is biased: once the signal is there nothing else is looked at.
MayAccept(s) == phase[s] = "serving"

\* A connection gets a task, or is dropped when all permits are taken.
Accept(s, c) ==
  /\ MayAccept(s)
  /\ conn[c].at = s /\ conn[c].phase = "backlog"
  /\ IF PermitsTaken(s) < Permits
     THEN conn' = [conn EXCEPT ![c].phase = "reading"] /\ UNCHANGED said
     ELSE Closed({c})
  /\ UNCHANGED <<phase, lock, socket, store, fate>>

\* ctrl_c ...
Signal(s) ==
  /\ phase[s] = "serving"
  /\ phase' = [phase EXCEPT ![s] = "signalled"]
  /\ UNCHANGED <<lock, socket, store, conn, said, fate>>

\* ... ends the loop: the listener goes, and with it what was not accepted.
Break(s) ==
  /\ phase[s] = "signalled"
  /\ MayAccept(s) => OpenAt(s) = Tasks(s)
  /\ phase' = [phase EXCEPT ![s] = "draining"]
  /\ Closed(OpenAt(s) \ Tasks(s))
  /\ UNCHANGED <<lock, socket, store, fate>>

Drained(s) ==
  /\ phase[s] = "draining" /\ Tasks(s) = {}
  /\ phase' = [phase EXCEPT ![s] = "removing"]
  /\ UNCHANGED <<lock, socket, store, conn, said, fate>>

\* The handlers that are left are aborted, wherever they wait.
GraceExpires(s) ==
  /\ phase[s] = "draining" /\ Tasks(s) # {}
  /\ phase' = [phase EXCEPT ![s] = "removing"]
  /\ Closed(Tasks(s))
  /\ store' = Orphaned(Tasks(s))
  /\ UNCHANGED <<lock, socket, fate>>

\* Seeded fault: the lock is given up before the socket is removed.
UnlockThenRemove(s) ==
  /\ phase[s] = "removing"
  /\ IF lock = s THEN lock' = Nobody /\ UNCHANGED <<phase, socket>>
     ELSE socket' = Nobody /\ phase' = [phase EXCEPT ![s] = "off"] /\ UNCHANGED lock
  /\ UNCHANGED <<store, conn, said, fate>>
RemoveSocket(s) ==
  /\ phase[s] = "removing"
  /\ socket' = Nobody
  /\ phase' = [phase EXCEPT ![s] = "ending"]
  /\ UNCHANGED <<lock, store, conn, said, fate>>

\* The process is gone: its connections, its lock and what its store had not done.
Gone(s) ==
  /\ phase' = [phase EXCEPT ![s] = "off"]
  /\ lock' = Nobody
  /\ store' = <<>>
  /\ Closed(OpenAt(s))
  /\ UNCHANGED <<socket, fate>>

Exit(s) == phase[s] = "ending" /\ Gone(s)
Kill(s) == phase[s] # "off" /\ lock = s /\ Gone(s)

\* accept fails: serve returns at once, its tasks are aborted, the socket stays.
AcceptFails(s) ==
  /\ phase[s] = "serving"
  /\ phase' = [phase EXCEPT ![s] = "ending"]
  /\ Closed(OpenAt(s))
  /\ store' = Orphaned(OpenAt(s))
  /\ UNCHANGED <<lock, socket, fate>>

-----------------------------------------------------------------------------
(* The clients                                                             *)

Connect(c) ==
  /\ conn[c] = None
  /\ socket # Nobody /\ Listening(socket)
  /\ conn' = [conn EXCEPT ![c] = [None EXCEPT !.at = socket, !.phase = "backlog"]]
  /\ UNCHANGED <<phase, lock, socket, store, said, fate>>

\* A whole request arrives.
Send(c, kind) ==
  /\ conn[c].phase = "reading"
  /\ conn' = [conn EXCEPT ![c].phase = "sent", ![c].kind = kind]
  /\ said' = [said EXCEPT ![c] = "nothing"]
  /\ fate' = [fate EXCEPT ![c] = "none"]
  /\ UNCHANGED <<phase, lock, socket, store>>

-----------------------------------------------------------------------------
(* A connection                                                            *)

\* The next frame does not come, or not all of it, or the client hangs up.
ReadEnds(c) ==
  /\ conn[c].phase = "reading"
  /\ Closed({c})
  /\ UNCHANGED <<phase, lock, socket, store, fate>>

Answer(c, answer) == conn' = [conn EXCEPT ![c].phase = "answered", ![c].answer = answer]
Ask(c, op, next) ==
  /\ store' = Append(store, [client |-> c, op |-> op])
  /\ conn' = [conn EXCEPT ![c].phase = next]

\* A frame of a wrong length ends the connection; a text that is no request, and one
\* without a token that could be one, are answered; health needs no token.
Dispatch(c) ==
  /\ conn[c].phase = "sent"
  /\ CASE conn[c].kind = "frame" -> Closed({c}) /\ UNCHANGED store
       [] conn[c].kind = "json" -> Answer(c, "error") /\ UNCHANGED <<store, said>>
       [] conn[c].kind = "health" -> Ask(c, "read", "store") /\ UNCHANGED said
       [] OTHER -> Ask(c, "authenticate", "auth") /\ UNCHANGED said
  /\ UNCHANGED <<phase, lock, socket, fate>>

\* call_authenticated: a method that is not the role's, a request that does not
\* pass its checks, or one for the store.
Refused(c) ==
  /\ conn[c].phase = "call" /\ conn[c].kind \in Writes \cup {"role"}
  /\ Answer(c, "error")
  /\ UNCHANGED <<phase, lock, socket, store, said, fate>>
Submit(c) ==
  /\ conn[c].phase = "call" /\ conn[c].kind # "role"
  /\ Ask(c, IF conn[c].kind \in Writes THEN "commit" ELSE "read", "store")
  /\ fate' = [fate EXCEPT ![c] = IF conn[c].kind \in Writes THEN "queued" ELSE "none"]
  /\ UNCHANGED <<phase, lock, socket, said>>

\* Seeded fault: an answer that is too large is replaced by an error.
EncodeReplies(c) ==
  /\ conn[c].phase = "answered"
  /\ conn' = [conn EXCEPT ![c].phase = "writing",
                          ![c].answer = IF conn[c].kind = "large" THEN "error" ELSE @]
  /\ UNCHANGED <<phase, lock, socket, store, said, fate>>
\* An answer that is larger than a frame may be ends the connection.
Encode(c) ==
  /\ conn[c].phase = "answered"
  /\ IF conn[c].kind = "large" /\ conn[c].answer = "ok"
     THEN Closed({c})
     ELSE conn' = [conn EXCEPT ![c].phase = "writing"] /\ UNCHANGED said
  /\ UNCHANGED <<phase, lock, socket, store, fate>>

\* Seeded fault: the loop over the requests has no end.
CountNever(c) == 0
Count(c) == conn[c].count + 1
\* The client has the answer.  After the last request the connection ends.
Write(c) ==
  /\ conn[c].phase = "writing"
  /\ said' = [said EXCEPT ![c] = IF conn[c].kind \in Writes /\ conn[c].answer = "ok"
                                 THEN "written" ELSE conn[c].answer]
  /\ conn' = [conn EXCEPT ![c] = IF Count(c) = Limit THEN None
                                 ELSE [None EXCEPT !.at = conn[c].at, !.phase = "reading", !.count = Count(c)]]
  /\ UNCHANGED <<phase, lock, socket, store, fate>>

\* The client does not read, or is gone.
WriteEnds(c) ==
  /\ conn[c].phase = "writing"
  /\ Closed({c})
  /\ UNCHANGED <<phase, lock, socket, store, fate>>

-----------------------------------------------------------------------------
(* The store thread serves its queue in order, for as long as the process is there. *)

Take(op) ==
  /\ store # <<>> /\ Head(store).op = op
  /\ store' = Tail(store)
  /\ UNCHANGED <<phase, lock, socket, said>>

\* Nobody waits for the answer any more.
Unheard(op) ==
  /\ Take(op) /\ Head(store).client = Nobody
  /\ UNCHANGED <<conn, fate>>

Authenticate(c) ==
  /\ Take("authenticate") /\ Head(store).client = c
  /\ IF conn[c].kind = "token" THEN Answer(c, "error")
     ELSE conn' = [conn EXCEPT ![c].phase = "call"]
  /\ UNCHANGED fate

Read(c) ==
  /\ Take("read") /\ Head(store).client = c
  /\ Answer(c, "ok")
  /\ UNCHANGED fate

Commit(c) ==
  /\ Take("commit") /\ Head(store).client = c
  /\ \/ Answer(c, "ok") /\ fate' = [fate EXCEPT ![c] = "committed"]
     \/ Answer(c, "error") /\ fate' = [fate EXCEPT ![c] = "none"]

-----------------------------------------------------------------------------
(* The specification                                                       *)

Init ==
  /\ phase = [s \in Servers |-> "off"]
  /\ lock = Nobody /\ socket = Nobody /\ store = <<>>
  /\ conn = [c \in Clients |-> None]
  /\ said = [c \in Clients |-> "nothing"]
  /\ fate = [c \in Clients |-> "none"]

Serve(s) ==
  \/ PrepareSocket(s) \/ Bind(s) \/ Break(s)
  \/ Drained(s) \/ GraceExpires(s) \/ RemoveSocket(s) \/ Exit(s)

Handle(c) == Dispatch(c) \/ Refused(c) \/ Submit(c) \/ Encode(c) \/ Write(c)
Respond ==
  \/ \E op \in {"authenticate", "read", "commit"} : Unheard(op)
  \/ \E c \in Clients : Authenticate(c) \/ Read(c) \/ Commit(c)

Next ==
  \/ \E s \in Servers : Start(s) \/ Serve(s) \/ Signal(s) \/ AcceptFails(s) \/ Kill(s)
  \/ \E s \in Servers, c \in Clients : Accept(s, c)
  \/ \E c \in Clients :
       Connect(c) \/ (\E kind \in Kinds[c] : Send(c, kind)) \/ ReadEnds(c)
         \/ Handle(c) \/ WriteEnds(c)
  \/ Respond

\* A process runs, the store serves its queue, and timeouts run out.  Nothing is
\* asked of clients, operators and failures.
Fairness ==
  /\ \A s \in Servers : WF_vars(Serve(s))
  /\ \A s \in Servers, c \in Clients : WF_vars(Accept(s, c))
  /\ \A c \in Clients : WF_vars(Handle(c)) /\ WF_vars(ReadEnds(c)) /\ WF_vars(WriteEnds(c))
  /\ WF_vars(Respond)

Spec == Init /\ [][Next]_vars /\ Fairness

-----------------------------------------------------------------------------
(* Properties                                                              *)

\* At most one process has the data directory, connections lead to it, and what is in
\* the queue of its store is what its handlers wait for, or what aborted ones left.
TypeOK ==
  /\ \A s \in Servers : phase[s] # "off" => lock = s
  /\ \A c \in Clients : conn[c] # None => conn[c].at = lock /\ (Listening(lock) \/ phase[lock] = "draining")
  /\ \A c \in Clients :
       Cardinality({i \in 1..Len(store) : store[i].client = c})
         = IF conn[c].phase \in {"auth", "store"} THEN 1 ELSE 0
  /\ \A s \in Servers : Cardinality(Tasks(s)) <= Permits

\* A client that opens the socket of a core that serves reaches it, whatever the
\* processes before it left behind or had still to remove.
SocketReachesServer == \A s \in Servers : Listening(s) => socket = s

\* A client that was told of success has its write in the database, one that was told
\* of an error has not and will not; only one whose connection ended does not know.
OutcomeIsKnown ==
  \A c \in Clients :
    /\ said[c] = "written" => fate[c] = "committed"
    /\ said[c] = "error" => fate[c] = "none"

\* No connection lasts: not one whose client neither sends nor reads, not one that is
\* never accepted, and not one that always sends one more request.  So every permit
\* comes back.
EveryConnectionEnds ==
  \A c \in Clients : (conn[c] # None) ~> (conn[c] = None)

\* A core that is told to end does, however many clients keep connecting, and whether or
\* not those it has ever send or read.
ShutdownEnds == \A s \in Servers : (phase[s] = "signalled") ~> (phase[s] = "off")
=============================================================================
