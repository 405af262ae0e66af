------------------------------- MODULE Outbox -------------------------------
(***************************************************************************)
(* Delivery of committed operations to transports: outbox.claim leases a   *)
(* window of the outbox to a worker of a transport, outbox.ack settles one *)
(* leased operation.  Both are one SQLite statement or transaction; what   *)
(* interleaves is what workers do between them: they hold what they were   *)
(* given, acknowledge it late, twice or never, and restart.                *)
(*                                                                         *)
(* The code compares lease_until_ms and available_at_ms with the clock and *)
(* does nothing else with them, so a row keeps the time that is left; the  *)
(* wall clock may be set back.  All operations have the priority of a Loro *)
(* update (the only record kind written), so outbox_id orders them alone.  *)
(***************************************************************************)
EXTENDS Integers, Sequences, FiniteSets, SequencesExt

CONSTANTS
  Operations,    \* committed operations
  Transports,    \* registered transport principals
  Workers,       \* processes that hold a transport token
  TransportOf,   \* the principal of a worker's token
  Size,          \* header and body bytes of an operation
  Statuses,      \* STORED, APPLIED, PENDING_DEPS, REJECTED
  LeaseTime,     \* 60_000 ms, in ticks of the clock
  MaxLimit,      \* 256 in the code: the cap on a request's limit
  Limits,        \* limits workers ask for
  Budgets,       \* max_bytes workers ask for
  MaxAttempts,   \* bound: leases of one operation to one transport
  MaxSetbacks    \* bound: times the wall clock is set back

ASSUME TransportAssumption == TransportOf \in [Workers -> Transports]
ASSUME SizeAssumption == Size \in [Operations -> Nat \ {0}]
ASSUME ParameterAssumption ==
  /\ LeaseTime \in Nat /\ MaxLimit \in Nat /\ MaxAttempts \in Nat /\ MaxSetbacks \in Nat
  /\ Limits \subseteq Nat /\ Budgets \subseteq Nat

VARIABLES
  outbox,      \* durable_outbox: operations in the order of outbox_id
  wait,        \* available_at_ms, as the time until then
  delivery,    \* transport_deliveries: one row per operation and transport
  held,        \* [op, attempt] items in the memory of every worker
  accepted,    \* acknowledgements answered "durable": true (history)
  setbacks     \* how often the clock was set back

vars == <<outbox, wait, delivery, held, accepted, setbacks>>

States == {"NONE", "CLAIMED", "DELIVERED", "REJECTED"}
Row == [state : States, attempts : 0..MaxAttempts, left : Int,
        ack : SUBSET Statuses]
NoRow == [state |-> "NONE", attempts |-> 0, left |-> 0, ack |-> {}]
Item == [op : Operations, attempt : 0..MaxAttempts]
Ack == [op : Operations, transport : Transports, attempt : 0..MaxAttempts,
        status : Statuses, by : Workers]

-----------------------------------------------------------------------------
(* The window of a claim                                                   *)

\* Seeded fault: a lease that ran out does not free its operation.
ClaimableOnce(o, tr) == wait[o] <= 0 /\ delivery[<<o, tr>>].state = "NONE"

\* The WHERE clause of claim_outbox; no code writes the state RETRY.
Claimable(o, tr) ==
  /\ wait[o] <= 0
  /\ \/ delivery[<<o, tr>>].state = "NONE"
     \/ delivery[<<o, tr>>].state = "CLAIMED" /\ delivery[<<o, tr>>].left < 0

\* Seeded fault: the limit is applied to the outbox before the leases are.
CandidatesOfPrefix(tr, limit) ==
  SelectSeq(SubSeq(outbox, 1, IF limit < Len(outbox) THEN limit ELSE Len(outbox)),
            LAMBDA o : Claimable(o, tr))

\* ORDER BY outbox_id LIMIT limit: the scan takes the rows that can be claimed
\* until it has enough of them.
Candidates(tr, limit) ==
  LET n == IF limit < MaxLimit THEN limit ELSE MaxLimit
  IN FoldLeft(LAMBDA found, o :
                IF Claimable(o, tr) /\ Len(found) < n THEN Append(found, o) ELSE found,
              <<>>, outbox)

\* Seeded fault: the bytes already granted are not added up.
FillForgetful(candidates, budget) ==
  FoldLeft(LAMBDA w, o :
             IF ~w.open \/ Size[o] > budget THEN w
             ELSE [w EXCEPT !.taken = Append(@, o), !.used = Size[o]],
           [taken |-> <<>>, used |-> 0, open |-> TRUE], candidates).taken

\* The loop of claim_outbox: operations too large for the budget are skipped
\* until one fits; from then on the first that does not fit ends the loop.
Fill(candidates, budget) ==
  FoldLeft(LAMBDA w, o :
             IF ~w.open \/ (w.taken # <<>> /\ w.used + Size[o] > budget)
             THEN [w EXCEPT !.open = FALSE]
             ELSE IF Size[o] > budget THEN w
             ELSE [w EXCEPT !.taken = Append(@, o), !.used = @ + Size[o]],
           [taken |-> <<>>, used |-> 0, open |-> TRUE], candidates).taken

Window(tr, limit, budget) == Fill(Candidates(tr, limit), budget)

-----------------------------------------------------------------------------
(* Steps                                                                   *)

\* commit_local adds the operation, available at once.
Enqueue(o) ==
  /\ o \notin ToSet(outbox)
  /\ outbox' = Append(outbox, o)
  /\ wait' = [wait EXCEPT ![o] = 0]
  /\ UNCHANGED <<delivery, held, accepted, setbacks>>

\* Seeded fault: a claim restarts the attempt counter.
LeasedAfresh(row) ==
  [state |-> "CLAIMED", attempts |-> 1, left |-> LeaseTime, ack |-> row.ack]
Leased(row) ==
  [state |-> "CLAIMED", attempts |-> row.attempts + 1, left |-> LeaseTime, ack |-> row.ack]

\* outbox.claim leases what the window holds; it is read once, and the reply may
\* be lost after the commit.
Claim(w, limit, budget, received) ==
  LET tr == TransportOf[w] IN
  \E granted \in {ToSet(Window(tr, limit, budget))} :
    /\ granted # {}
    /\ \A o \in granted : delivery[<<o, tr>>].attempts < MaxAttempts
    /\ delivery' = [r \in Operations \X Transports |->
                      IF r[1] \in granted /\ r[2] = tr THEN Leased(delivery[r]) ELSE delivery[r]]
    /\ held' = [held EXCEPT ![w] = @ \cup
         (IF received THEN {[op |-> o, attempt |-> delivery'[<<o, tr>>].attempts] : o \in granted}
                      ELSE {})]
    /\ UNCHANGED <<outbox, wait, accepted, setbacks>>

\* Seeded fault: the attempt is not compared.
CurrentAnyAttempt(row, attempt) == row.state = "CLAIMED" /\ row.left >= 0
\* Seeded fault: a settled row is updated again.
CurrentWhenSettled(row, attempt) == row.attempts = attempt /\ row.left >= 0

\* The WHERE clause of ack_outbox.
Current(row, attempt) ==
  row.state = "CLAIMED" /\ row.attempts = attempt /\ row.left >= 0

Settled(status) == IF status = "REJECTED" THEN "REJECTED" ELSE "DELIVERED"
SettledRow(row, status) ==
  [state |-> Settled(status), attempts |-> row.attempts, left |-> 0, ack |-> {status}]

\* Seeded fault: a token may acknowledge for every transport.
SpeaksForAll(w, tr) == tr \in Transports
SpeaksFor(w, tr) == tr = TransportOf[w]

\* outbox.ack; otherwise it fails and nothing changes.  The item stays with
\* the worker, which may not have seen the reply and may send it again.
Acknowledge(w, tr, i, status) ==
  /\ i \in held[w]
  /\ SpeaksFor(w, tr)
  /\ Current(delivery[<<i.op, tr>>], i.attempt)
  /\ delivery' = [delivery EXCEPT
       ![<<i.op, tr>>] = SettledRow(delivery[<<i.op, tr>>], status)]
  /\ accepted' = accepted \cup
       {[op |-> i.op, transport |-> tr, attempt |-> i.attempt, status |-> status, by |-> w]}
  /\ UNCHANGED <<outbox, wait, held, setbacks>>

\* A worker restarts and forgets what it was given.
Forget(w) ==
  /\ held[w] # {}
  /\ held' = [held EXCEPT ![w] = {}]
  /\ UNCHANGED <<outbox, wait, delivery, accepted, setbacks>>

\* The clock moves by one tick; what has long expired or long become available
\* stays at -1.
Shifted(time, by) == IF time + by < -1 THEN -1 ELSE time + by
Shift(by) ==
  /\ delivery' = [r \in Operations \X Transports |->
                    IF delivery[r].state = "CLAIMED"
                    THEN [delivery[r] EXCEPT !.left = Shifted(@, by)] ELSE delivery[r]]
  /\ wait' = [o \in Operations |-> IF o \in ToSet(outbox) THEN Shifted(wait[o], by) ELSE 0]
  /\ UNCHANGED <<outbox, held, accepted>>

Tick == Shift(-1) /\ UNCHANGED setbacks
SetBack == setbacks < MaxSetbacks /\ setbacks' = setbacks + 1 /\ Shift(1)

Init ==
  /\ outbox = <<>>
  /\ wait = [o \in Operations |-> 0]
  /\ delivery = [r \in Operations \X Transports |-> NoRow]
  /\ held = [w \in Workers |-> {}]
  /\ accepted = {}
  /\ setbacks = 0

AcknowledgeOne(w) ==
  \E tr \in Transports, i \in held[w], status \in Statuses : Acknowledge(w, tr, i, status)
ClaimSome(w) ==
  \E limit \in Limits, budget \in Budgets : Claim(w, limit, budget, TRUE)

Next ==
  \/ \E o \in Operations : Enqueue(o)
  \/ \E w \in Workers, limit \in Limits, budget \in Budgets, received \in BOOLEAN :
       Claim(w, limit, budget, received)
  \/ \E w \in Workers : AcknowledgeOne(w) \/ Forget(w)
  \/ Tick \/ SetBack

Spec == Init /\ [][Next]_vars

\* The workers of a transport poll with requests that can be served and send
\* acknowledgements while a lease lasts, again and again; time goes on.  Nothing is
\* assumed of a single worker.
WorkersOf(tr) == {w \in Workers : TransportOf[w] = tr}
FairSpec ==
  /\ Spec
  /\ WF_vars(Tick)
  /\ \A tr \in Transports :
       /\ WF_vars(\E w \in WorkersOf(tr) : ClaimSome(w))
       /\ SF_vars(\E w \in WorkersOf(tr) : AcknowledgeOne(w))

-----------------------------------------------------------------------------
(* Properties                                                              *)

TypeOK ==
  /\ outbox \in Seq(Operations)
  /\ wait \in [Operations -> Int]
  /\ delivery \in [Operations \X Transports -> Row]
  /\ held \in [Workers -> SUBSET Item]
  /\ accepted \subseteq Ack
  /\ setbacks \in 0..MaxSetbacks

\* A lease generation names one worker: two workers of a transport never hold
\* the same attempt of an operation, however leases expire and clocks move.
OneHolderPerLease ==
  \A v, w \in Workers :
    v # w /\ TransportOf[v] = TransportOf[w] => held[v] \cap held[w] = {}

\* The row that an accepted acknowledgement leaves.
AnsweredRow(a) ==
  [state |-> Settled(a.status), attempts |-> a.attempt, left |-> 0, ack |-> {a.status}]

\* "durable": true is final and told once: the row still says what was accepted,
\* under the attempt of the worker that was told, a worker of that transport;
\* and every settled row was settled by an accepted acknowledgement.  A late,
\* repeated or foreign acknowledgement changes nothing.
AcksAreFinal ==
  /\ \A a \in accepted :
       /\ TransportOf[a.by] = a.transport
       /\ delivery[<<a.op, a.transport>>] = AnsweredRow(a)
  /\ \A a, b \in accepted : a.op = b.op /\ a.transport = b.transport => a.status = b.status
  /\ \A r \in Operations \X Transports :
       delivery[r].state \in {"DELIVERED", "REJECTED"} =>
         \E a \in accepted : <<a.op, a.transport>> = r

Position(o) == CHOOSE i \in 1..Len(outbox) : outbox[i] = o
Total(s) == FoldLeft(LAMBDA n, o : n + Size[o], 0, s)

\* The limit cuts the claimable operations, oldest first, not the outbox: what a
\* claim leaves out is younger than all of a full window.
OldestFirst(s, tr, limit) ==
  \A o \in ToSet(outbox) \ ToSet(s) : Claimable(o, tr) =>
    /\ Len(s) \in {limit, MaxLimit}
    /\ \A p \in ToSet(s) : Position(p) < Position(o)

\* The window is the longest run of candidates that fits max_bytes, from the
\* first candidate that fits alone.
MaximalRun(s, t, budget) ==
  \E first, last \in 0..Len(s) :
    /\ t = SubSeq(s, first + 1, last)
    /\ \A i \in 1..first : Size[s[i]] > budget
    /\ t = <<>> => first = Len(s)
    /\ Total(t) <= budget
    /\ last < Len(s) => Total(t) + Size[s[last + 1]] > budget

\* Whatever a worker asks for, a reply of claim_outbox is the oldest run that
\* limit and max_bytes allow: small operations are not overtaken within it, and
\* nothing oversized is returned.
RepliesAreOldestRuns ==
  \A tr \in Transports, limit \in 1..MaxLimit + 1 :
    LET s == Candidates(tr, limit) IN
    /\ OldestFirst(s, tr, limit)
    /\ \A budget \in 0..Total(outbox) : MaximalRun(s, Fill(s, budget), budget)

\* An operation that fits is delivered to every transport, whatever replies are
\* lost and however often workers restart: no lease holds it for ever.  The
\* model follows an operation up to MaxAttempts leases.
EveryOperationSettles ==
  \A o \in {o \in Operations : \A b \in Budgets : Size[o] <= b}, tr \in Transports :
    o \in ToSet(outbox) ~> \/ delivery[<<o, tr>>].state \in {"DELIVERED", "REJECTED"}
                            \/ delivery[<<o, tr>>].attempts = MaxAttempts
=============================================================================
