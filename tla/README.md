# Community Stack: TLA+ models and proofs

Formal models of the community core (Rust, `src/src`): a local daemon that keeps
collaborative documents as signed, encrypted operations in SQLite and serves
them to applications over a Unix socket. The modules are translated from the
Rust sources; `PROJECT.json` names, for each definition, the lines it stands
for (`map`), for each property the seeded fault that breaks it (`mutants`), and
for each place where this code is hard to test the property that watches it
(`hazards`).

    tlc -workers 2 -config LocalWriteOneCore.cfg MCLocalWrite      # a run
    tlapm LocalWriteProofs.tla                                     # proofs

## 1. The system

`CommunityCore` (`application.rs`, `application/*.rs`) runs one asynchronous
handler per API request. Through ports (`ports.rs`) it uses a SQLite store
(`adapters/sqlite.rs`), a Loro document engine (`adapters/loro.rs`) and a
signed, encrypted log (`adapters/p2panda.rs`). The store is one thread that owns
the connection and serves a FIFO channel; a handler sends a command with a
one-shot reply channel and waits for it (`receive`). `local_api.rs` owns the
socket, the connections and the shutdown; `main.rs` takes the exclusive lock of
the data directory before it serves. Planning and toolkit are profiles: their
records are documents written by the same path, with SQL projections beside
them that the same transaction updates.

| component | state | operations | what makes it correct |
|---|---|---|---|
| local write path | `operations`, `document_updates`, `log_heads`, `durable_outbox`, `idempotency_keys`; document locks; store queue | `document.mutate` | one operation per key, a log without gap or fork, no answer before the commit, retries answered alike |
| document lock table | a map of weak references to mutexes | `document_lock` | two holders of one document's lock never coexist; nobody waits for ever; the table stays small |
| outbox | `durable_outbox`, `transport_deliveries` | `outbox.claim`, `outbox.ack` | an item is leased to one attempt at a time, a late or repeated acknowledgement changes nothing, nothing that fits is left behind |
| facts | `fact_schemas`, `fact_claim_revisions`, `fact_claims` | `schema.register`, `fact.assert`, `fact.query`, `fact.inspect`, `fact.history`, `projection.check`, `projection.rebuild` (the check alone: applying is disabled) | lifecycle transitions, one active claim per subject and predicate where the schema says ONE, the projection is the last revision |
| planning profile | `profile_grants`, `planning_*` | `planning.*.put`, views, `profile.grant` | a writer holds a grant at commit time, the dependency graph stays acyclic, references exist, limits hold |
| toolkit profile | `toolkit_concepts`, `toolkit_tools`, `toolkit_assertions`, `toolkit_reviews` | `toolkit.schema.add`, `toolkit.tool.add`, `toolkit.assert`, `toolkit.verify`, queries | one verified value where cardinality is ONE, references resolve, verdicts do not depend on the order of reviews |
| change feed | `document_changes` | `document.changes`, `document.list` | a reader that follows the cursor misses no change, a listing no document |
| local API server | the socket, connections, permits, tasks | `serve`, requests, shutdown | the socket leads to the process that serves, every connection ends, a client told of success or error knows, shutdown ends |
| recovery, data directory | keys, database, marker and manifest files, the lock, token files | `init`, `register`, `serve`, `backup`, `restore` | an incomplete directory is never served, a database never gets other keys, a verified backup and a registered token survive a power failure |
| migrations | `schema_migrations` | `apply_migrations` | a crash between versions is recovered, a failed preflight changes nothing, a served database is complete |
| secure log, Loro engine, domain types, CLI, Reticulum bridge, Python client, vendored store | see section 8 | | |

What makes it hard: handlers interleave at every `await`; locks belong to one
process while the database file may be shared; an error or a cancellation may
fall between any two store calls; a shutdown drops handlers whose commit is
still queued; a crash leaves only the database; clients retry with the same
idempotency key; leases run out by a wall clock that may be set back; a command
on the data directory may stop at any system call, and a power failure takes
what was not synced.

## 2. Plan

Done:

1. `DurableWrites`, `LocalWrite`, `LocalWriteProofs`: the write path every other
   write shares, and its abstract specification.
2. `DocumentLocks`, `DocumentLocksProofs`: the lock table the other models take for
   granted.
3. `Outbox`, `OutboxProofs`: leases and acknowledgements.
4. `GovernedClaims`, `Facts`, `FactHistory`, `FactsProofs`.
5. `PlanningRules`, `PlanningCommunity`, `Planning`, `PlanningProofs`.
6. `ToolkitRules`, `ToolkitLedger`, `Toolkit`, `ToolkitProofs`.
7. `ChangeFeed` over `LocalWrite`, proved about in `LocalWriteProofs`: readers that page
   while commits go on.
8. `Migrations`, `DataDirectory`, `DataDirectoryProofs`: the commands as sequences of system calls,
   interrupted anywhere, with power failures.
9. `LocalApi`, `LocalApiProofs`: the socket, connections, permits, timeouts, shutdown.
10. `FactSchemas`, `PlanningFields`, `DependencySearch`: the checks of requests by
    themselves and the search for cycles, as operators within `Facts` and
    `Planning`, compared with reference definitions.

Left: the shape of toolkit concepts and requirements has no model, and liveness has
no proof (section 7).

## 3. Modules and the code

Conventions. A table is a set of rows, an `Option` a set of at most one element.
A handler slot is a record whose `pc` names the store call it waits for, or the
lock; its fields are the local variables that outlive an `await`. One action is
the code between two awaits, or one command of the store thread; a store
transaction is one action, since SQLite serialises writers and a failed
transaction is rolled back. A definition whose comment says *seeded fault* is
used by no specification: it is the definition below it with a plausible bug.

**LocalWrite** (`application.rs` 498-611; `sqlite.rs` 37-211, 579-756, 865-1015; `local_api.rs` 136-307; `main.rs` 169-192).
`Begin` is the request with the first idempotency look-up, `Acquire` the lock,
`Ask` sends a command, `ServeIdempotency`, `ServeLoadUpdates`, `ServeLogHead`,
`ServeCommitLocal` are the store's side, `Replay`, `RefuseRevision`, `Stage`,
`RefuseSequence`, `Submit`, `Acknowledge`, `Fail` the handler's. `CommitCause`
has the checks of `commit_local` in their order: key, log head, row count,
`idempotency_keys` unique. `AbortAll`, `Cancel`, `Stop` and `Start` are the end of the
grace period, the drop of a handler at its await (its request stays queued), the
end of a process by exit or crash, and its restart. An operation hash is
`<<request, sequence, handler>>`; a document state is the set of hashes merged
into it. `MaxSequence` is `u32::MAX` made small, so that the end of a log is
reached. `answers` is a history variable.

**ChangeFeed** (`application/documents.rs`, `sqlite/documents.rs`, migration 6). It EXTENDS `LocalWrite`: `Written` is a step of the write path with
the trigger that adds a row of `document_changes` in the same transaction. `ReadChanges`
is one page of `document.changes`, `ListDocuments` one of `document.list`; commits,
crashes and restarts come between pages. `listing.wrong` is a history variable: what
finished listings owed and did not show.

**DurableWrites** is what the caller is promised: a write is applied once, at the
next revision of its document, and acknowledged afterwards.

**DocumentLocks** (`application.rs` 613-625, the nesting in `application/planning.rs`). `Fetch` is `document_lock` under the table's
mutex: upgrade, or purge when full and insert. `Join`/`Enter` are tokio's fair
mutex. `Plans` are the orders in which handlers nest locks: one document, or the
community of planning and then its document. No plan names a key twice: the lock of
a community's profile has a name of its own, which no document has. A mutex lives while a handler has
an `Arc` of it, so that names are used again, as addresses are.

**Outbox** (`sqlite.rs` 1167-1282, `domain/replication.rs`). `Candidates` is the SELECT,
a scan in the order of `outbox_id` that ends with its LIMIT, `Fill` the byte budget loop,
`Claim` the transaction with the case that the reply is lost, `Acknowledge` the UPDATE with its WHERE clause, `Forget` a worker's
restart. Times are kept relative to now (`left`, `wait`), `Tick` and
`SetBack` move the clock.

**Facts** (`application.rs` 251-431, 1003-1035; `sqlite.rs` 1017-1098, `sqlite/facts.rs`).
`ReadCurrent`, `CheckConflict`, `Load`, `Commit` are the four store calls under the claim's
lock; `Accepts` holds what the transaction checks again, `RevisionTime` the
clamp to the stored time plus one. `MutateDocument` is `document.mutate` on
`facts/<claim>`. Hashes are numbers, because the code orders by them.
`FactSchemas` says which object schemas `schema.register` takes and which objects
`fact.assert` takes under one (`Registrable`, `Admissible` in the handlers). The code walks
a tree; the module has its levels, without a recursion, so that `Facts` can be
reasoned about. `MCFactSchemas` compares it with a recursive definition.
`FactHistory` adds a client that pages through `fact.history`.
`GovernedClaims` is the life of claims with transitions and uniqueness, and no
revisions.

**Planning** (`application/planning.rs`, `sqlite/planning.rs`). `Read` is one SELECT of
`planning_catalog` at a time, in `ReadOrder`; `ReadNext` ends with `Valid` over what was
read; `Accepts` is the part of the transaction that compares grant, key and
generation. `PlanningRules` has the rules (`ReferencesExist`, `MakesCycle`, limits)
and `PlanningCommunity` a community in which a valid record is put at once.
Reachability is stated by closed sets, not by a recursion, so that it can be
reasoned about; `DependencySearch` has the stack of `reject_dependency_cycle`.
`PlanningFields` has the checks of times, dates, recurrence and lags that come
before the lock; dates are compared as text, as in the code.
`MCPlanningChecks` compares both with what they are for.

**Toolkit** (`application/toolkit.rs`, `sqlite/toolkit.rs`). `ReadCatalog` reads and validates
(`Validates`), `Novel` is the look for the concept revision that comes after the
key, `Commit` checks primary keys only (`Unique`) and applies the projection.
`ToolkitRules` has validation, projection, the aggregate of reviews and the query
(`RequirementState`, `ExactTools`); `ToolkitLedger` records valid requests one by
one.

**LocalApi** (`local_api.rs` 62-307, `main.rs`). A process is `starting`, `binding`, `serving`, `signalled`, `draining`,
`removing`, `ending`; a connection waits in the backlog, reads, has `sent` a request,
waits for its token to be looked up, is called, waits for the store, is answered,
writes. `Accept` drops a connection when no permit is free. The `select` is biased, so
that a process that was signalled accepts no more. Timeouts may fire whenever they
run (`ReadEnds`, `WriteEnds`, `GraceExpires`). The store's queue is kept in order; what an
aborted handler left in it is served and heard by nobody. `Kinds` are the kinds of
requests a client sends: bad frames, bad texts, bad tokens, reads, writes, writes
whose answer is larger than a frame. `said` and `fate` are what a client was told and
what became of its write.

**DataDirectory** (`recovery.rs`, `config.rs`, `sqlite/recovery.rs`, `main.rs` 105-192) EXTENDS **Migrations** (`sqlite/migrations.rs`). `Program` has each
command as its list of system calls; `Run`, one action per kind of call, `Refuse` and
`Interrupt` make it go on or end. A copy is `BeginCopy`, which creates the file, and `Copy`,
which fills it. A file has the content that processes see (`cache`) and the
contents a power failure may leave (`disk`); an fsync of the file settles its content,
one of the directory its entry. A migration is one transaction per version with
its preflight. What the model takes for granted:

- SQLite syncs the directory with the journal of a connection's first commit. It does
  not sync the parent of the directory, and `create_dir_all` (`config.rs:17`, `164`) does
  not either: a power failure may take a directory that a core made, with everything
  in it, acknowledged writes included. The model has this; `promised`, what is owed to a
  directory's clients, then starts anew. A backup or a restore syncs the parent.
- A power failure hits one directory at a time, and finds the others on disk.
- Nobody opens a directory while a backup makes it (`Run`). The code does not prevent it;
  an operator does not serve a path that a backup was just told to create.
- Commands without a directory in common run one by one.
- A device is new, or what a release has left (`DeviceAssumption`): whole keys, a
  database that they alone wrote and whose accounts are as its version asks, the
  file of every token enrolled in it.
- Whoever copies a database in WAL mode as a file may get parts of two states.
- `KeysOutliveDatabase` leaves out directories whose keys were moved away, or were
  written and not synced: `ensure_secret` makes new ones only where there is no
  database (`config.rs:121-125`), and a power failure may take both.

A core may be started in a directory that a restore makes. `lock_data_dir` looks for the
marker (`config.rs:165`), and `create_destination` takes no lock and writes the marker after
its `mkdir` (`recovery.rs:101-109`): a core that looks in between gets in. `strayed` is the history
variable of the directories where this happened. There the code does not keep what
`ServedIsWhole` says, and the property leaves them out. The counterexample that TLC gives
when they are not left out: a restore into `c` has done its `mkdir`; `register` looks for the
marker of `c`, makes two keys and is killed; `serve` looks for the marker too, takes the
lock and loads these keys; the restore writes the marker, creates `community.db` and copies
it; `serve` opens the copy and serves it with keys that did not write and encrypt it. The
restore then fails at its first key, which is not new, and the core goes on. The
other properties hold in such directories as well: `KeysOutliveDatabase`,
`FinishedBackupSurvives`, `RegisteredTokenIsDurable`.

Planning, facts and toolkit leave the tables of the log to `LocalWrite` and the
nesting of locks to `DocumentLocks`; they keep the handler's reads, what the
transaction checks again, and their own projections.

## 4. Runs

| run | instance | distinct states | shows |
|---|---|---|---|
| `one_core` | 1 core, 2 handlers, 2 documents, 4 requests, `MaxSequence` 1, 3 calls, 1 stop, `FairSpec` | 111,602 | the document lock makes the conflict checks of the commit unreachable, even for commits of dropped handlers, and the raw constraint error needs one key on two documents; every call ends; implements `DurableWrites` |
| `two_cores` | 2 cores with one handler each, 4 requests on 3 documents, 3 calls, 1 stop, two readers with pages of 1 | 1,262,350 | without common locks the transaction alone keeps chain, keys, answers and expected revisions; the feed tells every change and a listing every document |
| `reused_key` | 1 core, 2 requests with one key | violation | finding 1 |
| `outbox_leases` | 2 operations, one too large, 2 + 1 workers of 2 transports, lease of 1 tick, 2 attempts, 1 set-back, `FairSpec` | 23,770 | one holder per attempt, acknowledgements final, a claim returns the oldest that fit, what fits is settled |
| `facts_two_cores` | 2 cores, 2 exclusive claims, 3 hashes, times 0 and 1, 1 foreign write, a reader with pages of 1; assumptions over small schemas and objects | 773,932 | chain, projection, uniqueness, a paged reading is complete while revisions are added; implements `GovernedClaims` |
| `facts_document` | 1 claim, 1 foreign write | violation | finding 2 |
| `locks` | 3 handlers, a community and 2 documents, 4 mutexes, purge at 2 entries, `FairSpec`, deadlock checked | 47,807 | one holder per key, growth only in use, no handler waits for ever |
| `planning` | 2 cores, 9 requests of which 2 are refused at once, at most 2 records of a kind; assumptions over dates, rules and graphs of 4 edges | 1,207,556 | acyclic, the tables are the replay of the log; implements `PlanningCommunity` |
| `toolkit` | 2 handlers, 12 requests, 3 concept revisions, 1 tool, a key spent elsewhere | 341,429 | one verified value, attested matches, order-free verdicts, resolving references; implements `ToolkitLedger` |
| `toolkit_retry` | the same instance | violation | finding 3 |
| `data_directory` | a device, its backup and a restored copy; 2 processes, 4 commands given out of 6, 1 write per database, 1 mishap; a device of release 3, one with a changed digest, a current one | 662,318 | what is served is whole, keys stay with their database, verified backups and registered tokens survive |
| `local_api` | 2 processes, 3 clients, 2 permits, 2 requests per connection, fairness, deadlock checked | 61,266 | the socket leads to who serves, outcomes are known, connections and shutdown end |

Why the bounds are enough to be interesting. Two handlers are the smallest number
that race; a third is used where a queue matters (locks) or two workers of a
transport meet one of another (outbox). Two documents let one key be spent under
two locks. Two log positions exhaust the sequence. One stop combines with up to three calls,
so that a retry after a crash, with or without its commit, is reached. Two
attempts let a lease expire and its first holder answer late. The purge happens
at every second entry, so that entries are purged while handlers wait for their
mutexes. Dependencies of planning close a cycle in some orders and exceed the
limit in others, and one identity is put twice. The toolkit's requests contain a
proposal and a contrary verified value, so that a review decides whether two
values would be verified. Three clients and two permits let a connection be
refused, and one of the clients never sends anything. Four commands are what it
takes to back a device up and restore the copy while two others use its directory, and one
mishap can be the loss of the keys, an interruption or a power failure anywhere. One write
is enough to tell a database that has it from one that has lost it. `register` and `serve`
may be given for the directory of a restore, before it, during it and after it; `register`
makes a new device there, by the calls that `init` makes and those for its token. A
command, an interruption and a second command fit into the window before its marker.

`CHECK_DEADLOCK FALSE` is used where an instance may really stop: all requests
are done, or the bound on calls is reached. `DocumentLocks` has no such end.
Symmetry is only used where every handler slot is configured alike and no
liveness property is checked.

Two cores are a stronger adversary than the daemon admits: `lock_data_dir` lets one
process serve a data directory. They are used where the code defends itself in
the transaction, to see that this defence suffices by itself. Without the
document lock `NoConflictOnOneCore` does not hold, hence it is stated
for one core. The toolkit's transaction repeats no validation and is modelled
with one core only: there its lock is what `OneVerifiedValue` rests on.

## 5. Fairness

- `LocalWrite`: weak fairness of each handler's own steps (the runtime polls a
  woken task) and of each store thread (it loops over its channel), strong
  fairness of `Acquire`, because `tokio::sync::Mutex` queues its waiters in order
  while other holders come and go. None for `Begin`, stops or restarts.
- `DocumentLocks`: the queue is part of the state, so weak fairness of a
  handler's step is enough; none for `Cancel`.
- `Outbox`: time goes on; for each transport some worker claims again and again
  (weak), and some worker acknowledges while a lease lasts, if it could do so
  infinitely often (strong). This is an assumption about transports, which poll;
  nothing is assumed of one worker, and `Forget` and lost replies stay possible.
  `EveryOperationSettles` follows an operation up to `MaxAttempts` leases, and is
  checked where fewer operations too large for the budget are in front than the
  limit: the SELECT applies its LIMIT before the budget, so that as many of them
  as the limit hide what is behind. No document promises otherwise.
- `LocalApi`: weak fairness of a process's own steps, of `Accept`, of a connection's
  steps, of the store, and of the end of a read or a write, since every read and
  write has a timeout (`local_api.rs` 165-307) and the drain a grace period. None for
  clients, signals, failures.

## 6. Proofs

For every value of the constants, under the named assumptions of the modules
(sorts of the constants, bounds in `Nat`). All obligations are checked by
`tlapm`; nothing is left unproved. Every invariant that a run checks is a theorem, but for
`KeysOutliveDatabase`, of which `KeysAreThere` has the directories that no core strayed into.

| module | theorems | obligations |
|---|---|---|
| `LocalWriteProofs` | `TypeCorrect`, `LogChained`, `KeySpentOnce`, `AnswersDurable`, `ResponseShowsHistory`, `RevisionHonoured`, `HistoryGrows`, `WritePathImplementsDurableWrites`, `ConflictsUnreachable`; of `ChangeFeed`: `FeedComplete`, `ListingComplete` | 4085 |
| `OutboxProofs` | `OutboxTyped`, `LeaseNamesOneHolder`, `AcksStayFinal`, `RepliesOldestRuns` | 1507 |
| `FactsProofs` | `FactsTyped`, `RevisionsFormChain`, `OneClaimIsActive`, `ProjectionIsConsistent`, `FactsImplementGovernedClaims`; of `FactHistory`: `ReadingComplete` | 1622 |
| `PlanningProofs` | `PlanningTyped`, `NoDependencyCycle`, `RecordsAlwaysFit`, `TablesAreReplay`, `PlanningImplementsCommunity` | 811 |
| `ToolkitProofs` | `ToolkitTyped`, `OneValueIsVerified`, `StateIsAggregate`, `KeysResolve`, `MatchesAreAttested`, `ToolkitImplementsLedger` | 677 |
| `DocumentLocksProofs` | `LocksTyped`, `OneHolder`, `EndedHandlersLetGo`, `TableIsPurged` | 929 |
| `DataDirectoryProofs` | `FilesAreTyped`, `WhatIsServed`, `KeysAreThere`, `BackupsSurvive`, `TokensAreDurable` | 7124 |
| `LocalApiProofs` | `ServerTyped`, `SocketLeadsToServer`, `ClientKnowsOutcome` | 877 |

**LocalWrite.** `IInv` is `TypeInv`, `Chain`, `Keys`, `InFlight`, `Answered`. A commit compares
the number of history rows and the head with what its handler loaded. `Chain`
makes both equal to the length of the log; `InFlight` says that the base a queued
commit carries is part of the history. A subset of a finite set with as many
elements is the set itself: this is why a count suffices where the code could
have compared hashes, and where the proof needs finiteness (`TypeInv`). The
response then shows the history it was staged on, the expected revision is
honoured, and a commit is one `Apply` of `DurableWrites`. `Answered` carries a success
from the reply channel to the key table, past every crash.

`ConflictsUnreachable` needs one more assumption, `OneCore`: one process serves the
store, as `lock_data_dir` grants (`DataDirectory`). Its invariant `LockInv` is about
time. Only the holder of a document's lock has commands of that document in the
making; the commit of a dropped handler, which no lock protects any more, is in the
queue of the store before anything the next holder asks (`DroppedCommitsFirst`), so
that what the holder reads already counts it (`ReadsAreCurrent`). Its own commit then
finds the head and the rows it loaded (`CommitIsCurrent`). Without `OneCore` this is
false, and the checks of `commit_local` are what keeps `LogChained`.

**ChangeFeed.** The invariant of the write path is kept, and two parts are added. `ChangesInv`:
the change table holds the rows of the history, appended and never moved, and the
reader has seen what the scope has at its cursor and before; a reader that is told
there is no more has its cursor behind the last row of its scope, hence all
(`FeedComplete`). `ListingInv`: what a listing owes at its cursor or before it has been
found, in order, at its revision or a later one. Revisions only grow, because history
rows are never removed, and a document created while the listing is under way is owed
to nobody (`ListingComplete`). Both rest on what a page is: the first rows in order, as
many as the limit, and a cursor exactly if there are more (`FirstIsPage`,
`InOrderLists`).

**Outbox.** Attempts of a row only grow, and nothing held is ahead of its row
(`NoneAhead`), so a new lease has a number that nobody holds. A settled row no
longer matches the WHERE clause, whatever the clock says.

`RepliesOldestRuns` is about the two loops of a claim. A fold of the community modules
is a recursion over the subsets of the indices; that it has a solution (`FoldDefined`)
is shown by a smallest set without one, and the solution on `1..i` is the state of a
loop after `i` turns (`FillIsLoop`, `ScanIsLoop`, `TotalIsLoop`). The invariant of the
scan (`ScannedTo`): it has found the claimable operations of the first rows, and stopped
only with as many as the limit. That of the byte budget (`RanFrom`): those skipped are
all too large; those taken are a run that fits; the loop is closed by the operation
after the run, which no longer fits. An operation is in the outbox once (`NoRepeats`),
so that older and younger have a meaning.

**Facts.** `Validated`: if the current row still has the hash that a handler read, it
is the row the handler read. The transaction compares the hash and the
uniqueness of the active claim again, so that what the handler decided is what
the transaction would decide. `RowIsLast` with the clamped time gives the
projection.

`ReadingComplete` needs that no two revisions of a claim have the same time
(`TimesDiffer`), which the clamp grants whatever the clock does: a later revision is
newer than the cursor of a reading under way and comes on no later page. `ReadingInv`:
what the reading owes was given or lies behind its cursor, and what it was given is
newest first.

**Planning.** `Fresh`: as long as the generation is the one a handler read *first*,
all it read since is current. A commit that finds its generation is therefore a
step of `PlanningCommunity`; in the other order of reads it would not be (the seeded
fault of `ReadOrder`). `NewEdge` is the fact about graphs: an edge whose end does not
reach its start closes no cycle. `TablesAreReplay` gives the replay a form without
recursion, the rows whose id no later record of the kind has (`Replayed`), and shows that
one more record changes both alike.

**Toolkit.** The transaction repeats no validation, so the argument is about time. At
most one handler is between its catalog and the end of its commit, with the lock
or dropped (`OneDecided`), because a catalog read queues behind a commit left by a
dropped handler. Hence what a handler has seen is the catalog it commits to
(`SeenIsCurrent`), and validation of one record keeps `Agree`. `KeysResolve` rests on
two parts of it, one revision in force for each key that has any and keys that are
referred to; `MatchesAreAttested` on the aggregate of reviews and on what an AI author's
record may start as.

**DocumentLocks.** A mutex is found through the table as long as somebody has it
(`Arc` and `Weak`): a purge removes only entries of mutexes nobody has, so two handlers
that lock one document meet at one mutex. The fair mutex has one first waiter, and
only the first enters. `EndedHandlersLetGo` says that an ended or dropped handler is in
no queue: the guards and the `Arc` go with the future.

**DataDirectory.** The five properties speak of different moments: of a process that serves,
of a directory at rest, of what a power failure would leave. None is inductive, and
one invariant, `IInv`, carries all of them:

- `Exclusive` is who may be in a directory with whom. Commands that open it look for
  the marker and take the lock; the commands that make one begin with a `mkdir` that
  fails where there is something. A directory is hence used by one process, or only read,
  if it is not in `strayed`; a backup's never is. Every other part is relative to this.
- `Stage(p)` is what a command has done when it is at its step: which keys are made,
  written and synced, whether the token is linked and settled and who may have enrolled it
  (`TokenStage`: nobody, before `Enroll`), which files are copied, that they are `Genuine`.
  It holds because by `Exclusive` nobody else changes the directory meanwhile. Where a core
  has strayed, `TokenStage` is all that is left of it.
- `DirOk(d)` is what is true of a directory, whoever is in it. `Gone`: what processes
  do not see, a power failure does not bring back; it holds of every directory, what
  follows of those where no core has strayed. `KeysLast`: no key but the present
  one can come back. Wherever the marker may be absent after a power failure, the database has
  durable keys (`KeysOutlive`), is theirs (`OneDevice`) and has the writes that were
  acknowledged (`PromiseKept`). This condition on the marker is what lets a backup
  or a restore have parts of a database without its keys: `Mark` and the sync of
  `Marked` come before the first file, `Unmark` after the sync of the last one.
- `TokensOk` of all directories; `Strays`: a directory a core strayed into is there and is no
  finished backup; `LeftAlone`: nobody who may write is in a finished backup.

`FilesAreTyped`, `BackupsSurvive` and `TokensAreDurable` therefore hold without an exception,
`WhatIsServed` and `KeysAreThere` of directories that are not in `strayed`. `Run` keeps everybody
out of a directory that a backup makes (section 3): `BackupsSurvive` rests on that.

An interruption changes nothing but who is there; a power failure picks for each file
of a directory one content of `disk`, so that it suffices that `DirOk` speaks of all of
them. The proof goes through the kinds of system calls, and for each through the
commands that make it.

**LocalApi.** The lock of the data directory orders the processes: at most one is
between `lock_data_dir` and its exit, and it alone binds or removes the socket
(`SocketLeadsToServer`). An entry of the store's queue belongs to the connection that
waits for it or to nobody, and the store answers in order; so a client that has an
answer has the outcome of its own request (`ClientKnowsOutcome`).

## 7. Only model-checked

- Liveness: `EveryCallEnds`, `EveryHandlerEnds`, `EveryOperationSettles`, `EveryConnectionEnds`,
  `ShutdownEnds`. Fairness and `ENABLED` are out of the prover's reach.
- `KeysOutliveDatabase` of directories that a core entered before their marker was there.
- What the checks of schemas, objects, dates, recurrence and cycles compute
  (`RegistrationWalksTheTree`, `AssertionFollowsTheSchema`, `CalendarIsGregorian`,
  `AllDayEventsLast`, `RecurrenceEnds`, `SearchDecidesCycles`): assumptions of the MC modules,
  which TLC evaluates over every small input.

The library's induction theorems take an operator that the installed provers
cannot instantiate. Where a proof needs induction over data, it argues by a smallest
counterexample (`FoldDefined`) or a greatest element (`Greatest`, `UpTo`), from the
library's theorem that strict inclusion of finite sets is well-founded. The definitions
of the last item are compared with recursive ones, and are left to TLC.

## 8. Not modelled

- Secure log envelope, Loro engine: cryptography and the CRDT merge are a library's;
  the models use what the core relies on (a hash names an operation, a state is
  the set of updates merged into it).
- Domain types: parsing and validation of single values, without state. CLI: the
  calls of its commands are in `DataDirectory` and `LocalApi`, arguments and output are
  not modelled; of `register`, only the branch with `--token-file`, not the one that prints
  the token. Reticulum bridge and Python client: programs
  outside the daemon, seen as workers and callers. Vendored `p2panda-store`: third
  party.
- A commit of the write path, of facts, planning and toolkit is one action: that its
  statements are undone together is SQLite's.
- `Stop` of `LocalWrite`, and `Exit` and `Kill` of `LocalApi`, end a process, its lock and its
  store's queue in one step.
  In `main.rs:170-192` the lock of the data directory may be dropped while the store's thread
  still serves commits of dropped handlers; a process started in that moment is not modelled
  on one core. `two_cores` has such commits beside those of another core.
- Within modelled parts: `SQLITE_BUSY` after the busy timeout; sizes of records and
  responses; legacy facts without a schema; single reads (`fact.query`, `doctor`, the
  planning views, `toolkit.schema.list`); the shape of toolkit concepts; the wording of
  errors. A `--socket` path given to two data directories: `prepare_socket`
  (`local_api.rs:174`) would remove the other's socket. Planning
  events take the path of tasks. The applicability of a toolkit concept is
  checked when an assertion is written and not again, as in the code.

## 9. Findings

1. `reused_key` - `protocol/local-api.md:67` says that reusing a key with another
   request returns `IDEMPOTENCY_CONFLICT`. `respond` (`sqlite.rs:754-756`) turns store
   errors into strings, so that `response_for_error` no longer finds the typed
   error and answers `INVALID_REQUEST`. The other typed errors of the store,
   `CONFLICT` included, take the same way.
2. `facts_document` - `document.mutate` accepts the documents `facts/<claim_id>`. The signed
   log and the Loro document of a claim can then say something the fact tables do
   not, which `architecture.md:53` calls disposable.
3. `toolkit_retry` - an exact retry of a toolkit call that waits for the lock while the
   first call commits is validated against its own record and refused, although
   `local-api.md:67` promises the stored response.

Remarks without a run of their own:

- `validate_json_value` (`application.rs` 982-1000): a boolean or null that fits its schema
  node falls through the guard of its own arm to the last and is refused as an
  "unsupported type", although `schema.register` takes such nodes (`application.rs:863`). No fact
  with a boolean or a null can be asserted. `AssertionFollowsTheSchema` states it as the
  only difference between the schema and the check.
- `validate_date` (`application/planning.rs:661`) parses with `u16` and `u8`, which take a
  leading `+`, and `validate_timing` compares the text: an event from `2024-+9-01` to
  `2024-01-01` is accepted. `SignsMisleadTheOrder` exhibits one.
- `toolkit.explain` filters partial matches as a search does
  (`application/toolkit.rs:408-413`), so that with `include_partial` false it answers
  that a tool "was not found" when the tool matches in part.
