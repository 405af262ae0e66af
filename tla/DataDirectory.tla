---------------------------- MODULE DataDirectory ----------------------------
(***************************************************************************)
(* The data directory of a device: its keys, its database, and the         *)
(* commands that create, open, copy and restore them.  A command is a      *)
(* sequence of system calls; at each of them it may stop with an error or  *)
(* be killed, and the power may fail.                                      *)
(*                                                                         *)
(* `cache' is what processes see of a file.  `disk' is the set of contents *)
(* a power failure may leave: syncing a file makes its content durable,    *)
(* syncing its directory its entry.  SQLite syncs the directory with the   *)
(* journal of a connection's first commit.  A digest is the content it was *)
(* taken from; what the keys sign and encrypt is known by their ids.       *)
(***************************************************************************)
EXTENDS Migrations, Sequences, FiniteSets

CONSTANTS
  Dirs,         \* directories
  Home,         \* the one that exists at the start
  Devices,      \* its possible files at the start
  Procs,        \* processes that may run at the same time
  Commands,     \* [cmd, dir, src] that operators give
  MaxRuns,      \* bound: commands in a behaviour
  MaxLength,    \* bound: writes in a database
  MaxMishaps    \* bound: commands interrupted, power failures, keys lost

CommandNames == {"init", "register", "serve", "backup", "restore"}

ASSUME HomeAssumption == Home \in Dirs
ASSUME CommandAssumption == Commands \subseteq [cmd : CommandNames, dir : Dirs, src : Dirs]
ASSUME BoundAssumption == MaxRuns \in Nat /\ MaxLength \in Nat /\ MaxMishaps \in Nat

VARIABLES
  cache, disk,   \* the files of every directory
  proc,          \* what every process is doing
  runs, mishaps,  \* the bounded counters
  promised,      \* writes that were acknowledged, per directory (history)
  finished,      \* backups that were reported verified (history)
  bereft,        \* directories whose keys were moved away or left unsynced (history)
  strayed        \* directories that a core entered before their marker was there (history)

history == <<promised, finished, bereft, strayed>>
counters == <<runs, mishaps>>
vars == <<cache, disk, proc, counters, history>>

-----------------------------------------------------------------------------
(* Files                                                                   *)

\* "dir" is the entry in the parent; the token file is in a directory of its own.
KeyFiles == {"author", "master"}
Copied == KeyFiles \cup {"db"}
Entries == Copied \cup {"marker", "manifest"}
Files == Entries \cup {"dir", "token"}

Absent == [kind |-> "absent"]
Plain == [kind |-> "plain"]      \* a directory, or a file without content
Short == [kind |-> "short"]      \* created or copied in part
Key(made) == [kind |-> "key", made |-> made]
Token(made) == [kind |-> "token", made |-> made]
Database(db) == [kind |-> "db", db |-> db]
Manifest(files) == [kind |-> "manifest", files |-> files]

\* Where and when a secret was made tells it from all others: in a directory one is made
\* again only after a mishap.
Secret(d) == <<d, mishaps>>

\* wal: the journal mode of its header; keys: the pairs of keys in use; tokens:
\* the tokens enrolled.  An empty file is an empty database.
NewDatabase ==
  [schema |-> 0, checksums |-> {}, reserved |-> FALSE, ambiguous |-> FALSE,
   wal |-> FALSE, keys |-> {}, length |-> 0, tokens |-> {}]

Nothing == [f \in Files |-> Absent]

\* A device is new, or what a release has left: its keys, a database that they alone wrote
\* and whose accounts are as its version asks, and the file of a token enrolled in it.
ASSUME DeviceAssumption ==
  \A device \in Devices : device = Nothing \/
    LET db == device["db"].db
    IN /\ device = [f \in Files |-> device[f]]
       /\ device["dir"] = Plain /\ device["marker"] = Absent /\ device["manifest"] = Absent
       /\ \A f \in KeyFiles : device[f].kind = "key"
       /\ device["db"].kind = "db"
       /\ db \in [schema : Nat, checksums : {db.checksums}, reserved : BOOLEAN,
                  ambiguous : BOOLEAN, wal : BOOLEAN, keys : {db.keys}, length : 0..MaxLength,
                  tokens : {db.tokens}]
       /\ db.keys \subseteq {<<device["author"].made, device["master"].made>>}
       /\ (db.schema >= 4 => ~db.reserved) /\ (db.schema >= 5 => ~db.ambiguous)
       /\ \A t \in db.tokens : t[1] = Home /\ device["token"] = Token(t)

Exists(d, f) == cache[d][f] # Absent
DbOf(d) == cache[d]["db"].db

\* read_secret: a key file of another length is refused.
WholeKeys(d) == \A f \in KeyFiles : cache[d][f].kind = "key"
KeysOf(d) == <<cache[d]["author"].made, cache[d]["master"].made>>

\* What is written but not synced, and what is.
Written(d, f, content) ==
  /\ cache' = [cache EXCEPT ![d][f] = content]
  /\ disk' = [disk EXCEPT ![d][f] = @ \cup {content}]
\* Seeded fault: the file is synced before what is in the buffer is written.
SyncedBeforeWrite(d, f, content) ==
  /\ cache' = [cache EXCEPT ![d][f] = content]
  /\ disk' = [disk EXCEPT ![d][f] = (@ \cap {Absent}) \cup {cache[d][f]}]
Synced(d, f, content) ==
  /\ cache' = [cache EXCEPT ![d][f] = content]
  /\ disk' = [disk EXCEPT ![d][f] = (@ \cap {Absent}) \cup {content}]

\* The directory's entries are as processes see them.
EntriesSynced(d, files) ==
  [f \in Files |-> IF f \notin files THEN disk[d][f]
                   ELSE IF Exists(d, f) THEN disk[d][f] \ {Absent} ELSE {Absent}]
SyncDir(d, files) ==
  /\ disk' = [disk EXCEPT ![d] = EntriesSynced(d, files)]
  /\ UNCHANGED cache

\* Seeded fault: the journal does not bring the directory with it.
CommittedAlone(d, db) == Synced(d, "db", Database(db))
\* A transaction of SQLite commits.
Committed(d, db) ==
  /\ cache' = [cache EXCEPT ![d]["db"] = Database(db)]
  /\ disk' = [disk EXCEPT ![d] = [EntriesSynced(d, Entries) EXCEPT !["db"] = {Database(db)}]]

-----------------------------------------------------------------------------
(* Commands                                                                *)

Ensured(f) == <<<<"create", f>>, <<"write", f>>, <<"sync", f>>>>
Owned == <<<<"check", "marker">>, <<"lock", "dir">>>>
Device == <<<<"device", "db">>>> \o Ensured("author") \o Ensured("master")
Opening == <<<<"open", "db">>, <<"wal", "db">>, <<"migrate", "db">>>>
Marking == <<<<"mkdir", "dir">>, <<"mark", "marker">>, <<"marked", "marker">>>>

\* Seeded fault: the marker goes before the copied entries are synced.
FinishingEarly == <<<<"unmark", "marker">>, <<"settle", "dir">>, <<"finish", "dir">>>>
Finishing == <<<<"settle", "dir">>, <<"unmark", "marker">>, <<"finish", "dir">>>>

\* Seeded fault: the token file is written when its token is enrolled.
RegisterLate ==
  Owned \o Device \o Opening \o <<<<"enroll", "db">>, <<"link", "token">>, <<"settle", "token">>>>
Register ==
  Owned \o Device \o <<<<"link", "token">>, <<"settle", "token">>>> \o Opening \o <<<<"enroll", "db">>>>

Backup ==
  <<<<"source", "dir">>>> \o Marking
    \o <<<<"copy", "author">>, <<"copy", "master">>, <<"empty", "db">>, <<"snapshot", "db">>,
         <<"seal", "manifest">>, <<"history", "db">>>> \o Finishing
\* Seeded fault: what was copied is not compared with the manifest.
RestoreUnchecked ==
  <<<<"verify", "dir">>>> \o Marking
    \o <<<<"copy", "db">>, <<"copy", "author">>, <<"copy", "master">>>> \o Finishing
Restore ==
  <<<<"verify", "dir">>>> \o Marking
    \o <<<<"copy", "db">>, <<"copy", "author">>, <<"copy", "master">>, <<"compare", "dir">>>>
    \o Finishing

Program ==
  [init |-> Owned \o Device \o Opening,
   register |-> Register,
   serve |-> Owned \o <<<<"load", "dir">>>> \o Opening \o <<<<"serve", "db">>>>,
   backup |-> Backup,
   restore |-> Restore]

\* secret: what the command makes, or of serve the keys it loaded; of a backup or restore
\* the file that it has created and not yet filled.
Idle == [cmd |-> "none", dir |-> Home, src |-> Home, step |-> 0, secret |-> <<>>]
Running(p) == proc[p] # Idle
At(p, op) == Running(p) /\ Program[proc[p].cmd][proc[p].step][1] = op
File(p) == Program[proc[p].cmd][proc[p].step][2]
Dir(p) == proc[p].dir
Src(p) == proc[p].src

\* The process goes on by n steps; after its last one it exits with success.
Advanced(p, n) ==
  IF proc[p].step + n > Len(Program[proc[p].cmd]) THEN Idle
  ELSE [proc[p] EXCEPT !.step = @ + n]
Proceed(p) == proc' = [proc EXCEPT ![p] = Advanced(p, 1)]

\* A command starts.  Nobody opens a directory while a backup makes it.  Commands
\* without a directory in common do not affect each other, and run one by one.
Run(p, c) ==
  /\ ~Running(p)
  /\ runs < MaxRuns
  /\ \A q \in Procs : Running(q) =>
       /\ {c.dir, c.src} \cap {Dir(q), Src(q)} # {}
       /\ ~("backup" \in {proc[q].cmd, c.cmd} /\ Dir(q) = c.dir)
  /\ proc' = [proc EXCEPT ![p] =
       [cmd |-> c.cmd, dir |-> c.dir, src |-> c.src, step |-> 1,
        secret |-> IF c.cmd \in {"init", "register"} THEN Secret(c.dir) ELSE <<>>]]
  /\ runs' = runs + 1
  /\ UNCHANGED <<cache, disk, mishaps, history>>

-----------------------------------------------------------------------------
(* What a step asks for.  Where it is refused the command ends.            *)

\* The file lock, held until the process ends.
HasLock(q, d) ==
  Running(q) /\ proc[q].dir = d /\ proc[q].cmd \in {"init", "register", "serve"} /\ proc[q].step > 2

\* Seeded fault: a database without its keys gets new ones.
KeysIfDatabaseNever(d) == TRUE
\* initialize_data_dir: a database needs its original keys.
KeysIfDatabase(d) == Exists(d, "db") => WholeKeys(d)

\* The manifest names what the files hold now.
Sealed(d) == Manifest([f \in Copied |-> cache[d][f]])

\* verify_history: one device wrote everything.
OfOneDevice(d) == DbOf(d).keys \subseteq {KeysOf(d)}

\* verify_files and the checks after it, against the manifest of s.
Genuine(d, s) ==
  /\ cache[s]["manifest"] = Sealed(d)
  /\ WholeKeys(d)
  /\ cache[d]["db"].kind = "db" /\ Complete(DbOf(d)) /\ OfOneDevice(d)

\* copy_private has created its file: of a database an empty one.
Created(f) == IF f = "db" THEN Database(NewDatabase) ELSE Short
Filling(p) == proc[p].secret = <<File(p)>>

Allowed(p) ==
  LET d == Dir(p) s == Src(p)
  IN /\ At(p, "check") => ~Exists(d, "marker")
     /\ At(p, "lock") => \A q \in Procs : ~HasLock(q, d)
     /\ At(p, "device") => KeysIfDatabase(d)
     \* ensure_secret: of a key that is there, its length is all that is looked at
     /\ At(p, "create") => cache[d][File(p)] = Absent \/ cache[d][File(p)].kind = "key"
     /\ At(p, "load") => WholeKeys(d)
     /\ At(p, "link") => ~Exists(d, "token")
     /\ At(p, "open") => ~Exists(d, "db") \/ cache[d]["db"].kind = "db"
     /\ At(p, "wal") \/ At(p, "enroll") => cache[d]["db"].kind = "db"
     /\ At(p, "migrate") => cache[d]["db"].kind = "db" /\ (Complete(DbOf(d)) \/ CanMigrate(DbOf(d)))
     /\ At(p, "source") => WholeKeys(s) /\ ~Exists(s, "marker")
     /\ At(p, "verify") => ~Exists(s, "marker") /\ Genuine(s, s)
     /\ At(p, "mkdir") => ~Exists(d, "dir")
     /\ At(p, "copy") => Exists(s, File(p)) /\ (Filling(p) \/ ~Exists(d, File(p)))
     /\ At(p, "snapshot") => cache[s]["db"].kind = "db" /\ Complete(DbOf(s))
     /\ At(p, "history") => WholeKeys(d) /\ OfOneDevice(d)
     /\ At(p, "compare") => Genuine(d, s)

\* Steps that only look.
Look(p) ==
  /\ \E op \in {"lock", "device", "source", "verify", "history", "compare"} : At(p, op)
  /\ Allowed(p)
  /\ Proceed(p)
  /\ UNCHANGED <<cache, disk, counters, history>>

\* The command ends with an error; register then removes its token file if it was
\* register_application that failed.
Fail(p) ==
  /\ proc' = [proc EXCEPT ![p] = Idle]
  /\ IF proc[p].cmd = "register" /\ (\E op \in {"open", "wal", "migrate", "enroll"} : At(p, op))
     THEN Written(Dir(p), "token", Absent) ELSE UNCHANGED <<cache, disk>>

Refuse(p) ==
  /\ Running(p) /\ ~Allowed(p)
  /\ Fail(p)
  /\ UNCHANGED <<counters, history>>

-----------------------------------------------------------------------------
(* Opening a directory                                                     *)

\* lock_data_dir, first half: the directory is made if need be, and its parent never
\* synced.  A restore holds no lock, and may have made the directory and not yet the
\* marker that the core looks for.
CheckMarker(p) ==
  /\ At(p, "check") /\ Allowed(p)
  /\ IF Exists(Dir(p), "dir") THEN UNCHANGED <<cache, disk>> ELSE Written(Dir(p), "dir", Plain)
  /\ strayed' = strayed \cup {d \in {Dir(p)} : \E q \in Procs : At(q, "mark") /\ Dir(q) = d}
  /\ Proceed(p)
  /\ UNCHANGED <<counters, promised, finished, bereft>>

\* ensure_secret
Create(p) ==
  /\ At(p, "create") /\ ~Exists(Dir(p), File(p))
  /\ Written(Dir(p), File(p), Short)
  /\ Proceed(p)
  /\ UNCHANGED <<counters, history>>

Keep(p) ==
  /\ At(p, "create") /\ Exists(Dir(p), File(p)) /\ Allowed(p)
  /\ proc' = [proc EXCEPT ![p] = Advanced(p, 3)]
  /\ UNCHANGED <<cache, disk, counters, history>>

WriteKey(p) ==
  /\ At(p, "write")
  /\ Written(Dir(p), File(p), Key(proc[p].secret))
  /\ Proceed(p)
  /\ UNCHANGED <<counters, history>>

SyncKey(p) ==
  /\ At(p, "sync")
  /\ Synced(Dir(p), File(p), cache[Dir(p)][File(p)])
  /\ Proceed(p)
  /\ UNCHANGED <<counters, history>>

\* load_keys of serve.
LoadKeys(p) ==
  /\ At(p, "load") /\ Allowed(p)
  /\ proc' = [proc EXCEPT ![p] = [Advanced(p, 1) EXCEPT !.secret = KeysOf(Dir(p))]]
  /\ UNCHANGED <<cache, disk, counters, history>>

\* write_token_file: a synced staging file is linked to a path that is free.
LinkToken(p) ==
  /\ At(p, "link") /\ Allowed(p)
  /\ Written(Dir(p), "token", Token(proc[p].secret))
  /\ Proceed(p)
  /\ UNCHANGED <<counters, history>>

SettleToken(p) ==
  /\ At(p, "settle") /\ File(p) = "token"
  /\ disk' = [disk EXCEPT ![Dir(p)]["token"] = {cache[Dir(p)]["token"]}]
  /\ UNCHANGED cache
  /\ Proceed(p)
  /\ UNCHANGED <<counters, history>>

\* Connection::open creates the file; a backup that is opened is in use.
Open(p) ==
  /\ At(p, "open") /\ Allowed(p)
  /\ IF Exists(Dir(p), "db") THEN UNCHANGED <<cache, disk>>
     ELSE Written(Dir(p), "db", Database(NewDatabase))
  /\ finished' = finished \ {Dir(p)}
  /\ Proceed(p)
  /\ UNCHANGED <<counters, promised, bereft, strayed>>

\* set_wal_with_retry changes the header once.
SetWal(p) ==
  /\ At(p, "wal") /\ Allowed(p)
  /\ IF DbOf(Dir(p)).wal THEN UNCHANGED <<cache, disk>>
     ELSE Committed(Dir(p), [DbOf(Dir(p)) EXCEPT !.wal = TRUE])
  /\ Proceed(p)
  /\ UNCHANGED <<counters, history>>

\* apply_migrations: one version, or the check at the end.
Migrate(p) ==
  /\ At(p, "migrate") /\ Allowed(p)
  /\ IF Complete(DbOf(Dir(p))) THEN Proceed(p) /\ UNCHANGED <<cache, disk>>
     ELSE Committed(Dir(p), Migrated(DbOf(Dir(p)))) /\ UNCHANGED proc
  /\ UNCHANGED <<counters, history>>

\* register_application
Enroll(p) ==
  /\ At(p, "enroll") /\ Allowed(p)
  /\ Committed(Dir(p), [DbOf(Dir(p)) EXCEPT !.tokens = {proc[p].secret}])
  /\ Proceed(p)
  /\ UNCHANGED <<counters, history>>

\* A write is committed and acknowledged.
Serve(p) ==
  /\ At(p, "serve") /\ cache[Dir(p)]["db"].kind = "db"
  /\ DbOf(Dir(p)).length < MaxLength /\ promised[Dir(p)] < MaxLength
  /\ Committed(Dir(p), [DbOf(Dir(p)) EXCEPT !.length = @ + 1, !.keys = @ \cup {proc[p].secret}])
  /\ promised' = [promised EXCEPT ![Dir(p)] = @ + 1]
  /\ UNCHANGED <<proc, counters, finished, bereft, strayed>>

-----------------------------------------------------------------------------
(* Backup and restore                                                      *)

\* create_destination: the directory is new, and marked before anything is in it.
MakeDir(p) ==
  /\ At(p, "mkdir") /\ Allowed(p)
  /\ Written(Dir(p), "dir", Plain)
  /\ Proceed(p)
  /\ UNCHANGED <<counters, history>>

Mark(p) ==
  /\ At(p, "mark")
  /\ Synced(Dir(p), "marker", Plain)
  /\ Proceed(p)
  /\ UNCHANGED <<counters, history>>

LengthOf(content) == IF content.kind = "db" THEN content.db.length ELSE 0
Marked(p) ==
  /\ At(p, "marked")
  /\ SyncDir(Dir(p), Entries \cup {"dir"})
  /\ promised' = [promised EXCEPT ![Dir(p)] =
       IF Src(p) \in strayed THEN 0 ELSE LengthOf(cache[Src(p)]["db"])]
  /\ Proceed(p)
  /\ UNCHANGED <<counters, finished, bereft, strayed>>

\* What a reader of the file gets: of a database in WAL mode maybe parts of two states,
\* or one without the commits that are in the log only.
Readable(d, f) ==
  {cache[d][f]} \cup
  (IF f = "db" /\ cache[d]["db"].kind = "db" /\ DbOf(d).wal
   THEN {Short} \cup {Database([DbOf(d) EXCEPT !.length = n]) : n \in 0..DbOf(d).length}
   ELSE {})

\* copy_private, first half: the file must be new.
BeginCopy(p) ==
  /\ At(p, "copy") /\ Allowed(p) /\ ~Filling(p)
  /\ Written(Dir(p), File(p), Created(File(p)))
  /\ proc' = [proc EXCEPT ![p].secret = <<File(p)>>]
  /\ UNCHANGED <<counters, history>>

\* Second half; where a core has written to the file meanwhile it ends as neither's.
Copy(p) ==
  /\ At(p, "copy") /\ Allowed(p) /\ Filling(p)
  /\ \E content \in IF cache[Dir(p)][File(p)] = Created(File(p)) THEN Readable(Src(p), File(p))
                    ELSE {Short} : Synced(Dir(p), File(p), content)
  /\ Proceed(p)
  /\ UNCHANGED <<counters, history>>

\* backup_database into an empty file: a consistent state of the source, in DELETE
\* mode, synced after it was verified.
Empty(p) ==
  /\ At(p, "empty")
  /\ Synced(Dir(p), "db", Database(NewDatabase))
  /\ Proceed(p)
  /\ UNCHANGED <<counters, history>>

\* Seeded fault: the copy is verified and never synced.
SnapshotUnsynced(p) ==
  /\ At(p, "snapshot") /\ Allowed(p)
  /\ Written(Dir(p), "db", Database([DbOf(Src(p)) EXCEPT !.wal = FALSE]))
  /\ Proceed(p)
  /\ UNCHANGED <<counters, history>>
Snapshot(p) ==
  /\ At(p, "snapshot") /\ Allowed(p)
  /\ Synced(Dir(p), "db", Database([DbOf(Src(p)) EXCEPT !.wal = FALSE]))
  /\ Proceed(p)
  /\ UNCHANGED <<counters, history>>

Seal(p) ==
  /\ At(p, "seal")
  /\ Synced(Dir(p), "manifest", Sealed(Dir(p)))
  /\ Proceed(p)
  /\ UNCHANGED <<counters, history>>

\* finish_destination: the entries, then the marker, then that it is gone.
Settle(p) ==
  /\ At(p, "settle") /\ File(p) = "dir"
  /\ SyncDir(Dir(p), Entries)
  /\ Proceed(p)
  /\ UNCHANGED <<counters, history>>

Unmark(p) ==
  /\ At(p, "unmark")
  /\ Written(Dir(p), "marker", Absent)
  /\ Proceed(p)
  /\ UNCHANGED <<counters, history>>

Finish(p) ==
  /\ At(p, "finish")
  /\ SyncDir(Dir(p), Entries \cup {"dir"})
  /\ finished' = finished \cup (IF proc[p].cmd = "backup" THEN {Dir(p)} ELSE {})
  /\ Proceed(p)
  /\ UNCHANGED <<counters, promised, bereft, strayed>>

-----------------------------------------------------------------------------
(* What may go wrong                                                       *)

\* serve ends when it is told to.
Stop(p) ==
  /\ At(p, "serve")
  /\ proc' = [proc EXCEPT ![p] = Idle]
  /\ UNCHANGED <<cache, disk, counters, history>>

\* A command ends at any step: a system call fails, or the process is killed.  A
\* key that was written and not synced is taken for a good one ever after.
Interrupt(p) ==
  /\ Running(p)
  /\ mishaps < MaxMishaps
  /\ Fail(p) \/ (proc' = [proc EXCEPT ![p] = Idle] /\ UNCHANGED <<cache, disk>>)
  /\ mishaps' = mishaps + 1
  /\ bereft' = bereft \cup (IF At(p, "sync") THEN {Dir(p)} ELSE {})
  /\ UNCHANGED <<runs, promised, finished, strayed>>

\* The power fails.  One directory loses what was not durable, in every way
\* its `disk' allows; of the others everything had reached the disk.
Outcomes(d) ==
  {o \in
    {[Nothing EXCEPT !["dir"] = Plain, !["author"] = author, !["master"] = master, !["db"] = db,
                     !["marker"] = marker, !["manifest"] = manifest, !["token"] = token] :
       author \in disk[d]["author"], master \in disk[d]["master"], db \in disk[d]["db"],
       marker \in disk[d]["marker"], manifest \in disk[d]["manifest"], token \in disk[d]["token"]}
    \cup {[Nothing EXCEPT !["token"] = token] : token \in disk[d]["token"]} :
   o["dir"] \in disk[d]["dir"]}
PowerFailure(d) ==
  /\ mishaps < MaxMishaps
  /\ \E o \in Outcomes(d) :
       /\ cache' = [cache EXCEPT ![d] = o]
       /\ promised' = [promised EXCEPT ![d] = IF o["dir"] = Absent THEN 0 ELSE @]
       /\ strayed' = strayed \ (IF o["dir"] = Absent THEN {d} ELSE {})
  /\ disk' = [e \in Dirs |-> [f \in Files |-> {cache'[e][f]}]]
  /\ proc' = [p \in Procs |-> Idle]
  /\ mishaps' = mishaps + 1
  /\ UNCHANGED <<runs, finished, bereft>>

InUse(d) == \E p \in Procs : Running(p) /\ d \in {Dir(p), Src(p)}

\* An operator moves a directory's database without the keys.
LoseKeys(d) ==
  /\ mishaps < MaxMishaps /\ ~InUse(d) /\ Exists(d, "db")
  /\ cache' = [cache EXCEPT ![d] = [f \in Files |-> IF f \in KeyFiles THEN Absent ELSE @[f]]]
  /\ disk' = [disk EXCEPT ![d] = [f \in Files |-> IF f \in KeyFiles THEN {Absent} ELSE @[f]]]
  /\ mishaps' = mishaps + 1
  /\ finished' = finished \ {d}
  /\ bereft' = bereft \cup {d}
  /\ UNCHANGED <<proc, runs, promised, strayed>>

\* A release that knows none of the later versions opens the directory.
PreviousRelease(d) ==
  /\ runs < MaxRuns /\ ~InUse(d) /\ cache[d]["db"].kind = "db" /\ ~Exists(d, "marker")
  /\ DbOf(d).schema \in 1..4
  /\ \E db \in OfPreviousRelease(DbOf(d)) : db # DbOf(d) /\ Committed(d, db)
  /\ runs' = runs + 1
  /\ UNCHANGED <<proc, mishaps, history>>

-----------------------------------------------------------------------------
(* The specification                                                       *)

Init ==
  /\ \E device \in Devices : cache = [d \in Dirs |-> IF d = Home THEN device ELSE Nothing]
  /\ disk = [d \in Dirs |-> [f \in Files |-> {cache[d][f]}]]
  /\ proc = [p \in Procs |-> Idle]
  /\ runs = 0 /\ mishaps = 0
  /\ promised = [d \in Dirs |-> LengthOf(cache[d]["db"])]
  /\ finished = {} /\ bereft = {} /\ strayed = {}

Step(p) ==
  \/ Look(p) \/ Refuse(p) \/ CheckMarker(p)
  \/ Create(p) \/ Keep(p) \/ WriteKey(p) \/ SyncKey(p) \/ LoadKeys(p)
  \/ LinkToken(p) \/ SettleToken(p)
  \/ Open(p) \/ SetWal(p) \/ Migrate(p) \/ Enroll(p) \/ Serve(p) \/ Stop(p)
  \/ MakeDir(p) \/ Mark(p) \/ Marked(p) \/ BeginCopy(p) \/ Copy(p) \/ Empty(p) \/ Snapshot(p) \/ Seal(p)
  \/ Settle(p) \/ Unmark(p) \/ Finish(p)

Next ==
  \/ \E p \in Procs : (\E c \in Commands : Run(p, c)) \/ Step(p) \/ Interrupt(p)
  \/ \E d \in Dirs : PowerFailure(d) \/ LoseKeys(d) \/ PreviousRelease(d)

Spec == Init /\ [][Next]_vars

-----------------------------------------------------------------------------
(* Properties                                                              *)

\* What processes see of a file is among what a power failure may leave of it, and
\* no file is in a directory that is not there.
TypeOK ==
  /\ \A d \in Dirs, f \in Files : cache[d][f] \in disk[d][f]
  /\ \A d \in Dirs : ~Exists(d, "dir") => \A f \in Entries : ~Exists(d, f)
  /\ \A p \in Procs : Running(p) => proc[p].step \in 1..Len(Program[proc[p].cmd])
  /\ promised \in [Dirs -> 0..MaxLength]
  /\ finished \subseteq Dirs /\ bereft \subseteq Dirs /\ strayed \subseteq Dirs

\* A core that serves has a database of the schema it was written for, none of
\* whose accounts has a reserved name or two roles; holds the keys that wrote
\* and encrypted all of it; and every write that was acknowledged since the
\* directory was made, or was in what it was restored from, is there.  Not so in
\* a directory that a core entered before a restore had marked it: a core may make
\* keys there, be killed, and the next one serve with them what the restore copies.
ServedIsWhole ==
  \A p \in Procs : At(p, "serve") /\ Dir(p) \notin strayed =>
    LET db == DbOf(Dir(p))
    IN /\ Complete(db) /\ ~db.reserved /\ ~db.ambiguous
       /\ proc[p].secret = KeysOf(Dir(p)) /\ OfOneDevice(Dir(p))
       /\ db.length >= promised[Dir(p)]

\* Whatever a power failure leaves of a directory: when the database has content,
\* the keys that were made before it are there too, whole.
KeysOutliveIn(d) ==
  Absent \in disk[d]["marker"] =>
    \A content \in disk[d]["db"] :
      (content.kind = "db" /\ content.db.schema > 0) =>
        WholeKeys(d) /\ \A f \in KeyFiles : disk[d][f] = {cache[d][f]}
KeysOutliveDatabase == \A d \in Dirs \ bereft : KeysOutliveIn(d)

\* What was reported as a verified backup can be restored from, whatever fails
\* afterwards, until somebody opens it.
FinishedBackupSurvives ==
  \A d \in finished :
    /\ \A f \in Entries \cup {"dir"} : disk[d][f] = {cache[d][f]}
    /\ ~Exists(d, "marker") /\ Genuine(d, d)

\* A capability that a database accepts, or may accept after a power failure, was
\* handed out in a file that is then there.
RegisteredTokenIsDurable ==
  \A d \in Dirs : \A content \in disk[d]["db"] : content.kind = "db" =>
    \A t \in content.db.tokens : disk[t[1]]["token"] = {Token(t)}
=============================================================================
