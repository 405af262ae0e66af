------------------------ MODULE DataDirectoryProofs ------------------------
(***************************************************************************)
(* Proofs about DataDirectory: whatever commands are given, by any number  *)
(* of processes on any number of directories, wherever they are            *)
(* interrupted and whatever a power failure takes.  Of a directory that a  *)
(* core entered between the mkdir and the marker of a restore (`strayed')  *)
(* only what is said of types, backups and tokens is proved.               *)
(***************************************************************************)
EXTENDS DataDirectory, TLAPS

-----------------------------------------------------------------------------
(* Types: of a database its fields; of other contents only what is used.   *)

Grid(files) == files = [d \in Dirs |-> [f \in Files |-> files[d][f]]]

DbOk(db) ==
  /\ db \in [schema : Nat, checksums : {db.checksums}, reserved : BOOLEAN, ambiguous : BOOLEAN,
             wal : BOOLEAN, keys : {db.keys}, length : 0..MaxLength, tokens : {db.tokens}]
  /\ db.schema >= 4 => ~db.reserved
  /\ db.schema >= 5 => ~db.ambiguous

\* A manifest names a database that was sealed in DELETE mode.
ContentOk(f, content) ==
  /\ f = "db" => content.kind \in {"absent", "short", "db"}
  /\ f = "db" /\ content.kind = "absent" => content = Absent
  /\ f = "db" /\ content.kind = "db" => DbOk(content.db)
  /\ f = "dir" => content \in {Absent, Plain}
  /\ f = "manifest" /\ content # Absent =>
       content.kind = "manifest" /\ content.files["db"].kind = "db" /\ ~content.files["db"].db.wal

FilesOk ==
  /\ Grid(cache) /\ Grid(disk)
  /\ \A d \in Dirs, f \in Files : cache[d][f] \in disk[d][f]
  /\ \A d \in Dirs, f \in Files : \A content \in disk[d][f] : ContentOk(f, content)

ProcOk(p) ==
  /\ proc[p] \in [cmd : CommandNames \cup {"none"}, dir : Dirs, src : Dirs, step : Nat,
                  secret : {proc[p].secret}]
  /\ proc[p].cmd = "none" => proc[p] = Idle
  /\ proc[p].cmd # "none" => proc[p].step \in 1..Len(Program[proc[p].cmd])
  /\ proc[p].cmd \in {"init", "register"} => proc[p].secret[1] = Dir(p)

Typed ==
  /\ FilesOk
  /\ proc \in [Procs -> {proc[p] : p \in Procs}] /\ \A p \in Procs : ProcOk(p)
  /\ promised \in [Dirs -> 0..MaxLength]
  /\ finished \subseteq Dirs /\ bereft \subseteq Dirs /\ strayed \subseteq Dirs

-----------------------------------------------------------------------------
(* Who may be where at the same time                                       *)

\* A command that opens its directory, from the look for the marker on.
Opens(p) == proc[p].cmd \in {"init", "register", "serve"}
Claims(p) == Opens(p) /\ proc[p].step > 1
Locks(p) == Opens(p) /\ proc[p].step > 2
\* The last system call that needs the marker.
Last(p) == IF proc[p].cmd = "backup" THEN 12 ELSE 10
Makes(p) == proc[p].cmd \in {"backup", "restore"}
\* A command that has found its source, one that has made its directory, and one whose
\* directory is still marked or to be marked.
Reads(p) == Makes(p) /\ proc[p].step > 1
Made(p) == Makes(p) /\ proc[p].step > 2
Making(p) == Made(p) /\ proc[p].step <= Last(p)

\* Where no core has strayed, a directory is used by one process, or only read.
Exclusive ==
  /\ \A p, q \in Procs :
       /\ Locks(p) /\ Locks(q) /\ Dir(p) = Dir(q) => p = q
       /\ Made(p) /\ Made(q) /\ Dir(p) = Dir(q) => p = q
       /\ Making(p) /\ Claims(q) /\ Dir(p) = Dir(q) => Dir(p) \in strayed
       /\ Making(p) /\ Reads(q) /\ Dir(p) = Src(q) => Dir(p) \in strayed
       /\ proc[p].cmd = "backup" /\ proc[q].cmd # "none" /\ Dir(p) = Dir(q) => p = q
  /\ \A p \in Procs :
       /\ Claims(p) => Exists(Dir(p), "dir")
       /\ Claims(p) /\ Exists(Dir(p), "marker") => Dir(p) \in strayed
       /\ Made(p) => Exists(Dir(p), "dir")
       /\ Made(p) /\ proc[p].cmd = "backup" => Dir(p) \notin strayed
       /\ Making(p) /\ proc[p].step > 3 => Exists(Dir(p), "marker")
       /\ Making(p) /\ proc[p].step > 4 => Absent \notin disk[Dir(p)]["marker"]
       /\ Reads(p) => WholeKeys(Src(p)) \/ Src(p) \in strayed

\* A directory that a core strayed into is there, and no finished backup.
Strays == \A d \in strayed : Exists(d, "dir") /\ d \notin finished

-----------------------------------------------------------------------------
(* What a command has done when it is at a step                            *)

IsKey(d, f) == cache[d][f].kind = "key"
\* At most the entry, or the content, is not durable.
Steady(d, f) == disk[d][f] \subseteq {Absent, cache[d][f]}
Settled(d, f) == disk[d][f] = {cache[d][f]}
HasDb(d) == cache[d]["db"].kind = "db"
Kept(d, s) == LengthOf(cache[s]["db"]) >= promised[d]
\* A power failure may leave the directory without its marker.
Unmarked(d) == Absent \in disk[d]["marker"]

\* init and register, up to the keys.
KeysStage(p) ==
  LET d == Dir(p) step == proc[p].step
  IN /\ step \in 4..9 => KeysIfDatabase(d)
     /\ step \in {5, 6, 8, 9} => ~Exists(d, "db")
     /\ step = 5 => cache[d]["author"] = Short
     /\ step = 8 => cache[d]["master"] = Short
     /\ step > 5 => IsKey(d, "author")
     /\ step > 8 => IsKey(d, "master")

NobodyHas(d) ==
  \A e \in Dirs : \A content \in disk[e]["db"] : content.kind = "db" =>
    \A t \in content.db.tokens : t[1] # d

TokenStage(p) ==
  LET d == Dir(p) step == proc[p].step
  IN /\ step > 10 => NobodyHas(d)
     /\ step = 11 => cache[d]["token"] = Token(proc[p].secret)
     /\ step > 11 => disk[d]["token"] = {Token(proc[p].secret)}

\* The step that opens the database; three steps later it is ready.
OpenStep(p) == CASE proc[p].cmd = "init" -> 10 [] proc[p].cmd = "register" -> 12 [] OTHER -> 4
Using(p) == Opens(p) /\ proc[p].step > OpenStep(p)
OpenStage(p) ==
  /\ proc[p].step > OpenStep(p) => HasDb(Dir(p))
  /\ proc[p].step > OpenStep(p) + 2 => Complete(DbOf(Dir(p)))

ServeStage(p) ==
  proc[p].step > 3 => WholeKeys(Dir(p)) /\ proc[p].secret = KeysOf(Dir(p))

\* What is verified of a copy.
Verified(d) ==
  /\ HasDb(d) /\ Complete(DbOf(d)) /\ WholeKeys(d) /\ OfOneDevice(d)
  /\ Kept(d, d)
MakeStage(p) ==
  LET d == Dir(p) step == proc[p].step
  IN /\ step = 3 => \A f \in Entries : disk[d][f] = {Absent}
     /\ step = 4 => \A f \in Entries \ {"marker"} : disk[d][f] = {Absent}
     /\ Making(p) => \A f \in Copied \cup {"manifest"} : Steady(d, f)
     /\ step \in 5..8 /\ Src(p) \in strayed => promised[d] = 0
     /\ step = Last(p) => \A f \in Copied \cup {"manifest"} : Settled(d, f)
BackupStage(p) ==
  LET d == Dir(p) step == proc[p].step
  IN /\ step \in 5..8 => Kept(d, Src(p))
     /\ step > 8 => HasDb(d) /\ Complete(DbOf(d)) /\ ~DbOf(d).wal /\ Kept(d, d)
     /\ step > 9 => cache[d]["manifest"] = Sealed(d)
     /\ step > 10 => Verified(d)
     /\ step = 13 => ~Exists(d, "marker") /\ \A f \in Copied \cup {"manifest"} : Settled(d, f)
RestoreStage(p) ==
  LET d == Dir(p) step == proc[p].step
  IN /\ step = 5 => Kept(d, Src(p))
     /\ step \in 6..8 => (HasDb(d) /\ ~DbOf(d).wal => Kept(d, d))
     /\ step \in 9..10 => Verified(d)

\* Where a core has strayed only what is told of tokens is sure.
Stage(p) ==
  /\ proc[p].cmd = "register" => TokenStage(p)
  /\ Dir(p) \notin strayed =>
       /\ proc[p].cmd \in {"init", "register"} => KeysStage(p)
       /\ proc[p].cmd = "serve" => ServeStage(p)
       /\ Opens(p) => OpenStage(p)
       /\ Makes(p) => MakeStage(p)
       /\ proc[p].cmd = "backup" => BackupStage(p)
       /\ proc[p].cmd = "restore" => RestoreStage(p)

-----------------------------------------------------------------------------
(* What is true of every directory                                         *)

Syncing(d, f) ==
  \E p \in Procs : /\ proc[p].cmd \in {"init", "register"} /\ Dir(p) = d
                   /\ proc[p].step = IF f = "author" THEN 6 ELSE 9

\* Nothing is left of a directory or a database that processes do not see.
Gone(d) ==
  /\ ~Exists(d, "dir") => \A f \in Entries : disk[d][f] = {Absent}
  /\ ~Exists(d, "db") => disk[d]["db"] = {Absent}
\* No other key comes back; a key was synced when it is used.
KeysLast(d) ==
  \A f \in KeyFiles :
    /\ \A content \in disk[d][f] : content.kind = "key" => content = cache[d][f]
    /\ d \notin bereft /\ IsKey(d, f) /\ ~Syncing(d, f) => Steady(d, f)
KeysOutlive(d) ==
  d \notin bereft => \A content \in disk[d]["db"] :
    (content.kind = "db" /\ content.db.schema > 0) => WholeKeys(d) /\ \A f \in KeyFiles : Settled(d, f)
\* Every database that may be there is of the keys, and has what was promised.
OneDevice(d) ==
  WholeKeys(d) => \A content \in disk[d]["db"] :
    content.kind = "db" => content.db.keys \subseteq {KeysOf(d)}
PromiseKept(d) == \A content \in disk[d]["db"] : LengthOf(content) >= promised[d]

DirOk(d) ==
  /\ Gone(d)
  /\ d \notin strayed =>
       /\ KeysLast(d)
       /\ Unmarked(d) => KeysOutlive(d) /\ OneDevice(d) /\ PromiseKept(d)

\* RegisteredTokenIsDurable, with what it takes for granted of a token.
TokensOk ==
  \A d \in Dirs : \A content \in disk[d]["db"] : content.kind = "db" =>
    \A t \in content.db.tokens : t[1] \in Dirs /\ disk[t[1]]["token"] = {Token(t)}

\* Nobody is about to change a finished backup.
LeftAlone == \A p \in Procs : Using(p) \/ Made(p) => Dir(p) \notin finished

IInv ==
  /\ Typed /\ Exclusive
  /\ \A p \in Procs : Stage(p)
  /\ \A d \in Dirs : DirOk(d)
  /\ TokensOk
  /\ FinishedBackupSurvives /\ LeftAlone /\ Strays

-----------------------------------------------------------------------------
(* Programs                                                                *)

LEMMA InitTable ==
  LET ops == Program["init"]
  IN  /\ Len(ops) = 12
      /\ ops[1] = <<"check", "marker">> /\ ops[2] = <<"lock", "dir">> /\ ops[3] = <<"device", "db">>
      /\ ops[4] = <<"create", "author">> /\ ops[5] = <<"write", "author">> /\ ops[6] = <<"sync", "author">>
      /\ ops[7] = <<"create", "master">> /\ ops[8] = <<"write", "master">> /\ ops[9] = <<"sync", "master">>
      /\ ops[10] = <<"open", "db">> /\ ops[11] = <<"wal", "db">> /\ ops[12] = <<"migrate", "db">>
  BY DEF Program, Owned, Device, Opening, Ensured, Register, Backup, Restore, Marking, Finishing

LEMMA RegisterTable ==
  LET ops == Program["register"]
  IN  /\ Len(ops) = 15
      /\ ops[1] = <<"check", "marker">> /\ ops[2] = <<"lock", "dir">> /\ ops[3] = <<"device", "db">>
      /\ ops[4] = <<"create", "author">> /\ ops[5] = <<"write", "author">> /\ ops[6] = <<"sync", "author">>
      /\ ops[7] = <<"create", "master">> /\ ops[8] = <<"write", "master">> /\ ops[9] = <<"sync", "master">>
      /\ ops[10] = <<"link", "token">> /\ ops[11] = <<"settle", "token">> /\ ops[12] = <<"open", "db">>
      /\ ops[13] = <<"wal", "db">> /\ ops[14] = <<"migrate", "db">> /\ ops[15] = <<"enroll", "db">>
  BY DEF Program, Owned, Device, Opening, Ensured, Register, Backup, Restore, Marking, Finishing

LEMMA ServeTable ==
  LET ops == Program["serve"]
  IN  /\ Len(ops) = 7
      /\ ops[1] = <<"check", "marker">> /\ ops[2] = <<"lock", "dir">> /\ ops[3] = <<"load", "dir">>
      /\ ops[4] = <<"open", "db">> /\ ops[5] = <<"wal", "db">> /\ ops[6] = <<"migrate", "db">>
      /\ ops[7] = <<"serve", "db">>
  BY DEF Program, Owned, Device, Opening, Ensured, Register, Backup, Restore, Marking, Finishing

LEMMA BackupTable ==
  LET ops == Program["backup"]
  IN  /\ Len(ops) = 13
      /\ ops[1] = <<"source", "dir">> /\ ops[2] = <<"mkdir", "dir">> /\ ops[3] = <<"mark", "marker">>
      /\ ops[4] = <<"marked", "marker">> /\ ops[5] = <<"copy", "author">> /\ ops[6] = <<"copy", "master">>
      /\ ops[7] = <<"empty", "db">> /\ ops[8] = <<"snapshot", "db">> /\ ops[9] = <<"seal", "manifest">>
      /\ ops[10] = <<"history", "db">> /\ ops[11] = <<"settle", "dir">> /\ ops[12] = <<"unmark", "marker">>
      /\ ops[13] = <<"finish", "dir">>
  BY DEF Program, Owned, Device, Opening, Ensured, Register, Backup, Restore, Marking, Finishing

LEMMA RestoreTable ==
  LET ops == Program["restore"]
  IN  /\ Len(ops) = 11
      /\ ops[1] = <<"verify", "dir">> /\ ops[2] = <<"mkdir", "dir">> /\ ops[3] = <<"mark", "marker">>
      /\ ops[4] = <<"marked", "marker">> /\ ops[5] = <<"copy", "db">> /\ ops[6] = <<"copy", "author">>
      /\ ops[7] = <<"copy", "master">> /\ ops[8] = <<"compare", "dir">> /\ ops[9] = <<"settle", "dir">>
      /\ ops[10] = <<"unmark", "marker">> /\ ops[11] = <<"finish", "dir">>
  BY DEF Program, Owned, Device, Opening, Ensured, Register, Backup, Restore, Marking, Finishing

Size(cmd) == Len(Program[cmd])

LEMMA Lengths ==
  /\ Size("init") = 12 /\ Size("register") = 15 /\ Size("serve") = 7
  /\ Size("backup") = 13 /\ Size("restore") = 11
  /\ \A cmd \in CommandNames : Size(cmd) \in Nat /\ 1 <= Size(cmd)
<1>1. /\ Size("init") = 12 /\ Size("register") = 15 /\ Size("serve") = 7
      /\ Size("backup") = 13 /\ Size("restore") = 11
  BY InitTable, RegisterTable, ServeTable, BackupTable, RestoreTable DEF Size
<1>2. ASSUME NEW cmd \in CommandNames PROVE Size(cmd) \in Nat /\ 1 <= Size(cmd)
  BY <1>1 DEF CommandNames
<1> QED  BY <1>1, <1>2

\* How long the program of a process is.
LEMMA LengthOfProgram ==
  ASSUME NEW p \in Procs
  PROVE  LET long == Size(proc[p].cmd)
         IN  /\ proc[p].cmd = "init" => long = 12
             /\ proc[p].cmd = "register" => long = 15
             /\ proc[p].cmd = "serve" => long = 7
             /\ proc[p].cmd = "backup" => long = 13
             /\ proc[p].cmd = "restore" => long = 11
BY Lengths

LEMMA Places ==
  ASSUME NEW p \in Procs, ProcOk(p)
  PROVE  LET cmd == proc[p].cmd step == proc[p].step prepares == cmd \in {"init", "register"}
         IN  /\ Running(p) <=> cmd # "none"
             /\ At(p, "check") <=> Opens(p) /\ step = 1
             /\ At(p, "lock") <=> Opens(p) /\ step = 2
             /\ At(p, "device") <=> prepares /\ step = 3
             /\ At(p, "create") <=> prepares /\ step \in {4, 7}
             /\ At(p, "write") <=> prepares /\ step \in {5, 8}
             /\ At(p, "sync") <=> prepares /\ step \in {6, 9}
             /\ At(p, "link") <=> cmd = "register" /\ step = 10
             /\ At(p, "load") <=> cmd = "serve" /\ step = 3
             /\ At(p, "open") <=> Opens(p) /\ step = OpenStep(p)
             /\ At(p, "wal") <=> Opens(p) /\ step = OpenStep(p) + 1
             /\ At(p, "migrate") <=> Opens(p) /\ step = OpenStep(p) + 2
             /\ At(p, "enroll") <=> cmd = "register" /\ step = 15
             /\ At(p, "serve") <=> cmd = "serve" /\ step = 7
             /\ At(p, "source") <=> cmd = "backup" /\ step = 1
             /\ At(p, "verify") <=> cmd = "restore" /\ step = 1
             /\ At(p, "mkdir") <=> Makes(p) /\ step = 2
             /\ At(p, "mark") <=> Makes(p) /\ step = 3
             /\ At(p, "marked") <=> Makes(p) /\ step = 4
             /\ At(p, "copy") <=> (cmd = "backup" /\ step \in {5, 6}) \/ (cmd = "restore" /\ step \in {5, 6, 7})
             /\ At(p, "empty") <=> cmd = "backup" /\ step = 7
             /\ At(p, "snapshot") <=> cmd = "backup" /\ step = 8
             /\ At(p, "seal") <=> cmd = "backup" /\ step = 9
             /\ At(p, "history") <=> cmd = "backup" /\ step = 10
             /\ At(p, "compare") <=> cmd = "restore" /\ step = 8
             /\ At(p, "settle") <=> (cmd = "register" /\ step = 11) \/ (Makes(p) /\ step = Last(p) - 1)
             /\ At(p, "unmark") <=> Makes(p) /\ step = Last(p)
             /\ At(p, "finish") <=> Makes(p) /\ step = Last(p) + 1
<1> DEFINE step == proc[p].step
<1>1. Running(p) => \A op : At(p, op) <=> Program[proc[p].cmd][step][1] = op
  BY DEF At
<1>2. CASE proc[p].cmd = "init"
  <2>1. Running(p) /\ step \in 1..12 /\ Opens(p) /\ ~Makes(p) /\ OpenStep(p) = 10
    BY <1>2, InitTable DEF ProcOk, Running, Idle, Opens, Makes, OpenStep
  <2> HIDE DEF step
  <2> QED  BY <1>1, <1>2, <2>1, InitTable DEF step
<1>3. CASE proc[p].cmd = "register"
  <2>1. Running(p) /\ step \in 1..15 /\ Opens(p) /\ ~Makes(p) /\ OpenStep(p) = 12
    BY <1>3, RegisterTable DEF ProcOk, Running, Idle, Opens, Makes, OpenStep
  <2> HIDE DEF step
  <2> QED  BY <1>1, <1>3, <2>1, RegisterTable DEF step
<1>4. CASE proc[p].cmd = "serve"
  <2>1. Running(p) /\ step \in 1..7 /\ Opens(p) /\ ~Makes(p) /\ OpenStep(p) = 4
    BY <1>4, ServeTable DEF ProcOk, Running, Idle, Opens, Makes, OpenStep
  <2> HIDE DEF step
  <2> QED  BY <1>1, <1>4, <2>1, ServeTable DEF step
<1>5. CASE proc[p].cmd = "backup"
  <2>1. Running(p) /\ step \in 1..13 /\ ~Opens(p) /\ Makes(p) /\ Last(p) = 12
    BY <1>5, BackupTable DEF ProcOk, Running, Idle, Opens, Makes, Last
  <2> HIDE DEF step
  <2> QED  BY <1>1, <1>5, <2>1, BackupTable DEF step
<1>6. CASE proc[p].cmd = "restore"
  <2>1. Running(p) /\ step \in 1..11 /\ ~Opens(p) /\ Makes(p) /\ Last(p) = 10
    BY <1>6, RestoreTable DEF ProcOk, Running, Idle, Opens, Makes, Last
  <2> HIDE DEF step
  <2> QED  BY <1>1, <1>6, <2>1, RestoreTable DEF step
<1>7. CASE proc[p].cmd = "none"  BY <1>7, SMTT(30) DEF ProcOk, At, Running, Idle, Opens, Makes
<1> QED  BY <1>2, <1>3, <1>4, <1>5, <1>6, <1>7 DEF ProcOk, CommandNames

LEMMA FilesOfSteps ==
  ASSUME NEW p \in Procs, ProcOk(p)
  PROVE  LET cmd == proc[p].cmd step == proc[p].step prepares == cmd \in {"init", "register"}
         IN  /\ prepares /\ step \in 4..6 => File(p) = "author"
             /\ prepares /\ step \in 7..9 => File(p) = "master"
             /\ cmd = "register" /\ step = 11 => File(p) = "token"
             /\ Makes(p) /\ step = Last(p) - 1 => File(p) = "dir"
             /\ cmd = "backup" /\ step = 5 => File(p) = "author"
             /\ cmd = "backup" /\ step = 6 => File(p) = "master"
             /\ cmd = "restore" /\ step = 5 => File(p) = "db"
             /\ cmd = "restore" /\ step = 6 => File(p) = "author"
             /\ cmd = "restore" /\ step = 7 => File(p) = "master"
<1> USE DEF File, ProcOk, Running, Idle, Makes, Last
<1>1. CASE proc[p].cmd = "init"  BY <1>1, InitTable
<1>2. CASE proc[p].cmd = "register"  BY <1>2, RegisterTable
<1>3. CASE proc[p].cmd = "backup"  BY <1>3, BackupTable
<1>4. CASE proc[p].cmd = "restore"  BY <1>4, RestoreTable
<1> QED  BY <1>1, <1>2, <1>3, <1>4

LEMMA ProcFields ==
  ASSUME NEW p \in Procs, ProcOk(p)
  PROVE  LET step == proc[p].step
         IN  /\ proc[p].cmd \in CommandNames \cup {"none"} /\ step \in Nat
             /\ Dir(p) \in Dirs /\ Src(p) \in Dirs
             /\ proc[p].cmd # "none" => step > 0
             /\ proc[p].cmd = "init" => step <= 12
             /\ proc[p].cmd = "register" => step <= 15
             /\ proc[p].cmd = "serve" => step <= 7
             /\ proc[p].cmd = "backup" => step <= 13
             /\ proc[p].cmd = "restore" => step <= 11
<1>1. /\ proc[p].cmd \in CommandNames \cup {"none"} /\ proc[p].step \in Nat
      /\ Dir(p) \in Dirs /\ Src(p) \in Dirs
  BY DEF ProcOk, Dir, Src
<1>2. proc[p].cmd # "none" => proc[p].step \in 1..Len(Program[proc[p].cmd])
  BY DEF ProcOk
<1>3. proc[p].cmd = "init" => proc[p].step \in 1..12
  BY <1>2, InitTable
<1>4. proc[p].cmd = "register" => proc[p].step \in 1..15
  BY <1>2, RegisterTable
<1>5. proc[p].cmd = "serve" => proc[p].step \in 1..7
  BY <1>2, ServeTable
<1>6. proc[p].cmd = "backup" => proc[p].step \in 1..13
  BY <1>2, BackupTable
<1>7. proc[p].cmd = "restore" => proc[p].step \in 1..11
  BY <1>2, RestoreTable
<1> QED  BY <1>1, <1>3, <1>4, <1>5, <1>6, <1>7 DEF CommandNames

\* A process goes on, or ends.
LEMMA Advance ==
  ASSUME Typed, NEW p \in Procs, Running(p), NEW n \in {1, 3},
         proc' = [proc EXCEPT ![p] = Advanced(p, n)]
  PROVE  LET long == Size(proc[p].cmd)
         IN  /\ proc' \in [Procs -> {proc'[q] : q \in Procs}]
             /\ \A q \in Procs : q # p => proc'[q] = proc[q]
             /\ proc[p].step + n > long => proc'[p] = Idle
             /\ proc[p].step + n <= long =>
                  /\ proc'[p].cmd = proc[p].cmd /\ proc'[p].dir = proc[p].dir
                  /\ proc'[p].src = proc[p].src /\ proc'[p].secret = proc[p].secret
                  /\ proc'[p].step = proc[p].step + n
             /\ \A q \in Procs : ProcOk(q)'
<1> DEFINE long == Size(proc[p].cmd)
<1>1. /\ proc \in [Procs -> {proc[q] : q \in Procs}] /\ \A q \in Procs : ProcOk(q)
  BY DEF Typed
<1>2. proc[p].cmd \in CommandNames /\ proc[p].step \in 1..long /\ long \in Nat
  <2>1. proc[p].cmd \in CommandNames /\ proc[p].step \in 1..long
    BY <1>1 DEF ProcOk, Running, Size
  <2> QED  BY <2>1, Lengths
<1>3. /\ proc'[p] = Advanced(p, n)
      /\ \A q \in Procs : q # p => proc'[q] = proc[q]
      /\ proc' \in [Procs -> {proc'[q] : q \in Procs}]
  BY <1>1
<1>4. CASE proc[p].step + n > long
  <2>1. proc'[p] = Idle
    BY <1>3, <1>4 DEF Advanced, Size
  <2>2. ProcOk(p)'
    BY <2>1, HomeAssumption DEF ProcOk, Idle, CommandNames, Dir
  <2> QED  BY <1>1, <1>2, <1>3, <1>4, <2>1, <2>2 DEF ProcOk, Dir
<1>5. CASE proc[p].step + n <= long
  <2>1. proc'[p] = [proc[p] EXCEPT !.step = @ + n]
    BY <1>2, <1>3, <1>5 DEF Advanced, Size
  <2>2. /\ proc'[p].cmd = proc[p].cmd /\ proc'[p].dir = proc[p].dir
        /\ proc'[p].src = proc[p].src /\ proc'[p].secret = proc[p].secret
        /\ proc'[p].step = proc[p].step + n
        /\ proc'[p] \in [cmd : CommandNames \cup {"none"}, dir : Dirs, src : Dirs, step : Nat,
                         secret : {proc'[p].secret}]
    BY <1>1, <2>1 DEF ProcOk
  <2>3. ProcOk(p)'
    BY <1>1, <1>2, <1>5, <2>2 DEF ProcOk, Dir, CommandNames, Size
  <2> QED  BY <1>1, <1>2, <1>3, <1>5, <2>2, <2>3 DEF ProcOk, Dir
<1> QED  BY <1>2, <1>4, <1>5

\* A process ends.
LEMMA Ended ==
  ASSUME Typed, NEW p \in Procs, proc' = [proc EXCEPT ![p] = Idle]
  PROVE  /\ proc' \in [Procs -> {proc'[q] : q \in Procs}]
         /\ \A q \in Procs : q # p => proc'[q] = proc[q]
         /\ proc'[p] = Idle
         /\ \A q \in Procs : ProcOk(q)'
<1>1. /\ proc \in [Procs -> {proc[q] : q \in Procs}] /\ \A q \in Procs : ProcOk(q)
  BY DEF Typed
<1>2. /\ proc'[p] = Idle
      /\ \A q \in Procs : q # p => proc'[q] = proc[q]
      /\ proc' \in [Procs -> {proc'[q] : q \in Procs}]
  BY <1>1
<1>3. ProcOk(p)'
  BY <1>2, HomeAssumption DEF ProcOk, Idle, CommandNames, Dir
<1> QED  BY <1>1, <1>2, <1>3 DEF ProcOk, Dir

-----------------------------------------------------------------------------
(* Files                                                                   *)

Put(files, d, f, x) == [files EXCEPT ![d][f] = x]
PutRow(files, d, row) == [files EXCEPT ![d] = row]

LEMMA OneFile ==
  ASSUME NEW files, Grid(files), NEW d \in Dirs, NEW f \in Files, NEW x
  PROVE  /\ Grid(Put(files, d, f, x))
         /\ \A e \in Dirs : e # d => Put(files, d, f, x)[e] = files[e]
         /\ \A g \in Files : Put(files, d, f, x)[d][g] = IF g = f THEN x ELSE files[d][g]
<1> DEFINE new == Put(files, d, f, x)
<1>1. files = [e \in Dirs |-> [g \in Files |-> files[e][g]]]
  BY DEF Grid
<1>2. files[d] = [g \in Files |-> files[d][g]]
  BY <1>1
<1>3. /\ \A e \in Dirs : e # d => new[e] = files[e]
      /\ new[d] = [files[d] EXCEPT ![f] = x]
      /\ new = [e \in Dirs |-> new[e]]
  BY <1>1 DEF Put
<1> HIDE DEF new
<1>4. new[d] = [g \in Files |-> new[d][g]] /\ \A g \in Files : new[d][g] = IF g = f THEN x ELSE files[d][g]
  BY <1>2, <1>3
<1>5. ASSUME NEW e \in Dirs PROVE new[e] = [g \in Files |-> new[e][g]]
  BY <1>1, <1>3, <1>4
<1>6. Grid(new)
  BY <1>3, <1>5 DEF Grid
<1> QED  BY <1>3, <1>4, <1>6 DEF new

LEMMA OneDirectory ==
  ASSUME NEW files, Grid(files), NEW d \in Dirs, NEW row, row = [g \in Files |-> row[g]]
  PROVE  /\ Grid(PutRow(files, d, row))
         /\ \A e \in Dirs : e # d => PutRow(files, d, row)[e] = files[e]
         /\ PutRow(files, d, row)[d] = row
<1> DEFINE new == PutRow(files, d, row)
<1>1. files = [e \in Dirs |-> [g \in Files |-> files[e][g]]]
  BY DEF Grid
<1>2. /\ \A e \in Dirs : e # d => new[e] = files[e]
      /\ new[d] = row
      /\ new = [e \in Dirs |-> new[e]]
  BY <1>1 DEF PutRow
<1> HIDE DEF new
<1>3. ASSUME NEW e \in Dirs PROVE new[e] = [g \in Files |-> new[e][g]]
  BY <1>1, <1>2
<1>4. Grid(new)
  BY <1>2, <1>3 DEF Grid
<1> QED  BY <1>2, <1>4 DEF new

\* The files of other directories stay as they are.
OnlyIn(d) ==
  /\ Grid(cache') /\ Grid(disk')
  /\ \A e \in Dirs : e # d => cache'[e] = cache[e] /\ disk'[e] = disk[e]

Changed(d, f, x, y) ==
  /\ OnlyIn(d)
  /\ \A g \in Files : cache'[d][g] = IF g = f THEN x ELSE cache[d][g]
  /\ \A g \in Files : disk'[d][g] = IF g = f THEN y ELSE disk[d][g]

LEMMA WrittenEffect ==
  ASSUME FilesOk, NEW d \in Dirs, NEW f \in Files, NEW x, Written(d, f, x)
  PROVE  Changed(d, f, x, disk[d][f] \cup {x})
<1>1. cache' = Put(cache, d, f, x) /\ disk' = Put(disk, d, f, disk[d][f] \cup {x})
  BY DEF Written, Put
<1>2. /\ Grid(cache') /\ \A e \in Dirs : e # d => cache'[e] = cache[e]
      /\ \A g \in Files : cache'[d][g] = IF g = f THEN x ELSE cache[d][g]
  BY <1>1, OneFile DEF FilesOk
<1>3. /\ Grid(disk') /\ \A e \in Dirs : e # d => disk'[e] = disk[e]
      /\ \A g \in Files : disk'[d][g] = IF g = f THEN disk[d][f] \cup {x} ELSE disk[d][g]
  BY <1>1, OneFile DEF FilesOk
<1> QED  BY <1>2, <1>3 DEF Changed, OnlyIn

LEMMA SyncedEffect ==
  ASSUME FilesOk, NEW d \in Dirs, NEW f \in Files, NEW x, Synced(d, f, x)
  PROVE  Changed(d, f, x, (disk[d][f] \cap {Absent}) \cup {x})
<1> DEFINE new == (disk[d][f] \cap {Absent}) \cup {x}
<1>1. cache' = Put(cache, d, f, x) /\ disk' = Put(disk, d, f, new)
  BY DEF Synced, Put
<1> HIDE DEF new
<1>2. /\ Grid(cache') /\ \A e \in Dirs : e # d => cache'[e] = cache[e]
      /\ \A g \in Files : cache'[d][g] = IF g = f THEN x ELSE cache[d][g]
  BY <1>1, OneFile DEF FilesOk
<1>3. /\ Grid(disk') /\ \A e \in Dirs : e # d => disk'[e] = disk[e]
      /\ \A g \in Files : disk'[d][g] = IF g = f THEN new ELSE disk[d][g]
  BY <1>1, OneFile DEF FilesOk
<1> QED  BY <1>2, <1>3 DEF Changed, OnlyIn, new

LEMMA SyncDirEffect ==
  ASSUME FilesOk, NEW d \in Dirs, NEW files \in SUBSET Files, SyncDir(d, files)
  PROVE  /\ OnlyIn(d)
         /\ cache'[d] = cache[d]
         /\ \A g \in Files :
              disk'[d][g] = IF g \notin files THEN disk[d][g]
                            ELSE IF Exists(d, g) THEN disk[d][g] \ {Absent} ELSE {Absent}
<1> DEFINE row == EntriesSynced(d, files)
<1>1. /\ row = [g \in Files |-> row[g]]
      /\ \A g \in Files :
              row[g] = IF g \notin files THEN disk[d][g]
                       ELSE IF Exists(d, g) THEN disk[d][g] \ {Absent} ELSE {Absent}
  BY DEF EntriesSynced
<1>2. cache' = cache /\ disk' = PutRow(disk, d, row)
  BY DEF SyncDir, PutRow
<1> HIDE DEF row
<1>3. Grid(disk') /\ disk'[d] = row /\ \A e \in Dirs : e # d => disk'[e] = disk[e]
  BY <1>1, <1>2, OneDirectory DEF FilesOk
<1> QED  BY <1>1, <1>2, <1>3 DEF OnlyIn, FilesOk

LEMMA CommittedEffect ==
  ASSUME FilesOk, NEW d \in Dirs, NEW db, Committed(d, db)
  PROVE  /\ OnlyIn(d)
         /\ \A g \in Files : cache'[d][g] = IF g = "db" THEN Database(db) ELSE cache[d][g]
         /\ disk'[d]["db"] = {Database(db)}
         /\ \A g \in Files \ {"db"} :
              disk'[d][g] = IF g \notin Entries THEN disk[d][g]
                            ELSE IF Exists(d, g) THEN disk[d][g] \ {Absent} ELSE {Absent}
<1> DEFINE row == [EntriesSynced(d, Entries) EXCEPT !["db"] = {Database(db)}]
<1>1. /\ row = [g \in Files |-> row[g]]
      /\ \A g \in Files :
              row[g] = IF g = "db" THEN {Database(db)}
                       ELSE IF g \notin Entries THEN disk[d][g]
                       ELSE IF Exists(d, g) THEN disk[d][g] \ {Absent} ELSE {Absent}
  BY DEF EntriesSynced
<1>2. cache' = Put(cache, d, "db", Database(db)) /\ disk' = PutRow(disk, d, row)
  BY DEF Committed, Put, PutRow
<1> HIDE DEF row
<1>3. "db" \in Files
  BY DEF Files, Entries, Copied
<1>4. /\ Grid(cache') /\ \A e \in Dirs : e # d => cache'[e] = cache[e]
      /\ \A g \in Files : cache'[d][g] = IF g = "db" THEN Database(db) ELSE cache[d][g]
  BY <1>2, <1>3, OneFile DEF FilesOk
<1>5. Grid(disk') /\ disk'[d] = row /\ \A e \in Dirs : e # d => disk'[e] = disk[e]
  BY <1>1, <1>2, OneDirectory DEF FilesOk
<1> QED  BY <1>1, <1>3, <1>4, <1>5 DEF OnlyIn

-----------------------------------------------------------------------------
(* Databases                                                               *)

LEMMA NewOk == DbOk(NewDatabase) /\ NewDatabase.schema = 0 /\ NewDatabase.length = 0
                 /\ NewDatabase.keys = {} /\ NewDatabase.tokens = {}
BY BoundAssumption DEF DbOk, NewDatabase

LEMMA ModeOk ==
  ASSUME NEW db, DbOk(db), NEW w \in BOOLEAN
  PROVE  LET new == [db EXCEPT !.wal = w]
         IN  /\ DbOk(new) /\ new.wal = w
             /\ new.length = db.length /\ new.keys = db.keys /\ new.tokens = db.tokens
             /\ new.schema = db.schema /\ new.checksums = db.checksums
BY DEF DbOk

LEMMA EnrolledOk ==
  ASSUME NEW db, DbOk(db), NEW t
  PROVE  LET new == [db EXCEPT !.tokens = {t}]
         IN  /\ DbOk(new) /\ new.tokens = {t}
             /\ new.length = db.length /\ new.keys = db.keys
             /\ new.schema = db.schema /\ new.checksums = db.checksums
BY DEF DbOk

LEMMA WrittenOk ==
  ASSUME NEW db, DbOk(db), db.length < MaxLength, NEW k
  PROVE  LET new == [db EXCEPT !.length = @ + 1, !.keys = @ \cup {k}]
         IN  /\ DbOk(new) /\ new.length = db.length + 1 /\ new.keys = db.keys \cup {k}
             /\ new.tokens = db.tokens
             /\ new.schema = db.schema /\ new.checksums = db.checksums
<1> DEFINE length == db.length + 1
           keys == db.keys \cup {k}
           new == [db EXCEPT !.length = length, !.keys = keys]
<1>1. length \in 0..MaxLength
  BY BoundAssumption DEF DbOk
<1> HIDE DEF length, keys
<1>2. /\ new.length = length /\ new.keys = keys /\ new.tokens = db.tokens
      /\ new.schema = db.schema /\ new.checksums = db.checksums /\ new.wal = db.wal
      /\ new.reserved = db.reserved /\ new.ambiguous = db.ambiguous
  BY DEF DbOk
<1>3. new \in [schema : Nat, checksums : {db.checksums}, reserved : BOOLEAN, ambiguous : BOOLEAN,
               wal : BOOLEAN, keys : {keys}, length : 0..MaxLength, tokens : {db.tokens}]
  BY <1>1 DEF DbOk
<1> HIDE DEF new
<1>4. DbOk(new)
  BY <1>2, <1>3 DEF DbOk
<1> QED  BY <1>2, <1>4 DEF new, length, keys

LEMMA ShorterOk ==
  ASSUME NEW db, DbOk(db), NEW n \in 0..db.length
  PROVE  LET new == [db EXCEPT !.length = n]
         IN  /\ DbOk(new) /\ new.length = n /\ new.wal = db.wal /\ new.tokens = db.tokens
BY BoundAssumption DEF DbOk

LEMMA MigratedOk ==
  ASSUME NEW db, DbOk(db), CanMigrate(db)
  PROVE  LET new == Migrated(db)
         IN  /\ DbOk(new) /\ new.length = db.length /\ new.keys = db.keys /\ new.tokens = db.tokens
<1> DEFINE version == db.schema + 1
           sums == CASE version < 5 -> db.checksums
                     [] version = 5 -> 1..5
                     [] version > 5 -> db.checksums \cup {version}
<1>1. Migrated(db) = [db EXCEPT !.schema = version, !.checksums = sums]
  BY DEF Migrated
<1> DEFINE new == [db EXCEPT !.schema = version, !.checksums = sums]
<1>0. version \in Nat
  BY DEF DbOk
<1> HIDE DEF sums
<1>2. /\ new.schema = version /\ new.checksums = sums
      /\ new.length = db.length /\ new.keys = db.keys /\ new.tokens = db.tokens
      /\ new.wal = db.wal /\ new.reserved = db.reserved /\ new.ambiguous = db.ambiguous
  BY DEF DbOk
<1> HIDE DEF version
<1>5. new \in [schema : Nat, checksums : {sums}, reserved : BOOLEAN, ambiguous : BOOLEAN,
               wal : BOOLEAN, keys : {db.keys}, length : 0..MaxLength, tokens : {db.tokens}]
  BY <1>0 DEF DbOk
<1> HIDE DEF new
<1>3. /\ version >= 4 => ~db.reserved
      /\ version >= 5 => ~db.ambiguous
  BY DEF DbOk, CanMigrate, Preflight, Newest, version
<1>4. DbOk(new)
  BY <1>2, <1>3, <1>5 DEF DbOk
<1> QED  BY <1>1, <1>2, <1>4 DEF new, version

LEMMA PreviousOk ==
  ASSUME NEW db, DbOk(db), NEW new \in OfPreviousRelease(db)
  PROVE  DbOk(new) /\ new.length = db.length /\ new.keys = db.keys /\ new.tokens = db.tokens
<1> DEFINE rs == IF db.schema < 4 THEN BOOLEAN ELSE {db.reserved}
           marks == IF db.schema < 5 THEN BOOLEAN ELSE {db.ambiguous}
<1>1. rs \subseteq BOOLEAN /\ marks \subseteq BOOLEAN
  BY DEF DbOk
<1>2. /\ db.schema >= 4 => rs = {db.reserved}
      /\ db.schema >= 5 => marks = {db.ambiguous}
  BY DEF DbOk
<1>3. new \in {Relabelled(db, r, a) : r \in rs, a \in marks}
  BY DEF OfPreviousRelease
<1> HIDE DEF rs, marks
<1>9. \E r \in rs, a \in marks : new = Relabelled(db, r, a)
  BY ONLY <1>3
<1>4. PICK r \in rs, a \in marks : new = Relabelled(db, r, a)
  BY ONLY <1>9
<1>5. r \in BOOLEAN /\ a \in BOOLEAN
  BY <1>1
<1>6. /\ new.reserved = r /\ new.ambiguous = a
      /\ new.schema = db.schema /\ new.checksums = db.checksums /\ new.wal = db.wal
      /\ new.length = db.length /\ new.keys = db.keys /\ new.tokens = db.tokens
  BY <1>4 DEF DbOk, Relabelled
<1>7. new \in [schema : Nat, checksums : {db.checksums}, reserved : BOOLEAN, ambiguous : BOOLEAN,
               wal : BOOLEAN, keys : {db.keys}, length : 0..MaxLength, tokens : {db.tokens}]
  BY <1>4, <1>5 DEF DbOk, Relabelled
<1>8. (db.schema >= 4 => ~r) /\ (db.schema >= 5 => ~a)
  BY <1>2 DEF DbOk
<1> QED  BY <1>6, <1>7, <1>8 DEF DbOk

-----------------------------------------------------------------------------
(* Who else is there                                                       *)

\* A command that has done nothing yet in its directory, or is about to end.
Early(p) ==
  /\ Opens(p) => proc[p].step <= 2
  /\ Makes(p) => proc[p].step <= 2 \/ (proc[p].cmd = "restore" /\ proc[p].step = 11)

LEMMA Bystanders ==
  ASSUME Typed, Exclusive, NEW p \in Procs, NEW q \in Procs, p # q, Dir(p) = Dir(q),
         Locks(p) \/ Making(p), Dir(p) \notin strayed
  PROVE  Early(q)
<1>1. ProcOk(q) /\ ProcOk(p)
  BY DEF Typed
<1>2. proc[q].step \in Nat /\ proc[q].cmd \in CommandNames \cup {"none"}
  BY <1>1, ProcFields
<1>4. (proc[q].cmd = "backup" => proc[q].step <= 13) /\ (proc[q].cmd = "restore" => proc[q].step <= 11)
  BY <1>1, ProcFields
<1>5. proc[p].cmd # "none" /\ proc[p].step \in Nat
  BY <1>1 DEF ProcOk, Locks, Making, Made, Opens, Makes
<1>6. CASE Locks(p)
  <2>1. Opens(q) => proc[q].step <= 2
    BY <1>2, <1>6 DEF Exclusive, Locks
  <2>2. ~Making(q)
    BY <1>5, <1>6 DEF Exclusive, Claims, Locks
  <2>3. proc[q].cmd # "backup"
    BY <1>5 DEF Exclusive
  <2> QED  BY <1>2, <1>4, <2>1, <2>2, <2>3 DEF Early, Making, Made, Makes, Last
<1>7. CASE Making(p)
  <2>1. Opens(q) => proc[q].step <= 2
    BY <1>2, <1>7 DEF Exclusive, Claims
  <2>2. ~Made(q)
    BY <1>7 DEF Exclusive, Making
  <2> QED  BY <1>2, <2>1, <2>2 DEF Early, Made
<1> QED  BY <1>6, <1>7

LEMMA NobodyReads ==
  ASSUME Exclusive, NEW p \in Procs, NEW q \in Procs, Making(p), Reads(q),
         Dir(p) \notin strayed
  PROVE  Src(q) # Dir(p)
BY DEF Exclusive

-----------------------------------------------------------------------------
(* What a step leaves as it is                                             *)

LEMMA LengthType ==
  ASSUME FilesOk, NEW d \in Dirs, NEW content \in disk[d]["db"]
  PROVE  LengthOf(content) \in 0..MaxLength
<1>1. "db" \in Files
  BY DEF Files, Entries, Copied
<1>2. ContentOk("db", content)
  BY <1>1 DEF FilesOk
<1> QED  BY <1>2, BoundAssumption DEF ContentOk, DbOk, LengthOf

\* The stage of a process that does not move and has done nothing in its directory yet.
LEMMA StageEarly ==
  ASSUME NEW q \in Procs, ProcOk(q), proc'[q] = proc[q], Early(q)
  PROVE  Stage(q)'
<1>1. /\ proc[q].step \in Nat /\ proc[q].cmd \in CommandNames \cup {"none"}
      /\ proc[q].dir \in Dirs /\ proc[q].src \in Dirs
  BY DEF ProcOk
<1>2. Opens(q) => Stage(q)'
  BY <1>1 DEF Early, Opens, Makes, Stage, KeysStage, TokenStage, OpenStage, OpenStep, ServeStage
<1>3. ASSUME Makes(q) PROVE Stage(q)'
  <2>1. proc[q].step <= 2 \/ (proc[q].cmd = "restore" /\ proc[q].step = 11)
    BY <1>3 DEF Early
  <2>2. ~Making(q)' /\ ~Opens(q)' /\ proc'[q].step = proc[q].step /\ proc'[q].cmd = proc[q].cmd
    BY <1>1, <1>3, <2>1 DEF Opens, Makes, Making, Made, Last
  <2>4. proc[q].step <= 2 => MakeStage(q)' /\ BackupStage(q)' /\ RestoreStage(q)'
    BY <1>1, <2>2 DEF MakeStage, BackupStage, RestoreStage, Last
  <2>5. CASE proc[q].step <= 2
    BY <1>3, <2>2, <2>4, <2>5 DEF Stage, Makes, Opens
  <2>6. CASE proc[q].cmd = "restore" /\ proc[q].step = 11
    <3>1. RestoreStage(q)'
      BY <2>2, <2>6 DEF RestoreStage
    <3>2. proc'[q].step \notin 3..10 /\ Last(q)' = 10
      BY <2>2, <2>6 DEF Last
    <3> QED  BY <1>3, <2>2, <2>6, <3>1, <3>2 DEF Stage, Makes, Opens, MakeStage
  <2> QED  BY <2>1, <2>5, <2>6
<1>4. proc[q].cmd = "none" => Stage(q)'
  BY DEF Stage, Opens, Makes
<1> QED  BY <1>1, <1>2, <1>3, <1>4 DEF Opens, Makes, CommandNames

\* No directory that somebody reads becomes a strayed one.
NotNewlyStrayed(q) == Made(q) /\ Src(q) \in strayed' => Src(q) \in strayed

\* The stage of a process that does not move, where its directory is not touched.
LEMMA StageElsewhere ==
  ASSUME Typed, NEW q \in Procs, Stage(q), proc'[q] = proc[q], NEW d \in Dirs, OnlyIn(d), Dir(q) # d,
         \A e \in Dirs : e # d => promised'[e] = promised[e],
         strayed \subseteq strayed', NotNewlyStrayed(q),
         Reads(q) /\ Src(q) = d => d \in strayed \/ LengthOf(cache'[d]["db"]) >= LengthOf(cache[d]["db"]),
         LengthOf(cache'[d]["db"]) \in Nat,
         proc[q].cmd = "register" /\ proc[q].step > 10 => NobodyHas(Dir(q))'
  PROVE  Stage(q)'
<1>1. ProcOk(q)
  BY DEF Typed
<1>2. /\ proc[q].step \in Nat /\ proc[q].cmd \in CommandNames \cup {"none"}
      /\ proc[q].dir \in Dirs /\ proc[q].src \in Dirs
  BY <1>1 DEF ProcOk
<1> DEFINE e == proc[q].dir
           s == proc[q].src
<1>3. /\ cache'[e] = cache[e] /\ disk'[e] = disk[e] /\ promised'[e] = promised[e]
      /\ Dir(q) = e /\ Dir(q)' = e /\ Src(q) = s /\ Src(q)' = s
  BY <1>2 DEF OnlyIn, Dir, Src
<1>5. proc[q].cmd = "register" => TokenStage(q)'
  BY <1>3 DEF Stage, TokenStage
<1>8. ASSUME e \notin strayed'
      PROVE  /\ proc[q].cmd \in {"init", "register"} => KeysStage(q)'
             /\ proc[q].cmd = "serve" => ServeStage(q)'
             /\ Opens(q) => OpenStage(q)'
             /\ Makes(q) => MakeStage(q)'
             /\ proc[q].cmd = "backup" => BackupStage(q)'
             /\ proc[q].cmd = "restore" => RestoreStage(q)'
  <2>0. Dir(q) \notin strayed
    BY <1>3, <1>8
  <2>8. proc[q].cmd \in {"init", "register"} => KeysStage(q)'
    BY <1>3, <2>0 DEF Stage, KeysStage, KeysIfDatabase, Exists, WholeKeys, IsKey
  <2>9. proc[q].cmd = "serve" => ServeStage(q)'
    BY <1>3, <2>0 DEF Stage, ServeStage, WholeKeys, KeysOf
  <2>1. Opens(q) => OpenStage(q)'
    BY <1>3, <2>0 DEF Stage, Opens, OpenStage, OpenStep, HasDb, DbOf
  <2>2. Makes(q) => MakeStage(q)'
    <3>1. proc[q].step \in 5..8 /\ Makes(q) /\ s \in strayed' => s \in strayed
      BY <1>2, <1>3 DEF NotNewlyStrayed, Made
    <3> QED  BY <1>3, <2>0, <3>1, SMTT(30) DEF Stage, Makes, MakeStage, Making, Made, Last, Steady, Settled
  <2>3. Verified(e) => Verified(e)'
    BY <1>3 DEF Verified, HasDb, DbOf, WholeKeys, OfOneDevice, KeysOf, Kept
  <2>4. Kept(e, e) => Kept(e, e)'
    BY <1>3 DEF Kept
  <2>5. Makes(q) /\ proc[q].step \in 5..8 /\ Kept(e, s) => Kept(e, s)'
    <3> SUFFICES ASSUME Makes(q), proc[q].step \in 5..8, Kept(e, s) PROVE Kept(e, s)'
      OBVIOUS
    <3>1. CASE s # d
      BY <1>2, <1>3, <3>1 DEF Kept, OnlyIn
    <3>2. CASE s = d /\ s \in strayed
      <4>1. promised[e] = 0
        BY <1>3, <2>0, <3>2 DEF Stage, MakeStage
      <4> QED  BY <1>3, <3>2, <4>1 DEF Kept
    <3>3. CASE s = d /\ s \notin strayed
      <4>1. LengthOf(cache[s]["db"]) \in Nat /\ promised[e] \in Nat
        <5>1. "db" \in Files
          BY DEF Files, Entries, Copied
        <5>2. cache[s]["db"] \in disk[s]["db"]
          BY <1>2, <5>1 DEF Typed, FilesOk
        <5> QED  BY <1>2, <5>2, LengthType, BoundAssumption DEF Typed
      <4>2. Reads(q) /\ Src(q) = d
        BY <1>3, <3>3 DEF Reads
      <4> QED  BY <1>3, <3>3, <4>1, <4>2 DEF Kept
    <3> QED  BY <3>1, <3>2, <3>3
  <2>6. proc[q].cmd = "backup" => BackupStage(q)'
    <3> SUFFICES ASSUME proc[q].cmd = "backup" PROVE BackupStage(q)'
      OBVIOUS
    <3>1. BackupStage(q) /\ proc'[q].step = proc[q].step /\ Makes(q)
      BY <2>0 DEF Stage, Makes
    <3>2. Sealed(e)' = Sealed(e)
      BY <1>3 DEF Sealed
    <3> QED  BY <1>3, <2>3, <2>4, <2>5, <3>1, <3>2 DEF BackupStage, HasDb, DbOf, Exists, Settled
  <2>7. proc[q].cmd = "restore" => RestoreStage(q)'
    <3> SUFFICES ASSUME proc[q].cmd = "restore" PROVE RestoreStage(q)'
      OBVIOUS
    <3>1. RestoreStage(q) /\ proc'[q].step = proc[q].step /\ Makes(q)
      BY <2>0 DEF Stage, Makes
    <3> QED  BY <1>3, <2>3, <2>4, <2>5, <3>1 DEF RestoreStage, HasDb, DbOf
  <2> QED  BY <2>1, <2>2, <2>6, <2>7, <2>8, <2>9
<1> QED  BY <1>3, <1>5, <1>8 DEF Stage, Opens, Makes

\* The same where only the entry of a directory in its parent changes.
LEMMA StageSame ==
  ASSUME NEW q \in Procs, ProcOk(q), Stage(q), proc'[q] = proc[q],
         \A e \in Dirs, f \in Entries \cup {"token"} :
           cache'[e][f] = cache[e][f] /\ disk'[e][f] = disk[e][f],
         promised' = promised, strayed \subseteq strayed', NotNewlyStrayed(q)
  PROVE  Stage(q)'
<1>0. PICK d \in Dirs, s \in Dirs : d = Dir(q) /\ s = Src(q)
  BY ProcFields
<1>1. Dir(q) = d /\ Dir(q)' = d /\ Src(q) = s /\ Src(q)' = s
  BY <1>0 DEF Dir, Src
<1>2. KeyFiles \subseteq Entries /\ Copied \subseteq Entries /\ "manifest" \in Entries
        /\ "marker" \in Entries /\ "db" \in Copied
        /\ KeyFiles = {"author", "master"} /\ Copied = {"author", "master", "db"}
  BY DEF Entries, Copied, KeyFiles
<1>3. ASSUME NEW e \in Dirs
      PROVE  /\ WholeKeys(e)' = WholeKeys(e) /\ HasDb(e)' = HasDb(e) /\ DbOf(e)' = DbOf(e)
             /\ KeysOf(e)' = KeysOf(e) /\ LengthOf(cache[e]["db"])' = LengthOf(cache[e]["db"])
             /\ Sealed(e)' = Sealed(e)
  BY <1>2 DEF WholeKeys, HasDb, DbOf, KeysOf, LengthOf, Sealed
<1>4. /\ Kept(d, d)' = Kept(d, d) /\ Kept(d, s)' = Kept(d, s)
  BY <1>1, <1>3 DEF Kept
<1>5. NobodyHas(d)' = NobodyHas(d)
  BY <1>2 DEF NobodyHas
<1>6. Verified(d)' = Verified(d)
  BY <1>1, <1>3, <1>4 DEF Verified, OfOneDevice
<1>8. proc[q].cmd = "register" => TokenStage(q)'
  BY <1>1, <1>5 DEF Stage, TokenStage
<1>11. ASSUME d \notin strayed'
       PROVE  /\ proc[q].cmd \in {"init", "register"} => KeysStage(q)'
              /\ proc[q].cmd = "serve" => ServeStage(q)'
              /\ Opens(q) => OpenStage(q)'
              /\ Makes(q) => MakeStage(q)'
              /\ proc[q].cmd = "backup" => BackupStage(q)'
              /\ proc[q].cmd = "restore" => RestoreStage(q)'
  <2>0. Dir(q) \notin strayed
    BY <1>1, <1>11
  <2>5. proc[q].cmd \in {"init", "register"} => KeysStage(q)'
    BY <1>1, <1>2, <1>3, <2>0 DEF Stage, KeysStage, KeysIfDatabase, Exists, IsKey
  <2>6. proc[q].cmd = "serve" => ServeStage(q)'
    BY <1>1, <1>3, <2>0 DEF Stage, ServeStage
  <2>1. Opens(q) => OpenStage(q)'
    BY <1>1, <1>3, <2>0 DEF Stage, Opens, OpenStage, OpenStep
  <2>2. Makes(q) => MakeStage(q)'
    <3>1. proc[q].step \in 5..8 /\ Makes(q) /\ s \in strayed' => s \in strayed
      BY <1>1 DEF NotNewlyStrayed, Made, ProcOk
    <3> QED  BY <1>1, <1>2, <2>0, <3>1, SMTT(30) DEF Stage, Makes, MakeStage, Making, Made, Last, Steady, Settled
  <2>3. proc[q].cmd = "backup" => BackupStage(q)'
    BY <1>1, <1>2, <1>3, <1>4, <1>6, <2>0 DEF Stage, BackupStage, Exists, Settled
  <2>4. proc[q].cmd = "restore" => RestoreStage(q)'
    BY <1>1, <1>3, <1>4, <1>6, <2>0 DEF Stage, RestoreStage
  <2> QED  BY <2>1, <2>2, <2>3, <2>4, <2>5, <2>6
<1> QED  BY <1>1, <1>8, <1>11 DEF Stage, Opens, Makes

LEMMA SyncingKept ==
  ASSUME NEW p \in Procs, \A q \in Procs : q # p => proc'[q] = proc[q], NEW d \in Dirs,
         NEW f \in KeyFiles, Syncing(d, f),
         ~(proc[p].cmd \in {"init", "register"} /\ proc[p].step \in {6, 9} /\ Dir(p) = d)
  PROVE  Syncing(d, f)'
<1>1. PICK q \in Procs : /\ proc[q].cmd \in {"init", "register"} /\ Dir(q) = d
                         /\ proc[q].step = IF f = "author" THEN 6 ELSE 9
  BY DEF Syncing
<1>2. q # p
  BY <1>1
<1> QED  BY <1>1, <1>2 DEF Syncing, Dir

LEMMA DirKept ==
  ASSUME NEW d \in Dirs, DirOk(d),
         \A f \in Entries : f # "marker" => cache'[d][f] = cache[d][f] /\ disk'[d][f] = disk[d][f],
         Absent \in disk'[d]["marker"] => Absent \in disk[d]["marker"],
         disk'[d]["marker"] = disk[d]["marker"] \/ Exists(d, "dir")',
         cache[d]["dir"] # Absent => cache'[d]["dir"] # Absent,
         promised'[d] = promised[d], bereft \subseteq bereft', strayed \subseteq strayed',
         \A f \in KeyFiles : Syncing(d, f) => Syncing(d, f)' \/ d \in bereft'
  PROVE  DirOk(d)'
<1>0. KeyFiles \subseteq Entries /\ KeyFiles = {"author", "master"} /\ "db" \in Entries /\ "marker" \in Entries
  BY DEF Entries, Copied, KeyFiles
<1>1. Gone(d)'
  BY <1>0 DEF DirOk, Gone, Exists
<1>2. ASSUME d \notin strayed' PROVE KeysLast(d)'
  <2>1. KeysLast(d)
    BY <1>2 DEF DirOk
  <2> QED  BY <1>0, <2>1 DEF KeysLast, IsKey, Steady
<1>3. Unmarked(d)' => Unmarked(d)
  BY DEF Unmarked
<1>4. KeysOutlive(d) => KeysOutlive(d)'
  BY <1>0 DEF KeysOutlive, WholeKeys, Settled
<1>5. OneDevice(d) => OneDevice(d)'
  BY <1>0 DEF OneDevice, WholeKeys, KeysOf
<1>6. PromiseKept(d) => PromiseKept(d)'
  BY <1>0 DEF PromiseKept
<1> QED  BY <1>1, <1>2, <1>3, <1>4, <1>5, <1>6 DEF DirOk

\* No database gets a token it did not have, or that another does not have.
NoNewToken ==
  \A e \in Dirs : \A content \in disk'[e]["db"] : content.kind = "db" =>
    \A t \in content.db.tokens :
      \E d \in Dirs : \E old \in disk[d]["db"] : old.kind = "db" /\ t \in old.db.tokens

LEMMA NobodyKept ==
  ASSUME NoNewToken, NEW d, NobodyHas(d)
  PROVE  NobodyHas(d)'
BY DEF NoNewToken, NobodyHas

LEMMA TokensKept ==
  ASSUME NoNewToken, TokensOk,
         \A e \in Dirs : disk'[e]["token"] = disk[e]["token"]
  PROVE  TokensOk'
<1> SUFFICES ASSUME NEW e \in Dirs, NEW content \in disk'[e]["db"], content.kind = "db",
                    NEW t \in content.db.tokens
             PROVE  t[1] \in Dirs /\ disk'[t[1]]["token"] = {Token(t)}
  BY DEF TokensOk
<1>1. PICK d \in Dirs : \E old \in disk[d]["db"] : old.kind = "db" /\ t \in old.db.tokens
  BY DEF NoNewToken
<1> QED  BY <1>1 DEF TokensOk

LEMMA FinishedKept ==
  ASSUME FinishedBackupSurvives, finished' \subseteq finished, finished \subseteq Dirs,
         \A d \in finished' : \A f \in Entries \cup {"dir"} :
           cache'[d][f] = cache[d][f] /\ disk'[d][f] = disk[d][f]
  PROVE  FinishedBackupSurvives'
<1> SUFFICES ASSUME NEW d \in finished'
             PROVE  /\ \A f \in Entries \cup {"dir"} : disk'[d][f] = {cache'[d][f]}
                    /\ ~Exists(d, "marker")' /\ Genuine(d, d)'
  BY DEF FinishedBackupSurvives
<1>1. /\ \A f \in Entries \cup {"dir"} : disk[d][f] = {cache[d][f]}
      /\ ~Exists(d, "marker") /\ Genuine(d, d)
  BY DEF FinishedBackupSurvives
<1>2. \A f \in Entries \cup {"dir"} : cache'[d][f] = cache[d][f] /\ disk'[d][f] = disk[d][f]
  OBVIOUS
<1>3. ~Exists(d, "marker")'
  BY <1>1, <1>2 DEF Exists, Entries
<1>4. Sealed(d)' = Sealed(d)
  BY <1>2 DEF Sealed, Entries
<1>5. Genuine(d, d)'
  BY <1>1, <1>2, <1>4 DEF Genuine, WholeKeys, DbOf, OfOneDevice, KeysOf, Entries, Copied, KeyFiles
<1> QED  BY <1>1, <1>2, <1>3, <1>5

LEMMA LeftAloneKept ==
  ASSUME LeftAlone, NEW p \in Procs, \A q \in Procs : q # p => proc'[q] = proc[q],
         finished' \subseteq finished,
         (Using(p)' \/ Made(p)') => Dir(p)' \notin finished'
  PROVE  LeftAlone'
<1> SUFFICES ASSUME NEW q \in Procs, Using(q)' \/ Made(q)'
             PROVE  Dir(q)' \notin finished'
  BY DEF LeftAlone
<1>1. CASE q # p
  <2>1. (Using(q) \/ Made(q)) /\ Dir(q)' = Dir(q)
    BY <1>1 DEF Using, Made, Opens, Makes, OpenStep, Dir
  <2> QED  BY <2>1 DEF LeftAlone
<1> QED  BY <1>1

\* A step that takes no process past a threshold of Exclusive.
LEMMA ExclusiveKept ==
  ASSUME Typed, Exclusive, NEW p \in Procs, \A q \in Procs : q # p => proc'[q] = proc[q],
         \/ proc'[p].cmd = "none"
         \/ /\ proc'[p].cmd = proc[p].cmd /\ proc'[p].dir = proc[p].dir /\ proc'[p].src = proc[p].src
            /\ \/ Opens(p) /\ proc[p].step > 2 /\ proc'[p].step > 2
               \/ Makes(p) /\ proc[p].step > 4 /\ proc'[p].step >= proc[p].step /\ proc'[p].step <= Last(p),
         ProcOk(p)',
         \A d \in Dirs :
           /\ Exists(d, "dir") => Exists(d, "dir")'
           /\ Exists(d, "marker")' = Exists(d, "marker")
           /\ Absent \notin disk[d]["marker"] => Absent \notin disk'[d]["marker"]
           /\ WholeKeys(d) => WholeKeys(d)' \/ d \in strayed,
         strayed' = strayed
  PROVE  Exclusive'
<1>1. \A q \in Procs : proc[q].step \in Nat /\ Dir(q) \in Dirs /\ Src(q) \in Dirs
  BY ProcFields DEF Typed
<1>2. proc'[p].step \in Nat
  BY DEF ProcOk
<1>3. ASSUME NEW q \in Procs, proc'[q].cmd # "none"
      PROVE  /\ proc[q].cmd # "none" /\ proc'[q].cmd = proc[q].cmd
             /\ Dir(q)' = Dir(q) /\ Src(q)' = Src(q)
             /\ Locks(q)' => Locks(q)
             /\ Claims(q)' => Claims(q)
             /\ Reads(q)' => Reads(q)
             /\ Made(q)' => Made(q)
             /\ Making(q)' => Making(q) /\ (proc'[q].step > 3 => proc[q].step > 3)
                                        /\ (proc'[q].step > 4 => proc[q].step > 4)
  <2>1. CASE q # p
    BY <1>3, <2>1 DEF Dir, Src, Locks, Claims, Reads, Made, Making, Opens, Makes, Last
  <2>2. CASE q = p /\ Opens(p)
    BY <1>1, <1>2, <1>3, <2>2 DEF Dir, Src, Locks, Claims, Reads, Made, Making, Opens, Makes, Last
  <2>3. CASE q = p /\ Makes(p)
    BY <1>1, <1>2, <1>3, <2>3 DEF Dir, Src, Locks, Claims, Reads, Made, Making, Opens, Makes, Last
  <2> QED  BY <1>3, <2>1, <2>2, <2>3
<1>4. ASSUME NEW q \in Procs
      PROVE  /\ (Locks(q)' \/ Claims(q)' \/ Reads(q)' \/ Made(q)' \/ Making(q)') => proc'[q].cmd # "none"
             /\ proc'[q].cmd = "backup" => proc'[q].cmd # "none"
  BY DEF Locks, Claims, Reads, Made, Making, Opens, Makes
<1>5. ASSUME NEW q \in Procs, NEW r \in Procs
      PROVE  /\ Locks(q)' /\ Locks(r)' /\ Dir(q)' = Dir(r)' => q = r
             /\ Made(q)' /\ Made(r)' /\ Dir(q)' = Dir(r)' => q = r
             /\ Making(q)' /\ Claims(r)' /\ Dir(q)' = Dir(r)' => Dir(q)' \in strayed'
             /\ Making(q)' /\ Reads(r)' /\ Dir(q)' = Src(r)' => Dir(q)' \in strayed'
             /\ proc'[q].cmd = "backup" /\ proc'[r].cmd # "none" /\ Dir(q)' = Dir(r)' => q = r
  BY <1>3, <1>4 DEF Exclusive
<1>6. ASSUME NEW q \in Procs
      PROVE  /\ Claims(q)' => Exists(Dir(q), "dir")'
             /\ Claims(q)' /\ Exists(Dir(q), "marker")' => Dir(q)' \in strayed'
             /\ Made(q)' /\ proc'[q].cmd = "backup" => Dir(q)' \notin strayed'
             /\ Made(q)' => Exists(Dir(q), "dir")'
             /\ Making(q)' /\ proc'[q].step > 3 => Exists(Dir(q), "marker")'
             /\ Making(q)' /\ proc'[q].step > 4 => Absent \notin disk'[Dir(q)']["marker"]
             /\ Reads(q)' => WholeKeys(Src(q))' \/ Src(q)' \in strayed'
  <2>1. SUFFICES ASSUME proc'[q].cmd # "none"
        PROVE  /\ Claims(q)' => Exists(Dir(q), "dir")'
               /\ Claims(q)' /\ Exists(Dir(q), "marker")' => Dir(q)' \in strayed'
               /\ Made(q)' /\ proc'[q].cmd = "backup" => Dir(q)' \notin strayed'
               /\ Made(q)' => Exists(Dir(q), "dir")'
               /\ Making(q)' /\ proc'[q].step > 3 => Exists(Dir(q), "marker")'
               /\ Making(q)' /\ proc'[q].step > 4 => Absent \notin disk'[Dir(q)']["marker"]
               /\ Reads(q)' => WholeKeys(Src(q))' \/ Src(q)' \in strayed'
    BY <1>4
  <2>2. PICK d \in Dirs, s \in Dirs : d = Dir(q) /\ s = Src(q)
    BY <1>1
  <2>3. Dir(q)' = d /\ Src(q)' = s
    BY <1>3, <2>1, <2>2
  <2>4. /\ Exists(Dir(q), "dir")' = Exists(d, "dir")'
        /\ Exists(Dir(q), "marker")' = Exists(d, "marker")'
        /\ WholeKeys(Src(q))' = WholeKeys(s)'
    BY <2>3 DEF Exists, WholeKeys
  <2> QED  BY <1>3, <2>1, <2>2, <2>3, <2>4 DEF Exclusive
<1> QED  BY <1>5, <1>6 DEF Exclusive

\* A step in the directory of its process.
LEMMA StepIn ==
  ASSUME IInv, NEW p \in Procs, NEW d \in Dirs, d = Dir(p),
         proc' \in [Procs -> {proc'[q] : q \in Procs}],
         \A q \in Procs : q # p => proc'[q] = proc[q],
         \A q \in Procs : ProcOk(q)',
         OnlyIn(d),
         \A f \in Files : cache'[d][f] \in disk'[d][f]
                            /\ \A content \in disk'[d][f] : ContentOk(f, content),
         promised' \in [Dirs -> 0..MaxLength], \A e \in Dirs : e # d => promised'[e] = promised[e],
         finished' \subseteq Dirs, \A e \in finished' : e \in finished \/ e \notin strayed,
         bereft' = bereft, strayed' = strayed,
         \A q \in Procs : q # p =>
           /\ Dir(q) = d => Early(q) \/ Stage(q)'
           /\ Reads(q) /\ Src(q) = d => d \in strayed \/ LengthOf(cache'[d]["db"]) >= LengthOf(cache[d]["db"])
           /\ proc[q].cmd = "register" /\ proc[q].step > 10 => NobodyHas(Dir(q))',
         Exists(d, "dir")', Exclusive', Stage(p)', DirOk(d)', TokensOk', FinishedBackupSurvives', LeftAlone'
  PROVE  IInv'
<1>1. Typed /\ Exclusive /\ (\A q \in Procs : Stage(q)) /\ (\A e \in Dirs : DirOk(e))
  BY DEF IInv
<1>2. FilesOk'
  <2>1. ASSUME NEW e \in Dirs, NEW f \in Files
        PROVE  cache'[e][f] \in disk'[e][f] /\ \A content \in disk'[e][f] : ContentOk(f, content)
    BY <1>1 DEF Typed, FilesOk, OnlyIn
  <2>2. ASSUME NEW e \in Dirs, NEW f \in Files, NEW content \in disk'[e][f] PROVE ContentOk(f, content)'
    BY <2>1 DEF ContentOk, DbOk
  <2>3. Grid(cache)' /\ Grid(disk)'
    BY DEF OnlyIn, Grid
  <2> QED  BY <2>1, <2>2, <2>3 DEF FilesOk
<1>3. Typed'
  BY <1>1, <1>2 DEF Typed
<1>4. LengthOf(cache'[d]["db"]) \in Nat
  <2>1. "db" \in Files
    BY DEF Files, Entries, Copied
  <2>2. ContentOk("db", cache'[d]["db"])
    BY <2>1
  <2> QED  BY <2>2, BoundAssumption DEF ContentOk, DbOk, LengthOf
<1>5. ASSUME NEW q \in Procs PROVE Stage(q)'
  <2>0. ProcOk(q) /\ NotNewlyStrayed(q) /\ strayed \subseteq strayed'
    BY <1>1 DEF Typed, NotNewlyStrayed
  <2>1. CASE q # p /\ Dir(q) = d
    BY <2>0, <2>1, StageEarly
  <2>2. CASE q # p /\ Dir(q) # d
    BY <1>1, <1>4, <2>0, <2>2, StageElsewhere
  <2> QED  BY <2>1, <2>2
<1>6. ASSUME NEW e \in Dirs PROVE DirOk(e)'
  <2>1. CASE e # d
    <3>1. ASSUME NEW f \in KeyFiles, Syncing(e, f) PROVE Syncing(e, f)'
      BY <2>1, <3>1, SyncingKept
    <3> QED  BY <1>1, <2>1, <3>1, DirKept DEF OnlyIn, Exists
  <2> QED  BY <2>1
<1>7. Strays'
  <2> SUFFICES ASSUME NEW e \in strayed PROVE Exists(e, "dir")' /\ e \notin finished'
    BY DEF Strays
  <2>1. e \in Dirs /\ Exists(e, "dir") /\ e \notin finished
    BY <1>1 DEF IInv, Strays, Typed
  <2>2. CASE e # d
    BY <2>1, <2>2 DEF OnlyIn, Exists
  <2> QED  BY <2>1, <2>2
<1> QED  BY <1>3, <1>5, <1>6, <1>7 DEF IInv

\* A step that only looks, or a process that ends.
LEMMA StepQuiet ==
  ASSUME IInv, NEW p \in Procs,
         proc' \in [Procs -> {proc'[q] : q \in Procs}],
         \A q \in Procs : q # p => proc'[q] = proc[q],
         \A q \in Procs : ProcOk(q)',
         cache' = cache, disk' = disk, promised' = promised, finished' = finished,
         strayed' = strayed, bereft \subseteq bereft', bereft' \subseteq Dirs,
         proc[p].cmd \in {"init", "register"} /\ proc[p].step \in {6, 9} => Dir(p) \in bereft',
         Exclusive', Stage(p)',
         (Using(p)' \/ Made(p)') => Dir(p)' \notin finished
  PROVE  IInv'
<1>1. /\ Typed /\ Exclusive /\ (\A q \in Procs : Stage(q)) /\ (\A e \in Dirs : DirOk(e))
      /\ TokensOk /\ FinishedBackupSurvives /\ LeftAlone
  BY DEF IInv
<1>2. Typed'
  BY <1>1 DEF Typed, FilesOk, Grid, ContentOk, DbOk
<1>3. ASSUME NEW q \in Procs PROVE Stage(q)'
  <2>1. CASE q # p
    <3>1. ProcOk(q) /\ Stage(q) /\ NotNewlyStrayed(q) /\ strayed \subseteq strayed'
      BY <1>1 DEF Typed, NotNewlyStrayed
    <3> QED  BY <2>1, <3>1, StageSame
  <2> QED  BY <2>1
<1>4. ASSUME NEW e \in Dirs PROVE DirOk(e)'
  <2>1. ASSUME NEW f \in KeyFiles, Syncing(e, f) PROVE Syncing(e, f)' \/ e \in bereft'
    BY <2>1, SyncingKept
  <2> QED  BY <1>1, <2>1, DirKept
<1>5. TokensOk'
  BY <1>1 DEF TokensOk
<1>6. FinishedBackupSurvives'
  BY <1>1, FinishedKept DEF Typed
<1>7. LeftAlone'
  BY <1>1, LeftAloneKept
<1>8. Strays'
  BY DEF IInv, Strays, Exists
<1> QED  BY <1>2, <1>3, <1>4, <1>5, <1>6, <1>7, <1>8 DEF IInv

-----------------------------------------------------------------------------
(* Stages that ask for nothing                                             *)

LEMMA FreshStage ==
  ASSUME NEW p \in Procs, ProcOk(p)',
         Opens(p)' => proc'[p].step <= 3, Makes(p)' => proc'[p].step <= 2
  PROVE  Stage(p)'
<1>1. proc'[p].step \in Nat /\ proc'[p].cmd \in CommandNames \cup {"none"}
  BY DEF ProcOk
<1>2. Opens(p)' => Stage(p)'
  BY <1>1 DEF Opens, Makes, Stage, KeysStage, TokenStage, OpenStage, OpenStep, ServeStage
<1>3. Makes(p)' => Stage(p)'
  BY <1>1 DEF Opens, Makes, Making, Made, Stage, MakeStage, BackupStage, RestoreStage, Last
<1>4. proc'[p].cmd = "none" => Stage(p)'
  BY DEF Opens, Makes, Stage
<1> QED  BY <1>1, <1>2, <1>3, <1>4 DEF Opens, Makes, CommandNames

\* A process ends and leaves the files as they are.
LEMMA EndQuiet ==
  ASSUME IInv, NEW p \in Procs, proc' = [proc EXCEPT ![p] = Idle],
         cache' = cache, disk' = disk, promised' = promised, finished' = finished,
         strayed' = strayed, bereft \subseteq bereft', bereft' \subseteq Dirs,
         proc[p].cmd \in {"init", "register"} /\ proc[p].step \in {6, 9} => Dir(p) \in bereft'
  PROVE  IInv'
<1>1. Typed /\ Exclusive
  BY DEF IInv
<1>2. /\ proc' \in [Procs -> {proc'[q] : q \in Procs}]
      /\ \A q \in Procs : q # p => proc'[q] = proc[q]
      /\ proc'[p] = Idle
      /\ \A q \in Procs : ProcOk(q)'
  BY <1>1, Ended
<1>3. proc'[p].cmd = "none"
  BY <1>2 DEF Idle
<1>4. Exclusive'
  <2>1. \A d \in Dirs :
          /\ Exists(d, "dir") => Exists(d, "dir")'
          /\ Exists(d, "marker")' = Exists(d, "marker")
          /\ Absent \notin disk[d]["marker"] => Absent \notin disk'[d]["marker"]
          /\ WholeKeys(d) => WholeKeys(d)'
    BY DEF Exists, WholeKeys
  <2> QED  BY <1>1, <1>2, <1>3, <2>1, ExclusiveKept
<1>5. Stage(p)'
  BY <1>2, <1>3, FreshStage DEF Opens, Makes
<1>6. ~Using(p)' /\ ~Made(p)'
  BY <1>3 DEF Using, Made, Opens, Makes
<1> QED  BY <1>2, <1>4, <1>5, <1>6, StepQuiet

-----------------------------------------------------------------------------
(* The beginning                                                           *)

LEMMA FileNames ==
  /\ Files = {"author", "master", "db", "marker", "manifest", "dir", "token"}
  /\ Entries = {"author", "master", "db", "marker", "manifest"}
  /\ Copied = {"author", "master", "db"} /\ KeyFiles = {"author", "master"}
BY DEF Files, Entries, Copied, KeyFiles

\* What DeviceAssumption says of a device, file by file.
LEMMA DeviceFiles ==
  ASSUME NEW device \in Devices
  PROVE  /\ device = [f \in Files |-> device[f]]
         /\ \A f \in Files : ContentOk(f, device[f])
         /\ device["marker"] = Absent /\ device["manifest"] = Absent
         /\ device["dir"] = Absent => \A f \in Entries : device[f] = Absent
         /\ device["db"].kind = "db" =>
              /\ \A f \in KeyFiles : device[f].kind = "key"
              /\ device["db"].db.keys \subseteq {<<device["author"].made, device["master"].made>>}
              /\ \A t \in device["db"].db.tokens : t[1] = Home /\ device["token"] = Token(t)
         /\ device["db"].kind # "db" => device["db"] = Absent
<1>1. CASE device = Nothing
  <2>1. \A f \in Files : device[f] = Absent
    BY <1>1 DEF Nothing
  <2>2. device = [f \in Files |-> device[f]]
    BY <1>1 DEF Nothing
  <2> QED  BY <2>1, <2>2, FileNames DEF ContentOk, Absent
<1>2. CASE device # Nothing
  <2> DEFINE db == device["db"].db
  <2>1. /\ device = [f \in Files |-> device[f]]
        /\ device["dir"] = Plain /\ device["marker"] = Absent /\ device["manifest"] = Absent
        /\ \A f \in KeyFiles : device[f].kind = "key"
        /\ device["db"].kind = "db"
        /\ DbOk(db)
        /\ db.keys \subseteq {<<device["author"].made, device["master"].made>>}
        /\ \A t \in db.tokens : t[1] = Home /\ device["token"] = Token(t)
    BY <1>2, DeviceAssumption DEF DbOk
  <2> HIDE DEF db
  <2>2. \A f \in Files : ContentOk(f, device[f])
    BY <2>1, FileNames DEF ContentOk, db
  <2>3. device["dir"] # Absent
    BY <2>1 DEF Plain, Absent
  <2> QED  BY <2>1, <2>2, <2>3 DEF db
<1> QED  BY <1>1, <1>2

LEMMA Begins == Init => IInv
<1> SUFFICES ASSUME Init PROVE IInv
  OBVIOUS
<1>1. PICK device \in Devices : cache = [d \in Dirs |-> IF d = Home THEN device ELSE Nothing]
  BY DEF Init
<1>2. /\ disk = [d \in Dirs |-> [f \in Files |-> {cache[d][f]}]]
      /\ proc = [p \in Procs |-> Idle]
      /\ promised = [d \in Dirs |-> LengthOf(cache[d]["db"])]
      /\ finished = {} /\ bereft = {} /\ strayed = {}
  BY DEF Init
<1>3. \A d \in Dirs, f \in Files : disk[d][f] = {cache[d][f]}
  BY <1>2
<1>4. \A f \in Files : Nothing[f] = Absent
  BY DEF Nothing
<1>5. ASSUME NEW d \in Dirs
      PROVE  /\ \A f \in Files : ContentOk(f, cache[d][f])
             /\ cache[d]["marker"] = Absent /\ cache[d]["manifest"] = Absent
             /\ cache[d]["dir"] = Absent => \A f \in Entries : cache[d][f] = Absent
             /\ cache[d]["db"].kind = "db" =>
                  /\ \A f \in KeyFiles : cache[d][f].kind = "key"
                  /\ DbOf(d).keys \subseteq {KeysOf(d)}
                  /\ \A t \in DbOf(d).tokens : t[1] = d /\ cache[d]["token"] = Token(t)
             /\ cache[d]["db"].kind # "db" => cache[d]["db"] = Absent
  <2>1. CASE d = Home
    <3>1. cache[d] = device
      BY <1>1, <2>1
    <3> QED  BY <2>1, <3>1, DeviceFiles DEF DbOf, KeysOf
  <2>2. CASE d # Home
    <3>1. cache[d] = Nothing
      BY <1>1, <2>2
    <3> QED  BY <1>4, <3>1, FileNames DEF ContentOk, Absent
  <2> QED  BY <2>1, <2>2
<1>6. Typed
  <2>1. Grid(cache)
    <3>1. ASSUME NEW d \in Dirs PROVE cache[d] = [f \in Files |-> cache[d][f]]
      <4>1. CASE d = Home
        BY <1>1, <4>1, DeviceFiles
      <4>2. CASE d # Home
        BY <1>1, <4>2 DEF Nothing
      <4> QED  BY <4>1, <4>2
    <3> QED  BY <1>1, <3>1 DEF Grid
  <2>2. Grid(disk)
    BY <1>2 DEF Grid
  <2>3. FilesOk
    BY <1>3, <1>5, <2>1, <2>2 DEF FilesOk
  <2>4. ASSUME NEW p \in Procs PROVE ProcOk(p)
    BY <1>2, HomeAssumption DEF ProcOk, Idle, CommandNames
  <2>5. promised \in [Dirs -> 0..MaxLength]
    <3>1. ASSUME NEW d \in Dirs PROVE LengthOf(cache[d]["db"]) \in 0..MaxLength
      BY <1>3, <2>3, LengthType, FileNames
    <3> QED  BY <1>2, <3>1
  <2> QED  BY <1>2, <2>3, <2>4, <2>5 DEF Typed
<1>7. \A p \in Procs : proc[p].cmd = "none"
  BY <1>2 DEF Idle
<1>8. Exclusive /\ LeftAlone /\ Strays
  BY <1>2, <1>7 DEF Exclusive, Strays, LeftAlone, Locks, Claims, Reads, Made, Making, Using, Opens, Makes
<1>9. \A p \in Procs : Stage(p)
  BY <1>7 DEF Stage, Opens, Makes
<1>10. ASSUME NEW d \in Dirs PROVE DirOk(d)
  <2>1. Gone(d)
    BY <1>3, <1>5, FileNames DEF Gone, Exists
  <2>2. KeysLast(d)
    BY <1>3, FileNames DEF KeysLast, Steady
  <2>3. KeysOutlive(d)
    BY <1>3, <1>5, FileNames DEF KeysOutlive, WholeKeys, Settled
  <2>4. OneDevice(d)
    BY <1>3, <1>5, FileNames DEF OneDevice, DbOf
  <2>5. PromiseKept(d)
    <3>1. promised[d] = LengthOf(cache[d]["db"])
      BY <1>2
    <3>2. LengthOf(cache[d]["db"]) \in 0..MaxLength
      BY <1>3, <1>6, LengthType, FileNames DEF Typed
    <3> QED  BY <1>3, <3>1, <3>2, FileNames, BoundAssumption DEF PromiseKept
  <2> QED  BY <2>1, <2>2, <2>3, <2>4, <2>5 DEF DirOk
<1>11. TokensOk
  BY <1>3, <1>5, FileNames DEF TokensOk, DbOf
<1>12. FinishedBackupSurvives
  BY <1>2 DEF FinishedBackupSurvives
<1> QED  BY <1>6, <1>8, <1>9, <1>10, <1>11, <1>12 DEF IInv

-----------------------------------------------------------------------------
(* A process that passes a threshold of Exclusive                          *)

LEMMA ExclusiveMoved ==
  ASSUME Typed, Exclusive, NEW p \in Procs, \A q \in Procs : q # p => proc'[q] = proc[q],
         NEW d, d = proc'[p].dir, NEW s, s = proc'[p].src,
         \A e \in Dirs : cache[e]["dir"] # Absent => cache'[e]["dir"] # Absent,
         \A e \in Dirs : WholeKeys(e) => WholeKeys(e)' \/ e \in strayed' \/ \A q \in Procs : q # p /\ Reads(q) => Src(q) # e,
         strayed \subseteq strayed',
         \A q \in Procs : q # p =>
           /\ Locks(p)' /\ Locks(q) => Dir(q) # d
           /\ Made(p)' /\ Made(q) => Dir(q) # d
           /\ Making(p)' /\ Claims(q) /\ Dir(q) = d => d \in strayed'
           /\ Making(q) /\ Claims(p)' /\ Dir(q) = d => d \in strayed'
           /\ Making(p)' /\ Reads(q) /\ Src(q) = d => d \in strayed'
           /\ Making(q) /\ Reads(p)' /\ Dir(q) = s => s \in strayed'
           /\ proc'[p].cmd = "backup" /\ proc[q].cmd # "none" => Dir(q) # d
           /\ proc[q].cmd = "backup" /\ proc'[p].cmd # "none" => Dir(q) # d,
         \A q \in Procs : q # p =>
           /\ Claims(q) => cache'[Dir(q)]["marker"] = Absent \/ Dir(q) \in strayed'
           /\ Made(q) /\ proc[q].cmd = "backup" => Dir(q) \notin strayed'
           /\ Making(q) /\ proc[q].step > 3 => cache'[Dir(q)]["marker"] # Absent
           /\ Making(q) /\ proc[q].step > 4 => Absent \notin disk'[Dir(q)]["marker"],
         Making(p)' /\ Reads(p)' => d # s \/ d \in strayed',
         Claims(p)' => cache'[d]["dir"] # Absent,
         Claims(p)' => cache'[d]["marker"] = Absent \/ d \in strayed',
         Made(p)' => cache'[d]["dir"] # Absent,
         Made(p)' /\ proc'[p].cmd = "backup" => d \notin strayed',
         Making(p)' /\ proc'[p].step > 3 => cache'[d]["marker"] # Absent,
         Making(p)' /\ proc'[p].step > 4 => Absent \notin disk'[d]["marker"],
         Reads(p)' => WholeKeys(Src(p))' \/ s \in strayed'
  PROVE  Exclusive'
<1>1. ASSUME NEW q \in Procs, q # p
      PROVE  /\ Locks(q)' = Locks(q) /\ Claims(q)' = Claims(q) /\ Reads(q)' = Reads(q)
             /\ Made(q)' = Made(q) /\ Making(q)' = Making(q)
             /\ Dir(q)' = Dir(q) /\ Src(q)' = Src(q)
  BY <1>1 DEF Dir, Src, Locks, Claims, Reads, Made, Making, Opens, Makes, Last
<1>2. Dir(p)' = d /\ Src(p)' = s
  BY DEF Dir, Src
<1>3. ASSUME NEW q \in Procs, NEW r \in Procs
      PROVE  /\ Locks(q)' /\ Locks(r)' /\ Dir(q)' = Dir(r)' => q = r
             /\ Made(q)' /\ Made(r)' /\ Dir(q)' = Dir(r)' => q = r
             /\ Making(q)' /\ Claims(r)' /\ Dir(q)' = Dir(r)' => Dir(q)' \in strayed'
             /\ Making(q)' /\ Reads(r)' /\ Dir(q)' = Src(r)' => Dir(q)' \in strayed'
             /\ proc'[q].cmd = "backup" /\ proc'[r].cmd # "none" /\ Dir(q)' = Dir(r)' => q = r
  <2>1. CASE q # p /\ r # p
    BY <1>1, <2>1 DEF Exclusive
  <2>2. CASE q = p /\ r # p
    BY <1>1, <1>2, <2>2
  <2>3. CASE q # p /\ r = p
    BY <1>1, <1>2, <2>3
  <2>4. CASE q = p /\ r = p
    BY <1>2, <2>4 DEF Making, Made, Claims, Opens, Makes
  <2> QED  BY <2>1, <2>2, <2>3, <2>4
<1>4. ASSUME NEW q \in Procs
      PROVE  /\ Claims(q)' => Exists(Dir(q), "dir")'
             /\ Claims(q)' /\ Exists(Dir(q), "marker")' => Dir(q)' \in strayed'
             /\ Made(q)' /\ proc'[q].cmd = "backup" => Dir(q)' \notin strayed'
             /\ Made(q)' => Exists(Dir(q), "dir")'
             /\ Making(q)' /\ proc'[q].step > 3 => Exists(Dir(q), "marker")'
             /\ Making(q)' /\ proc'[q].step > 4 => Absent \notin disk'[Dir(q)']["marker"]
             /\ Reads(q)' => WholeKeys(Src(q))' \/ Src(q)' \in strayed'
  <2>1. CASE q = p
    BY <1>2, <2>1 DEF Exists
  <2>2. CASE q # p
    <3>1. PICK e \in Dirs, t \in Dirs : e = Dir(q) /\ t = Src(q)
      BY ProcFields DEF Typed
    <3>2. Dir(q)' = e /\ Src(q)' = t /\ WholeKeys(Src(q))' = WholeKeys(t)'
          /\ Made(q)' = Made(q) /\ proc'[q].cmd = proc[q].cmd
      BY <1>1, <2>2, <3>1 DEF WholeKeys
    <3> QED  BY <1>1, <2>2, <3>1, <3>2 DEF Exclusive, Exists
  <2> QED  BY <2>1, <2>2
<1> QED  BY <1>3, <1>4 DEF Exclusive

-----------------------------------------------------------------------------
(* Commands start, look and end                                            *)

LEMMA RunKeeps ==
  ASSUME IInv, NEW p \in Procs, NEW c \in Commands, Run(p, c)
  PROVE  IInv'
<1>1. Typed /\ Exclusive /\ \A q \in Procs : ProcOk(q)
  BY DEF IInv, Typed
<1>2. /\ c.cmd \in CommandNames /\ c.dir \in Dirs /\ c.src \in Dirs
  BY CommandAssumption
<1> DEFINE secret == IF c.cmd \in {"init", "register"} THEN Secret(c.dir) ELSE <<>>
           new == [cmd |-> c.cmd, dir |-> c.dir, src |-> c.src, step |-> 1, secret |-> secret]
<1>3. /\ proc' = [proc EXCEPT ![p] = new]
      /\ cache' = cache /\ disk' = disk /\ promised' = promised /\ finished' = finished
      /\ bereft' = bereft /\ strayed' = strayed
  BY DEF Run, history
<1>4. /\ proc' \in [Procs -> {proc'[q] : q \in Procs}]
      /\ \A q \in Procs : q # p => proc'[q] = proc[q]
      /\ proc'[p] = new
  BY <1>1, <1>3 DEF Typed
<1>5. /\ proc'[p].cmd = c.cmd /\ proc'[p].dir = c.dir /\ proc'[p].src = c.src
      /\ proc'[p].step = 1 /\ proc'[p].secret = secret
  BY <1>4
<1>6. proc[p].cmd = "none" /\ ~Running(p)
  BY <1>1, Places DEF Run
<1>7. ProcOk(p)'
  <2>1. Size(c.cmd) \in Nat /\ 1 <= Size(c.cmd)
    BY <1>2, Lengths
  <2>2. proc'[p] \in [cmd : CommandNames \cup {"none"}, dir : Dirs, src : Dirs, step : Nat,
                      secret : {proc'[p].secret}]
    BY <1>2, <1>4, <1>5
  <2>3. c.cmd \in {"init", "register"} => secret[1] = c.dir
    BY DEF Secret
  <2>4. c.cmd # "none"
    BY <1>2 DEF CommandNames
  <2> QED  BY <1>5, <2>1, <2>2, <2>3, <2>4 DEF ProcOk, Dir, Size
<1>8. \A q \in Procs : ProcOk(q)'
  BY <1>1, <1>4, <1>7 DEF ProcOk, Dir
<1>9. ~Locks(p)' /\ ~Claims(p)' /\ ~Reads(p)' /\ ~Made(p)' /\ ~Making(p)' /\ ~Using(p)'
  BY <1>5 DEF Locks, Claims, Reads, Made, Making, Using, OpenStep
<1>10. \A q \in Procs : q # p =>
         /\ proc'[p].cmd = "backup" /\ proc[q].cmd # "none" => Dir(q) # c.dir
         /\ proc[q].cmd = "backup" /\ proc'[p].cmd # "none" => Dir(q) # c.dir
  BY <1>1, <1>5, Places DEF Run
<1>11. Exclusive'
  <2>1. \A e \in Dirs : WholeKeys(e) => WholeKeys(e)'
    BY <1>3 DEF WholeKeys
  <2>2. \A q \in Procs : /\ Claims(q) => cache'[Dir(q)]["marker"] = Absent \/ Dir(q) \in strayed'
                         /\ Made(q) /\ proc[q].cmd = "backup" => Dir(q) \notin strayed'
                         /\ Making(q) /\ proc[q].step > 3 => cache'[Dir(q)]["marker"] # Absent
                         /\ Making(q) /\ proc[q].step > 4 => Absent \notin disk'[Dir(q)]["marker"]
    BY <1>1, <1>3 DEF Exclusive, Exists
  <2> QED  BY <1>1, <1>3, <1>4, <1>5, <1>9, <1>10, <2>1, <2>2, ExclusiveMoved
<1>12. Stage(p)'
  BY <1>5, <1>7, FreshStage
<1>13. bereft' \subseteq Dirs
  BY <1>1, <1>3 DEF Typed
<1> HIDE DEF new
<1> QED  BY <1>3, <1>4, <1>6, <1>8, <1>9, <1>11, <1>12, <1>13, StepQuiet

\* A process goes on and leaves the files as they are.
LEMMA MoveQuiet ==
  ASSUME IInv, NEW p \in Procs, Running(p), NEW n \in {1, 3},
         proc' = [proc EXCEPT ![p] = Advanced(p, n)],
         cache' = cache, disk' = disk, promised' = promised, finished' = finished, bereft' = bereft, strayed' = strayed,
         ~(proc[p].cmd \in {"init", "register"} /\ proc[p].step \in {6, 9}),
         Exclusive', Stage(p)',
         (Using(p)' \/ Made(p)') => Dir(p)' \notin finished
  PROVE  IInv'
<1>1. Typed
  BY DEF IInv
<1>2. /\ proc' \in [Procs -> {proc'[q] : q \in Procs}]
      /\ \A q \in Procs : q # p => proc'[q] = proc[q]
      /\ \A q \in Procs : ProcOk(q)'
  BY <1>1, Advance
<1>3. bereft' \subseteq Dirs
  BY <1>1 DEF Typed
<1> QED  BY <1>2, <1>3, StepQuiet

LEMMA SameFiles ==
  ASSUME cache' = cache, disk' = disk
  PROVE  \A d \in Dirs :
           /\ Exists(d, "dir") => Exists(d, "dir")'
           /\ Exists(d, "marker")' = Exists(d, "marker")
           /\ Absent \notin disk[d]["marker"] => Absent \notin disk'[d]["marker"]
           /\ WholeKeys(d) => WholeKeys(d)'
BY DEF Exists, WholeKeys

LEMMA LookKeeps ==
  ASSUME IInv, NEW p \in Procs, Look(p)
  PROVE  IInv'
<1>1. Typed /\ Exclusive /\ ProcOk(p) /\ Stage(p) /\ LeftAlone
  BY DEF IInv, Typed
<1>2. /\ proc' = [proc EXCEPT ![p] = Advanced(p, 1)]
      /\ cache' = cache /\ disk' = disk /\ promised' = promised /\ finished' = finished
      /\ bereft' = bereft /\ strayed' = strayed
      /\ Allowed(p) /\ Running(p)
  BY DEF Look, Proceed, history, At
<1>3. PICK d \in Dirs, s \in Dirs : d = Dir(p) /\ s = Src(p)
  BY <1>1, ProcFields
<1>4. /\ \A q \in Procs : q # p => proc'[q] = proc[q]
      /\ \A q \in Procs : ProcOk(q)'
      /\ proc[p].step + 1 <= Size(proc[p].cmd) =>
           /\ proc'[p].cmd = proc[p].cmd /\ proc'[p].step = proc[p].step + 1
           /\ proc'[p].dir = d /\ proc'[p].src = s
           /\ Dir(p)' = d /\ Src(p)' = s
  BY <1>1, <1>2, <1>3, Advance DEF Dir, Src
<1>5. CASE At(p, "lock")
  <2>1. Opens(p) /\ proc[p].step = 2
    BY <1>1, <1>5, Places
  <2>2. proc'[p].cmd = proc[p].cmd /\ proc'[p].step = 3 /\ proc'[p].dir = d /\ Dir(p)' = d
    BY <1>4, <2>1, LengthOfProgram DEF Opens
  <2>3. \A q \in Procs : q # p /\ Locks(q) => Dir(q) # d
    <3>1. \A q \in Procs : ~HasLock(q, d)
      BY <1>2, <1>3, <1>5 DEF Allowed
    <3>2. ASSUME NEW q \in Procs, Locks(q) PROVE Running(q)
      BY <3>2 DEF Locks, Opens, Running, Idle
    <3> QED  BY <3>1, <3>2 DEF HasLock, Locks, Opens, Dir
  <2>4. Exclusive'
    <3>1. Claims(p) /\ ~Made(p)' /\ ~Making(p)' /\ ~Reads(p)' /\ proc'[p].cmd # "backup" /\ proc[p].cmd # "none"
      BY <2>1, <2>2 DEF Claims, Made, Making, Reads, Opens, Makes
    <3>2. \A q \in Procs : q # p =>
            /\ Making(q) /\ Dir(q) = d => d \in strayed
            /\ proc[q].cmd = "backup" => Dir(q) # d
      BY <1>1, <1>3, <3>1 DEF Exclusive
    <3>3. /\ cache'[d]["dir"] # Absent /\ (cache'[d]["marker"] = Absent \/ d \in strayed')
          /\ \A q \in Procs :
               /\ Claims(q) => cache'[Dir(q)]["marker"] = Absent \/ Dir(q) \in strayed'
               /\ Made(q) /\ proc[q].cmd = "backup" => Dir(q) \notin strayed'
               /\ Making(q) /\ proc[q].step > 3 => cache'[Dir(q)]["marker"] # Absent
               /\ Making(q) /\ proc[q].step > 4 => Absent \notin disk'[Dir(q)]["marker"]
      BY <1>1, <1>2, <1>3, <3>1 DEF Exclusive, Exists
    <3>4. \A e \in Dirs : WholeKeys(e) => WholeKeys(e)'
      BY <1>2 DEF WholeKeys
    <3> QED  BY <1>1, <1>2, <1>4, <2>2, <2>3, <3>1, <3>2, <3>3, <3>4, ExclusiveMoved
  <2>5. Opens(p)' /\ ~Makes(p)' /\ ~Using(p)' /\ ~Made(p)'
    BY <2>1, <2>2 DEF Opens, Makes, Using, Made, OpenStep
  <2>6. Stage(p)'
    BY <1>4, <2>2, <2>5, FreshStage
  <2>7. ~(proc[p].cmd \in {"init", "register"} /\ proc[p].step \in {6, 9})
    BY <2>1
  <2> QED  BY <1>2, <2>4, <2>5, <2>6, <2>7, MoveQuiet
<1>6. CASE At(p, "device")
  <2>1. proc[p].cmd \in {"init", "register"} /\ proc[p].step = 3
    BY <1>1, <1>6, Places
  <2>2. proc'[p].cmd = proc[p].cmd /\ proc'[p].step = 4 /\ Dir(p)' = d
        /\ proc'[p].dir = proc[p].dir /\ proc'[p].src = proc[p].src
    BY <1>3, <1>4, <2>1, LengthOfProgram DEF Dir, Src
  <2>3. Exclusive'
    BY <1>1, <1>2, <1>4, <2>1, <2>2, SameFiles, ExclusiveKept DEF Opens
  <2>4. KeysIfDatabase(d)
    BY <1>2, <1>3, <1>6 DEF Allowed
  <2>5. KeysIfDatabase(d)'
    BY <1>2, <2>4 DEF KeysIfDatabase, Exists, WholeKeys
  <2>6. Stage(p)'
    BY <2>1, <2>2, <2>5 DEF Stage, KeysStage, KeysIfDatabase, Exists, WholeKeys, TokenStage, OpenStage, OpenStep, Opens, Makes
  <2>7. ~Using(p)' /\ ~Made(p)'
    BY <2>1, <2>2 DEF Opens, Makes, Using, Made, OpenStep
  <2>8. ~(proc[p].cmd \in {"init", "register"} /\ proc[p].step \in {6, 9})
    BY <2>1
  <2> QED  BY <1>2, <2>3, <2>6, <2>7, <2>8, MoveQuiet
<1>7. CASE At(p, "source") \/ At(p, "verify")
  <2>1. Makes(p) /\ proc[p].step = 1
    BY <1>1, <1>7, Places DEF Makes
  <2>2. proc'[p].cmd = proc[p].cmd /\ proc'[p].step = 2 /\ proc'[p].dir = d /\ proc'[p].src = s /\ Dir(p)' = d /\ Src(p)' = s
    BY <1>4, <2>1, LengthOfProgram DEF Makes
  <2>3. WholeKeys(s) /\ ~Exists(s, "marker")
    BY <1>2, <1>3, <1>7 DEF Allowed, Genuine
  <2>4. ASSUME NEW q \in Procs, Making(q), Dir(q) = s PROVE s \in strayed
    <3>1. proc[q].step \in Nat /\ proc[q].step > 2
      BY <1>1, <2>4 DEF Typed, ProcOk, Making, Made
    <3>2. CASE proc[q].step = 3 /\ s \notin strayed
      <4>1. Stage(q) /\ Makes(q)
        BY <2>4 DEF IInv, Making, Made
      <4>2. disk[Dir(q)]["author"] = {Absent}
        BY <2>4, <3>2, <4>1, FileNames DEF Stage, MakeStage
      <4>3. cache[s]["author"] \in disk[s]["author"] /\ cache[s]["author"].kind = "key"
        BY <1>1, <2>3, FileNames DEF Typed, FilesOk, WholeKeys
      <4> QED  BY <2>4, <4>2, <4>3 DEF Absent
    <3>3. CASE proc[q].step > 3
      BY <1>1, <2>3, <2>4, <3>3 DEF Exclusive
    <3> QED  BY <3>1, <3>2, <3>3
  <2>5. Exclusive'
    <3>1. ~Locks(p)' /\ ~Claims(p)' /\ ~Made(p)' /\ ~Making(p)' /\ proc[p].cmd # "none"
      BY <2>1, <2>2 DEF Claims, Made, Making, Locks, Opens, Makes
    <3>2. \A q \in Procs : q # p =>
            /\ proc'[p].cmd = "backup" /\ proc[q].cmd # "none" => Dir(q) # d
            /\ proc[q].cmd = "backup" => Dir(q) # d
      BY <1>1, <1>3, <2>2, <3>1 DEF Exclusive
    <3>3. \A q \in Procs :
               /\ Claims(q) => cache'[Dir(q)]["marker"] = Absent \/ Dir(q) \in strayed'
               /\ Made(q) /\ proc[q].cmd = "backup" => Dir(q) \notin strayed'
               /\ Making(q) /\ proc[q].step > 3 => cache'[Dir(q)]["marker"] # Absent
               /\ Making(q) /\ proc[q].step > 4 => Absent \notin disk'[Dir(q)]["marker"]
      BY <1>1, <1>2, <1>3, <3>1 DEF Exclusive, Exists
    <3>4. \A e \in Dirs : WholeKeys(e) => WholeKeys(e)'
      BY <1>2 DEF WholeKeys
    <3>5. WholeKeys(Src(p))'
      BY <2>2, <2>3, <3>4 DEF WholeKeys
    <3> QED  BY <1>1, <1>2, <1>4, <2>2, <2>4, <3>1, <3>2, <3>3, <3>4, <3>5, ExclusiveMoved
  <2>6. ~Opens(p)' /\ Makes(p)' /\ ~Using(p)' /\ ~Made(p)'
    BY <2>1, <2>2 DEF Opens, Makes, Using, Made, OpenStep
  <2>7. Stage(p)'
    BY <1>4, <2>2, <2>6, FreshStage
  <2> QED  BY <1>2, <2>1, <2>5, <2>6, <2>7, MoveQuiet DEF Makes
<1>8. CASE At(p, "history")
  <2>1. proc[p].cmd = "backup" /\ proc[p].step = 10
    BY <1>1, <1>8, Places
  <2>2. proc'[p].cmd = "backup" /\ proc'[p].step = 11 /\ Dir(p)' = d
        /\ proc'[p].dir = proc[p].dir /\ proc'[p].src = proc[p].src
    BY <1>3, <1>4, <2>1, LengthOfProgram DEF Dir, Src
  <2>3. Exclusive'
    BY <1>1, <1>2, <1>4, <2>1, <2>2, SameFiles, ExclusiveKept DEF Makes, Last
  <2>4. WholeKeys(d) /\ OfOneDevice(d)
    BY <1>2, <1>3, <1>8 DEF Allowed
  <2>10. d \notin strayed
    BY <1>1, <1>3, <2>1 DEF Exclusive, Made, Makes
  <2>5. HasDb(d) /\ Complete(DbOf(d)) /\ ~DbOf(d).wal /\ Kept(d, d) /\ cache[d]["manifest"] = Sealed(d)
        /\ \A f \in Copied \cup {"manifest"} : Steady(d, f)
    BY <1>1, <1>3, <2>1, <2>10 DEF Stage, BackupStage, MakeStage, Making, Made, Makes, Last
  <2>6. Verified(d)
    BY <2>4, <2>5 DEF Verified
  <2>7. /\ HasDb(d)' /\ Complete(DbOf(d))' /\ ~DbOf(d)'.wal /\ Kept(d, d)' /\ cache'[d]["manifest"] = Sealed(d)'
        /\ (\A f \in Copied \cup {"manifest"} : Steady(d, f)') /\ Verified(d)'
    BY <1>2, <2>5, <2>6 DEF HasDb, DbOf, Kept, Sealed, Steady, Verified, WholeKeys, OfOneDevice, KeysOf
  <2>8. MakeStage(p)' /\ BackupStage(p)'
    BY <2>2, <2>7 DEF MakeStage, BackupStage, Making, Made, Makes, Last
  <2>9. Stage(p)' /\ Dir(p)' \notin finished
    BY <1>1, <1>3, <2>1, <2>2, <2>8 DEF Stage, Makes, Opens, LeftAlone, Made
  <2> QED  BY <1>2, <2>1, <2>3, <2>9, MoveQuiet
<1>9. CASE At(p, "compare")
  <2>1. proc[p].cmd = "restore" /\ proc[p].step = 8
    BY <1>1, <1>9, Places
  <2>2. proc'[p].cmd = "restore" /\ proc'[p].step = 9 /\ Dir(p)' = d
        /\ proc'[p].dir = proc[p].dir /\ proc'[p].src = proc[p].src
    BY <1>3, <1>4, <2>1, LengthOfProgram DEF Dir, Src
  <2>3. Exclusive'
    BY <1>1, <1>2, <1>4, <2>1, <2>2, SameFiles, ExclusiveKept DEF Makes, Last
  <2>11. CASE d \in strayed
    <3>1. Stage(p)' /\ Dir(p)' \notin finished
      BY <1>1, <1>2, <1>3, <2>1, <2>2, <2>11 DEF Stage, LeftAlone, Made, Makes
    <3> QED  BY <1>2, <2>1, <2>3, <3>1, MoveQuiet
  <2>12. CASE d \notin strayed
    <3>4. Genuine(d, s)
      BY <1>2, <1>3, <1>9 DEF Allowed
    <3>5. ~DbOf(d).wal
      <4>1. ContentOk("manifest", cache[s]["manifest"])
        BY <1>1, FileNames DEF Typed, FilesOk
      <4>2. cache[s]["manifest"] = Sealed(d) /\ Sealed(d).files["db"] = cache[d]["db"] /\ Sealed(d) # Absent
        BY <3>4, FileNames DEF Genuine, Sealed, Manifest, Absent
      <4> QED  BY <4>1, <4>2 DEF ContentOk, DbOf
    <3>6. HasDb(d) => Kept(d, d)
      BY <1>1, <1>3, <2>1, <2>12, <3>5 DEF Stage, RestoreStage
    <3>7. Verified(d) /\ \A f \in Copied \cup {"manifest"} : Steady(d, f)
      BY <1>1, <1>3, <2>1, <2>12, <3>4, <3>6 DEF Genuine, Verified, HasDb, Stage, MakeStage, Making, Made, Makes, Last
    <3>8. (\A f \in Copied \cup {"manifest"} : Steady(d, f)') /\ Verified(d)'
      BY <1>2, <3>7 DEF HasDb, DbOf, Kept, Steady, Verified, WholeKeys, OfOneDevice, KeysOf
    <3>9. MakeStage(p)' /\ RestoreStage(p)'
      BY <2>2, <3>8 DEF MakeStage, RestoreStage, Making, Made, Makes, Last
    <3>10. Stage(p)' /\ Dir(p)' \notin finished
      BY <1>1, <1>3, <2>1, <2>2, <3>9 DEF Stage, Makes, Opens, LeftAlone, Made
    <3> QED  BY <1>2, <2>1, <2>3, <3>10, MoveQuiet
  <2> QED  BY <2>11, <2>12
<1> QED  BY <1>5, <1>6, <1>7, <1>8, <1>9 DEF Look

LEMMA KeepKeeps ==
  ASSUME IInv, NEW p \in Procs, Keep(p)
  PROVE  IInv'
<1>1. Typed /\ Exclusive /\ ProcOk(p) /\ Stage(p)
  BY DEF IInv, Typed
<1>2. /\ proc' = [proc EXCEPT ![p] = Advanced(p, 3)]
      /\ cache' = cache /\ disk' = disk /\ promised' = promised /\ finished' = finished
      /\ bereft' = bereft /\ strayed' = strayed
      /\ Allowed(p) /\ Running(p) /\ At(p, "create") /\ Exists(Dir(p), File(p))
  BY DEF Keep, history, At
<1>3. PICK d \in Dirs : d = Dir(p)
  BY <1>1, ProcFields
<1>4. proc[p].cmd \in {"init", "register"} /\ proc[p].step \in {4, 7}
  BY <1>1, <1>2, Places
<1>5. proc[p].step + 3 <= Size(proc[p].cmd)
  BY <1>4, LengthOfProgram
<1>6. /\ \A q \in Procs : q # p => proc'[q] = proc[q]
      /\ \A q \in Procs : ProcOk(q)'
      /\ proc'[p].cmd = proc[p].cmd /\ proc'[p].step = proc[p].step + 3
      /\ proc'[p].dir = proc[p].dir /\ proc'[p].src = proc[p].src
      /\ Dir(p)' = d
  BY <1>1, <1>2, <1>3, <1>5, Advance DEF Dir
<1>7. Exclusive'
  <2>1. Opens(p) /\ proc[p].step > 2 /\ proc'[p].step > 2
    BY <1>4, <1>6 DEF Opens
  <2> QED  BY <1>1, <1>2, <1>6, <2>1, SameFiles, ExclusiveKept
<1>8. IsKey(d, File(p)) /\ (d \notin strayed => KeysIfDatabase(d))
  <2>1. IsKey(d, File(p))
    BY <1>2, <1>3 DEF Allowed, Exists, IsKey
  <2>2. d \notin strayed => KeysIfDatabase(d)
    BY <1>1, <1>3, <1>4 DEF Stage, KeysStage
  <2> QED  BY <2>1, <2>2
<1>9. d \notin strayed => KeysIfDatabase(d)'
  BY <1>2, <1>8 DEF KeysIfDatabase, Exists, WholeKeys
<1>10. Stage(p)'
  <2>1. CASE proc[p].step = 4
    <3>1. proc'[p].step = 7 /\ IsKey(d, "author")'
      BY <1>1, <1>4, <1>6, <1>8, <1>2, <2>1, FilesOfSteps DEF IsKey
    <3> QED  BY <1>2, <1>4, <1>6, <1>9, <3>1 DEF Stage, KeysStage, TokenStage, OpenStage, OpenStep, Opens, Makes
  <2>2. CASE proc[p].step = 7
    <3>1. d \notin strayed => IsKey(d, "author") /\ IsKey(d, "master")
      BY <1>1, <1>3, <1>4, <1>8, <2>2, FilesOfSteps DEF Stage, KeysStage
    <3>2. proc'[p].step = 10 /\ (d \notin strayed => IsKey(d, "author")' /\ IsKey(d, "master")')
      BY <1>2, <1>6, <2>2, <3>1 DEF IsKey
    <3> QED  BY <1>2, <1>4, <1>6, <3>2 DEF Stage, KeysStage, TokenStage, OpenStage, OpenStep, Opens, Makes
  <2> QED  BY <1>4, <2>1, <2>2
<1>11. ~Using(p)' /\ ~Made(p)'
  BY <1>4, <1>6 DEF Using, Made, Makes, OpenStep
<1>12. ~(proc[p].cmd \in {"init", "register"} /\ proc[p].step \in {6, 9})
  BY <1>4
<1> QED  BY <1>2, <1>7, <1>10, <1>11, <1>12, MoveQuiet

LEMMA LoadKeysKeeps ==
  ASSUME IInv, NEW p \in Procs, LoadKeys(p)
  PROVE  IInv'
<1>1. Typed /\ Exclusive /\ ProcOk(p) /\ Stage(p)
  BY DEF IInv, Typed
<1>2. /\ proc' = [proc EXCEPT ![p] = [Advanced(p, 1) EXCEPT !.secret = KeysOf(Dir(p))]]
      /\ cache' = cache /\ disk' = disk /\ promised' = promised /\ finished' = finished
      /\ bereft' = bereft /\ strayed' = strayed
      /\ Allowed(p) /\ Running(p) /\ At(p, "load")
  BY DEF LoadKeys, history, At
<1>3. PICK d \in Dirs : d = Dir(p)
  BY <1>1, ProcFields
<1>4. proc[p].cmd = "serve" /\ proc[p].step = 3
  BY <1>1, <1>2, Places
<1>5. Advanced(p, 1) = [proc[p] EXCEPT !.step = 4]
  <2>1. Size(proc[p].cmd) = 7
    BY <1>4, LengthOfProgram
  <2> QED  BY <1>4, <2>1 DEF Advanced, Size
<1>6. /\ proc'[p] = [[proc[p] EXCEPT !.step = 4] EXCEPT !.secret = KeysOf(d)]
      /\ \A q \in Procs : q # p => proc'[q] = proc[q]
      /\ proc' \in [Procs -> {proc'[q] : q \in Procs}]
  BY <1>1, <1>2, <1>3, <1>5 DEF Typed
<1>7. /\ proc'[p].cmd = "serve" /\ proc'[p].step = 4 /\ proc'[p].secret = KeysOf(d)
      /\ proc'[p].dir = proc[p].dir /\ proc'[p].src = proc[p].src
      /\ proc'[p] \in [cmd : CommandNames \cup {"none"}, dir : Dirs, src : Dirs, step : Nat,
                       secret : {proc'[p].secret}]
  <2> DEFINE moved == [proc[p] EXCEPT !.step = 4]
             keys == KeysOf(d)
  <2>1. /\ moved \in [cmd : CommandNames \cup {"none"}, dir : Dirs, src : Dirs, step : Nat,
                      secret : {proc[p].secret}]
        /\ moved.cmd = "serve" /\ moved.step = 4 /\ moved.dir = proc[p].dir /\ moved.src = proc[p].src
    BY <1>1, <1>4 DEF ProcOk
  <2>2. proc'[p] = [moved EXCEPT !.secret = keys]
    BY <1>6
  <2> HIDE DEF moved, keys
  <2>3. /\ proc'[p].cmd = "serve" /\ proc'[p].step = 4 /\ proc'[p].secret = keys
        /\ proc'[p].dir = proc[p].dir /\ proc'[p].src = proc[p].src
    BY <2>1, <2>2
  <2>4. proc'[p] \in [cmd : CommandNames \cup {"none"}, dir : Dirs, src : Dirs, step : Nat,
                     secret : {keys}]
    BY <2>1, <2>2
  <2> QED  BY <2>3, <2>4 DEF keys
<1>8. Dir(p)' = d
  BY <1>3, <1>7 DEF Dir
<1>9. \A q \in Procs : ProcOk(q)'
  <2>1. ProcOk(p)'
    <3>1. Size(proc'[p].cmd) = 7
      BY <1>7, Lengths
    <3> QED  BY <1>7, <3>1 DEF ProcOk, Size
  <2>2. \A q \in Procs : ProcOk(q)
    BY <1>1 DEF Typed
  <2>3. \A q \in Procs : q # p => proc'[q] = proc[q]
    BY <1>6
  <2> QED  BY <2>1, <2>2, <2>3 DEF ProcOk, Dir
<1>10. Exclusive'
  <2>1. Opens(p) /\ proc[p].step > 2 /\ proc'[p].step > 2 /\ proc'[p].cmd = proc[p].cmd
    BY <1>4, <1>7 DEF Opens
  <2> QED  BY <1>1, <1>2, <1>6, <1>7, <1>9, <2>1, SameFiles, ExclusiveKept
<1>11. WholeKeys(d) /\ WholeKeys(d)' /\ KeysOf(d)' = KeysOf(d)
  BY <1>2, <1>3 DEF Allowed, WholeKeys, KeysOf
<1>12. Stage(p)'
  BY <1>7, <1>8, <1>11 DEF Stage, OpenStage, OpenStep, Opens, Makes, ServeStage
<1>13. ~Using(p)' /\ ~Made(p)'
  BY <1>7 DEF Using, Made, Makes, OpenStep
<1>14. bereft' \subseteq Dirs
  BY <1>1, <1>2 DEF Typed
<1> QED  BY <1>2, <1>4, <1>6, <1>9, <1>10, <1>12, <1>13, <1>14, StepQuiet

\* A step that leaves every database with the tokens it had.
LEMMA SameTokens ==
  ASSUME \A e \in Dirs : disk'[e]["db"] \subseteq disk[e]["db"]
  PROVE  NoNewToken
BY DEF NoNewToken

\* A command of register that failed removes its token file.
LEMMA TokenRemoved ==
  ASSUME IInv, NEW p \in Procs, proc' = [proc EXCEPT ![p] = Idle],
         proc[p].cmd = "register", proc[p].step > 11,
         Written(Dir(p), "token", Absent),
         promised' = promised, finished' = finished, bereft' = bereft,
         strayed' = strayed
  PROVE  IInv'
<1>1. /\ Typed /\ Exclusive /\ ProcOk(p) /\ Stage(p) /\ FilesOk /\ TokensOk /\ LeftAlone
      /\ FinishedBackupSurvives
  BY DEF IInv, Typed
<1>2. PICK d \in Dirs : d = Dir(p) /\ proc[p].step \in Nat
  BY <1>1, ProcFields
<1>3. /\ proc' \in [Procs -> {proc'[q] : q \in Procs}]
      /\ \A q \in Procs : q # p => proc'[q] = proc[q]
      /\ proc'[p] = Idle
      /\ \A q \in Procs : ProcOk(q)'
  BY <1>1, Ended
<1>4. /\ OnlyIn(d)
      /\ \A g \in Files : cache'[d][g] = IF g = "token" THEN Absent ELSE cache[d][g]
      /\ \A g \in Files : disk'[d][g] = IF g = "token" THEN disk[d]["token"] \cup {Absent} ELSE disk[d][g]
  BY <1>1, <1>2, WrittenEffect, FileNames DEF Changed
<1>5. proc'[p].cmd = "none" /\ ~Using(p)' /\ ~Made(p)' /\ ~Opens(p)' /\ ~Makes(p)'
  BY <1>3 DEF Idle, Using, Made, Opens, Makes
<1>6. \A e \in Dirs : \A f \in Entries \cup {"dir"} :
        cache'[e][f] = cache[e][f] /\ disk'[e][f] = disk[e][f]
  BY <1>4, FileNames DEF OnlyIn
<1>7. NobodyHas(d) /\ NoNewToken
  <2>1. NobodyHas(d)
    BY <1>1, <1>2 DEF Stage, TokenStage
  <2>2. NoNewToken
    BY <1>6, SameTokens, FileNames
  <2> QED  BY <2>1, <2>2
<1>8. Exclusive'
  <2>1. \A e \in Dirs :
          /\ Exists(e, "dir") => Exists(e, "dir")'
          /\ Exists(e, "marker")' = Exists(e, "marker")
          /\ Absent \notin disk[e]["marker"] => Absent \notin disk'[e]["marker"]
          /\ WholeKeys(e) => WholeKeys(e)'
    BY <1>6, FileNames DEF Exists, WholeKeys
  <2> QED  BY <1>1, <1>3, <1>5, <2>1, ExclusiveKept
<1>9. Stage(p)'
  BY <1>3, <1>5, FreshStage
<1>10. DirOk(d)'
  <2>1. ASSUME NEW f \in KeyFiles, Syncing(d, f) PROVE Syncing(d, f)'
    <3>1. ~(proc[p].cmd \in {"init", "register"} /\ proc[p].step \in {6, 9} /\ Dir(p) = d)
      OBVIOUS
    <3> QED  BY <1>3, <2>1, <3>1, SyncingKept
  <2>2. DirOk(d)
    BY DEF IInv
  <2>3. cache'[d]["dir"] = cache[d]["dir"] /\ disk'[d]["marker"] = disk[d]["marker"]
    BY <1>6, FileNames
  <2> QED  BY <1>6, <2>1, <2>2, <2>3, DirKept
<1>11. TokensOk'
  <2> SUFFICES ASSUME NEW e \in Dirs, NEW content \in disk'[e]["db"], content.kind = "db",
                      NEW t \in content.db.tokens
               PROVE  t[1] \in Dirs /\ disk'[t[1]]["token"] = {Token(t)}
    BY DEF TokensOk
  <2>1. content \in disk[e]["db"]
    BY <1>6, FileNames
  <2>2. t[1] \in Dirs /\ disk[t[1]]["token"] = {Token(t)} /\ t[1] # d
    BY <1>1, <1>7, <2>1 DEF TokensOk, NobodyHas
  <2> QED  BY <1>4, <2>2 DEF OnlyIn
<1>12. FinishedBackupSurvives'
  BY <1>1, <1>6, FinishedKept DEF Typed
<1>13. LeftAlone'
  BY <1>1, <1>3, <1>5, LeftAloneKept
<1>14. ASSUME NEW q \in Procs, q # p
       PROVE  /\ Dir(q) = d => Early(q) \/ Stage(q)'
              /\ Reads(q) /\ Src(q) = d => LengthOf(cache'[d]["db"]) >= LengthOf(cache[d]["db"])
              /\ proc[q].cmd = "register" /\ proc[q].step > 10 => NobodyHas(Dir(q))'
  <2>1. Locks(p)
    BY <1>2 DEF Locks, Opens
  <2>2. Dir(q) = d => Early(q) \/ Stage(q)'
    <3> SUFFICES ASSUME Dir(q) = d PROVE Early(q) \/ Stage(q)'
      OBVIOUS
    <3>1. CASE d \notin strayed
      BY <1>1, <1>2, <1>14, <2>1, <3>1, Bystanders
    <3>2. CASE d \in strayed
      <4>1. ~Locks(q)
        BY <1>1, <1>2, <1>14, <2>1 DEF Exclusive
      <4>2. proc[q].step \in Nat /\ proc'[q] = proc[q]
        BY <1>1, <1>3, <1>14, ProcFields DEF Typed
      <4> QED  BY <3>2, <4>1, <4>2 DEF Stage, TokenStage, Locks, Opens, Dir
    <3> QED  BY <3>1, <3>2
  <2>3. LengthOf(cache'[d]["db"]) >= LengthOf(cache[d]["db"])
    <3>1. cache[d]["db"] \in disk[d]["db"]
      BY <1>1, FileNames DEF FilesOk
    <3>2. LengthOf(cache[d]["db"]) \in 0..MaxLength
      BY <1>1, <3>1, LengthType
    <3>3. cache'[d]["db"] = cache[d]["db"]
      BY <1>6, FileNames
    <3> QED  BY <3>2, <3>3, BoundAssumption
  <2>4. proc[q].cmd = "register" /\ proc[q].step > 10 => NobodyHas(Dir(q))'
    <3> SUFFICES ASSUME proc[q].cmd = "register", proc[q].step > 10 PROVE NobodyHas(Dir(q))'
      OBVIOUS
    <3>1. PICK e \in Dirs : e = Dir(q)
      BY <1>1, ProcFields DEF Typed
    <3>2. NobodyHas(e)
      BY <3>1 DEF IInv, Stage, TokenStage
    <3>3. NobodyHas(e)'
      BY <1>7, <3>2, NobodyKept
    <3>4. Dir(q)' = e
      BY <1>3, <1>14, <3>1 DEF Dir
    <3> QED  BY <3>3, <3>4
  <2> QED  BY <2>2, <2>3, <2>4
<1>15. \A f \in Files : cache'[d][f] \in disk'[d][f]
                          /\ \A content \in disk'[d][f] : ContentOk(f, content)
  <2>1. ASSUME NEW f \in Files
        PROVE  cache'[d][f] \in disk'[d][f] /\ \A content \in disk'[d][f] : ContentOk(f, content)
    <3>1. CASE f = "token"
      BY <1>4, <3>1, FileNames DEF ContentOk
    <3>2. CASE f # "token"
      BY <1>1, <1>4, <3>2 DEF FilesOk
    <3> QED  BY <3>1, <3>2
  <2> QED  BY <2>1
<1>16. promised' \in [Dirs -> 0..MaxLength] /\ finished' \subseteq Dirs /\ Exists(d, "dir")'
  <2>1. Claims(p)
    BY <1>2 DEF Claims, Opens
  <2>2. Exists(d, "dir")
    BY <1>1, <1>2, <2>1 DEF Exclusive
  <2> QED  BY <1>1, <1>6, <2>2 DEF Typed, Exists
<1> QED  BY <1>2, <1>3, <1>4, <1>8, <1>9, <1>10, <1>11, <1>12, <1>13, <1>14, <1>15, <1>16, StepIn

LEMMA FailKeeps ==
  ASSUME IInv, NEW p \in Procs, Fail(p), promised' = promised, finished' = finished, bereft' = bereft,
         strayed' = strayed,
         ~(proc[p].cmd \in {"init", "register"} /\ proc[p].step \in {6, 9})
  PROVE  IInv'
<1>1. Typed /\ ProcOk(p)
  BY DEF IInv, Typed
<1>2. proc' = [proc EXCEPT ![p] = Idle] /\ bereft' \subseteq Dirs
  BY <1>1 DEF Fail, Typed
<1> DEFINE removes == proc[p].cmd = "register" /\ \E op \in {"open", "wal", "migrate", "enroll"} : At(p, op)
<1>3. CASE removes
  <2>1. proc[p].cmd = "register" /\ Written(Dir(p), "token", Absent)
    BY <1>3 DEF Fail
  <2>2. proc[p].step > 11
    <3>1. proc[p].step \in {12, 13, 14, 15}
      BY <1>1, <1>3, <2>1, Places DEF OpenStep, Opens
    <3> QED  BY <3>1
  <2> QED  BY <1>2, <2>1, <2>2, TokenRemoved
<1>4. CASE ~removes
  <2>1. cache' = cache /\ disk' = disk
    BY <1>4 DEF Fail
  <2> QED  BY <1>2, <2>1, EndQuiet
<1> QED  BY <1>3, <1>4

LEMMA RefuseKeeps ==
  ASSUME IInv, NEW p \in Procs, Refuse(p)
  PROVE  IInv'
<1>1. ProcOk(p) /\ ~Allowed(p) /\ Fail(p)
  BY DEF IInv, Typed, Refuse
<1>2. promised' = promised /\ finished' = finished /\ bereft' = bereft /\ strayed' = strayed
  BY DEF Refuse, history
<1>3. ~(proc[p].cmd \in {"init", "register"} /\ proc[p].step \in {6, 9})
  <2> SUFFICES ASSUME proc[p].cmd \in {"init", "register"}, proc[p].step \in {6, 9} PROVE FALSE
    OBVIOUS
  <2>1. /\ ~At(p, "check") /\ ~At(p, "lock") /\ ~At(p, "device") /\ ~At(p, "create") /\ ~At(p, "load")
        /\ ~At(p, "link") /\ ~At(p, "open") /\ ~At(p, "migrate") /\ ~At(p, "source") /\ ~At(p, "verify")
        /\ ~At(p, "mkdir") /\ ~At(p, "copy") /\ ~At(p, "snapshot") /\ ~At(p, "history")
        /\ ~At(p, "compare") /\ ~At(p, "wal") /\ ~At(p, "enroll")
    <3>1. CASE proc[p].step = 6
      BY <1>1, <3>1, Places DEF OpenStep, Makes
    <3>2. CASE proc[p].step = 9
      BY <1>1, <3>2, Places DEF OpenStep, Makes
    <3> QED  BY <3>1, <3>2
  <2>2. Allowed(p)
    BY <2>1 DEF Allowed
  <2> QED  BY <1>1, <2>2
<1> QED  BY <1>1, <1>2, <1>3, FailKeeps

LEMMA StopKeeps ==
  ASSUME IInv, NEW p \in Procs, Stop(p)
  PROVE  IInv'
<1>1. Typed /\ ProcOk(p)
  BY DEF IInv, Typed
<1>2. proc[p].cmd = "serve"
  BY <1>1, Places DEF Stop
<1> QED  BY <1>1, <1>2, EndQuiet DEF Stop, history, Typed

LEMMA InterruptKeeps ==
  ASSUME IInv, NEW p \in Procs, Interrupt(p)
  PROVE  IInv'
<1>1. Typed /\ ProcOk(p)
  BY DEF IInv, Typed
<1>2. PICK d \in Dirs : d = Dir(p)
  BY <1>1, ProcFields
<1>3. promised' = promised /\ finished' = finished /\ strayed' = strayed
  BY DEF Interrupt
<1>4. CASE At(p, "sync")
  <2>1. proc[p].cmd \in {"init", "register"} /\ proc[p].step \in {6, 9}
    BY <1>1, <1>4, Places
  <2>2. bereft' = bereft \cup {d}
    BY <1>2, <1>4 DEF Interrupt
  <2>3. ~ \E op \in {"open", "wal", "migrate", "enroll"} : At(p, op)
    <3>1. CASE proc[p].step = 6
      BY <1>1, <2>1, <3>1, Places DEF OpenStep
    <3>2. CASE proc[p].step = 9
      BY <1>1, <2>1, <3>2, Places DEF OpenStep
    <3> QED  BY <2>1, <3>1, <3>2
  <2>4. proc' = [proc EXCEPT ![p] = Idle] /\ cache' = cache /\ disk' = disk
    BY <2>3 DEF Interrupt, Fail
  <2> QED  BY <1>1, <1>2, <1>3, <2>2, <2>4, EndQuiet DEF Typed
<1>5. CASE ~At(p, "sync")
  <2>1. ~(proc[p].cmd \in {"init", "register"} /\ proc[p].step \in {6, 9})
    BY <1>1, <1>5, Places
  <2>2. bereft' = bereft
    BY <1>5 DEF Interrupt
  <2>3. CASE Fail(p)
    BY <1>3, <2>1, <2>2, <2>3, FailKeeps
  <2>4. CASE ~Fail(p)
    <3>1. proc' = [proc EXCEPT ![p] = Idle] /\ cache' = cache /\ disk' = disk
      BY <2>4 DEF Interrupt
    <3> QED  BY <1>1, <1>3, <2>1, <2>2, <3>1, EndQuiet DEF Typed
  <2> QED  BY <2>3, <2>4
<1> QED  BY <1>4, <1>5

-----------------------------------------------------------------------------
(* Steps that write in the directory                                       *)

\* A directory to which no token leads gets none, but the one of the step.
NobodyElse(d) == \A e \in Dirs \ {d} : NobodyHas(e) => NobodyHas(e)'

\* What other processes may expect of a step that writes.
LEMMA Others ==
  ASSUME IInv, NEW p \in Procs, NEW d \in Dirs, d = Dir(p),
         \A q \in Procs : q # p => proc'[q] = proc[q],
         Locks(p) \/ Making(p), NobodyElse(d),
         Making(p) \/ d \in strayed \/ LengthOf(cache'[d]["db"]) >= LengthOf(cache[d]["db"]),
         Locks(p) \/ (cache'[d]["token"] = cache[d]["token"] /\ disk'[d]["token"] = disk[d]["token"] /\ NoNewToken),
         strayed' = strayed
  PROVE  \A q \in Procs : q # p =>
           /\ Dir(q) = d => Early(q) \/ Stage(q)'
           /\ Reads(q) /\ Src(q) = d => d \in strayed \/ LengthOf(cache'[d]["db"]) >= LengthOf(cache[d]["db"])
           /\ proc[q].cmd = "register" /\ proc[q].step > 10 => NobodyHas(Dir(q))'
<1>1. Typed /\ Exclusive
  BY DEF IInv
<1> SUFFICES ASSUME NEW q \in Procs, q # p
             PROVE  /\ Dir(q) = d => Early(q) \/ Stage(q)'
                    /\ Reads(q) /\ Src(q) = d => d \in strayed \/ LengthOf(cache'[d]["db"]) >= LengthOf(cache[d]["db"])
                    /\ proc[q].cmd = "register" /\ proc[q].step > 10 => NobodyHas(Dir(q))'
  OBVIOUS
<1>2. proc[q].step \in Nat /\ proc'[q] = proc[q] /\ ProcOk(q) /\ Stage(q)
  BY <1>1, ProcFields DEF IInv, Typed
<1>3. Reads(q) /\ Src(q) = d => d \in strayed \/ LengthOf(cache'[d]["db"]) >= LengthOf(cache[d]["db"])
  BY <1>1, NobodyReads
<1>4. proc[q].cmd = "register" /\ proc[q].step > 10 /\ Dir(q) = d => ~Locks(p) /\ NobodyHas(d)'
  <2> SUFFICES ASSUME proc[q].cmd = "register", proc[q].step > 10, Dir(q) = d
               PROVE  ~Locks(p) /\ NobodyHas(d)'
    OBVIOUS
  <2>1. Locks(q)
    BY <1>2 DEF Locks, Opens
  <2>2. ~Locks(p)
    BY <1>1, <2>1 DEF Exclusive
  <2>3. NobodyHas(d)
    BY <1>2 DEF Stage, TokenStage
  <2> QED  BY <2>2, <2>3, NobodyKept
<1>5. proc[q].cmd = "register" /\ proc[q].step > 10 => NobodyHas(Dir(q))'
  <2> SUFFICES ASSUME proc[q].cmd = "register", proc[q].step > 10 PROVE NobodyHas(Dir(q))'
    OBVIOUS
  <2>1. PICK e \in Dirs : e = Dir(q)
    BY <1>1, ProcFields DEF Typed
  <2>2. NobodyHas(e)
    BY <1>2, <2>1 DEF Stage, TokenStage
  <2>3. NobodyHas(e)'
    BY <1>4, <2>1, <2>2 DEF NobodyElse
  <2>4. Dir(q)' = e
    BY <2>1 DEF Dir
  <2> QED  BY <2>3, <2>4
<1>6. Dir(q) = d => Early(q) \/ Stage(q)'
  <2> SUFFICES ASSUME Dir(q) = d PROVE Early(q) \/ Stage(q)'
    OBVIOUS
  <2>1. CASE d \notin strayed
    BY <1>1, <2>1, Bystanders
  <2>2. CASE d \in strayed
    <3>1. Dir(q)' = d
      BY <1>2 DEF Dir
    <3>2. proc'[q].cmd = "register" => TokenStage(q)'
      BY <1>2, <1>4, <3>1 DEF Stage, TokenStage
    <3> QED  BY <2>2, <3>1, <3>2 DEF Stage
  <2> QED  BY <2>1, <2>2
<1> QED  BY <1>3, <1>5, <1>6

\* An opener writes.
LEMMA OpenerStep ==
  ASSUME IInv, NEW p \in Procs, NEW d \in Dirs, d = Dir(p), Locks(p),
         proc' \in [Procs -> {proc'[q] : q \in Procs}],
         \A q \in Procs : q # p => proc'[q] = proc[q],
         \A q \in Procs : ProcOk(q)',
         \/ proc'[p].cmd = "none"
         \/ /\ proc'[p].cmd = proc[p].cmd /\ proc'[p].dir = proc[p].dir /\ proc'[p].src = proc[p].src
            /\ proc'[p].step > 2,
         OnlyIn(d),
         \A f \in Files : cache'[d][f] \in disk'[d][f]
                            /\ \A content \in disk'[d][f] : ContentOk(f, content),
         cache'[d]["dir"] = cache[d]["dir"], cache'[d]["marker"] = cache[d]["marker"],
         Absent \notin disk[d]["marker"] => Absent \notin disk'[d]["marker"],
         WholeKeys(d) => WholeKeys(d)' \/ d \in strayed,
         d \in strayed \/ LengthOf(cache'[d]["db"]) >= LengthOf(cache[d]["db"]), NobodyElse(d),
         promised' \in [Dirs -> 0..MaxLength], \A e \in Dirs : e # d => promised'[e] = promised[e],
         finished' \subseteq finished, bereft' = bereft, strayed' = strayed,
         Stage(p)', DirOk(d)', TokensOk',
         d \in finished' => \A f \in Entries \cup {"dir"} :
                              cache'[d][f] = cache[d][f] /\ disk'[d][f] = disk[d][f],
         Using(p)' => d \notin finished'
  PROVE  IInv'
<1>1. /\ Typed /\ Exclusive /\ LeftAlone /\ FinishedBackupSurvives /\ FilesOk /\ finished \subseteq Dirs
      /\ proc[p].step \in Nat
  BY DEF IInv, Typed, ProcOk
<1>2. Opens(p) /\ proc[p].step > 2 /\ Claims(p)
  BY <1>1 DEF Locks, Claims
<1>3. Exclusive'
  <2>3. ASSUME NEW e \in Dirs
        PROVE  /\ Exists(e, "dir") => Exists(e, "dir")'
               /\ Exists(e, "marker")' = Exists(e, "marker")
               /\ Absent \notin disk[e]["marker"] => Absent \notin disk'[e]["marker"]
               /\ WholeKeys(e) => WholeKeys(e)' \/ e \in strayed
    <3>1. CASE e = d
      BY <3>1 DEF Exists
    <3>2. CASE e # d
      BY <3>2 DEF OnlyIn, Exists, WholeKeys
    <3> QED  BY <3>1, <3>2
  <2> QED  BY <1>1, <1>2, <2>3, ExclusiveKept
<1>4. FinishedBackupSurvives'
  <2>1. \A e \in finished' : \A f \in Entries \cup {"dir"} :
           cache'[e][f] = cache[e][f] /\ disk'[e][f] = disk[e][f]
    BY <1>1 DEF OnlyIn
  <2> QED  BY <1>1, <2>1, FinishedKept
<1>5. LeftAlone'
  <2>1. ~Made(p)'
    BY <1>2 DEF Made, Makes, Opens
  <2>2. Using(p)' => Dir(p)' = d
    BY DEF Using, Opens, Dir
  <2> QED  BY <1>1, <2>1, <2>2, LeftAloneKept
<1>6. Exists(d, "dir")'
  BY <1>1, <1>2 DEF Exclusive, Exists
<1>7. (\A e \in finished' : e \in finished \/ e \notin strayed) /\ finished' \subseteq Dirs
  BY <1>1
<1>8. \A q \in Procs : q # p =>
        /\ Dir(q) = d => Early(q) \/ Stage(q)'
        /\ Reads(q) /\ Src(q) = d => d \in strayed \/ LengthOf(cache'[d]["db"]) >= LengthOf(cache[d]["db"])
        /\ proc[q].cmd = "register" /\ proc[q].step > 10 => NobodyHas(Dir(q))'
  BY Others
<1> QED  BY <1>3, <1>4, <1>5, <1>6, <1>7, <1>8, StepIn

\* A maker writes.
LEMMA MakerStep ==
  ASSUME IInv, NEW p \in Procs, NEW d \in Dirs, d = Dir(p), Making(p),
         proc' \in [Procs -> {proc'[q] : q \in Procs}],
         \A q \in Procs : q # p => proc'[q] = proc[q],
         \A q \in Procs : ProcOk(q)',
         proc'[p].dir = d,
         OnlyIn(d),
         \A f \in Files : cache'[d][f] \in disk'[d][f]
                            /\ \A content \in disk'[d][f] : ContentOk(f, content),
         cache'[d]["token"] = cache[d]["token"], disk'[d]["token"] = disk[d]["token"], NoNewToken,
         Exists(d, "dir")',
         promised' \in [Dirs -> 0..MaxLength], \A e \in Dirs : e # d => promised'[e] = promised[e],
         finished' = finished, bereft' = bereft, strayed' = strayed,
         Exclusive', Stage(p)', DirOk(d)'
  PROVE  IInv'
<1>1. /\ Typed /\ Exclusive /\ LeftAlone /\ FinishedBackupSurvives /\ TokensOk /\ finished \subseteq Dirs
  BY DEF IInv, Typed
<1>2. d \notin finished
  BY <1>1 DEF LeftAlone, Making
<1>3. FinishedBackupSurvives'
  <2>1. \A e \in finished' : \A f \in Entries \cup {"dir"} :
           cache'[e][f] = cache[e][f] /\ disk'[e][f] = disk[e][f]
    BY <1>1, <1>2 DEF OnlyIn
  <2> QED  BY <1>1, <2>1, FinishedKept
<1>4. LeftAlone'
  <2>1. Dir(p)' = d
    BY DEF Dir
  <2> QED  BY <1>1, <1>2, <2>1, LeftAloneKept
<1>5. TokensOk'
  <2>1. \A e \in Dirs : disk'[e]["token"] = disk[e]["token"]
    BY DEF OnlyIn
  <2> QED  BY <1>1, <2>1, TokensKept
<1>6. NobodyElse(d)
  BY NobodyKept DEF NobodyElse
<1>7. \A q \in Procs : q # p =>
        /\ Dir(q) = d => Early(q) \/ Stage(q)'
        /\ Reads(q) /\ Src(q) = d => d \in strayed \/ LengthOf(cache'[d]["db"]) >= LengthOf(cache[d]["db"])
        /\ proc[q].cmd = "register" /\ proc[q].step > 10 => NobodyHas(Dir(q))'
  BY <1>6, Others
<1> QED  BY <1>1, <1>3, <1>4, <1>5, <1>7, StepIn

-----------------------------------------------------------------------------
(* Keys and tokens                                                         *)

\* Where a core has strayed.
LEMMA StrayDir ==
  ASSUME NEW d \in Dirs, d \in strayed, strayed' = strayed, DirOk(d), Exists(d, "dir")',
         \/ cache'[d]["db"] = cache[d]["db"] /\ disk'[d]["db"] = disk[d]["db"]
         \/ Exists(d, "db")'
  PROVE  DirOk(d)'
<1>1. Gone(d)
  BY DEF DirOk
<1>2. Gone(d)'
  BY <1>1 DEF Gone, Exists
<1> QED  BY <1>2 DEF DirOk

LEMMA StrayStage ==
  ASSUME NEW p \in Procs, Dir(p)' \in strayed', proc'[p].cmd = "register" => TokenStage(p)'
  PROVE  Stage(p)'
BY DEF Stage

\* What holds where a process has the lock.
LEMMA Ready ==
  ASSUME IInv, NEW p \in Procs, Locks(p), NEW d \in Dirs, d = Dir(p)
  PROVE  /\ Exists(d, "dir") /\ Gone(d) /\ d \in Dirs
         /\ d \notin strayed =>
              /\ cache[d]["marker"] = Absent /\ Unmarked(d)
              /\ KeysLast(d) /\ KeysOutlive(d) /\ OneDevice(d) /\ PromiseKept(d)
              /\ \A q \in Procs : q # p /\ Dir(q) = d => Early(q)
         /\ \A f \in KeyFiles : Syncing(d, f) =>
              proc[p].cmd \in {"init", "register"} /\ proc[p].step = IF f = "author" THEN 6 ELSE 9
<1>1. Typed /\ Exclusive /\ FilesOk /\ DirOk(d) /\ proc[p].step \in Nat
  BY DEF IInv, Typed, ProcOk
<1>2. Exists(d, "dir") /\ (d \notin strayed => cache[d]["marker"] = Absent)
  BY <1>1 DEF Exclusive, Claims, Locks, Exists
<1>3. d \notin strayed => Unmarked(d)
  BY <1>1, <1>2, FileNames DEF Unmarked, FilesOk
<1>4. d \notin strayed => \A q \in Procs : q # p /\ Dir(q) = d => Early(q)
  BY <1>1, Bystanders
<1>5. ASSUME NEW f \in KeyFiles, Syncing(d, f)
      PROVE  proc[p].cmd \in {"init", "register"} /\ proc[p].step = IF f = "author" THEN 6 ELSE 9
  <2>1. PICK q \in Procs : /\ proc[q].cmd \in {"init", "register"} /\ Dir(q) = d
                           /\ proc[q].step = IF f = "author" THEN 6 ELSE 9
    BY <1>5 DEF Syncing
  <2>2. Locks(q)
    <3>1. proc[q].step \in {6, 9}
      BY <2>1
    <3> QED  BY <2>1, <3>1 DEF Locks, Opens
  <2>3. q = p
    BY <1>1, <2>1, <2>2 DEF Exclusive
  <2> QED  BY <2>1, <2>3
<1> QED  BY <1>1, <1>2, <1>3, <1>4, <1>5 DEF DirOk

\* A step of ensure_secret changes one key file, and there is no database.
LEMMA KeyStep ==
  ASSUME IInv, NEW p \in Procs, proc[p].cmd \in {"init", "register"}, NEW d \in Dirs, d = Dir(p),
         NEW f \in KeyFiles, proc[p].step \in (IF f = "author" THEN 4..6 ELSE 7..9),
         d \in strayed \/ ~Exists(d, "db"), Proceed(p), OnlyIn(d),
         \A g \in Files : g # f => cache'[d][g] = cache[d][g] /\ disk'[d][g] = disk[d][g],
         cache'[d][f] \in disk'[d][f], d \in strayed \/ (IsKey(d, f) => IsKey(d, f)'),
         promised' = promised, finished' = finished, bereft' = bereft, strayed' = strayed,
         d \in strayed \/ \A content \in disk'[d][f] : content.kind = "key" => content = cache'[d][f],
         d \notin strayed /\ IsKey(d, f)' /\ proc[p].step \notin {5, 8} => Steady(d, f)',
         Stage(p)'
  PROVE  IInv'
<1>1. /\ Typed /\ FilesOk /\ TokensOk /\ FinishedBackupSurvives /\ ProcOk(p) /\ DirOk(d)
      /\ Strays
  BY DEF IInv, Typed
<1>2. Locks(p) /\ Running(p) /\ proc[p].step \in 4..9 /\ proc[p].step \in Nat /\ Opens(p)
  <2>1. proc[p].step \in 4..9
    <3>1. CASE f = "author"  BY <3>1
    <3>2. CASE f # "author"  BY <3>2
    <3> QED  BY <3>1, <3>2
  <2> QED  BY <2>1 DEF Locks, Opens, Running, Idle
<1>3. proc[p].step + 1 <= Size(proc[p].cmd)
  BY <1>2, LengthOfProgram
<1>4. /\ proc' \in [Procs -> {proc'[q] : q \in Procs}]
      /\ \A q \in Procs : q # p => proc'[q] = proc[q]
      /\ \A q \in Procs : ProcOk(q)'
      /\ proc'[p].cmd = proc[p].cmd /\ proc'[p].dir = proc[p].dir /\ proc'[p].src = proc[p].src
      /\ proc'[p].step = proc[p].step + 1
  BY <1>1, <1>2, <1>3, Advance DEF Proceed
<1>5. d \notin finished
  BY <1>1 DEF FinishedBackupSurvives, Genuine, Exists, Absent, Strays
<1>6. /\ Exists(d, "dir") /\ Gone(d)
      /\ d \notin strayed => Unmarked(d) /\ KeysLast(d) /\ PromiseKept(d)
      /\ \A g \in KeyFiles : Syncing(d, g) =>
           proc[p].cmd \in {"init", "register"} /\ proc[p].step = IF g = "author" THEN 6 ELSE 9
  BY <1>2, Ready
<1>7. KeyFiles = {"author", "master"} /\ f \notin {"db", "dir", "marker", "manifest", "token"} /\ f \in Files
  BY FileNames
<1>8. ASSUME NEW g \in Files
      PROVE  cache'[d][g] \in disk'[d][g] /\ \A content \in disk'[d][g] : ContentOk(g, content)
  <2>1. CASE g = f
    BY <1>7, <2>1 DEF ContentOk
  <2>2. CASE g # f
    BY <1>1, <2>2 DEF FilesOk
  <2> QED  BY <2>1, <2>2
<1>9. /\ cache'[d]["dir"] = cache[d]["dir"] /\ cache'[d]["marker"] = cache[d]["marker"]
      /\ cache'[d]["db"] = cache[d]["db"] /\ disk'[d]["db"] = disk[d]["db"]
      /\ disk'[d]["marker"] = disk[d]["marker"] /\ cache'[d]["token"] = cache[d]["token"]
      /\ d \notin strayed => disk[d]["db"] = {Absent}
  BY <1>6, <1>7, FileNames DEF Gone
<1>10. WholeKeys(d) => WholeKeys(d)' \/ d \in strayed
  BY <1>7, FileNames DEF WholeKeys, IsKey
<1>11. d \in strayed \/ LengthOf(cache'[d]["db"]) >= LengthOf(cache[d]["db"])
  <2> SUFFICES ASSUME d \notin strayed PROVE LengthOf(cache'[d]["db"]) >= LengthOf(cache[d]["db"])
    OBVIOUS
  <2>1. cache[d]["db"] = Absent
    BY DEF Exists
  <2>2. LengthOf(Absent) = 0
    BY DEF LengthOf, Absent
  <2> QED  BY <1>9, <2>1, <2>2
<1>12. NoNewToken /\ NobodyElse(d)
  <2>1. \A e \in Dirs : disk'[e]["db"] \subseteq disk[e]["db"]
    BY <1>9 DEF OnlyIn
  <2>2. NoNewToken
    BY <2>1, SameTokens
  <2> QED  BY <2>2, NobodyKept DEF NobodyElse
<1>13. TokensOk'
  <2>1. \A e \in Dirs : disk'[e]["token"] = disk[e]["token"]
    BY <1>7, FileNames DEF OnlyIn
  <2> QED  BY <1>1, <1>12, <2>1, TokensKept
<1>14. DirOk(d)'
  <2>0. CASE d \in strayed
    <3>1. Exists(d, "dir")'
      BY <1>6, <1>9 DEF Exists
    <3> QED  BY <1>1, <1>9, <2>0, <3>1, StrayDir
  <2>5. CASE d \notin strayed
    <3>1. Gone(d)'
      BY <1>6, <1>9 DEF Gone, Exists
    <3>2. KeysLast(d)'
      <4> SUFFICES ASSUME NEW g \in KeyFiles
                   PROVE  /\ \A content \in disk'[d][g] : content.kind = "key" => content = cache'[d][g]
                          /\ d \notin bereft /\ IsKey(d, g)' /\ ~Syncing(d, g)' => Steady(d, g)'
        BY DEF KeysLast
      <4>1. CASE g = f
        <5>1. proc[p].step \in {5, 8} => Syncing(d, f)'
          <6>1. ASSUME proc[p].step \in {5, 8} PROVE proc'[p].step = IF f = "author" THEN 6 ELSE 9
            <7>1. CASE f = "author"
              BY <1>2, <1>4, <6>1, <7>1
            <7>2. CASE f # "author"
              BY <1>2, <1>4, <6>1, <7>2
            <7> QED  BY <7>1, <7>2
          <6> QED  BY <1>4, <6>1 DEF Syncing, Dir
        <5> QED  BY <2>5, <4>1, <5>1
      <4>2. CASE g # f
        <5>1. ~Syncing(d, g)
          <6> SUFFICES ASSUME Syncing(d, g) PROVE FALSE
            OBVIOUS
          <6>1. proc[p].step = IF g = "author" THEN 6 ELSE 9
            BY <1>6
          <6>2. CASE f = "author"
            BY <4>2, <6>1, <6>2
          <6>3. CASE f # "author"
            BY <1>7, <4>2, <6>1, <6>3
          <6> QED  BY <6>2, <6>3
        <5>2. cache'[d][g] = cache[d][g] /\ disk'[d][g] = disk[d][g]
          BY <4>2, FileNames
        <5> QED  BY <1>6, <2>5, <5>1, <5>2 DEF KeysLast, IsKey, Steady
      <4> QED  BY <4>1, <4>2
    <3>3. KeysOutlive(d)' /\ OneDevice(d)'
      BY <1>9, <2>5 DEF KeysOutlive, OneDevice, Absent
    <3>4. PromiseKept(d)'
      BY <1>6, <1>9, <2>5 DEF PromiseKept
    <3> QED  BY <3>1, <3>2, <3>3, <3>4 DEF DirOk
  <2> QED  BY <2>0, <2>5
<1>15. proc'[p].step > 2 /\ ~Using(p)'
  <2>1. proc'[p].step \in 5..10
    BY <1>2, <1>4
  <2> QED  BY <1>4, <2>1 DEF Using, OpenStep
<1>16. promised' \in [Dirs -> 0..MaxLength]
  BY <1>1 DEF Typed
<1> QED  BY <1>2, <1>4, <1>5, <1>8, <1>9, <1>10, <1>11, <1>12, <1>13, <1>14, <1>15, <1>16, OpenerStep

\* What a step of ensure_secret is about: its file, and that there is no database.
LEMMA KeyPlace ==
  ASSUME IInv, NEW p \in Procs, Running(p), NEW d \in Dirs, d = Dir(p),
         \/ At(p, "create") /\ ~Exists(d, File(p))
         \/ At(p, "write")
         \/ At(p, "sync")
  PROVE  /\ proc[p].cmd \in {"init", "register"}
         /\ File(p) \in KeyFiles
         /\ proc[p].step \in (IF File(p) = "author" THEN 4..6 ELSE 7..9)
         /\ d \in strayed \/ ~Exists(d, "db")
         /\ proc[p].step + 1 <= Size(proc[p].cmd)
<1>1. ProcOk(p) /\ Stage(p) /\ proc[p].step \in Nat
  BY DEF IInv, Typed, ProcOk
<1>2. proc[p].cmd \in {"init", "register"} /\ proc[p].step \in {4, 5, 6, 7, 8, 9}
  BY <1>1, Places
<1>3. File(p) \in KeyFiles /\ proc[p].step \in (IF File(p) = "author" THEN 4..6 ELSE 7..9)
  <2>1. CASE proc[p].step \in 4..6
    <3>1. File(p) = "author"
      BY <1>1, <1>2, <2>1, FilesOfSteps
    <3> QED  BY <2>1, <3>1, FileNames
  <2>2. CASE proc[p].step \in 7..9
    <3>1. File(p) = "master"
      BY <1>1, <1>2, <2>2, FilesOfSteps
    <3> QED  BY <2>2, <3>1, FileNames
  <2> QED  BY <1>2, <2>1, <2>2
<1>4. d \notin strayed => KeysStage(p)
  BY <1>1, <1>2 DEF Stage
<1>5. d \in strayed \/ ~Exists(d, "db")
  <2> SUFFICES ASSUME d \notin strayed PROVE ~Exists(d, "db")
    OBVIOUS
  <2>1. CASE proc[p].step \in {4, 7}
    <3>1. KeysIfDatabase(d)
      BY <1>4, <2>1 DEF KeysStage
    <3>2. ~Exists(d, File(p))
      BY <1>1, <2>1, Places
    <3> QED  BY <1>3, <3>1, <3>2 DEF KeysIfDatabase, Exists, WholeKeys, Absent
  <2>2. CASE proc[p].step \in {5, 6, 8, 9}
    BY <1>4, <2>2 DEF KeysStage
  <2> QED  BY <1>2, <2>1, <2>2
<1>6. proc[p].step + 1 <= Size(proc[p].cmd)
  BY <1>2, LengthOfProgram
<1> QED  BY <1>2, <1>3, <1>5, <1>6

\* The stage of init and register before they have the keys.
LEMMA KeysStageMoves ==
  ASSUME NEW p \in Procs, NEW d \in Dirs, Dir(p)' = d, proc'[p].cmd \in {"init", "register"},
         proc'[p].step \in 5..10, d \in strayed' \/ ~Exists(d, "db")',
         d \notin strayed' /\ proc'[p].step = 5 => cache'[d]["author"] = Short,
         d \notin strayed' /\ proc'[p].step = 8 => cache'[d]["master"] = Short,
         d \notin strayed' /\ proc'[p].step > 5 => IsKey(d, "author")',
         d \notin strayed' /\ proc'[p].step > 8 => IsKey(d, "master")'
  PROVE  Stage(p)'
<1>1. d \notin strayed' => KeysStage(p)'
  BY DEF KeysStage, KeysIfDatabase
<1>2. TokenStage(p)'
  BY DEF TokenStage
<1>3. OpenStage(p)'
  BY DEF OpenStage, OpenStep
<1> QED  BY <1>1, <1>2, <1>3 DEF Stage, Opens, Makes

LEMMA CreateKeeps ==
  ASSUME IInv, NEW p \in Procs, Create(p)
  PROVE  IInv'
<1>1. ProcOk(p) /\ Stage(p) /\ FilesOk /\ Typed
  BY DEF IInv, Typed
<1>2. PICK d \in Dirs : d = Dir(p) /\ proc[p].step \in Nat
  BY <1>1, ProcFields
<1>3. /\ Running(p) /\ At(p, "create") /\ ~Exists(d, File(p)) /\ Written(d, File(p), Short)
      /\ Proceed(p) /\ promised' = promised /\ finished' = finished /\ bereft' = bereft /\ strayed' = strayed
  BY <1>2 DEF Create, At, history
<1>4. /\ proc[p].cmd \in {"init", "register"} /\ File(p) \in KeyFiles
      /\ proc[p].step \in (IF File(p) = "author" THEN 4..6 ELSE 7..9)
      /\ (d \in strayed \/ ~Exists(d, "db")) /\ proc[p].step + 1 <= Size(proc[p].cmd)
  BY <1>2, <1>3, KeyPlace
<1>5. PICK f \in KeyFiles : f = File(p)
  BY <1>4
<1>6. f \in {"author", "master"} /\ f \in Files
  BY FileNames
<1>7. /\ OnlyIn(d)
      /\ \A g \in Files : cache'[d][g] = IF g = f THEN Short ELSE cache[d][g]
      /\ \A g \in Files : disk'[d][g] = IF g = f THEN disk[d][f] \cup {Short} ELSE disk[d][g]
  <2>1. Written(d, f, Short)
    BY <1>3, <1>5
  <2>2. Changed(d, f, Short, disk[d][f] \cup {Short})
    BY <1>1, <1>6, <2>1, WrittenEffect
  <2> QED  BY <2>2 DEF Changed
<1>8. /\ proc'[p].cmd = proc[p].cmd /\ Dir(p)' = d /\ proc'[p].step = proc[p].step + 1
  BY <1>1, <1>2, <1>3, <1>4, Advance DEF Proceed, Dir
<1>9. proc[p].step \in {4, 7} /\ (d \notin strayed => KeysStage(p))
  BY <1>1, <1>2, <1>3, <1>4, Places DEF Stage
<1>10. (f = "author" => proc[p].step = 4) /\ (f = "master" => proc[p].step = 7)
  BY <1>4, <1>5, <1>9
<1>11. Stage(p)'
  <2>1. d \in strayed' \/ ~Exists(d, "db")'
    BY <1>3, <1>4, <1>6, <1>7, FileNames DEF Exists
  <2>2. CASE f = "author"
    <3>1. proc'[p].step = 5 /\ cache'[d]["author"] = Short
      BY <1>7, <1>8, <1>10, <2>2, FileNames
    <3> QED  BY <1>4, <1>8, <2>1, <3>1, KeysStageMoves
  <2>3. CASE f = "master"
    <3>1. proc'[p].step = 8 /\ cache'[d]["master"] = Short /\ cache'[d]["author"] = cache[d]["author"]
      BY <1>7, <1>8, <1>10, <2>3, FileNames
    <3>2. d \notin strayed' => IsKey(d, "author")'
      BY <1>2, <1>3, <1>9, <1>10, <2>3, <3>1 DEF KeysStage, IsKey
    <3> QED  BY <1>4, <1>8, <2>1, <3>1, <3>2, KeysStageMoves
  <2> QED  BY <1>6, <2>2, <2>3
<1>12. d \in strayed \/ \A content \in disk'[d][f] : content.kind = "key" => content = cache'[d][f]
  <2> SUFFICES ASSUME d \notin strayed
               PROVE  \A content \in disk'[d][f] : content.kind = "key" => content = cache'[d][f]
    OBVIOUS
  <2>1. DirOk(d) /\ cache[d][f] = Absent
    BY <1>3, <1>5 DEF IInv, Exists
  <2>2. \A content \in disk[d][f] : content.kind # "key"
    BY <2>1 DEF DirOk, KeysLast, Absent
  <2> QED  BY <1>6, <1>7, <2>2 DEF Short
<1>13. ~IsKey(d, f) /\ ~IsKey(d, f)'
  BY <1>3, <1>5, <1>6, <1>7 DEF IsKey, Exists, Absent, Short
<1> QED  BY <1>2, <1>3, <1>4, <1>5, <1>6, <1>7, <1>11, <1>12, <1>13, KeyStep

LEMMA WriteKeyKeeps ==
  ASSUME IInv, NEW p \in Procs, WriteKey(p)
  PROVE  IInv'
<1>1. ProcOk(p) /\ Stage(p) /\ FilesOk /\ Typed
  BY DEF IInv, Typed
<1>2. PICK d \in Dirs : d = Dir(p) /\ proc[p].step \in Nat
  BY <1>1, ProcFields
<1> DEFINE new == Key(proc[p].secret)
<1>3. /\ Running(p) /\ At(p, "write") /\ Written(d, File(p), new)
      /\ Proceed(p) /\ promised' = promised /\ finished' = finished /\ bereft' = bereft /\ strayed' = strayed
  BY <1>2 DEF WriteKey, At, history
<1>4. /\ proc[p].cmd \in {"init", "register"} /\ File(p) \in KeyFiles
      /\ proc[p].step \in (IF File(p) = "author" THEN 4..6 ELSE 7..9)
      /\ (d \in strayed \/ ~Exists(d, "db")) /\ proc[p].step + 1 <= Size(proc[p].cmd)
  BY <1>2, <1>3, KeyPlace
<1>5. PICK f \in KeyFiles : f = File(p)
  BY <1>4
<1>6. f \in {"author", "master"} /\ f \in Files
  BY FileNames
<1>7. /\ OnlyIn(d)
      /\ \A g \in Files : cache'[d][g] = IF g = f THEN new ELSE cache[d][g]
      /\ \A g \in Files : disk'[d][g] = IF g = f THEN disk[d][f] \cup {new} ELSE disk[d][g]
  <2>1. Written(d, f, new)
    BY <1>3, <1>5
  <2> HIDE DEF new
  <2>2. Changed(d, f, new, disk[d][f] \cup {new})
    BY <1>1, <1>6, <2>1, WrittenEffect
  <2> QED  BY <2>2 DEF Changed
<1>8. /\ proc'[p].cmd = proc[p].cmd /\ Dir(p)' = d /\ proc'[p].step = proc[p].step + 1
  BY <1>1, <1>2, <1>3, <1>4, Advance DEF Proceed, Dir
<1>9. proc[p].step \in {5, 8} /\ (d \notin strayed => KeysStage(p))
  BY <1>1, <1>2, <1>3, <1>4, Places DEF Stage
<1>10. (f = "author" => proc[p].step = 5) /\ (f = "master" => proc[p].step = 8)
  BY <1>4, <1>5, <1>9
<1>11. d \notin strayed => cache[d][f] = Short
  BY <1>2, <1>6, <1>9, <1>10 DEF KeysStage
<1>12. IsKey(d, f)'
  BY <1>6, <1>7 DEF IsKey, Key
<1>13. Stage(p)'
  <2>1. d \in strayed' \/ ~Exists(d, "db")'
    BY <1>3, <1>4, <1>6, <1>7, FileNames DEF Exists
  <2>2. CASE f = "author"
    <3>1. proc'[p].step = 6
      BY <1>8, <1>10, <2>2
    <3> QED  BY <1>4, <1>8, <1>12, <2>1, <2>2, <3>1, KeysStageMoves
  <2>3. CASE f = "master"
    <3>1. proc'[p].step = 9 /\ cache'[d]["author"] = cache[d]["author"]
      BY <1>7, <1>8, <1>10, <2>3, FileNames
    <3>2. d \notin strayed' => IsKey(d, "author")'
      BY <1>2, <1>3, <1>9, <1>10, <2>3, <3>1 DEF KeysStage, IsKey
    <3> QED  BY <1>4, <1>8, <1>12, <2>1, <2>3, <3>1, <3>2, KeysStageMoves
  <2> QED  BY <1>6, <2>2, <2>3
<1>14. d \in strayed \/ \A content \in disk'[d][f] : content.kind = "key" => content = cache'[d][f]
  <2> SUFFICES ASSUME d \notin strayed
               PROVE  \A content \in disk'[d][f] : content.kind = "key" => content = cache'[d][f]
    OBVIOUS
  <2>1. DirOk(d)
    BY DEF IInv
  <2>2. \A content \in disk[d][f] : content.kind # "key"
    BY <1>11, <2>1 DEF DirOk, KeysLast, Short
  <2> QED  BY <1>6, <1>7, <2>2
<1>15. /\ \A g \in Files : g # f => cache'[d][g] = cache[d][g] /\ disk'[d][g] = disk[d][g]
       /\ cache'[d][f] \in disk'[d][f]
  BY <1>6, <1>7
<1> HIDE DEF new
<1> QED  BY <1>2, <1>3, <1>4, <1>5, <1>7, <1>9, <1>12, <1>13, <1>14, <1>15, KeyStep

LEMMA SyncKeyKeeps ==
  ASSUME IInv, NEW p \in Procs, SyncKey(p)
  PROVE  IInv'
<1>1. ProcOk(p) /\ Stage(p) /\ FilesOk /\ Typed
  BY DEF IInv, Typed
<1>2. PICK d \in Dirs : d = Dir(p) /\ proc[p].step \in Nat
  BY <1>1, ProcFields
<1> DEFINE new == cache[d][File(p)]
<1>3. /\ Running(p) /\ At(p, "sync") /\ Synced(d, File(p), new)
      /\ Proceed(p) /\ promised' = promised /\ finished' = finished /\ bereft' = bereft /\ strayed' = strayed
  BY <1>2 DEF SyncKey, At, history
<1>4. /\ proc[p].cmd \in {"init", "register"} /\ File(p) \in KeyFiles
      /\ proc[p].step \in (IF File(p) = "author" THEN 4..6 ELSE 7..9)
      /\ (d \in strayed \/ ~Exists(d, "db")) /\ proc[p].step + 1 <= Size(proc[p].cmd)
  BY <1>2, <1>3, KeyPlace
<1>5. PICK f \in KeyFiles : f = File(p)
  BY <1>4
<1>6. f \in {"author", "master"} /\ f \in Files
  BY FileNames
<1>7. /\ OnlyIn(d)
      /\ \A g \in Files : cache'[d][g] = cache[d][g]
      /\ \A g \in Files :
           disk'[d][g] = IF g = f THEN (disk[d][f] \cap {Absent}) \cup {cache[d][f]} ELSE disk[d][g]
  <2> DEFINE x == cache[d][f]
  <2>1. Synced(d, f, x)
    BY <1>3, <1>5
  <2> HIDE DEF x
  <2>2. Changed(d, f, x, (disk[d][f] \cap {Absent}) \cup {x})
    BY <1>1, <1>6, <2>1, SyncedEffect
  <2> QED  BY <1>6, <2>2 DEF Changed, x
<1>8. /\ proc'[p].cmd = proc[p].cmd /\ Dir(p)' = d /\ proc'[p].step = proc[p].step + 1
  BY <1>1, <1>2, <1>3, <1>4, Advance DEF Proceed, Dir
<1>9. proc[p].step \in {6, 9} /\ (d \notin strayed => KeysStage(p))
  BY <1>1, <1>2, <1>3, <1>4, Places DEF Stage
<1>10. (f = "author" => proc[p].step = 6) /\ (f = "master" => proc[p].step = 9)
  BY <1>4, <1>5, <1>9
<1>11. d \notin strayed => IsKey(d, "author") /\ (f = "master" => IsKey(d, "master"))
  BY <1>2, <1>6, <1>9, <1>10 DEF KeysStage
<1>12. d \notin strayed => IsKey(d, "author")' /\ (f = "master" => IsKey(d, "master")')
  BY <1>7, <1>11, FileNames DEF IsKey
<1>13. Stage(p)'
  <2>1. d \in strayed' \/ ~Exists(d, "db")'
    BY <1>3, <1>4, <1>7, FileNames DEF Exists
  <2>2. CASE f = "author"
    <3>1. proc'[p].step = 7
      BY <1>8, <1>10, <2>2
    <3> QED  BY <1>3, <1>4, <1>8, <1>12, <2>1, <2>2, <3>1, KeysStageMoves
  <2>3. CASE f = "master"
    <3>1. proc'[p].step = 10
      BY <1>8, <1>10, <2>3
    <3> QED  BY <1>3, <1>4, <1>8, <1>12, <2>1, <2>3, <3>1, KeysStageMoves
  <2> QED  BY <1>6, <2>2, <2>3
<1>14. \A content \in disk'[d][f] : content.kind = "key" => content = cache'[d][f]
  BY <1>6, <1>7 DEF Absent
<1>15. /\ \A g \in Files : g # f => cache'[d][g] = cache[d][g] /\ disk'[d][g] = disk[d][g]
       /\ cache'[d][f] \in disk'[d][f] /\ Steady(d, f)' /\ (d \notin strayed => IsKey(d, f)')
  BY <1>6, <1>7, <1>12 DEF Steady
<1> HIDE DEF new
<1> QED  BY <1>2, <1>3, <1>4, <1>5, <1>7, <1>13, <1>14, <1>15, KeyStep

\* The token file changes and nothing else.
LEMMA TokenStep ==
  ASSUME IInv, NEW p \in Procs, proc[p].cmd = "register", proc[p].step \in {10, 11},
         NEW d \in Dirs, d = Dir(p), Proceed(p), OnlyIn(d),
         \A g \in Files : g # "token" => cache'[d][g] = cache[d][g] /\ disk'[d][g] = disk[d][g],
         cache'[d]["token"] \in disk'[d]["token"],
         promised' = promised, finished' = finished, bereft' = bereft, strayed' = strayed,
         NobodyHas(d),
         cache'[d]["token"] = Token(proc[p].secret),
         proc[p].step = 11 => disk'[d]["token"] = {Token(proc[p].secret)}
  PROVE  IInv'
<1>1. /\ Typed /\ FilesOk /\ TokensOk /\ ProcOk(p) /\ DirOk(d) /\ Stage(p)
  BY DEF IInv, Typed
<1>2. Locks(p) /\ Running(p) /\ proc[p].step \in Nat
  BY DEF Locks, Opens, Running, Idle
<1>3. proc[p].step + 1 <= Size(proc[p].cmd)
  BY <1>2, LengthOfProgram
<1>4. /\ proc' \in [Procs -> {proc'[q] : q \in Procs}]
      /\ \A q \in Procs : q # p => proc'[q] = proc[q]
      /\ \A q \in Procs : ProcOk(q)'
      /\ proc'[p].cmd = proc[p].cmd /\ proc'[p].dir = proc[p].dir /\ proc'[p].src = proc[p].src
      /\ proc'[p].step = proc[p].step + 1 /\ proc'[p].secret = proc[p].secret /\ Dir(p)' = d
  BY <1>1, <1>2, <1>3, Advance DEF Proceed, Dir
<1>5. \A e \in Dirs : \A f \in Entries \cup {"dir"} :
        cache'[e][f] = cache[e][f] /\ disk'[e][f] = disk[e][f]
  BY FileNames DEF OnlyIn
<1>6. NoNewToken /\ NobodyElse(d) /\ NobodyHas(d)'
  <2>1. NoNewToken
    BY <1>5, SameTokens, FileNames
  <2> QED  BY <2>1, NobodyKept DEF NobodyElse
<1>7. TokensOk'
  <2> SUFFICES ASSUME NEW e \in Dirs, NEW content \in disk'[e]["db"], content.kind = "db",
                      NEW t \in content.db.tokens
               PROVE  t[1] \in Dirs /\ disk'[t[1]]["token"] = {Token(t)}
    BY DEF TokensOk
  <2>1. content \in disk[e]["db"]
    BY <1>5, FileNames
  <2>2. t[1] \in Dirs /\ disk[t[1]]["token"] = {Token(t)} /\ t[1] # d
    BY <1>1, <2>1 DEF TokensOk, NobodyHas
  <2> QED  BY <2>2 DEF OnlyIn
<1>8. Stage(p)'
  <2>1. d \notin strayed => IsKey(d, "author") /\ IsKey(d, "master")
    BY <1>1 DEF Stage, KeysStage
  <2>2. d \notin strayed' => IsKey(d, "author")' /\ IsKey(d, "master")'
    BY <1>5, <2>1, FileNames DEF IsKey
  <2>3. CASE proc[p].step = 10
    <3>1. proc'[p].step = 11
      BY <1>4, <2>3
    <3> QED  BY <1>4, <1>6, <2>2, <3>1 DEF Stage, KeysStage, TokenStage, OpenStage, OpenStep, Opens, Makes
  <2>4. CASE proc[p].step = 11
    <3>1. proc'[p].step = 12
      BY <1>4, <2>4
    <3> QED  BY <1>4, <1>6, <2>2, <2>4, <3>1 DEF Stage, KeysStage, TokenStage, OpenStage, OpenStep, Opens, Makes
  <2> QED  BY <2>3, <2>4
<1>9. DirOk(d)'
  <2>1. ASSUME NEW f \in KeyFiles, Syncing(d, f) PROVE Syncing(d, f)'
    BY <1>4, <2>1, SyncingKept
  <2>2. cache'[d]["dir"] = cache[d]["dir"] /\ disk'[d]["marker"] = disk[d]["marker"]
    BY <1>5, FileNames
  <2> QED  BY <1>1, <1>5, <2>1, <2>2, DirKept
<1>10. ASSUME NEW f \in Files
       PROVE  cache'[d][f] \in disk'[d][f] /\ \A content \in disk'[d][f] : ContentOk(f, content)
  <2>1. CASE f = "token"
    BY <2>1 DEF ContentOk
  <2>2. CASE f # "token"
    BY <1>1, <2>2 DEF FilesOk
  <2> QED  BY <2>1, <2>2
<1>11. LengthOf(cache'[d]["db"]) >= LengthOf(cache[d]["db"])
  <2>1. cache[d]["db"] \in disk[d]["db"]
    BY <1>1, FileNames DEF FilesOk
  <2>2. LengthOf(cache[d]["db"]) \in 0..MaxLength
    BY <1>1, <2>1, LengthType
  <2>3. cache'[d]["db"] = cache[d]["db"]
    BY <1>5, FileNames
  <2> QED  BY <2>2, <2>3, BoundAssumption
<1>12. WholeKeys(d) => WholeKeys(d)'
  BY <1>5, FileNames DEF WholeKeys
<1>13. proc'[p].step > 2 /\ ~Using(p)'
  <2>1. proc'[p].step \in {11, 12}
    BY <1>4
  <2> QED  BY <1>4, <2>1 DEF Using, OpenStep
<1>14. promised' \in [Dirs -> 0..MaxLength]
  BY <1>1 DEF Typed
<1>15. /\ cache'[d]["dir"] = cache[d]["dir"] /\ cache'[d]["marker"] = cache[d]["marker"]
      /\ disk'[d]["marker"] = disk[d]["marker"]
  BY <1>5, FileNames
<1> QED  BY <1>2, <1>4, <1>5, <1>6, <1>7, <1>8, <1>9, <1>10, <1>11, <1>12, <1>13, <1>14, <1>15, OpenerStep

LEMMA LinkTokenKeeps ==
  ASSUME IInv, NEW p \in Procs, LinkToken(p)
  PROVE  IInv'
<1>1. ProcOk(p) /\ FilesOk /\ Typed /\ TokensOk
  BY DEF IInv, Typed
<1>2. PICK d \in Dirs : d = Dir(p)
  BY <1>1, ProcFields
<1> DEFINE new == Token(proc[p].secret)
<1>3. /\ At(p, "link") /\ Allowed(p) /\ Written(d, "token", new)
      /\ Proceed(p) /\ promised' = promised /\ finished' = finished /\ bereft' = bereft /\ strayed' = strayed
  BY <1>2 DEF LinkToken, history
<1>4. proc[p].cmd = "register" /\ proc[p].step = 10
  BY <1>1, <1>3, Places
<1> HIDE DEF new
<1>5. /\ OnlyIn(d)
      /\ \A g \in Files : cache'[d][g] = IF g = "token" THEN new ELSE cache[d][g]
      /\ \A g \in Files : disk'[d][g] = IF g = "token" THEN disk[d]["token"] \cup {new} ELSE disk[d][g]
  BY <1>1, <1>3, FileNames, WrittenEffect DEF Changed
<1>6. NobodyHas(d)
  <2>1. cache[d]["token"] = Absent
    BY <1>2, <1>3 DEF Allowed, Exists
  <2>2. Absent \in disk[d]["token"]
    BY <1>1, <2>1, FileNames DEF FilesOk
  <2>3. \A t : disk[d]["token"] # {Token(t)}
    BY <2>2 DEF Token, Absent
  <2> QED  BY <1>1, <2>3 DEF TokensOk, NobodyHas
<1>7. cache'[d]["token"] = new /\ cache'[d]["token"] \in disk'[d]["token"]
  BY <1>5, FileNames
<1> QED  BY <1>2, <1>3, <1>4, <1>5, <1>6, <1>7, TokenStep DEF new

LEMMA SettleTokenKeeps ==
  ASSUME IInv, NEW p \in Procs, SettleToken(p)
  PROVE  IInv'
<1>1. ProcOk(p) /\ FilesOk /\ Typed /\ Stage(p)
  BY DEF IInv, Typed
<1>2. PICK d \in Dirs : d = Dir(p)
  BY <1>1, ProcFields
<1>3. /\ At(p, "settle") /\ File(p) = "token" /\ Proceed(p)
      /\ disk' = [disk EXCEPT ![d]["token"] = {cache[d]["token"]}] /\ cache' = cache
      /\ promised' = promised /\ finished' = finished /\ bereft' = bereft /\ strayed' = strayed
  BY <1>2 DEF SettleToken, history
<1>4. proc[p].cmd = "register" /\ proc[p].step = 11
  <2>1. ~(Makes(p) /\ proc[p].step = Last(p) - 1)
    BY <1>1, <1>3, FilesOfSteps
  <2> QED  BY <1>1, <1>3, <2>1, Places
<1>5. cache[d]["token"] = Token(proc[p].secret) /\ NobodyHas(d)
  BY <1>1, <1>2, <1>4 DEF Stage, TokenStage
<1>6. /\ OnlyIn(d)
      /\ \A g \in Files : disk'[d][g] = IF g = "token" THEN {cache[d]["token"]} ELSE disk[d][g]
  <2> DEFINE new == {cache[d]["token"]}
  <2>1. disk' = Put(disk, d, "token", new)
    BY <1>3 DEF Put
  <2> HIDE DEF new
  <2>2. /\ Grid(disk') /\ \A e \in Dirs : e # d => disk'[e] = disk[e]
        /\ \A g \in Files : disk'[d][g] = IF g = "token" THEN new ELSE disk[d][g]
    BY <1>1, <2>1, OneFile, FileNames DEF FilesOk
  <2> QED  BY <1>1, <1>3, <2>2 DEF OnlyIn, FilesOk, new
<1>7. disk'[d]["token"] = {Token(proc[p].secret)} /\ cache'[d]["token"] = Token(proc[p].secret)
  BY <1>3, <1>5, <1>6, FileNames
<1> QED  BY <1>2, <1>3, <1>4, <1>5, <1>6, <1>7, TokenStep

-----------------------------------------------------------------------------
(* The database                                                            *)

\* The keys are there where a database is opened.
LEMMA KeysFirst ==
  ASSUME IInv, NEW p \in Procs, Opens(p), proc[p].step >= OpenStep(p), NEW d \in Dirs, d = Dir(p)
  PROVE  /\ d \in strayed \/ WholeKeys(d)
         /\ Locks(p) /\ \A f \in KeyFiles : ~Syncing(d, f)
<1>1. ProcOk(p) /\ Stage(p) /\ proc[p].step \in Nat
  BY DEF IInv, Typed, ProcOk
<1>2. d \in strayed \/ WholeKeys(d)
  <2> SUFFICES ASSUME d \notin strayed PROVE WholeKeys(d)
    OBVIOUS
  <2>1. CASE proc[p].cmd \in {"init", "register"}
    <3>1. proc[p].step > 8
      BY <1>1, <2>1 DEF OpenStep
    <3> QED  BY <1>1, <2>1, <3>1, FileNames DEF Stage, KeysStage, IsKey, WholeKeys
  <2>2. CASE proc[p].cmd = "serve"
    <3>1. proc[p].step > 3
      BY <1>1, <2>2 DEF OpenStep
    <3> QED  BY <1>1, <2>2, <3>1 DEF Stage, ServeStage
  <2> QED  BY <2>1, <2>2 DEF Opens
<1>3. Locks(p)
  BY <1>1 DEF Locks, OpenStep
<1>4. ~(proc[p].cmd \in {"init", "register"} /\ proc[p].step \in {6, 9})
  BY <1>1 DEF OpenStep
<1> QED  BY <1>2, <1>3, <1>4, Ready

LEMMA OpenKeeps ==
  ASSUME IInv, NEW p \in Procs, Open(p)
  PROVE  IInv'
<1>1. Typed /\ FilesOk /\ TokensOk /\ ProcOk(p) /\ Stage(p)
  BY DEF IInv, Typed
<1>2. PICK d \in Dirs : d = Dir(p) /\ proc[p].step \in Nat
  BY <1>1, ProcFields
<1> DEFINE new == Database(NewDatabase)
<1>3. /\ At(p, "open") /\ Running(p) /\ Allowed(p) /\ Proceed(p)
      /\ IF Exists(d, "db") THEN cache' = cache /\ disk' = disk ELSE Written(d, "db", new)
      /\ finished' = finished \ {d}
      /\ promised' = promised /\ bereft' = bereft /\ strayed' = strayed
  BY <1>2 DEF Open, At
<1>4. Opens(p) /\ proc[p].step = OpenStep(p)
  BY <1>1, <1>3, Places
<1>5. (d \in strayed \/ WholeKeys(d)) /\ Locks(p) /\ \A f \in KeyFiles : ~Syncing(d, f)
  BY <1>2, <1>4, KeysFirst
<1>6. proc[p].step + 1 <= Size(proc[p].cmd)
  BY <1>4, LengthOfProgram DEF Opens, OpenStep
<1>7. /\ proc' \in [Procs -> {proc'[q] : q \in Procs}]
      /\ \A q \in Procs : q # p => proc'[q] = proc[q]
      /\ \A q \in Procs : ProcOk(q)'
      /\ proc'[p].cmd = proc[p].cmd /\ proc'[p].dir = proc[p].dir /\ proc'[p].src = proc[p].src
      /\ proc'[p].step = proc[p].step + 1 /\ proc'[p].secret = proc[p].secret /\ Dir(p)' = d
  BY <1>1, <1>2, <1>3, <1>6, Advance DEF Proceed, Dir
<1>8. /\ Exists(d, "dir") /\ Gone(d)
      /\ d \notin strayed => Unmarked(d) /\ KeysLast(d) /\ KeysOutlive(d) /\ OneDevice(d) /\ PromiseKept(d)
  BY <1>2, <1>5, Ready
<1>9. /\ DbOk(NewDatabase) /\ new.kind = "db" /\ new.db = NewDatabase /\ LengthOf(new) = 0
      /\ NewDatabase.schema = 0 /\ NewDatabase.keys = {} /\ NewDatabase.tokens = {}
  BY NewOk DEF Database, LengthOf
<1> HIDE DEF new
<1>10. /\ OnlyIn(d) /\ \A g \in Files : g # "db" => cache'[d][g] = cache[d][g] /\ disk'[d][g] = disk[d][g]
       /\ cache'[d]["db"].kind = "db"
       /\ \/ cache'[d]["db"] = cache[d]["db"] /\ disk'[d]["db"] = disk[d]["db"]
          \/ cache'[d]["db"] = new /\ disk'[d]["db"] = {Absent, new} /\ disk[d]["db"] = {Absent}
               /\ cache[d]["db"] = Absent
  <2>1. CASE Exists(d, "db")
    <3>1. cache' = cache /\ disk' = disk /\ cache[d]["db"].kind = "db"
      BY <1>2, <1>3, <2>1 DEF Allowed
    <3> QED  BY <1>1, <3>1 DEF OnlyIn, FilesOk
  <2>2. CASE ~Exists(d, "db")
    <3>1. Written(d, "db", new)
      BY <1>3, <2>2
    <3>2. /\ OnlyIn(d)
          /\ \A g \in Files : cache'[d][g] = IF g = "db" THEN new ELSE cache[d][g]
          /\ \A g \in Files : disk'[d][g] = IF g = "db" THEN disk[d]["db"] \cup {new} ELSE disk[d][g]
      BY <1>1, <3>1, WrittenEffect, FileNames DEF Changed
    <3>3. disk[d]["db"] = {Absent} /\ cache[d]["db"] = Absent
      BY <1>8, <2>2 DEF Gone, Exists
    <3> QED  BY <1>9, <3>2, <3>3, FileNames
  <2> QED  BY <2>1, <2>2
<1>11. ASSUME NEW content \in disk'[d]["db"], content \notin disk[d]["db"]
       PROVE  content = new
  BY <1>10, <1>11
<1>12. ASSUME NEW f \in Files
       PROVE  cache'[d][f] \in disk'[d][f] /\ \A content \in disk'[d][f] : ContentOk(f, content)
  <2>1. CASE f = "db"
    <3>1. ContentOk("db", new)
      BY <1>9 DEF ContentOk
    <3>2. cache'[d]["db"] \in disk'[d]["db"]
      BY <1>1, <1>10, FileNames DEF FilesOk
    <3>3. \A content \in disk[d]["db"] : ContentOk("db", content)
      BY <1>1, FileNames DEF FilesOk
    <3> QED  BY <1>11, <2>1, <3>1, <3>2, <3>3
  <2>2. CASE f # "db"
    BY <1>1, <1>10, <2>2 DEF FilesOk
  <2> QED  BY <2>1, <2>2
<1>13. LengthOf(cache'[d]["db"]) >= LengthOf(cache[d]["db"])
  <2>1. LengthOf(cache[d]["db"]) \in Nat
    <3>1. cache[d]["db"] \in disk[d]["db"]
      BY <1>1, FileNames DEF FilesOk
    <3> QED  BY <1>1, <3>1, LengthType, BoundAssumption
  <2>2. cache[d]["db"] = Absent => LengthOf(cache[d]["db"]) = 0
    BY DEF LengthOf, Absent
  <2> QED  BY <1>9, <1>10, <2>1, <2>2
<1>14. NoNewToken /\ NobodyElse(d)
  <2>1. ASSUME NEW e \in Dirs, NEW content \in disk'[e]["db"], content.kind = "db",
               NEW t \in content.db.tokens
        PROVE  \E h \in Dirs : \E old \in disk[h]["db"] : old.kind = "db" /\ t \in old.db.tokens
    <3>1. content \in disk[e]["db"]
      <4>1. CASE e = d
        BY <1>9, <1>11, <2>1, <4>1
      <4>2. CASE e # d
        BY <1>10, <4>2 DEF OnlyIn
      <4> QED  BY <4>1, <4>2
    <3> QED  BY <2>1, <3>1
  <2>2. NoNewToken
    BY <2>1 DEF NoNewToken
  <2> QED  BY <2>2, NobodyKept DEF NobodyElse
<1>15. TokensOk'
  <2>1. \A e \in Dirs : disk'[e]["token"] = disk[e]["token"]
    BY <1>10, FileNames DEF OnlyIn
  <2> QED  BY <1>1, <1>14, <2>1, TokensKept
<1>16. (d \in strayed' \/ WholeKeys(d)') /\ WholeKeys(d)' = WholeKeys(d) /\ KeysOf(d)' = KeysOf(d)
  BY <1>3, <1>5, <1>10, FileNames DEF WholeKeys, KeysOf
<1>17. Stage(p)'
  <2>1. HasDb(d)'
    BY <1>10 DEF HasDb
  <2>2. OpenStage(p)'
    BY <1>2, <1>4, <1>7, <2>1 DEF OpenStage, OpenStep
  <2>3. d \notin strayed /\ proc[p].cmd \in {"init", "register"} => KeysStage(p)'
    <3> SUFFICES ASSUME d \notin strayed, proc[p].cmd \in {"init", "register"} PROVE KeysStage(p)'
      OBVIOUS
    <3>1. proc'[p].step \in {11, 13}
      BY <1>4, <1>7 DEF OpenStep
    <3> QED  BY <1>3, <1>7, <1>16, <3>1, FileNames DEF KeysStage, WholeKeys, IsKey
  <2>4. proc[p].cmd = "register" => TokenStage(p)'
    <3> SUFFICES ASSUME proc[p].cmd = "register" PROVE TokenStage(p)'
      OBVIOUS
    <3>1. proc[p].step = 12 /\ proc'[p].step = 13
      BY <1>4, <1>7 DEF OpenStep
    <3>2. NobodyHas(d) /\ disk[d]["token"] = {Token(proc[p].secret)}
      BY <1>1, <1>2, <3>1 DEF Stage, TokenStage
    <3>3. NobodyHas(d)' /\ disk'[d]["token"] = {Token(proc[p].secret)}
      BY <1>10, <1>14, <3>2, NobodyKept, FileNames
    <3> QED  BY <1>7, <3>1, <3>3 DEF TokenStage
  <2>5. d \notin strayed /\ proc[p].cmd = "serve" => ServeStage(p)'
    <3> SUFFICES ASSUME d \notin strayed, proc[p].cmd = "serve" PROVE ServeStage(p)'
      OBVIOUS
    <3>1. proc[p].step > 3
      BY <1>4 DEF OpenStep
    <3>2. proc[p].secret = KeysOf(d)
      BY <1>1, <1>2, <3>1 DEF Stage, ServeStage
    <3> QED  BY <1>3, <1>7, <1>16, <3>2 DEF ServeStage
  <2> QED  BY <1>3, <1>4, <1>7, <2>2, <2>3, <2>4, <2>5 DEF Stage, Opens, Makes
<1>18. DirOk(d)'
  <2>1. Gone(d)'
    BY <1>8, <1>10, FileNames DEF Gone, Exists, Absent
  <2>2. d \notin strayed => KeysLast(d)'
    <3> SUFFICES ASSUME d \notin strayed PROVE KeysLast(d)'
      OBVIOUS
    <3>1. \A f \in KeyFiles : cache'[d][f] = cache[d][f] /\ disk'[d][f] = disk[d][f]
      BY <1>10, FileNames
    <3> QED  BY <1>3, <1>5, <1>8, <3>1 DEF KeysLast, IsKey, Steady
  <2>3. d \notin strayed => KeysOutlive(d)'
    <3> SUFFICES ASSUME d \notin strayed PROVE KeysOutlive(d)'
      OBVIOUS
    <3> SUFFICES ASSUME d \notin bereft, NEW content \in disk'[d]["db"], content.kind = "db", content.db.schema > 0
                 PROVE  WholeKeys(d)' /\ \A f \in KeyFiles : Settled(d, f)'
      BY <1>3 DEF KeysOutlive
    <3>1. content \in disk[d]["db"]
      BY <1>9, <1>11
    <3>2. \A f \in KeyFiles : Settled(d, f)
      BY <1>8, <3>1 DEF KeysOutlive
    <3> QED  BY <1>3, <1>10, <1>16, <3>2, FileNames DEF Settled
  <2>4. d \notin strayed => OneDevice(d)'
    <3> SUFFICES ASSUME d \notin strayed PROVE OneDevice(d)'
      OBVIOUS
    <3> SUFFICES ASSUME NEW content \in disk'[d]["db"], content.kind = "db"
                 PROVE  content.db.keys \subseteq {KeysOf(d)'}
      BY DEF OneDevice
    <3>1. CASE content \in disk[d]["db"]
      BY <1>5, <1>8, <1>16, <3>1 DEF OneDevice
    <3>2. CASE content \notin disk[d]["db"]
      BY <1>9, <1>11, <3>2
    <3> QED  BY <3>1, <3>2
  <2>5. d \notin strayed => PromiseKept(d)'
    <3> SUFFICES ASSUME d \notin strayed PROVE PromiseKept(d)'
      OBVIOUS
    <3> SUFFICES ASSUME NEW content \in disk'[d]["db"] PROVE LengthOf(content) >= promised[d]
      BY <1>3 DEF PromiseKept
    <3>1. CASE content \in disk[d]["db"]
      BY <1>8, <3>1 DEF PromiseKept
    <3>2. CASE content \notin disk[d]["db"]
      <4>1. content = new /\ Absent \in disk[d]["db"]
        BY <1>10, <1>11, <3>2
      <4>2. LengthOf(Absent) >= promised[d] /\ LengthOf(Absent) = 0
        BY <1>8, <4>1 DEF PromiseKept, LengthOf, Absent
      <4> QED  BY <1>9, <4>1, <4>2
    <3> QED  BY <3>1, <3>2
  <2> QED  BY <1>3, <2>1, <2>2, <2>3, <2>4, <2>5 DEF DirOk
<1>19. proc'[p].step > 2
  BY <1>2, <1>4, <1>7 DEF OpenStep
<1>20. promised' \in [Dirs -> 0..MaxLength]
  BY <1>1, <1>3 DEF Typed
<1>21. /\ cache'[d]["dir"] = cache[d]["dir"] /\ cache'[d]["marker"] = cache[d]["marker"]
       /\ disk'[d]["marker"] = disk[d]["marker"]
  BY <1>10, FileNames
<1>22. promised' = promised /\ bereft' = bereft /\ strayed' = strayed /\ finished' \subseteq finished /\ d \notin finished'
  BY <1>3
<1> QED  BY <1>2, <1>5, <1>7, <1>10, <1>12, <1>13, <1>14, <1>15, <1>16, <1>17, <1>18, <1>19, <1>20,
            <1>21, <1>22, OpenerStep

\* What a commit leaves in a directory whose keys are there: `promise' are the writes that
\* are promised after it.
LEMMA CommitDir ==
  ASSUME IInv, NEW d \in Dirs, NEW db, Committed(d, db), DbOk(db),
         HasDb(d), d \notin strayed => cache[d]["marker"] = Absent,
         d \notin strayed /\ WholeKeys(d) => db.keys \subseteq {KeysOf(d)},
         d \notin strayed => db.length >= promised'[d],
         d \notin strayed /\ d \notin bereft => WholeKeys(d), bereft' = bereft, strayed' = strayed,
         \A f \in KeyFiles : ~Syncing(d, f)
  PROVE  /\ DirOk(d)' /\ OnlyIn(d)
         /\ \A f \in Files : cache'[d][f] \in disk'[d][f]
                               /\ \A content \in disk'[d][f] : ContentOk(f, content)
         /\ \A f \in Files : f # "db" => cache'[d][f] = cache[d][f]
         /\ cache'[d]["db"] = Database(db) /\ disk'[d]["db"] = {Database(db)}
         /\ disk'[d]["token"] = disk[d]["token"] /\ disk'[d]["dir"] = disk[d]["dir"]
         /\ Absent \notin disk[d]["marker"] => Absent \notin disk'[d]["marker"]
<1> DEFINE new == Database(db)
<1>1. FilesOk /\ Gone(d) /\ (d \notin strayed => KeysLast(d))
  BY DEF IInv, Typed, DirOk
<1>2. new.kind = "db" /\ new.db = db /\ new # Absent /\ LengthOf(new) = db.length
  BY DEF Database, Absent, LengthOf
<1>3. /\ OnlyIn(d)
      /\ \A g \in Files : cache'[d][g] = IF g = "db" THEN new ELSE cache[d][g]
      /\ disk'[d]["db"] = {new}
      /\ \A g \in Files \ {"db"} :
           disk'[d][g] = IF g \notin Entries THEN disk[d][g]
                         ELSE IF Exists(d, g) THEN disk[d][g] \ {Absent} ELSE {Absent}
  BY <1>1, CommittedEffect
<1> HIDE DEF new
<1>4. ASSUME NEW f \in Files
      PROVE  cache'[d][f] \in disk'[d][f] /\ \A content \in disk'[d][f] : ContentOk(f, content)
  <2>1. CASE f = "db"
    BY <1>2, <1>3, <2>1 DEF ContentOk
  <2>2. CASE f # "db"
    <3>1. cache[d][f] \in disk[d][f] /\ \A content \in disk[d][f] : ContentOk(f, content)
      BY <1>1 DEF FilesOk
    <3>2. cache'[d][f] = cache[d][f]
      BY <1>3, <2>2
    <3>3. CASE f \notin Entries
      BY <1>3, <2>2, <3>1, <3>2, <3>3
    <3>4. CASE f \in Entries /\ Exists(d, f)
      BY <1>3, <2>2, <3>1, <3>2, <3>4 DEF Exists
    <3>5. CASE f \in Entries /\ ~Exists(d, f)
      <4>1. disk'[d][f] = {Absent} /\ cache'[d][f] = Absent /\ cache[d][f] = Absent
        BY <1>3, <2>2, <3>2, <3>5 DEF Exists
      <4> QED  BY <3>1, <4>1
    <3> QED  BY <3>3, <3>4, <3>5
  <2> QED  BY <2>1, <2>2
<1>5. ASSUME NEW f \in KeyFiles
      PROVE  /\ cache'[d][f] = cache[d][f] /\ f \in Files /\ f # "db" /\ f \in Entries
             /\ \A content \in disk'[d][f] : content = Absent \/ content \in disk[d][f]
             /\ Exists(d, f) => disk'[d][f] = disk[d][f] \ {Absent}
  <2>1. f \in Files \ {"db"} /\ f \in Entries /\ f # "db"
    BY FileNames
  <2>2. cache'[d][f] = cache[d][f]
    BY <1>3, <2>1
  <2>3. disk'[d][f] = IF Exists(d, f) THEN disk[d][f] \ {Absent} ELSE {Absent}
    BY <1>3, <2>1
  <2> QED  BY <2>1, <2>2, <2>3
<1>6. WholeKeys(d)' = WholeKeys(d) /\ KeysOf(d)' = KeysOf(d)
  BY <1>5, FileNames DEF WholeKeys, KeysOf
<1>7. ASSUME NEW f \in KeyFiles, d \notin strayed, d \notin bereft PROVE Settled(d, f)'
  <2>1. IsKey(d, f) /\ cache[d][f] # Absent /\ Steady(d, f)
    BY <1>1, <1>7 DEF WholeKeys, IsKey, KeysLast, Absent
  <2>2. disk'[d][f] = disk[d][f] \ {Absent} /\ cache[d][f] \in disk[d][f]
    BY <1>1, <1>5, <2>1 DEF Exists, FilesOk
  <2> QED  BY <1>5, <2>1, <2>2 DEF Settled, Steady
<1>8. Gone(d)'
  <2>1. cache'[d]["db"] # Absent
    BY <1>2, <1>3, FileNames
  <2>2. cache[d]["dir"] # Absent
    <3>1. cache[d]["db"] \in disk[d]["db"] /\ cache[d]["db"] # Absent
      BY <1>1, FileNames DEF FilesOk, HasDb, Absent
    <3> QED  BY <1>1, <3>1, FileNames DEF Gone, Exists
  <2>3. cache'[d]["dir"] # Absent
    BY <1>3, <2>2, FileNames
  <2> QED  BY <2>1, <2>3 DEF Gone, Exists
<1>9. ASSUME d \notin strayed PROVE KeysLast(d)'
  <2> SUFFICES ASSUME NEW f \in KeyFiles
               PROVE  /\ \A content \in disk'[d][f] : content.kind = "key" => content = cache'[d][f]
                      /\ d \notin bereft => Steady(d, f)'
    BY DEF KeysLast
  <2>1. \A content \in disk'[d][f] : content.kind = "key" => content = cache'[d][f]
    BY <1>1, <1>5, <1>9 DEF KeysLast, Absent
  <2>2. d \notin bereft => Steady(d, f)'
    BY <1>7, <1>9 DEF Settled, Steady
  <2> QED  BY <2>1, <2>2
<1>10. d \notin strayed => KeysOutlive(d)'
  BY <1>6, <1>7 DEF KeysOutlive
<1>11. d \notin strayed => OneDevice(d)'
  BY <1>2, <1>3, <1>6 DEF OneDevice
<1>12. d \notin strayed => PromiseKept(d)'
  BY <1>2, <1>3 DEF PromiseKept
<1>13. Absent \notin disk[d]["marker"] => Absent \notin disk'[d]["marker"]
  <2> SUFFICES ASSUME Absent \notin disk[d]["marker"] PROVE Absent \notin disk'[d]["marker"]
    OBVIOUS
  <2>1. cache[d]["marker"] \in disk[d]["marker"]
    BY <1>1, FileNames DEF FilesOk
  <2>2. Exists(d, "marker")
    BY <2>1 DEF Exists
  <2>3. disk'[d]["marker"] = disk[d]["marker"] \ {Absent}
    BY <1>3, <2>2, FileNames
  <2> QED  BY <2>3
<1>14. disk'[d]["token"] = disk[d]["token"] /\ disk'[d]["dir"] = disk[d]["dir"]
  BY <1>3, FileNames
<1> QED  BY <1>3, <1>4, <1>8, <1>9, <1>10, <1>11, <1>12, <1>13, <1>14, FileNames DEF DirOk, new

\* A commit of a process that uses the database.
LEMMA CommitStep ==
  ASSUME IInv, NEW p \in Procs, Using(p), NEW d \in Dirs, d = Dir(p), NEW db, DbOk(db), Committed(d, db),
         HasDb(d), db.length >= DbOf(d).length,
         d \notin strayed => db.keys \subseteq DbOf(d).keys \cup {KeysOf(d)},
         \/ db.tokens \subseteq DbOf(d).tokens
         \/ proc[p].cmd = "register" /\ proc'[p].cmd = "none" /\ db.tokens = {proc[p].secret},
         proc' \in [Procs -> {proc'[q] : q \in Procs}],
         \A q \in Procs : q # p => proc'[q] = proc[q],
         \A q \in Procs : ProcOk(q)',
         \/ proc'[p].cmd = "none"
         \/ /\ proc'[p].cmd = proc[p].cmd /\ proc'[p].dir = proc[p].dir /\ proc'[p].src = proc[p].src
            /\ proc'[p].secret = proc[p].secret
            /\ proc'[p].step \in {proc[p].step, proc[p].step + 1}
            /\ d \notin strayed /\ proc'[p].step > OpenStep(p) + 2 => Complete(db),
         promised' \in [Dirs -> 0..MaxLength], \A e \in Dirs : e # d => promised'[e] = promised[e],
         d \notin strayed => db.length >= promised'[d],
         finished' = finished, bereft' = bereft, strayed' = strayed
  PROVE  IInv'
<1>1. /\ Typed /\ FilesOk /\ TokensOk /\ ProcOk(p) /\ Stage(p) /\ Opens(p) /\ proc[p].step \in Nat
      /\ proc[p].step > OpenStep(p) /\ LeftAlone
  BY DEF IInv, Typed, ProcOk, Using
<1>2. (d \in strayed \/ WholeKeys(d)) /\ Locks(p) /\ \A f \in KeyFiles : ~Syncing(d, f)
  <2>1. proc[p].step >= OpenStep(p)
    BY <1>1 DEF OpenStep
  <2> QED  BY <1>1, <2>1, KeysFirst
<1>4. d \notin strayed => cache[d]["marker"] = Absent /\ OneDevice(d)
  BY <1>2, Ready
<1>5. cache[d]["db"] \in disk[d]["db"] /\ cache[d]["db"].kind = "db"
  BY <1>1, FileNames DEF FilesOk, HasDb
<1>6. d \notin strayed => db.keys \subseteq {KeysOf(d)}
  BY <1>2, <1>4, <1>5 DEF OneDevice, DbOf
<1>7. /\ DirOk(d)' /\ OnlyIn(d)
      /\ \A f \in Files : cache'[d][f] \in disk'[d][f]
                               /\ \A content \in disk'[d][f] : ContentOk(f, content)
      /\ \A f \in Files : f # "db" => cache'[d][f] = cache[d][f]
      /\ cache'[d]["db"] = Database(db) /\ disk'[d]["db"] = {Database(db)}
      /\ disk'[d]["token"] = disk[d]["token"]
      /\ Absent \notin disk[d]["marker"] => Absent \notin disk'[d]["marker"]
  BY <1>2, <1>4, <1>6, CommitDir
<1>8. /\ Database(db).kind = "db" /\ Database(db).db = db /\ LengthOf(Database(db)) = db.length
      /\ LengthOf(cache[d]["db"]) = DbOf(d).length
  BY <1>5 DEF Database, LengthOf, DbOf
<1>9. LengthOf(cache'[d]["db"]) >= LengthOf(cache[d]["db"])
  BY <1>7, <1>8
<1>10. (d \in strayed' \/ WholeKeys(d)') /\ KeysOf(d)' = KeysOf(d) /\ HasDb(d)' /\ DbOf(d)' = db
  BY <1>2, <1>7, <1>8, FileNames DEF WholeKeys, KeysOf, HasDb, DbOf
<1>11. cache'[d]["dir"] = cache[d]["dir"] /\ cache'[d]["marker"] = cache[d]["marker"]
  BY <1>7, FileNames
<1>12. \A e \in Dirs : disk'[e]["token"] = disk[e]["token"]
  BY <1>7 DEF OnlyIn
<1> DEFINE enrolls == proc[p].cmd = "register" /\ proc'[p].cmd = "none" /\ db.tokens = {proc[p].secret}
<1>13. db.tokens \subseteq DbOf(d).tokens => NoNewToken
  <2> SUFFICES ASSUME db.tokens \subseteq DbOf(d).tokens, NEW e \in Dirs, NEW content \in disk'[e]["db"],
                      content.kind = "db", NEW t \in content.db.tokens
               PROVE  \E h \in Dirs : \E old \in disk[h]["db"] : old.kind = "db" /\ t \in old.db.tokens
    BY DEF NoNewToken
  <2>1. CASE e = d
    <3>1. t \in cache[d]["db"].db.tokens
      BY <1>7, <1>8, <2>1 DEF DbOf
    <3> QED  BY <1>5, <3>1
  <2>2. CASE e # d
    <3>1. content \in disk[e]["db"]
      BY <1>7, <2>2 DEF OnlyIn
    <3> QED  BY <3>1
  <2> QED  BY <2>1, <2>2
<1>14. enrolls => proc[p].secret[1] = d /\ disk[d]["token"] = {Token(proc[p].secret)}
  <2> SUFFICES ASSUME enrolls PROVE proc[p].secret[1] = d /\ disk[d]["token"] = {Token(proc[p].secret)}
    OBVIOUS
  <2>1. proc[p].step > 11
    BY <1>1 DEF OpenStep
  <2> QED  BY <1>1, <2>1 DEF ProcOk, Stage, TokenStage
<1>15. NobodyElse(d) /\ TokensOk'
  <2>1. CASE db.tokens \subseteq DbOf(d).tokens
    BY <1>1, <1>12, <1>13, <2>1, NobodyKept, TokensKept DEF NobodyElse
  <2>2. CASE enrolls
    <3>1. ASSUME NEW e \in Dirs, NEW content \in disk'[e]["db"], content.kind = "db",
                 NEW t \in content.db.tokens
          PROVE  content \in disk[e]["db"] \/ (e = d /\ t = proc[p].secret)
      <4>1. CASE e = d
        BY <1>7, <1>8, <2>2, <3>1, <4>1
      <4>2. CASE e # d
        BY <1>7, <4>2 DEF OnlyIn
      <4> QED  BY <4>1, <4>2
    <3>2. TokensOk'
      <4> SUFFICES ASSUME NEW e \in Dirs, NEW content \in disk'[e]["db"], content.kind = "db",
                          NEW t \in content.db.tokens
                   PROVE  t[1] \in Dirs /\ disk'[t[1]]["token"] = {Token(t)}
        BY DEF TokensOk
      <4>1. CASE content \in disk[e]["db"]
        BY <1>1, <1>12, <4>1 DEF TokensOk
      <4>2. CASE content \notin disk[e]["db"]
        <5>1. t = proc[p].secret
          BY <3>1, <4>2
        <5> QED  BY <1>12, <1>14, <2>2, <5>1
      <4> QED  BY <4>1, <4>2
    <3>3. NobodyElse(d)
      <4> SUFFICES ASSUME NEW h \in Dirs, h # d, NobodyHas(h), NEW e \in Dirs, NEW content \in disk'[e]["db"],
                          content.kind = "db", NEW t \in content.db.tokens
                   PROVE  t[1] # h
        BY DEF NobodyElse, NobodyHas
      <4> QED  BY <1>14, <2>2, <3>1 DEF NobodyHas
    <3> QED  BY <3>2, <3>3
  <2> QED  BY <2>1, <2>2
<1>16. Stage(p)'
  <2>1. CASE proc'[p].cmd = "none"
    BY <2>1, FreshStage DEF Opens, Makes
  <2>2. CASE proc'[p].cmd # "none"
    <3>1. /\ proc'[p].cmd = proc[p].cmd /\ Dir(p)' = d /\ proc'[p].secret = proc[p].secret
          /\ proc'[p].step \in Nat /\ proc'[p].step >= proc[p].step
          /\ d \notin strayed /\ proc'[p].step > OpenStep(p) + 2 => Complete(db)
          /\ OpenStep(p)' = OpenStep(p)
      BY <1>1, <2>2 DEF Dir, OpenStep
    <3>2. proc[p].step > OpenStep(p) /\ proc'[p].step > OpenStep(p)
      BY <1>1, <3>1 DEF OpenStep
    <3>3. d \notin strayed => OpenStage(p)'
      BY <1>10, <3>1 DEF OpenStage
    <3>4. d \notin strayed /\ proc[p].cmd \in {"init", "register"} => KeysStage(p)'
      <4> SUFFICES ASSUME d \notin strayed, proc[p].cmd \in {"init", "register"} PROVE KeysStage(p)'
        OBVIOUS
      <4>1. proc'[p].step > 10
        BY <3>1, <3>2 DEF OpenStep
      <4> QED  BY <1>10, <3>1, <4>1, FileNames DEF KeysStage, WholeKeys, IsKey
    <3>5. proc[p].cmd = "register" => TokenStage(p)'
      <4> SUFFICES ASSUME proc[p].cmd = "register" PROVE TokenStage(p)'
        OBVIOUS
      <4>1. proc[p].step > 12 /\ proc'[p].step > 12
        BY <3>1, <3>2 DEF OpenStep
      <4>2. NobodyHas(d) /\ disk[d]["token"] = {Token(proc[p].secret)}
        BY <1>1, <4>1 DEF Stage, TokenStage
      <4>3. NobodyHas(d)' /\ disk'[d]["token"] = {Token(proc[p].secret)}
        BY <1>12, <1>13, <2>2, <4>2, NobodyKept
      <4> QED  BY <3>1, <4>1, <4>3 DEF TokenStage
    <3>6. d \notin strayed /\ proc[p].cmd = "serve" => ServeStage(p)'
      <4> SUFFICES ASSUME d \notin strayed, proc[p].cmd = "serve" PROVE ServeStage(p)'
        OBVIOUS
      <4>1. proc[p].step > 3
        BY <3>2, <1>1 DEF OpenStep
      <4>2. proc[p].secret = KeysOf(d)
        BY <1>1, <4>1 DEF Stage, ServeStage
      <4> QED  BY <1>10, <3>1, <4>2 DEF ServeStage
    <3> QED  BY <1>1, <3>1, <3>3, <3>4, <3>5, <3>6 DEF Stage, Opens, Makes
  <2> QED  BY <2>1, <2>2
<1>17. proc'[p].cmd # "none" => proc'[p].step > 2
  <2>1. proc[p].step > 2
    BY <1>1 DEF OpenStep
  <2> QED  BY <1>1, <2>1
<1>18. d \notin finished /\ finished' \subseteq finished
  BY <1>1 DEF LeftAlone
<1> QED  BY <1>2, <1>7, <1>9, <1>10, <1>11, <1>15, <1>16, <1>17, <1>18, OpenerStep

\* A process that uses the database goes on without a change.
LEMMA UserQuiet ==
  ASSUME IInv, NEW p \in Procs, Using(p), Proceed(p), NEW d \in Dirs, d = Dir(p),
         cache' = cache, disk' = disk, promised' = promised, finished' = finished, bereft' = bereft,
         strayed' = strayed,
         proc[p].step + 1 > OpenStep(p) + 2 => Complete(DbOf(d))
  PROVE  IInv'
<1>1. /\ Typed /\ Exclusive /\ ProcOk(p) /\ Stage(p) /\ Opens(p) /\ proc[p].step \in Nat /\ LeftAlone
      /\ proc[p].step > OpenStep(p) /\ Running(p)
  BY DEF IInv, Typed, ProcOk, Using, Running, Idle, Opens
<1>2. ~(proc[p].cmd \in {"init", "register"} /\ proc[p].step \in {6, 9})
  BY <1>1 DEF OpenStep
<1>3. CASE proc[p].step + 1 > Size(proc[p].cmd)
  <2>1. proc' = [proc EXCEPT ![p] = Idle]
    BY <1>3 DEF Proceed, Advanced, Size
  <2> QED  BY <1>1, <1>2, <2>1, EndQuiet DEF Typed
<1>4. CASE proc[p].step + 1 <= Size(proc[p].cmd)
  <2>1. /\ \A q \in Procs : q # p => proc'[q] = proc[q]
        /\ \A q \in Procs : ProcOk(q)'
        /\ proc'[p].cmd = proc[p].cmd /\ proc'[p].dir = proc[p].dir /\ proc'[p].src = proc[p].src
        /\ proc'[p].step = proc[p].step + 1 /\ proc'[p].secret = proc[p].secret /\ Dir(p)' = d
    BY <1>1, <1>4, Advance DEF Proceed, Dir
  <2>2. d \in strayed \/ WholeKeys(d)
    <3>1. proc[p].step >= OpenStep(p)
      BY <1>1 DEF OpenStep
    <3> QED  BY <1>1, <3>1, KeysFirst
  <2>3. WholeKeys(d)' = WholeKeys(d) /\ KeysOf(d)' = KeysOf(d) /\ HasDb(d)' = HasDb(d) /\ DbOf(d)' = DbOf(d)
        /\ NobodyHas(d)' = NobodyHas(d)
    BY DEF WholeKeys, KeysOf, HasDb, DbOf, NobodyHas
  <2>4. OpenStep(p)' = OpenStep(p) /\ proc'[p].step > OpenStep(p) /\ proc'[p].step > 2 /\ proc[p].step > 2
    BY <1>1, <2>1 DEF OpenStep
  <2>5. d \notin strayed => OpenStage(p)'
    BY <1>1, <2>1, <2>3, <2>4 DEF Stage, OpenStage
  <2>6. d \notin strayed /\ proc[p].cmd \in {"init", "register"} => KeysStage(p)'
    <3> SUFFICES ASSUME d \notin strayed, proc[p].cmd \in {"init", "register"} PROVE KeysStage(p)'
      OBVIOUS
    <3>1. proc'[p].step > 10
      BY <1>1, <2>1, <2>4 DEF OpenStep
    <3> QED  BY <2>1, <2>2, <2>3, <3>1, <1>1, FileNames DEF KeysStage, WholeKeys, IsKey
  <2>7. proc[p].cmd = "register" => TokenStage(p)'
    <3> SUFFICES ASSUME proc[p].cmd = "register" PROVE TokenStage(p)'
      OBVIOUS
    <3>1. proc[p].step > 12 /\ proc'[p].step > 12
      BY <1>1, <2>1, <2>4 DEF OpenStep
    <3>2. NobodyHas(d) /\ disk[d]["token"] = {Token(proc[p].secret)}
      BY <1>1, <3>1 DEF Stage, TokenStage
    <3> QED  BY <2>1, <2>3, <3>1, <3>2 DEF TokenStage
  <2>8. d \notin strayed /\ proc[p].cmd = "serve" => ServeStage(p)'
    <3> SUFFICES ASSUME d \notin strayed, proc[p].cmd = "serve" PROVE ServeStage(p)'
      OBVIOUS
    <3>1. proc[p].step > 3
      BY <1>1 DEF OpenStep
    <3>2. proc[p].secret = KeysOf(d)
      BY <1>1, <3>1 DEF Stage, ServeStage
    <3> QED  BY <2>1, <2>2, <2>3, <3>2 DEF ServeStage
  <2>9. Stage(p)'
    BY <1>1, <2>1, <2>5, <2>6, <2>7, <2>8 DEF Stage, Opens, Makes
  <2>10. Exclusive'
    BY <1>1, <2>1, <2>4, SameFiles, ExclusiveKept
  <2>11. Dir(p)' \notin finished
    BY <1>1, <2>1 DEF LeftAlone
  <2> QED  BY <1>1, <1>2, <2>9, <2>10, <2>11, MoveQuiet DEF Proceed
<1> QED
  <2>1. Size(proc[p].cmd) \in Nat
    BY <1>1, LengthOfProgram DEF Opens
  <2> QED  BY <1>1, <1>3, <1>4, <2>1

\* What a process that uses a database may rely on.
LEMMA UsersDatabase ==
  ASSUME IInv, NEW p \in Procs, Using(p), NEW d \in Dirs, d = Dir(p), HasDb(d)
  PROVE  /\ DbOk(DbOf(d)) /\ DbOf(d).length \in Nat /\ promised[d] \in Nat
         /\ d \notin strayed => DbOf(d).length >= promised[d]
<1>1. /\ Typed /\ FilesOk /\ ProcOk(p) /\ Stage(p) /\ proc[p].step \in Nat /\ Opens(p)
      /\ proc[p].step > OpenStep(p)
  BY DEF IInv, Typed, ProcOk, Using
<1>2. cache[d]["db"] \in disk[d]["db"]
  BY <1>1, FileNames DEF FilesOk
<1>3. DbOk(DbOf(d))
  <2>1. ContentOk("db", cache[d]["db"])
    BY <1>1, <1>2, FileNames DEF FilesOk
  <2> QED  BY <1>2, <2>1 DEF ContentOk, HasDb, DbOf
<1>4. DbOf(d).length \in Nat /\ promised[d] \in Nat
  BY <1>1, <1>3, BoundAssumption DEF DbOk, Typed
<1>5. d \notin strayed => PromiseKept(d)
  <2>1. proc[p].step >= OpenStep(p)
    BY <1>1 DEF OpenStep
  <2> QED  BY <1>1, <2>1, KeysFirst, Ready
<1>6. LengthOf(cache[d]["db"]) = DbOf(d).length
  BY DEF HasDb, LengthOf, DbOf
<1> QED  BY <1>2, <1>3, <1>4, <1>5, <1>6 DEF PromiseKept

LEMMA SetWalKeeps ==
  ASSUME IInv, NEW p \in Procs, SetWal(p)
  PROVE  IInv'
<1>1. Typed /\ FilesOk /\ ProcOk(p)
  BY DEF IInv, Typed
<1>2. PICK d \in Dirs : d = Dir(p) /\ proc[p].step \in Nat
  BY <1>1, ProcFields
<1> DEFINE new == [DbOf(d) EXCEPT !.wal = TRUE]
<1>3. /\ At(p, "wal") /\ Running(p) /\ Allowed(p) /\ Proceed(p)
      /\ IF DbOf(d).wal THEN cache' = cache /\ disk' = disk ELSE Committed(d, new)
      /\ finished' = finished /\ promised' = promised /\ bereft' = bereft /\ strayed' = strayed
  BY <1>2 DEF SetWal, At, history
<1>4. Opens(p) /\ proc[p].step = OpenStep(p) + 1
  BY <1>1, <1>3, Places
<1>5. Using(p) /\ ~(proc[p].step + 1 > OpenStep(p) + 2)
  BY <1>2, <1>4 DEF Using, OpenStep
<1>6. CASE DbOf(d).wal
  BY <1>2, <1>3, <1>5, <1>6, UserQuiet
<1>7. CASE ~DbOf(d).wal
  <2>1. HasDb(d) /\ cache[d]["db"] \in disk[d]["db"]
    BY <1>1, <1>2, <1>3, FileNames DEF Allowed, HasDb, FilesOk
  <2>2. DbOk(DbOf(d))
    <3>1. ContentOk("db", cache[d]["db"])
      BY <1>1, <2>1, FileNames DEF FilesOk
    <3> QED  BY <2>1, <3>1 DEF ContentOk, HasDb, DbOf
  <2>3. /\ DbOk(new) /\ new.length = DbOf(d).length /\ new.keys = DbOf(d).keys
        /\ new.tokens = DbOf(d).tokens
    BY <2>2, ModeOk
  <2>4. Committed(d, new)
    BY <1>3, <1>7
  <2> HIDE DEF new
  <2>5. proc[p].step + 1 <= Size(proc[p].cmd)
    BY <1>4, LengthOfProgram DEF Opens, OpenStep
  <2>6. /\ proc' \in [Procs -> {proc'[q] : q \in Procs}]
        /\ \A q \in Procs : q # p => proc'[q] = proc[q]
        /\ \A q \in Procs : ProcOk(q)'
        /\ proc'[p].cmd = proc[p].cmd /\ proc'[p].dir = proc[p].dir /\ proc'[p].src = proc[p].src
        /\ proc'[p].step = proc[p].step + 1 /\ proc'[p].secret = proc[p].secret
    BY <1>1, <1>3, <2>5, Advance DEF Proceed
  <2>7. /\ DbOf(d).length \in Nat /\ new.length >= DbOf(d).length
        /\ d \notin strayed => new.length >= promised'[d]
    BY <1>2, <1>3, <1>5, <2>1, <2>3, UsersDatabase
  <2>8. ~(proc'[p].step > OpenStep(p) + 2) /\ proc'[p].step \in {proc[p].step, proc[p].step + 1}
    BY <1>5, <2>6
  <2>9. promised' \in [Dirs -> 0..MaxLength]
    BY <1>1, <1>3 DEF Typed
  <2>10. new.keys \subseteq DbOf(d).keys \cup {KeysOf(d)}
         /\ new.tokens \subseteq DbOf(d).tokens
    BY <2>3
  <2> QED  BY <1>2, <1>3, <1>5, <2>1, <2>3, <2>4, <2>6, <2>7, <2>8, <2>9, <2>10, CommitStep
<1> QED  BY <1>6, <1>7

LEMMA MigrateKeeps ==
  ASSUME IInv, NEW p \in Procs, Migrate(p)
  PROVE  IInv'
<1>1. Typed /\ FilesOk /\ ProcOk(p) /\ \A q \in Procs : ProcOk(q)
  BY DEF IInv, Typed
<1>2. PICK d \in Dirs : d = Dir(p) /\ proc[p].step \in Nat
  BY <1>1, ProcFields
<1> DEFINE new == Migrated(DbOf(d))
<1>3. /\ At(p, "migrate") /\ Running(p) /\ Allowed(p)
      /\ IF Complete(DbOf(d)) THEN Proceed(p) /\ cache' = cache /\ disk' = disk
         ELSE Committed(d, new) /\ proc' = proc
      /\ finished' = finished /\ promised' = promised /\ bereft' = bereft /\ strayed' = strayed
  BY <1>2 DEF Migrate, At, history
<1>4. Opens(p) /\ proc[p].step = OpenStep(p) + 2
  BY <1>1, <1>3, Places
<1>5. Using(p)
  BY <1>2, <1>4 DEF Using, OpenStep
<1>6. CASE Complete(DbOf(d))
  BY <1>2, <1>3, <1>5, <1>6, UserQuiet
<1>7. CASE ~Complete(DbOf(d))
  <2>1. /\ HasDb(d) /\ DbOk(DbOf(d)) /\ DbOf(d).length \in Nat /\ promised[d] \in Nat
        /\ d \notin strayed => DbOf(d).length >= promised[d]
    <3>1. HasDb(d)
      BY <1>2, <1>3 DEF Allowed, HasDb
    <3> QED  BY <1>2, <1>5, <3>1, UsersDatabase
  <2>2. CanMigrate(DbOf(d))
    BY <1>2, <1>3, <1>7 DEF Allowed
  <2>3. /\ DbOk(new) /\ new.length = DbOf(d).length /\ new.keys = DbOf(d).keys
        /\ new.tokens = DbOf(d).tokens
    BY <2>1, <2>2, MigratedOk
  <2>4. Committed(d, new) /\ proc' = proc
    BY <1>3, <1>7
  <2> HIDE DEF new
  <2>5. /\ proc' \in [Procs -> {proc'[q] : q \in Procs}]
        /\ \A q \in Procs : q # p => proc'[q] = proc[q]
    BY <1>1, <2>4 DEF Typed
  <2>6. \A q \in Procs : ProcOk(q)'
    BY <1>1, <2>4 DEF ProcOk, Dir
  <2>7. /\ proc'[p].cmd = proc[p].cmd /\ proc'[p].dir = proc[p].dir /\ proc'[p].src = proc[p].src
        /\ proc'[p].step \in {proc[p].step, proc[p].step + 1} /\ proc'[p].secret = proc[p].secret
        /\ ~(proc'[p].step > OpenStep(p) + 2)
    <3>1. ~(proc[p].step > OpenStep(p) + 2)
      BY <1>2, <1>4 DEF OpenStep
    <3> QED  BY <2>4, <3>1
  <2>8. promised' \in [Dirs -> 0..MaxLength]
    BY <1>1, <1>3 DEF Typed
  <2>9. /\ d \notin strayed => new.length >= promised'[d]
        /\ new.keys \subseteq DbOf(d).keys \cup {KeysOf(d)}
        /\ new.tokens \subseteq DbOf(d).tokens /\ new.length >= DbOf(d).length
    BY <1>3, <2>1, <2>3
  <2> QED  BY <1>2, <1>3, <1>5, <2>1, <2>3, <2>4, <2>5, <2>6, <2>7, <2>8, <2>9, CommitStep
<1> QED  BY <1>6, <1>7

LEMMA EnrollKeeps ==
  ASSUME IInv, NEW p \in Procs, Enroll(p)
  PROVE  IInv'
<1>1. Typed /\ FilesOk /\ ProcOk(p)
  BY DEF IInv, Typed
<1>2. PICK d \in Dirs : d = Dir(p)
  BY <1>1, ProcFields
<1> DEFINE secret == proc[p].secret
           new == [DbOf(d) EXCEPT !.tokens = {secret}]
<1>3. /\ At(p, "enroll") /\ Running(p) /\ Allowed(p) /\ Proceed(p) /\ Committed(d, new)
      /\ finished' = finished /\ promised' = promised /\ bereft' = bereft /\ strayed' = strayed
  BY <1>2 DEF Enroll, At, history
<1>4. proc[p].cmd = "register" /\ proc[p].step = 15
  BY <1>1, <1>3, Places
<1>5. Using(p)
  BY <1>4 DEF Using, Opens, OpenStep
<1>6. /\ HasDb(d) /\ DbOk(DbOf(d)) /\ DbOf(d).length \in Nat /\ promised[d] \in Nat
      /\ d \notin strayed => DbOf(d).length >= promised[d]
  <2>1. HasDb(d)
    BY <1>2, <1>3 DEF Allowed, HasDb
  <2> QED  BY <1>2, <1>5, <2>1, UsersDatabase
<1>7. DbOk(new) /\ new.length = DbOf(d).length /\ new.keys = DbOf(d).keys /\ new.tokens = {secret}
  BY <1>6, EnrolledOk
<1> HIDE DEF new
<1>8. /\ proc' \in [Procs -> {proc'[q] : q \in Procs}]
      /\ \A q \in Procs : q # p => proc'[q] = proc[q]
      /\ \A q \in Procs : ProcOk(q)'
      /\ proc'[p] = Idle
  <2>1. Size(proc[p].cmd) = 15
    BY <1>4, LengthOfProgram
  <2>2. proc[p].step + 1 > Size(proc[p].cmd)
    BY <1>4, <2>1
  <2>3. proc' = [proc EXCEPT ![p] = Idle]
    BY <1>3, <2>2 DEF Proceed, Advanced, Size
  <2> QED  BY <1>1, <2>3, Ended
<1>9. proc'[p].cmd = "none"
  BY <1>8 DEF Idle
<1>10. promised' \in [Dirs -> 0..MaxLength]
  BY <1>1, <1>3 DEF Typed
<1>11. /\ d \notin strayed => new.length >= promised'[d]
       /\ new.keys \subseteq DbOf(d).keys \cup {KeysOf(d)}
       /\ new.length >= DbOf(d).length
  BY <1>3, <1>6, <1>7
<1> QED  BY <1>2, <1>3, <1>4, <1>5, <1>6, <1>7, <1>8, <1>9, <1>10, <1>11, CommitStep

LEMMA ServeKeeps ==
  ASSUME IInv, NEW p \in Procs, Serve(p)
  PROVE  IInv'
<1>1. Typed /\ FilesOk /\ ProcOk(p) /\ Stage(p) /\ \A q \in Procs : ProcOk(q)
  BY DEF IInv, Typed
<1>2. PICK d \in Dirs : d = Dir(p)
  BY <1>1, ProcFields
<1> DEFINE secret == proc[p].secret
           new == [DbOf(d) EXCEPT !.length = @ + 1, !.keys = @ \cup {secret}]
<1>3. /\ At(p, "serve") /\ Running(p) /\ HasDb(d)
      /\ DbOf(d).length < MaxLength /\ promised[d] < MaxLength /\ Committed(d, new)
      /\ promised' = [promised EXCEPT ![d] = @ + 1] /\ proc' = proc
      /\ finished' = finished /\ bereft' = bereft /\ strayed' = strayed
  BY <1>2 DEF Serve, At, HasDb
<1>4. proc[p].cmd = "serve" /\ proc[p].step = 7
  BY <1>1, <1>3, Places
<1>5. Using(p)
  BY <1>4 DEF Using, Opens, OpenStep
<1>6. /\ DbOk(DbOf(d)) /\ DbOf(d).length \in Nat /\ promised[d] \in Nat
      /\ d \notin strayed => DbOf(d).length >= promised[d]
  BY <1>2, <1>3, <1>5, UsersDatabase
<1>7. /\ DbOk(new) /\ new.length = DbOf(d).length + 1 /\ new.keys = DbOf(d).keys \cup {secret}
      /\ new.tokens = DbOf(d).tokens
      /\ new.schema = DbOf(d).schema /\ new.checksums = DbOf(d).checksums
  BY <1>3, <1>6, WrittenOk
<1> HIDE DEF new
<1>8. d \notin strayed => secret = KeysOf(d) /\ Complete(DbOf(d))
  BY <1>1, <1>2, <1>4 DEF Stage, ServeStage, OpenStage, OpenStep, Opens
<1>9. Complete(DbOf(d)) => Complete(new)
  BY <1>7 DEF Complete, PrefixVerified
<1>10. /\ proc' \in [Procs -> {proc'[q] : q \in Procs}]
       /\ \A q \in Procs : q # p => proc'[q] = proc[q]
  BY <1>1, <1>3 DEF Typed
<1>11. \A q \in Procs : ProcOk(q)'
  BY <1>1, <1>3 DEF ProcOk, Dir
<1>12. /\ proc'[p].cmd = proc[p].cmd /\ proc'[p].dir = proc[p].dir /\ proc'[p].src = proc[p].src
       /\ proc'[p].step \in {proc[p].step, proc[p].step + 1} /\ proc'[p].secret = proc[p].secret
  BY <1>3
<1>13. /\ promised' \in [Dirs -> 0..MaxLength] /\ promised'[d] = promised[d] + 1
       /\ \A e \in Dirs : e # d => promised'[e] = promised[e]
  <2>1. promised[d] + 1 \in 0..MaxLength
    BY <1>3, <1>6, BoundAssumption
  <2>2. promised \in [Dirs -> 0..MaxLength]
    BY <1>1 DEF Typed
  <2> QED  BY <1>3, <2>1, <2>2
<1>14. /\ d \notin strayed => new.length >= promised'[d] /\ new.keys \subseteq DbOf(d).keys \cup {KeysOf(d)}
       /\ new.length >= DbOf(d).length
  BY <1>6, <1>7, <1>8, <1>13
<1>15. d \notin strayed => Complete(new) /\ new.length >= promised'[d]
                           /\ new.keys \subseteq DbOf(d).keys \cup {KeysOf(d)}
  BY <1>8, <1>9, <1>14
<1>16. DbOk(new) /\ new.length >= DbOf(d).length /\ new.tokens \subseteq DbOf(d).tokens
  BY <1>7, <1>14
<1> QED  BY <1>2, <1>3, <1>5, <1>10, <1>11, <1>12, <1>13, <1>15, <1>16, CommitStep

-----------------------------------------------------------------------------
(* Backup and restore                                                      *)

\* What a maker goes on to.
LEMMA MakerMoves ==
  ASSUME IInv, NEW p \in Procs, Makes(p), proc[p].step <= Last(p), Proceed(p)
  PROVE  /\ proc' \in [Procs -> {proc'[q] : q \in Procs}]
         /\ \A q \in Procs : q # p => proc'[q] = proc[q]
         /\ \A q \in Procs : ProcOk(q)'
         /\ proc'[p].cmd = proc[p].cmd /\ proc'[p].dir = proc[p].dir /\ proc'[p].src = proc[p].src
         /\ proc'[p].step = proc[p].step + 1 /\ Dir(p)' = Dir(p) /\ Src(p)' = Src(p)
         /\ proc[p].step \in Nat /\ Last(p)' = Last(p) /\ Last(p) \in {10, 12}
<1>1. Typed /\ ProcOk(p) /\ proc[p].step \in Nat /\ Running(p)
  BY DEF IInv, Typed, ProcOk, Makes, Running, Idle
<1>2. proc[p].step + 1 <= Size(proc[p].cmd)
  BY <1>1, LengthOfProgram DEF Makes, Last
<1> QED  BY <1>1, <1>2, Advance DEF Proceed, Dir, Src, Last

\* A maker stays alone in its directory.
LEMMA MakerExclusive ==
  ASSUME IInv, NEW p \in Procs, Making(p), Proceed(p), NEW d \in Dirs, d = Dir(p), OnlyIn(d),
         strayed' = strayed,
         cache'[d]["dir"] = cache[d]["dir"],
         proc[p].step >= 3 /\ proc[p].step < Last(p) => cache'[d]["marker"] # Absent,
         proc[p].step >= 4 /\ proc[p].step < Last(p) => Absent \notin disk'[d]["marker"]
  PROVE  Exclusive'
<1>1. Typed /\ Exclusive /\ Makes(p) /\ Made(p) /\ proc[p].step <= Last(p) /\ proc[p].step > 2
  BY DEF IInv, Making, Made
<1>2. /\ \A q \in Procs : q # p => proc'[q] = proc[q]
      /\ proc'[p].cmd = proc[p].cmd /\ proc'[p].dir = d /\ proc'[p].src = Src(p)
      /\ proc'[p].step = proc[p].step + 1 /\ Src(p)' = Src(p)
      /\ proc[p].step \in Nat /\ Last(p)' = Last(p) /\ Last(p) \in {10, 12}
  BY <1>1, MakerMoves DEF Dir, Src
<1>3. PICK s \in Dirs : s = Src(p)
  BY <1>1, ProcFields DEF Typed
<1>4. /\ ~Locks(p)' /\ ~Claims(p)' /\ Reads(p) /\ proc[p].cmd # "none"
      /\ Making(p)' => proc[p].step < Last(p)
  BY <1>1, <1>2 DEF Locks, Claims, Opens, Makes, Reads, Making, Made
<1>5. \A q \in Procs : q # p =>
        /\ Made(q) => Dir(q) # d
        /\ Claims(q) /\ Dir(q) = d => d \in strayed
        /\ Reads(q) /\ Src(q) = d => d \in strayed
        /\ Making(q) /\ Dir(q) = s => s \in strayed
        /\ proc[p].cmd = "backup" /\ proc[q].cmd # "none" => Dir(q) # d
        /\ proc[q].cmd = "backup" => Dir(q) # d
  BY <1>1, <1>3, <1>4 DEF Exclusive
<1>6. /\ (d # s \/ d \in strayed) /\ (WholeKeys(s) \/ s \in strayed) /\ cache[d]["dir"] # Absent
      /\ proc[p].cmd = "backup" => d \notin strayed
  BY <1>1, <1>3, <1>4 DEF Exclusive, Exists
<1>7. \A e \in Dirs : e # d => cache'[e] = cache[e] /\ disk'[e] = disk[e]
  BY DEF OnlyIn
<1>8. \A e \in Dirs : cache[e]["dir"] # Absent => cache'[e]["dir"] # Absent
  BY <1>7
<1>9. \A e \in Dirs : WholeKeys(e) => WholeKeys(e)' \/ e \in strayed' \/ \A q \in Procs : q # p /\ Reads(q) => Src(q) # e
  BY <1>5, <1>7 DEF WholeKeys
<1>10. ASSUME NEW q \in Procs, q # p
       PROVE  /\ Claims(q) => cache'[Dir(q)]["marker"] = Absent \/ Dir(q) \in strayed'
              /\ Made(q) /\ proc[q].cmd = "backup" => Dir(q) \notin strayed'
              /\ Making(q) /\ proc[q].step > 3 => cache'[Dir(q)]["marker"] # Absent
              /\ Making(q) /\ proc[q].step > 4 => Absent \notin disk'[Dir(q)]["marker"]
  <2>1. PICK e \in Dirs : e = Dir(q)
    BY <1>1, ProcFields DEF Typed
  <2>2. (Made(q) => e # d) /\ (Making(q) => Made(q)) /\ (Claims(q) /\ e = d => d \in strayed)
    BY <1>5, <1>10, <2>1 DEF Making
  <2> QED  BY <1>1, <1>7, <2>1, <2>2 DEF Exclusive, Exists
<1>11. WholeKeys(Src(p))' \/ s \in strayed'
  BY <1>2, <1>3, <1>6, <1>7 DEF WholeKeys
<1>12. Making(p)' => cache'[d]["marker"] # Absent /\ (proc'[p].step > 4 => Absent \notin disk'[d]["marker"])
  BY <1>1, <1>2, <1>4
<1> QED  BY <1>1, <1>2, <1>3, <1>4, <1>5, <1>6, <1>8, <1>9, <1>10, <1>11, <1>12, ExclusiveMoved

LEMMA MakeDirKeeps ==
  ASSUME IInv, NEW p \in Procs, MakeDir(p)
  PROVE  IInv'
<1>1. /\ Typed /\ FilesOk /\ Exclusive /\ ProcOk(p) /\ TokensOk /\ FinishedBackupSurvives /\ LeftAlone
      /\ finished \subseteq Dirs
  BY DEF IInv, Typed
<1>2. PICK d \in Dirs, s \in Dirs : d = Dir(p) /\ s = Src(p) /\ proc[p].step \in Nat
  BY <1>1, ProcFields
<1>3. /\ At(p, "mkdir") /\ Allowed(p) /\ Proceed(p) /\ Written(d, "dir", Plain)
      /\ finished' = finished /\ promised' = promised /\ bereft' = bereft /\ strayed' = strayed
  BY <1>2 DEF MakeDir, history
<1>4. Makes(p) /\ proc[p].step = 2
  BY <1>1, <1>3, Places
<1>5. cache[d]["dir"] = Absent
  BY <1>2, <1>3 DEF Allowed, Exists
<1>6. \A f \in Entries : disk[d][f] = {Absent} /\ cache[d][f] = Absent
  <2>1. \A f \in Entries : disk[d][f] = {Absent}
    BY <1>5 DEF IInv, DirOk, Gone, Exists
  <2>2. \A f \in Entries : cache[d][f] \in disk[d][f]
    BY <1>1, FileNames DEF FilesOk
  <2> QED  BY <2>1, <2>2
<1>7. ~WholeKeys(d) /\ d \notin finished /\ d \notin strayed
  <2>1. ~WholeKeys(d)
    BY <1>6, FileNames DEF WholeKeys, Absent
  <2>2. d \notin strayed
    BY <1>5 DEF IInv, Strays, Exists
  <2> QED  BY <1>1, <2>1, <2>2 DEF FinishedBackupSurvives, Genuine
<1>8. /\ OnlyIn(d)
      /\ \A g \in Files : cache'[d][g] = IF g = "dir" THEN Plain ELSE cache[d][g]
      /\ \A g \in Files : disk'[d][g] = IF g = "dir" THEN disk[d]["dir"] \cup {Plain} ELSE disk[d][g]
  BY <1>1, <1>3, WrittenEffect, FileNames DEF Changed
<1>9. /\ proc' \in [Procs -> {proc'[q] : q \in Procs}]
      /\ \A q \in Procs : q # p => proc'[q] = proc[q]
      /\ \A q \in Procs : ProcOk(q)'
      /\ proc'[p].cmd = proc[p].cmd /\ proc'[p].dir = d /\ proc'[p].src = s
      /\ proc'[p].step = 3 /\ Dir(p)' = d /\ Src(p)' = s
  <2>1. proc[p].step <= Last(p)
    BY <1>4 DEF Last
  <2> QED  BY <1>2, <1>3, <1>4, <2>1, MakerMoves DEF Dir, Src
<1>10. ASSUME NEW q \in Procs
       PROVE  (Claims(q) \/ Made(q) => Dir(q) # d) /\ (Reads(q) => Src(q) # d)
  BY <1>1, <1>5, <1>7 DEF Exclusive, Exists
<1>11. /\ ~Locks(p)' /\ ~Claims(p)' /\ Reads(p) /\ Making(p)' /\ Made(p)' /\ proc[p].cmd # "none"
       /\ ~Using(p)' /\ proc'[p].step \notin {Last(p)', 4} /\ ~(proc'[p].step > 3) /\ Makes(p)'
  BY <1>4, <1>9 DEF Locks, Claims, Opens, Makes, Reads, Making, Made, Using, Last
<1>12. \A e \in Dirs, f \in Entries : cache'[e][f] = cache[e][f] /\ disk'[e][f] = disk[e][f]
  BY <1>8, FileNames DEF OnlyIn
<1>13. \A e \in Dirs : disk'[e]["token"] = disk[e]["token"]
  BY <1>8, FileNames DEF OnlyIn
<1>14. cache'[d]["dir"] # Absent
  BY <1>8, FileNames DEF Plain, Absent
<1>15. Exclusive'
  <2>1. \A q \in Procs : q # p =>
          /\ Making(q) => Dir(q) # d
          /\ Making(q) /\ Dir(q) = s => s \in strayed
          /\ proc[p].cmd = "backup" /\ proc[q].cmd # "none" => Dir(q) # d
          /\ proc[q].cmd = "backup" => Dir(q) # d
    BY <1>1, <1>2, <1>10, <1>11 DEF Exclusive, Making
  <2>2. d # s /\ (WholeKeys(s) \/ s \in strayed)
    BY <1>1, <1>2, <1>7, <1>11 DEF Exclusive
  <2>3. \A e \in Dirs : WholeKeys(e) => WholeKeys(e)'
    BY <1>12, FileNames DEF WholeKeys
  <2>4. \A e \in Dirs : cache[e]["dir"] # Absent => cache'[e]["dir"] # Absent
    BY <1>8, <1>14 DEF OnlyIn
  <2>5. ASSUME NEW q \in Procs
        PROVE  /\ Claims(q) => cache'[Dir(q)]["marker"] = Absent \/ Dir(q) \in strayed'
               /\ Made(q) /\ proc[q].cmd = "backup" => Dir(q) \notin strayed'
               /\ Making(q) /\ proc[q].step > 3 => cache'[Dir(q)]["marker"] # Absent
               /\ Making(q) /\ proc[q].step > 4 => Absent \notin disk'[Dir(q)]["marker"]
    <3>1. Dir(q) \in Dirs
      BY <1>1, ProcFields DEF Typed
    <3>2. cache'[Dir(q)]["marker"] = cache[Dir(q)]["marker"] /\ disk'[Dir(q)]["marker"] = disk[Dir(q)]["marker"]
      BY <1>12, <3>1, FileNames
    <3> QED  BY <1>1, <1>3, <3>2 DEF Exclusive, Exists
  <2>6. WholeKeys(Src(p))' \/ s \in strayed'
    BY <1>3, <1>9, <2>2, <2>3 DEF WholeKeys
  <2>7. ~(proc'[p].step > 4)
    BY <1>9
  <2> QED  BY <1>1, <1>3, <1>7, <1>9, <1>10, <1>11, <1>14, <2>1, <2>2, <2>3, <2>4, <2>5, <2>6, <2>7, ExclusiveMoved
<1>16. Stage(p)'
  <2>1. \A f \in Entries : disk'[d][f] = {Absent}
    BY <1>6, <1>12
  <2>2. MakeStage(p)'
    BY <1>9, <1>11, <2>1, FileNames DEF MakeStage, Steady
  <2>3. (proc'[p].cmd = "backup" => BackupStage(p)') /\ (proc'[p].cmd = "restore" => RestoreStage(p)')
    BY <1>9 DEF BackupStage, RestoreStage
  <2> QED  BY <1>11, <2>2, <2>3 DEF Stage, Opens, Makes
<1>17. DirOk(d)'
  <2>1. ASSUME NEW f \in KeyFiles, Syncing(d, f) PROVE Syncing(d, f)'
    BY <1>4, <1>9, <2>1, SyncingKept DEF Makes
  <2>2. DirOk(d)
    BY DEF IInv
  <2>3. disk'[d]["marker"] = disk[d]["marker"]
    BY <1>12, FileNames
  <2> QED  BY <1>3, <1>12, <1>14, <2>1, <2>2, <2>3, DirKept
<1>18. NoNewToken
  BY <1>12, SameTokens, FileNames
<1>19. TokensOk'
  BY <1>1, <1>13, <1>18, TokensKept
<1>20. FinishedBackupSurvives'
  <2>1. \A e \in finished' : \A f \in Entries \cup {"dir"} :
           cache'[e][f] = cache[e][f] /\ disk'[e][f] = disk[e][f]
    BY <1>1, <1>3, <1>7, <1>8 DEF OnlyIn
  <2> QED  BY <1>1, <1>3, <2>1, FinishedKept
<1>21. LeftAlone'
  BY <1>1, <1>3, <1>7, <1>9, LeftAloneKept
<1>22. ASSUME NEW q \in Procs, q # p
       PROVE  /\ Dir(q) = d => Early(q)
              /\ Reads(q) /\ Src(q) = d => d \in strayed \/ LengthOf(cache'[d]["db"]) >= LengthOf(cache[d]["db"])
              /\ proc[q].cmd = "register" /\ proc[q].step > 10 => NobodyHas(Dir(q))'
  <2>1. proc[q].step \in Nat
    BY <1>1, ProcFields DEF Typed
  <2>2. Dir(q) = d => Early(q)
    BY <1>10, <2>1 DEF Early, Claims, Made
  <2>3. proc[q].cmd = "register" /\ proc[q].step > 10 => NobodyHas(Dir(q))'
    <3> SUFFICES ASSUME proc[q].cmd = "register", proc[q].step > 10 PROVE NobodyHas(Dir(q))'
      OBVIOUS
    <3>1. PICK e \in Dirs : e = Dir(q)
      BY <1>1, ProcFields DEF Typed
    <3>2. NobodyHas(e)
      BY <3>1 DEF IInv, Stage, TokenStage
    <3>3. NobodyHas(e)'
      BY <1>18, <3>2, NobodyKept
    <3>4. Dir(q)' = e
      BY <1>9, <1>22, <3>1 DEF Dir
    <3> QED  BY <3>3, <3>4
  <2> QED  BY <1>10, <2>2, <2>3
<1>23. ASSUME NEW f \in Files
       PROVE  cache'[d][f] \in disk'[d][f] /\ \A content \in disk'[d][f] : ContentOk(f, content)
  <2>1. CASE f = "dir"
    <3>1. \A content \in disk[d]["dir"] : content \in {Absent, Plain}
      BY <1>1, FileNames DEF FilesOk, ContentOk
    <3> QED  BY <1>8, <2>1, <3>1, FileNames DEF ContentOk
  <2>2. CASE f # "dir"
    BY <1>1, <1>8, <2>2 DEF FilesOk
  <2> QED  BY <2>1, <2>2
<1>24. promised' \in [Dirs -> 0..MaxLength] /\ finished' \subseteq Dirs
  BY <1>1, <1>3 DEF Typed
<1>25. Exists(d, "dir")' /\ \A e \in finished' : e \in finished \/ e \notin strayed
  BY <1>3, <1>14 DEF Exists
<1> QED  BY <1>2, <1>3, <1>8, <1>9, <1>15, <1>16, <1>17, <1>19, <1>20, <1>21, <1>22, <1>23, <1>24, <1>25, StepIn

LEMMA MarkKeeps ==
  ASSUME IInv, NEW p \in Procs, Mark(p)
  PROVE  IInv'
<1>1. Typed /\ FilesOk /\ Exclusive /\ ProcOk(p) /\ Stage(p)
  BY DEF IInv, Typed
<1>2. PICK d \in Dirs : d = Dir(p) /\ proc[p].step \in Nat
  BY <1>1, ProcFields
<1>3. /\ At(p, "mark") /\ Proceed(p) /\ Synced(d, "marker", Plain)
      /\ finished' = finished /\ promised' = promised /\ bereft' = bereft /\ strayed' = strayed
  BY <1>2 DEF Mark, history
<1>4. Makes(p) /\ proc[p].step = 3
  BY <1>1, <1>3, Places
<1>5. proc[p].step < Last(p) /\ proc[p].step <= Last(p) /\ Making(p) /\ Made(p)
  BY <1>4 DEF Last, Making, Made
<1>6. /\ proc' \in [Procs -> {proc'[q] : q \in Procs}]
      /\ \A q \in Procs : q # p => proc'[q] = proc[q]
      /\ \A q \in Procs : ProcOk(q)'
      /\ proc'[p].cmd = proc[p].cmd /\ proc'[p].dir = d /\ proc'[p].step = 4 /\ Dir(p)' = d
      /\ Last(p)' \in {10, 12}
  BY <1>2, <1>3, <1>4, <1>5, MakerMoves DEF Dir
<1>7. /\ OnlyIn(d)
      /\ \A g \in Files : cache'[d][g] = IF g = "marker" THEN Plain ELSE cache[d][g]
      /\ \A g \in Files :
           disk'[d][g] = IF g = "marker" THEN (disk[d]["marker"] \cap {Absent}) \cup {Plain} ELSE disk[d][g]
  BY <1>1, <1>3, SyncedEffect, FileNames DEF Changed
<1>8. cache'[d]["dir"] = cache[d]["dir"] /\ cache'[d]["marker"] # Absent
  BY <1>7, FileNames DEF Plain, Absent
<1>9. Exclusive'
  <2>1. ~(proc[p].step >= 4)
    BY <1>4
  <2> QED  BY <1>2, <1>3, <1>5, <1>7, <1>8, <2>1, MakerExclusive
<1>10. d \notin strayed => \A f \in Entries : disk[d][f] = {Absent}
  BY <1>1, <1>2, <1>4 DEF Stage, MakeStage
<1>11. \A f \in Entries \ {"marker"} :
         f \in Files /\ f # "marker" /\ cache'[d][f] = cache[d][f] /\ disk'[d][f] = disk[d][f]
  BY <1>7, FileNames
<1>12. Stage(p)'
  <2>1. CASE d \in strayed
    BY <1>3, <1>4, <1>6, <2>1, StrayStage DEF Makes
  <2>2. CASE d \notin strayed
    <3>1. MakeStage(p)'
      BY <1>6, <1>10, <1>11, <2>2, FileNames DEF MakeStage, Steady
    <3>2. (proc'[p].cmd = "backup" => BackupStage(p)') /\ (proc'[p].cmd = "restore" => RestoreStage(p)')
      BY <1>6 DEF BackupStage, RestoreStage
    <3> QED  BY <1>4, <1>6, <3>1, <3>2 DEF Stage, Opens, Makes
  <2> QED  BY <2>1, <2>2
<1>13. DirOk(d)'
  <2>1. DirOk(d) /\ cache[d]["dir"] # Absent /\ Exists(d, "dir")'
    BY <1>1, <1>2, <1>5, <1>8 DEF IInv, Exclusive, Exists
  <2>2. CASE d \in strayed
    BY <1>3, <1>11, <2>1, <2>2, FileNames, StrayDir
  <2>3. CASE d \notin strayed
    <3>1. ASSUME NEW f \in KeyFiles, Syncing(d, f) PROVE Syncing(d, f)'
      BY <1>4, <1>6, <3>1, SyncingKept DEF Makes
    <3>2. Absent \in disk[d]["marker"]
      BY <1>10, <2>3, FileNames
    <3> QED  BY <1>3, <1>8, <1>11, <2>1, <3>1, <3>2, DirKept
  <2> QED  BY <2>2, <2>3
<1>14. NoNewToken
  <2>1. \A e \in Dirs : disk'[e]["db"] \subseteq disk[e]["db"]
    BY <1>7, FileNames DEF OnlyIn
  <2> QED  BY <2>1, SameTokens
<1>15. ASSUME NEW f \in Files
       PROVE  cache'[d][f] \in disk'[d][f] /\ \A content \in disk'[d][f] : ContentOk(f, content)
  <2>1. CASE f = "marker"
    BY <1>7, <2>1, FileNames DEF ContentOk
  <2>2. CASE f # "marker"
    BY <1>1, <1>7, <2>2 DEF FilesOk
  <2> QED  BY <2>1, <2>2
<1>16. promised' \in [Dirs -> 0..MaxLength] /\ cache'[d]["token"] = cache[d]["token"] /\ disk'[d]["token"] = disk[d]["token"]
  BY <1>1, <1>3, <1>7, FileNames DEF Typed
<1>17. Exists(d, "dir")'
  BY <1>1, <1>2, <1>5, <1>8 DEF Exclusive, Exists
<1> QED  BY <1>2, <1>3, <1>5, <1>6, <1>7, <1>9, <1>12, <1>13, <1>14, <1>15, <1>16, <1>17, MakerStep

\* A directory that a power failure cannot leave without its marker.
LEMMA MarkedDir ==
  ASSUME NEW d \in Dirs, Absent \notin disk'[d]["marker"], cache'[d]["dir"] # Absent,
         cache'[d]["db"] = Absent => disk'[d]["db"] = {Absent},
         \A f \in KeyFiles : disk'[d][f] \subseteq {Absent, cache'[d][f]}
  PROVE  DirOk(d)'
<1>1. Gone(d)'
  BY DEF Gone, Exists
<1>2. KeysLast(d)'
  BY DEF KeysLast, Steady, Absent
<1> QED  BY <1>1, <1>2 DEF DirOk, Unmarked

LEMMA MarkedKeeps ==
  ASSUME IInv, NEW p \in Procs, Marked(p)
  PROVE  IInv'
<1>1. Typed /\ FilesOk /\ Exclusive /\ ProcOk(p) /\ Stage(p)
  BY DEF IInv, Typed
<1>2. PICK d \in Dirs, s \in Dirs : d = Dir(p) /\ s = Src(p) /\ proc[p].step \in Nat
  BY <1>1, ProcFields
<1> DEFINE promise == IF s \in strayed THEN 0 ELSE LengthOf(cache[s]["db"])
<1>3. /\ At(p, "marked") /\ Proceed(p) /\ SyncDir(d, Entries \cup {"dir"})
      /\ promised' = [promised EXCEPT ![d] = promise]
      /\ finished' = finished /\ bereft' = bereft /\ strayed' = strayed
  BY <1>2 DEF Marked
<1>4. Makes(p) /\ proc[p].step = 4
  BY <1>1, <1>3, Places
<1>5. proc[p].step < Last(p) /\ proc[p].step <= Last(p) /\ Making(p) /\ Made(p) /\ Reads(p) /\ proc[p].step > 3
  BY <1>4 DEF Last, Making, Made, Reads
<1>6. /\ proc' \in [Procs -> {proc'[q] : q \in Procs}]
      /\ \A q \in Procs : q # p => proc'[q] = proc[q]
      /\ \A q \in Procs : ProcOk(q)'
      /\ proc'[p].cmd = proc[p].cmd /\ proc'[p].dir = d /\ proc'[p].step = 5 /\ Dir(p)' = d /\ Src(p)' = s
      /\ Last(p)' \in {10, 12}
  BY <1>2, <1>3, <1>4, <1>5, MakerMoves DEF Dir
<1>7. /\ OnlyIn(d) /\ cache'[d] = cache[d] /\ cache' = cache
      /\ \A g \in Files :
           disk'[d][g] = IF g \notin Entries \cup {"dir"} THEN disk[d][g]
                         ELSE IF Exists(d, g) THEN disk[d][g] \ {Absent} ELSE {Absent}
  <2>1. Entries \cup {"dir"} \in SUBSET Files
    BY FileNames
  <2> QED  BY <1>1, <1>3, <2>1, SyncDirEffect, ZenonT(60) DEF SyncDir
<1>8. Exists(d, "dir") /\ Exists(d, "marker")
  BY <1>1, <1>2, <1>5 DEF Exclusive
<1>9. ASSUME d \notin strayed, NEW f \in Entries \ {"marker"}
      PROVE  disk'[d][f] = {Absent} /\ cache'[d][f] = Absent
  <2>1. disk[d][f] = {Absent} /\ f \in Files
    BY <1>1, <1>2, <1>4, <1>9, FileNames DEF Stage, MakeStage
  <2>2. cache[d][f] = Absent
    BY <1>1, <2>1 DEF FilesOk
  <2> QED  BY <1>7, <2>1, <2>2 DEF Exists
<1>11. Absent \notin disk'[d]["marker"] /\ cache'[d]["marker"] # Absent /\ cache'[d]["dir"] # Absent
  BY <1>7, <1>8, FileNames DEF Exists
<1>12. Exclusive'
  BY <1>2, <1>3, <1>5, <1>7, <1>11, MakerExclusive
<1>13. promise \in 0..MaxLength /\ promise \in Nat /\ LengthOf(cache[s]["db"]) >= promise
  <2>1. cache[s]["db"] \in disk[s]["db"]
    BY <1>1, FileNames DEF FilesOk
  <2>2. LengthOf(cache[s]["db"]) \in 0..MaxLength
    BY <1>1, <2>1, LengthType
  <2> QED  BY <2>2, BoundAssumption
<1> HIDE DEF promise
<1>14. /\ promised' \in [Dirs -> 0..MaxLength] /\ promised'[d] = promise
       /\ \A e \in Dirs : e # d => promised'[e] = promised[e]
  BY <1>1, <1>3, <1>13 DEF Typed
<1>20. s \in strayed => promise = 0
  BY DEF promise
<1>15. Stage(p)'
  <2>1. CASE d \in strayed
    BY <1>3, <1>4, <1>6, <2>1, StrayStage DEF Makes
  <2>2. CASE d \notin strayed
    <3>1. \A f \in Entries \ {"marker"} : disk'[d][f] = {Absent} /\ cache'[d][f] = Absent
      BY <1>9, <2>2
    <3>2. MakeStage(p)'
      BY <1>3, <1>6, <1>14, <1>20, <3>1, FileNames DEF MakeStage, Steady
    <3>3. Kept(d, s)'
      BY <1>7, <1>13, <1>14 DEF Kept
    <3>4. (proc'[p].cmd = "backup" => BackupStage(p)') /\ (proc'[p].cmd = "restore" => RestoreStage(p)')
      BY <1>6, <3>3 DEF BackupStage, RestoreStage
    <3> QED  BY <1>4, <1>6, <3>2, <3>4 DEF Stage, Opens, Makes
  <2> QED  BY <2>1, <2>2
<1>18. ASSUME NEW f \in Files
       PROVE  /\ cache'[d][f] \in disk'[d][f] /\ disk'[d][f] \subseteq disk[d][f]
              /\ \A content \in disk'[d][f] : ContentOk(f, content)
  <2>1. cache[d][f] \in disk[d][f] /\ (\A content \in disk[d][f] : ContentOk(f, content)) /\ cache'[d][f] = cache[d][f]
    BY <1>1, <1>7 DEF FilesOk
  <2>2. CASE f \notin Entries \cup {"dir"}
    BY <1>7, <2>1, <2>2
  <2>3. CASE f \in Entries \cup {"dir"} /\ Exists(d, f)
    BY <1>7, <2>1, <2>3 DEF Exists
  <2>4. CASE f \in Entries \cup {"dir"} /\ ~Exists(d, f)
    <3>1. disk'[d][f] = {Absent} /\ cache'[d][f] = Absent
      BY <1>7, <2>1, <2>4 DEF Exists
    <3> QED  BY <2>1, <2>4, <3>1 DEF Exists
  <2> QED  BY <2>2, <2>3, <2>4
<1>16. DirOk(d)'
  <2>1. CASE d \in strayed
    <3>1. DirOk(d) /\ Exists(d, "dir")' /\ Gone(d)
      BY <1>11 DEF IInv, DirOk, Exists
    <3>2. ~Exists(d, "db") => disk'[d]["db"] = disk[d]["db"]
      BY <1>7, <3>1, FileNames DEF Gone
    <3>3. Exists(d, "db") => Exists(d, "db")'
      BY <1>7 DEF Exists
    <3> QED  BY <1>3, <1>7, <2>1, <3>1, <3>2, <3>3, StrayDir
  <2>2. CASE d \notin strayed
    BY <1>9, <1>11, <2>2, FileNames, MarkedDir
  <2> QED  BY <2>1, <2>2
<1>17. NoNewToken
  <2>1. \A e \in Dirs : disk'[e]["db"] \subseteq disk[e]["db"]
    BY <1>7, <1>18, FileNames DEF OnlyIn
  <2> QED  BY <2>1, SameTokens
<1>19. disk'[d]["token"] = disk[d]["token"] /\ cache'[d]["token"] = cache[d]["token"] /\ Exists(d, "dir")'
  BY <1>7, <1>11, FileNames DEF Exists
<1> QED  BY <1>2, <1>3, <1>5, <1>6, <1>7, <1>12, <1>14, <1>15, <1>16, <1>17, <1>18, <1>19, MakerStep

\* A maker writes a file of a directory that is marked.
LEMMA MakerWrites ==
  ASSUME IInv, NEW p \in Procs, NEW d \in Dirs, d = Dir(p), Makes(p),
         proc[p].step > 4, proc[p].step < Last(p) - 1,
         proc' \in [Procs -> {proc'[q] : q \in Procs}],
         \A q \in Procs : q # p => proc'[q] = proc[q],
         \A q \in Procs : ProcOk(q)',
         proc'[p].cmd = proc[p].cmd, proc'[p].dir = d, proc'[p].src = proc[p].src,
         proc'[p].step \in {proc[p].step, proc[p].step + 1},
         NEW f \in Copied \cup {"manifest"}, NEW x, OnlyIn(d),
         \A g \in Files : cache'[d][g] = IF g = f THEN x ELSE cache[d][g],
         \A g \in Files : g # f => disk'[d][g] = disk[d][g],
         x \in disk'[d][f], disk'[d][f] \subseteq disk[d][f] \cup {x},
         d \notin strayed => disk'[d][f] \subseteq {Absent, x},
         ContentOk(f, x), x # Absent,
         f = "db" /\ x.kind = "db" => \A t \in x.db.tokens :
           \E e \in Dirs : \E old \in disk[e]["db"] : old.kind = "db" /\ t \in old.db.tokens,
         promised' = promised, finished' = finished, bereft' = bereft, strayed' = strayed,
         Exclusive',
         d \notin strayed /\ proc[p].cmd = "backup" => BackupStage(p)',
         d \notin strayed /\ proc[p].cmd = "restore" => RestoreStage(p)'
  PROVE  IInv'
<1>1. /\ Typed /\ FilesOk /\ Exclusive /\ ProcOk(p) /\ Stage(p) /\ DirOk(d)
      /\ proc[p].step \in Nat /\ Last(p) \in {10, 12}
  BY DEF IInv, Typed, ProcOk, Last
<1>2. Making(p) /\ Made(p) /\ proc[p].step <= Last(p) /\ proc[p].step < Last(p) /\ proc[p].step > 3
  BY <1>1 DEF Making, Made
<1>3. /\ Dir(p)' = d /\ Src(p)' = Src(p) /\ Last(p)' = Last(p)
      /\ proc'[p].step \in Nat /\ proc'[p].step >= proc[p].step
  BY <1>1 DEF Dir, Src, Last
<1>4. f \in Files /\ f # "marker" /\ f # "dir" /\ f # "token"
  BY FileNames
<1>6. Exists(d, "dir") /\ Exists(d, "marker") /\ Absent \notin disk[d]["marker"]
  BY <1>1, <1>2 DEF Exclusive
<1>7. /\ cache'[d]["dir"] # Absent /\ Absent \notin disk'[d]["marker"] /\ Exists(d, "dir")'
      /\ cache'[d]["token"] = cache[d]["token"] /\ disk'[d]["token"] = disk[d]["token"]
  BY <1>4, <1>6, FileNames DEF Exists
<1>9. ASSUME d \notin strayed, NEW g \in Copied \cup {"manifest"} PROVE Steady(d, g)'
  <2>1. g \in Files /\ Steady(d, g)
    BY <1>1, <1>2, <1>9, FileNames DEF Stage, MakeStage
  <2>2. CASE g = f
    BY <1>4, <1>9, <2>2 DEF Steady
  <2>3. CASE g # f
    BY <2>1, <2>3 DEF Steady
  <2> QED  BY <2>2, <2>3
<1>10. Stage(p)'
  <2>1. CASE d \in strayed
    BY <1>3, <2>1, StrayStage DEF Makes
  <2>2. CASE d \notin strayed
    <3>1. /\ proc'[p].step > 4 /\ proc'[p].step < Last(p)'
          /\ proc'[p].step \in 5..8 /\ Src(p)' \in strayed' => promised'[d] = 0
      <4>1. proc'[p].step > 4 /\ proc'[p].step < Last(p)'
        BY <1>1, <1>3
      <4>2. proc'[p].step \in 5..8 => proc[p].step \in 5..8
        BY <1>1, <1>3
      <4> QED  BY <1>1, <1>3, <2>2, <4>1, <4>2 DEF Stage, MakeStage
    <3>2. MakeStage(p)'
      BY <1>3, <1>9, <2>2, <3>1, <1>1 DEF MakeStage
    <3> QED  BY <1>3, <2>2, <3>2 DEF Stage, Opens, Makes
  <2> QED  BY <2>1, <2>2
<1>11. DirOk(d)'
  <2>1. CASE d \in strayed
    <3>1. f = "db" => Exists(d, "db")'
      BY <1>4 DEF Exists
    <3>2. f # "db" => cache'[d]["db"] = cache[d]["db"] /\ disk'[d]["db"] = disk[d]["db"]
      BY FileNames
    <3> QED  BY <1>1, <1>7, <2>1, <3>1, <3>2, StrayDir
  <2>2. CASE d \notin strayed
    <3>1. cache'[d]["db"] = Absent => disk'[d]["db"] = {Absent}
      BY <1>1, <1>4, FileNames DEF DirOk, Gone, Exists
    <3>2. \A g \in KeyFiles : disk'[d][g] \subseteq {Absent, cache'[d][g]}
      BY <1>9, <2>2 DEF Steady, Copied
    <3> QED  BY <1>7, <3>1, <3>2, MarkedDir
  <2> QED  BY <2>1, <2>2
<1>12. NoNewToken
  <2> SUFFICES ASSUME NEW e \in Dirs, NEW content \in disk'[e]["db"], content.kind = "db",
                      NEW t \in content.db.tokens
               PROVE  \E c \in Dirs : \E old \in disk[c]["db"] : old.kind = "db" /\ t \in old.db.tokens
    BY DEF NoNewToken
  <2>1. CASE content \in disk[e]["db"]
    BY <2>1
  <2>2. CASE content \notin disk[e]["db"]
    <3>1. e = d
      BY <2>2 DEF OnlyIn
    <3>2. f = "db" /\ content = x
      BY <2>2, <3>1, FileNames
    <3> QED  BY <3>2
  <2> QED  BY <2>1, <2>2
<1>13. ASSUME NEW g \in Files
       PROVE  cache'[d][g] \in disk'[d][g] /\ \A content \in disk'[d][g] : ContentOk(g, content)
  <2>1. \A content \in disk[d][g] : ContentOk(g, content)
    BY <1>1 DEF FilesOk
  <2>2. CASE g = f
    BY <2>1, <2>2
  <2>3. CASE g # f
    BY <1>1, <2>3 DEF FilesOk
  <2> QED  BY <2>2, <2>3
<1>14. promised' \in [Dirs -> 0..MaxLength]
  BY <1>1 DEF Typed
<1> QED  BY <1>2, <1>7, <1>10, <1>11, <1>12, <1>13, <1>14, MakerStep

\* What a maker has when it writes and syncs: its source is another directory, and stays
\* as it is.
LEMMA MakerSource ==
  ASSUME IInv, NEW p \in Procs, NEW d \in Dirs, d = Dir(p), NEW s \in Dirs, s = Src(p), Makes(p),
         proc[p].step > 4, proc[p].step < Last(p) - 1, Proceed(p),
         NEW f \in Files, NEW x, Synced(d, f, x)
  PROVE  /\ d \notin strayed => s # d /\ cache'[s] = cache[s]
         /\ \A g \in Files : cache'[d][g] = IF g = f THEN x ELSE cache[d][g]
         /\ proc'[p].cmd = proc[p].cmd /\ proc'[p].step = proc[p].step + 1 /\ Dir(p)' = d /\ Src(p)' = s
<1>1. FilesOk /\ Exclusive /\ proc[p].step \in Nat /\ Last(p) \in {10, 12}
  BY DEF IInv, Typed, ProcOk, Last
<1>2. Making(p) /\ Reads(p) /\ proc[p].step <= Last(p)
  BY <1>1 DEF Making, Made, Reads
<1>3. d \notin strayed => s # d
  BY <1>1, <1>2 DEF Exclusive
<1>4. (\A e \in Dirs : e # d => cache'[e] = cache[e]) /\ \A g \in Files : cache'[d][g] = IF g = f THEN x ELSE cache[d][g]
  <2>1. cache' = Put(cache, d, f, x) /\ Grid(cache)
    BY <1>1 DEF Synced, Put, FilesOk
  <2> QED  BY <2>1, OneFile
<1>5. /\ proc'[p].cmd = proc[p].cmd /\ proc'[p].step = proc[p].step + 1 /\ Dir(p)' = d /\ Src(p)' = s
  BY <1>2, MakerMoves
<1> QED  BY <1>3, <1>4, <1>5

LEMMA MakerSyncs ==
  ASSUME IInv, NEW p \in Procs, NEW d \in Dirs, d = Dir(p), Makes(p),
         proc[p].step > 4, proc[p].step < Last(p) - 1, Proceed(p),
         NEW f \in Copied \cup {"manifest"}, NEW x, Synced(d, f, x), ContentOk(f, x), x # Absent,
         f = "db" /\ x.kind = "db" => \A t \in x.db.tokens :
           \E e \in Dirs : \E old \in disk[e]["db"] : old.kind = "db" /\ t \in old.db.tokens,
         promised' = promised, finished' = finished, bereft' = bereft, strayed' = strayed,
         d \notin strayed /\ proc[p].cmd = "backup" => BackupStage(p)',
         d \notin strayed /\ proc[p].cmd = "restore" => RestoreStage(p)'
  PROVE  IInv'
<1>1. /\ FilesOk /\ Exclusive /\ proc[p].step \in Nat /\ Last(p) \in {10, 12}
  BY DEF IInv, Typed, ProcOk, Last
<1>2. Making(p) /\ Made(p) /\ proc[p].step <= Last(p) /\ proc[p].step > 3
  BY <1>1 DEF Making, Made
<1>3. f \in Files /\ f # "marker" /\ f # "dir" /\ f # "token"
  BY FileNames
<1>4. /\ OnlyIn(d)
      /\ \A g \in Files : cache'[d][g] = IF g = f THEN x ELSE cache[d][g]
      /\ \A g \in Files : disk'[d][g] = IF g = f THEN (disk[d][f] \cap {Absent}) \cup {x} ELSE disk[d][g]
  <2>1. Changed(d, f, x, (disk[d][f] \cap {Absent}) \cup {x})
    BY <1>1, <1>3, SyncedEffect
  <2> QED  BY <2>1 DEF Changed
<1>5. \A g \in Files : g # f => disk'[d][g] = disk[d][g]
  BY <1>4
<1>6. x \in disk'[d][f] /\ disk'[d][f] \subseteq disk[d][f] \cup {x} /\ disk'[d][f] \subseteq {Absent, x}
  BY <1>3, <1>4
<1>7. Exists(d, "dir") /\ Exists(d, "marker") /\ Absent \notin disk[d]["marker"]
  BY <1>1, <1>2 DEF Exclusive
<1>8. /\ cache'[d]["dir"] = cache[d]["dir"] /\ cache'[d]["marker"] # Absent
      /\ Absent \notin disk'[d]["marker"]
  BY <1>3, <1>4, <1>7, FileNames DEF Exists
<1>9. Exclusive'
  BY <1>2, <1>4, <1>8, MakerExclusive
<1>10. /\ proc' \in [Procs -> {proc'[q] : q \in Procs}]
       /\ \A q \in Procs : q # p => proc'[q] = proc[q]
       /\ \A q \in Procs : ProcOk(q)'
       /\ proc'[p].cmd = proc[p].cmd /\ proc'[p].dir = d /\ proc'[p].src = proc[p].src
       /\ proc'[p].step = proc[p].step + 1
  BY <1>2, MakerMoves DEF Dir
<1>11. proc'[p].step \in {proc[p].step, proc[p].step + 1}
  BY <1>10
<1> QED  BY <1>4, <1>5, <1>6, <1>9, <1>10, <1>11, MakerWrites

\* copy_private creates its file, which was not there.
LEMMA BeginCopyKeeps ==
  ASSUME IInv, NEW p \in Procs, BeginCopy(p)
  PROVE  IInv'
<1>1. Typed /\ FilesOk /\ Exclusive /\ ProcOk(p) /\ Stage(p) /\ \A q \in Procs : ProcOk(q)
  BY DEF IInv, Typed
<1>2. PICK d \in Dirs, s \in Dirs : d = Dir(p) /\ s = Src(p) /\ proc[p].step \in Nat
  BY <1>1, ProcFields
<1>3. /\ At(p, "copy") /\ Allowed(p) /\ ~Filling(p)
      /\ promised' = promised /\ finished' = finished /\ bereft' = bereft /\ strayed' = strayed
  BY DEF BeginCopy, history
<1>4. /\ Makes(p) /\ proc[p].step > 4 /\ proc[p].step < Last(p) - 1
      /\ \/ proc[p].cmd = "backup" /\ proc[p].step \in {5, 6}
         \/ proc[p].cmd = "restore" /\ proc[p].step \in {5, 6, 7}
  BY <1>1, <1>3, Places DEF Makes, Last
<1>5. PICK f \in Copied : f = File(p)
  BY <1>1, <1>4, FilesOfSteps, FileNames
<1> DEFINE x == Created(f)
           secret == <<File(p)>>
<1>6. Written(d, f, x) /\ proc' = [proc EXCEPT ![p].secret = secret]
  BY <1>2, <1>5 DEF BeginCopy
<1>7. /\ f \in Files /\ f \in Copied \cup {"manifest"} /\ f # "marker" /\ f # "dir"
      /\ (f = "db" => proc[p].cmd = "restore" /\ proc[p].step = 5)
  BY <1>1, <1>4, <1>5, FilesOfSteps, FileNames
<1>8. ~Exists(d, f)
  BY <1>2, <1>3, <1>5 DEF Allowed
<1>9. ContentOk(f, x) /\ x # Absent /\ (f = "db" /\ x.kind = "db" => x.db.tokens = {})
  <2>1. CASE f = "db"
    <3>1. x = Database(NewDatabase)
      BY <2>1 DEF Created
    <3>2. x.kind = "db" /\ x.db = NewDatabase /\ x # Absent
      BY <3>1 DEF Database, Absent
    <3> QED  BY <2>1, <3>2, NewOk DEF ContentOk
  <2>2. CASE f # "db"
    <3>1. x = Short
      BY <2>2 DEF Created
    <3>2. x # Absent
      BY <3>1 DEF Short, Absent
    <3> QED  BY <1>7, <2>2, <3>2, FileNames DEF ContentOk
  <2> QED  BY <2>1, <2>2
<1> HIDE DEF x, secret
<1>10. /\ OnlyIn(d)
       /\ \A g \in Files : cache'[d][g] = IF g = f THEN x ELSE cache[d][g]
       /\ \A g \in Files : disk'[d][g] = IF g = f THEN disk[d][f] \cup {x} ELSE disk[d][g]
  <2>1. Changed(d, f, x, disk[d][f] \cup {x})
    BY <1>1, <1>6, <1>7, WrittenEffect
  <2> QED  BY <2>1 DEF Changed
<1>11. /\ proc' \in [Procs -> {proc'[q] : q \in Procs}]
       /\ \A q \in Procs : q # p => proc'[q] = proc[q]
       /\ proc'[p] = [proc[p] EXCEPT !.secret = secret]
  BY <1>1, <1>6 DEF Typed
<1>12. /\ proc'[p].cmd = proc[p].cmd /\ proc'[p].dir = d /\ proc'[p].src = s /\ proc'[p].step = proc[p].step
       /\ Dir(p)' = d /\ Src(p)' = s
  BY <1>1, <1>2, <1>11 DEF Dir, Src, ProcOk
<1>13. ASSUME NEW q \in Procs PROVE ProcOk(q)'
  <2>1. CASE q = p
    <3>1. proc'[p] \in [cmd : CommandNames \cup {"none"}, dir : Dirs, src : Dirs, step : Nat,
                        secret : {proc'[p].secret}]
      BY <1>1, <1>11 DEF ProcOk
    <3>2. proc'[p].cmd \in {"backup", "restore"}
      BY <1>4, <1>12 DEF Makes
    <3>3. proc'[p].step \in 1..Len(Program[proc'[p].cmd])
      BY <1>1, <1>4, <1>12 DEF ProcOk, Makes
    <3> QED  BY <2>1, <3>1, <3>2, <3>3 DEF ProcOk
  <2>2. CASE q # p
    BY <1>1, <1>11, <2>2 DEF ProcOk, Dir
  <2> QED  BY <2>1, <2>2
<1>14. Making(p) /\ Made(p) /\ proc[p].step > 3 /\ Reads(p)
  BY <1>2, <1>4 DEF Making, Made, Reads, Last
<1>15. Exclusive'
  <2>1. ASSUME NEW e \in Dirs
        PROVE  /\ Exists(e, "dir") => Exists(e, "dir")'
               /\ Exists(e, "marker")' = Exists(e, "marker")
               /\ Absent \notin disk[e]["marker"] => Absent \notin disk'[e]["marker"]
               /\ WholeKeys(e) => WholeKeys(e)' \/ e \in strayed
    <3>1. CASE e = d
      <4>1. cache'[d]["dir"] = cache[d]["dir"] /\ cache'[d]["marker"] = cache[d]["marker"]
            /\ disk'[d]["marker"] = disk[d]["marker"]
        BY <1>7, <1>10, FileNames
      <4>2. WholeKeys(d) => WholeKeys(d)'
        <5>1. CASE f \in KeyFiles
          BY <1>8, <5>1 DEF WholeKeys, Exists, Absent
        <5>2. CASE f \notin KeyFiles
          BY <1>10, <5>2, FileNames DEF WholeKeys
        <5> QED  BY <5>1, <5>2
      <4> QED  BY <3>1, <4>1, <4>2 DEF Exists
    <3>2. CASE e # d
      BY <1>10, <3>2 DEF OnlyIn, Exists, WholeKeys
    <3> QED  BY <3>1, <3>2
  <2>2. proc'[p].step >= proc[p].step /\ proc'[p].step <= Last(p) /\ proc'[p].src = proc[p].src
        /\ proc'[p].dir = proc[p].dir
    BY <1>2, <1>4, <1>12 DEF Last, Src, Dir
  <2> QED  BY <1>1, <1>3, <1>4, <1>11, <1>12, <1>13, <2>1, <2>2, ExclusiveKept
<1>16. x \in disk'[d][f] /\ disk'[d][f] = disk[d][f] \cup {x} /\ \A g \in Files : g # f => disk'[d][g] = disk[d][g]
  BY <1>7, <1>10
<1>17. d \notin strayed => disk'[d][f] \subseteq {Absent, x}
  <2> SUFFICES ASSUME d \notin strayed PROVE disk'[d][f] \subseteq {Absent, x}
    OBVIOUS
  <2>1. MakeStage(p)
    BY <1>1, <1>2, <1>4 DEF Stage
  <2>2. Steady(d, f)
    BY <1>2, <1>7, <1>14, <2>1 DEF MakeStage
  <2> QED  BY <1>8, <1>16, <2>2 DEF Steady, Exists
<1>18. d \notin strayed => s # d /\ cache'[s] = cache[s]
  BY <1>1, <1>2, <1>10, <1>14 DEF Exclusive, OnlyIn
<1>19. d \notin strayed /\ proc[p].cmd = "backup" => BackupStage(p)'
  <2> SUFFICES ASSUME d \notin strayed, proc[p].cmd = "backup" PROVE BackupStage(p)'
    OBVIOUS
  <2>1. Kept(d, s)
    BY <1>1, <1>2, <1>4 DEF Stage, BackupStage
  <2>2. Kept(d, s)'
    BY <1>3, <1>18, <2>1 DEF Kept
  <2> QED  BY <1>4, <1>12, <2>2 DEF BackupStage
<1>20. d \notin strayed /\ proc[p].cmd = "restore" => RestoreStage(p)'
  <2> SUFFICES ASSUME d \notin strayed, proc[p].cmd = "restore" PROVE RestoreStage(p)'
    OBVIOUS
  <2>1. CASE proc[p].step = 5
    <3>1. Kept(d, s)
      BY <1>1, <1>2, <2>1 DEF Stage, RestoreStage
    <3>2. Kept(d, s)'
      BY <1>3, <1>18, <3>1 DEF Kept
    <3> QED  BY <1>12, <2>1, <3>2 DEF RestoreStage
  <2>2. CASE proc[p].step \in {6, 7}
    <3>1. HasDb(d) /\ ~DbOf(d).wal => Kept(d, d)
      BY <1>1, <1>2, <2>2 DEF Stage, RestoreStage
    <3>2. cache'[d]["db"] = cache[d]["db"]
      BY <1>7, <1>10, <2>2, FileNames
    <3>3. HasDb(d)' /\ ~DbOf(d)'.wal => Kept(d, d)'
      BY <1>3, <3>1, <3>2 DEF HasDb, DbOf, Kept
    <3> QED  BY <1>12, <2>2, <3>3 DEF RestoreStage
  <2> QED  BY <1>4, <2>1, <2>2
<1>21. f = "db" /\ x.kind = "db" => \A t \in x.db.tokens :
           \E e \in Dirs : \E old \in disk[e]["db"] : old.kind = "db" /\ t \in old.db.tokens
  BY <1>9
<1>22. proc'[p].step \in {proc[p].step, proc[p].step + 1} /\ proc'[p].src = proc[p].src
  BY <1>2, <1>12 DEF Src
<1> QED  BY <1>2, <1>3, <1>4, <1>7, <1>9, <1>10, <1>11, <1>12, <1>13, <1>15, <1>16, <1>17, <1>19, <1>20,
            <1>21, <1>22, MakerWrites

LEMMA CopyKeeps ==
  ASSUME IInv, NEW p \in Procs, Copy(p)
  PROVE  IInv'
<1>1. Typed /\ FilesOk /\ ProcOk(p) /\ Stage(p)
  BY DEF IInv, Typed
<1>2. PICK d \in Dirs, s \in Dirs : d = Dir(p) /\ s = Src(p) /\ proc[p].step \in Nat
  BY <1>1, ProcFields
<1>3. /\ At(p, "copy") /\ Allowed(p) /\ Filling(p) /\ Proceed(p)
      /\ promised' = promised /\ finished' = finished /\ bereft' = bereft /\ strayed' = strayed
  BY DEF Copy, history
<1>4. /\ Makes(p) /\ proc[p].step > 4 /\ proc[p].step < Last(p) - 1
      /\ \/ proc[p].cmd = "backup" /\ proc[p].step \in {5, 6}
         \/ proc[p].cmd = "restore" /\ proc[p].step \in {5, 6, 7}
  BY <1>1, <1>3, Places DEF Makes, Last
<1>5. PICK f \in Copied : f = File(p)
  BY <1>1, <1>4, FilesOfSteps, FileNames
<1>6. PICK x \in Readable(s, f) \cup {Short} : Synced(d, f, x)
  BY <1>2, <1>5 DEF Copy
<1>7. f \in Files /\ f \in Copied \cup {"manifest"} /\ (f = "db" => proc[p].cmd = "restore" /\ proc[p].step = 5)
      /\ (proc[p].cmd = "restore" /\ proc[p].step = 5 => f = "db")
  BY <1>1, <1>4, <1>5, FilesOfSteps, FileNames
<1>8. cache[s][f] # Absent /\ cache[s][f] \in disk[s][f] /\ ContentOk(f, cache[s][f])
  BY <1>1, <1>2, <1>3, <1>5, <1>7 DEF Allowed, Exists, FilesOk
<1>9. \/ x = cache[s][f]
      \/ x = Short
      \/ /\ f = "db" /\ cache[s]["db"].kind = "db" /\ DbOf(s).wal
         /\ \E n \in 0..DbOf(s).length : x = Database([DbOf(s) EXCEPT !.length = n])
  BY <1>6 DEF Readable
<1>10. /\ ContentOk(f, x) /\ x # Absent
       /\ f = "db" /\ x.kind = "db" => \A t \in x.db.tokens :
            \E e \in Dirs : \E old \in disk[e]["db"] : old.kind = "db" /\ t \in old.db.tokens
       /\ f = "db" /\ x.kind = "db" /\ ~x.db.wal => x = cache[s]["db"]
  <2>1. CASE x = cache[s][f]
    BY <1>8, <2>1
  <2>2. CASE x = Short
    BY <1>7, <2>2, FileNames DEF ContentOk, Short, Absent
  <2>3. CASE /\ f = "db" /\ cache[s]["db"].kind = "db" /\ DbOf(s).wal
             /\ \E n \in 0..DbOf(s).length : x = Database([DbOf(s) EXCEPT !.length = n])
    <3>1. DbOk(DbOf(s))
      BY <1>8, <2>3 DEF ContentOk, DbOf
    <3>2. PICK n \in 0..DbOf(s).length : x = Database([DbOf(s) EXCEPT !.length = n])
      BY <2>3
    <3> DEFINE new == [DbOf(s) EXCEPT !.length = n]
    <3>3. DbOk(new) /\ new.wal = DbOf(s).wal /\ new.tokens = DbOf(s).tokens
      BY <3>1, ShorterOk
    <3>4. x = Database(new)
      BY <3>2
    <3> HIDE DEF new
    <3>5. x.kind = "db" /\ x.db = new /\ x # Absent
      BY <3>4 DEF Database, Absent
    <3>6. ContentOk(f, x)
      BY <2>3, <3>3, <3>5 DEF ContentOk
    <3>7. \A t \in new.tokens : t \in cache[s]["db"].db.tokens
      BY <3>3 DEF DbOf
    <3>8. \A t \in x.db.tokens : \E e \in Dirs : \E old \in disk[e]["db"] : old.kind = "db" /\ t \in old.db.tokens
      BY <1>8, <2>3, <3>5, <3>7
    <3> QED  BY <2>3, <3>3, <3>5, <3>6, <3>8
  <2> QED  BY <1>9, <2>1, <2>2, <2>3
<1>11. /\ d \notin strayed => s # d /\ cache'[s] = cache[s]
       /\ \A g \in Files : cache'[d][g] = IF g = f THEN x ELSE cache[d][g]
       /\ proc'[p].cmd = proc[p].cmd /\ proc'[p].step = proc[p].step + 1 /\ Dir(p)' = d /\ Src(p)' = s
  BY <1>2, <1>3, <1>4, <1>6, <1>7, MakerSource
<1>12. d \notin strayed /\ proc[p].cmd = "backup" => BackupStage(p)'
  <2> SUFFICES ASSUME d \notin strayed, proc[p].cmd = "backup" PROVE BackupStage(p)'
    OBVIOUS
  <2>1. proc'[p].step \in 5..8
    BY <1>4, <1>11
  <2>2. Kept(d, s)
    BY <1>1, <1>2, <1>4 DEF Stage, BackupStage
  <2>3. Kept(d, s)'
    BY <1>3, <1>11, <2>2 DEF Kept
  <2> QED  BY <1>11, <2>1, <2>3 DEF BackupStage
<1>13. d \notin strayed /\ proc[p].cmd = "restore" => RestoreStage(p)'
  <2> SUFFICES ASSUME d \notin strayed, proc[p].cmd = "restore" PROVE RestoreStage(p)'
    OBVIOUS
  <2>1. proc'[p].step \in 6..8
    BY <1>4, <1>11
  <2>2. HasDb(d)' /\ ~DbOf(d)'.wal => Kept(d, d)'
    <3>1. CASE f = "db"
      <4>1. Kept(d, s)
        BY <1>1, <1>2, <1>7, <3>1 DEF Stage, RestoreStage, Makes
      <4>2. cache'[d]["db"] = x
        BY <1>11, <3>1, FileNames
      <4> QED  BY <1>3, <1>10, <3>1, <4>1, <4>2 DEF HasDb, DbOf, Kept
    <3>2. CASE f # "db"
      <4>1. cache'[d]["db"] = cache[d]["db"] /\ proc[p].step \in {6, 7}
        BY <1>4, <1>7, <1>11, <3>2, FileNames
      <4>2. HasDb(d) /\ ~DbOf(d).wal => Kept(d, d)
        BY <1>1, <1>2, <4>1 DEF Stage, RestoreStage
      <4> QED  BY <1>3, <4>1, <4>2 DEF HasDb, DbOf, Kept
    <3> QED  BY <3>1, <3>2
  <2> QED  BY <1>11, <2>1, <2>2 DEF RestoreStage
<1> QED  BY <1>2, <1>3, <1>4, <1>6, <1>7, <1>10, <1>12, <1>13, MakerSyncs

LEMMA EmptyKeeps ==
  ASSUME IInv, NEW p \in Procs, Empty(p)
  PROVE  IInv'
<1>1. Typed /\ FilesOk /\ ProcOk(p) /\ Stage(p)
  BY DEF IInv, Typed
<1>2. PICK d \in Dirs, s \in Dirs : d = Dir(p) /\ s = Src(p) /\ proc[p].step \in Nat
  BY <1>1, ProcFields
<1> DEFINE x == Database(NewDatabase)
<1>3. /\ At(p, "empty") /\ Proceed(p) /\ Synced(d, "db", x)
      /\ promised' = promised /\ finished' = finished /\ bereft' = bereft /\ strayed' = strayed
  BY <1>2 DEF Empty, history
<1>4. d \notin strayed /\ proc[p].cmd = "backup" /\ proc[p].step = 7 /\ Makes(p) /\ Last(p) = 12
  <2>1. proc[p].cmd = "backup" /\ proc[p].step = 7 /\ Makes(p) /\ Last(p) = 12 /\ Made(p)
    BY <1>1, <1>3, Places DEF Makes, Made, Last
  <2> QED  BY <1>2, <2>1 DEF IInv, Exclusive
<1>5. ContentOk("db", x) /\ x # Absent /\ x.kind = "db" /\ x.db.tokens = {}
  BY NewOk DEF ContentOk, Database, Absent
<1> HIDE DEF x
<1>6. "db" \in Files /\ "db" \in Copied \cup {"manifest"}
  BY FileNames
<1>7. proc[p].step > 4 /\ proc[p].step < Last(p) - 1
  BY <1>4
<1>8. /\ cache'[s] = cache[s]
      /\ proc'[p].cmd = "backup" /\ proc'[p].step = 8 /\ Dir(p)' = d /\ Src(p)' = s
  BY <1>2, <1>3, <1>4, <1>6, <1>7, MakerSource
<1>9. BackupStage(p)'
  <2>1. Kept(d, s)
    BY <1>1, <1>2, <1>4 DEF Stage, BackupStage
  <2>2. Kept(d, s)'
    BY <1>3, <1>8, <2>1 DEF Kept
  <2> QED  BY <1>8, <2>2 DEF BackupStage
<1> QED  BY <1>2, <1>3, <1>4, <1>5, <1>6, <1>7, <1>9, MakerSyncs

LEMMA SnapshotKeeps ==
  ASSUME IInv, NEW p \in Procs, Snapshot(p)
  PROVE  IInv'
<1>1. Typed /\ FilesOk /\ ProcOk(p) /\ Stage(p)
  BY DEF IInv, Typed
<1>2. PICK d \in Dirs, s \in Dirs : d = Dir(p) /\ s = Src(p) /\ proc[p].step \in Nat
  BY <1>1, ProcFields
<1> DEFINE new == [DbOf(s) EXCEPT !.wal = FALSE]
<1>3. /\ At(p, "snapshot") /\ Allowed(p) /\ Proceed(p) /\ Synced(d, "db", Database(new))
      /\ promised' = promised /\ finished' = finished /\ bereft' = bereft /\ strayed' = strayed
  BY <1>2 DEF Snapshot, history
<1>4. d \notin strayed /\ proc[p].cmd = "backup" /\ proc[p].step = 8 /\ Makes(p) /\ Last(p) = 12
  <2>1. proc[p].cmd = "backup" /\ proc[p].step = 8 /\ Makes(p) /\ Last(p) = 12 /\ Made(p)
    BY <1>1, <1>3, Places DEF Makes, Made, Last
  <2> QED  BY <1>2, <2>1 DEF IInv, Exclusive
<1>5. cache[s]["db"].kind = "db" /\ Complete(DbOf(s)) /\ cache[s]["db"] \in disk[s]["db"]
  BY <1>1, <1>2, <1>3, FileNames DEF Allowed, FilesOk
<1>6. DbOk(DbOf(s))
  <2>1. ContentOk("db", cache[s]["db"])
    BY <1>1, <1>5, FileNames DEF FilesOk
  <2> QED  BY <1>5, <2>1 DEF ContentOk, DbOf
<1>7. /\ DbOk(new) /\ ~new.wal /\ new.length = DbOf(s).length /\ new.tokens = DbOf(s).tokens
      /\ new.schema = DbOf(s).schema /\ new.checksums = DbOf(s).checksums
  BY <1>6, ModeOk
<1> HIDE DEF new
<1> DEFINE x == Database(new)
<1>8. x.kind = "db" /\ x.db = new /\ x # Absent /\ ContentOk("db", x)
  BY <1>7 DEF Database, Absent, ContentOk
<1>9. Synced(d, "db", x)
  BY <1>3
<1> HIDE DEF x
<1>10. \A t \in x.db.tokens : \E e \in Dirs : \E old \in disk[e]["db"] : old.kind = "db" /\ t \in old.db.tokens
  BY <1>5, <1>7, <1>8 DEF DbOf
<1>11. "db" \in Files /\ "db" \in Copied \cup {"manifest"}
  BY FileNames
<1>12. proc[p].step > 4 /\ proc[p].step < Last(p) - 1
  BY <1>4
<1>13. /\ \A g \in Files : cache'[d][g] = IF g = "db" THEN x ELSE cache[d][g]
       /\ proc'[p].cmd = "backup" /\ proc'[p].step = 9 /\ Dir(p)' = d /\ Src(p)' = s
  BY <1>2, <1>3, <1>4, <1>9, <1>11, <1>12, MakerSource
<1>14. cache'[d]["db"] = x
  BY <1>11, <1>13
<1>15. BackupStage(p)'
  <2>1. Kept(d, s)
    BY <1>1, <1>2, <1>4 DEF Stage, BackupStage
  <2>2. Kept(d, d)'
    BY <1>3, <1>5, <1>7, <1>8, <1>14, <2>1 DEF Kept, LengthOf, DbOf
  <2>3. HasDb(d)' /\ ~DbOf(d)'.wal /\ Complete(DbOf(d)')
    BY <1>5, <1>7, <1>8, <1>14 DEF HasDb, DbOf, Complete, PrefixVerified
  <2>4. Complete(DbOf(d))'
    BY <2>3 DEF Complete, PrefixVerified
  <2> QED  BY <1>13, <2>2, <2>3, <2>4 DEF BackupStage
<1> QED  BY <1>2, <1>3, <1>4, <1>8, <1>9, <1>10, <1>11, <1>12, <1>15, MakerSyncs

LEMMA SealKeeps ==
  ASSUME IInv, NEW p \in Procs, Seal(p)
  PROVE  IInv'
<1>1. Typed /\ FilesOk /\ ProcOk(p) /\ Stage(p)
  BY DEF IInv, Typed
<1>2. PICK d \in Dirs, s \in Dirs : d = Dir(p) /\ s = Src(p) /\ proc[p].step \in Nat
  BY <1>1, ProcFields
<1>3. /\ At(p, "seal") /\ Proceed(p) /\ Synced(d, "manifest", Sealed(d))
      /\ promised' = promised /\ finished' = finished /\ bereft' = bereft /\ strayed' = strayed
  BY <1>2 DEF Seal, history
<1>4. d \notin strayed /\ proc[p].cmd = "backup" /\ proc[p].step = 9 /\ Makes(p) /\ Last(p) = 12
  <2>1. proc[p].cmd = "backup" /\ proc[p].step = 9 /\ Makes(p) /\ Last(p) = 12 /\ Made(p)
    BY <1>1, <1>3, Places DEF Makes, Made, Last
  <2> QED  BY <1>2, <2>1 DEF IInv, Exclusive
<1>5. HasDb(d) /\ Complete(DbOf(d)) /\ ~DbOf(d).wal /\ Kept(d, d)
  BY <1>1, <1>2, <1>4 DEF Stage, BackupStage
<1>6. ContentOk("manifest", Sealed(d)) /\ Sealed(d) # Absent
  BY <1>5, FileNames DEF ContentOk, Sealed, Manifest, Absent, HasDb, DbOf
<1>7. "manifest" \in Files /\ "manifest" \in Copied \cup {"manifest"}
  BY FileNames
<1>8. proc[p].step > 4 /\ proc[p].step < Last(p) - 1
  BY <1>4
<1>9. /\ \A g \in Files : cache'[d][g] = IF g = "manifest" THEN Sealed(d) ELSE cache[d][g]
      /\ proc'[p].cmd = "backup" /\ proc'[p].step = 10 /\ Dir(p)' = d /\ Src(p)' = s
  BY <1>2, <1>3, <1>4, <1>7, <1>8, MakerSource
<1>10. /\ cache'[d]["manifest"] = Sealed(d)
       /\ \A g \in Copied : cache'[d][g] = cache[d][g]
  BY <1>9, FileNames
<1>11. Sealed(d)' = Sealed(d)
  BY <1>10 DEF Sealed
<1>12. cache'[d]["db"] = cache[d]["db"]
  BY <1>10, FileNames
<1>13. HasDb(d)' /\ Complete(DbOf(d))' /\ ~DbOf(d)'.wal /\ Kept(d, d)'
  BY <1>3, <1>5, <1>12 DEF HasDb, DbOf, Kept
<1>14. BackupStage(p)'
  BY <1>9, <1>10, <1>11, <1>13 DEF BackupStage
<1> QED  BY <1>2, <1>3, <1>4, <1>6, <1>7, <1>8, <1>14, MakerSyncs

\* finish_destination: the entries are synced.
LEMMA SettleKeeps ==
  ASSUME IInv, NEW p \in Procs, Settle(p)
  PROVE  IInv'
<1>1. Typed /\ FilesOk /\ Exclusive /\ ProcOk(p) /\ Stage(p)
  BY DEF IInv, Typed
<1>2. PICK d \in Dirs : d = Dir(p) /\ proc[p].step \in Nat
  BY <1>1, ProcFields
<1>3. /\ At(p, "settle") /\ File(p) = "dir" /\ Proceed(p) /\ SyncDir(d, Entries)
      /\ finished' = finished /\ promised' = promised /\ bereft' = bereft /\ strayed' = strayed
  BY <1>2 DEF Settle, history
<1>4. Makes(p) /\ proc[p].step = Last(p) - 1
  <2>1. ~(proc[p].cmd = "register" /\ proc[p].step = 11)
    BY <1>1, <1>3, FilesOfSteps
  <2> QED  BY <1>1, <1>3, <2>1, Places
<1>5. Last(p) \in {10, 12} /\ proc[p].step < Last(p) /\ proc[p].step <= Last(p) /\ Making(p) /\ Made(p)
      /\ proc[p].step > 4 /\ proc[p].step > 3
  BY <1>4 DEF Last, Making, Made
<1>6. /\ proc' \in [Procs -> {proc'[q] : q \in Procs}]
      /\ \A q \in Procs : q # p => proc'[q] = proc[q]
      /\ \A q \in Procs : ProcOk(q)'
      /\ proc'[p].cmd = proc[p].cmd /\ proc'[p].dir = d /\ Dir(p)' = d
      /\ proc'[p].step = Last(p) /\ Last(p)' = Last(p)
  BY <1>2, <1>3, <1>4, <1>5, MakerMoves DEF Dir
<1>7. /\ OnlyIn(d) /\ cache'[d] = cache[d] /\ cache' = cache
      /\ \A g \in Files :
           disk'[d][g] = IF g \notin Entries THEN disk[d][g]
                         ELSE IF Exists(d, g) THEN disk[d][g] \ {Absent} ELSE {Absent}
  <2>1. Entries \in SUBSET Files
    BY FileNames
  <2> QED  BY <1>1, <1>3, <2>1, SyncDirEffect DEF SyncDir
<1>8. Exists(d, "dir") /\ Exists(d, "marker") /\ Absent \notin disk[d]["marker"]
  BY <1>1, <1>2, <1>5 DEF Exclusive
<1>9. /\ Exists(d, "dir")' /\ cache'[d]["token"] = cache[d]["token"]
      /\ cache'[d]["dir"] = cache[d]["dir"] /\ cache'[d]["dir"] # Absent /\ cache'[d]["marker"] # Absent
      /\ Absent \notin disk'[d]["marker"] /\ disk'[d]["token"] = disk[d]["token"]
  BY <1>7, <1>8, FileNames DEF Exists
<1>10. Exclusive'
  BY <1>2, <1>3, <1>5, <1>7, <1>9, MakerExclusive
<1>11. ASSUME d \notin strayed, NEW f \in Copied \cup {"manifest"} PROVE Settled(d, f)' /\ Steady(d, f)'
  <2>0. f \in Files /\ f \in Entries
    BY FileNames
  <2>1. Steady(d, f) /\ cache[d][f] \in disk[d][f]
    <3>1. MakeStage(p)
      BY <1>1, <1>2, <1>4, <1>11 DEF Stage
    <3>2. Steady(d, f)
      BY <1>2, <1>5, <3>1 DEF MakeStage
    <3> QED  BY <1>1, <2>0, <3>2 DEF FilesOk
  <2>2. CASE Exists(d, f)
    BY <1>7, <2>0, <2>1, <2>2 DEF Exists, Steady, Settled
  <2>3. CASE ~Exists(d, f)
    BY <1>7, <2>0, <2>1, <2>3 DEF Exists, Steady, Settled
  <2> QED  BY <2>2, <2>3
<1>12. d \notin strayed => Stage(p)'
  <2> SUFFICES ASSUME d \notin strayed PROVE Stage(p)'
    OBVIOUS
  <2>1. MakeStage(p)'
    <3>1. ~(proc'[p].step \in {3, 4})
      BY <1>5, <1>6
    <3>2. \A f \in Copied \cup {"manifest"} : Settled(d, f)' /\ Steady(d, f)'
      BY <1>11
    <3>3. ~(proc'[p].step \in 5..8)
      BY <1>4, <1>6 DEF Makes, Last
    <3> QED  BY <1>6, <3>1, <3>2, <3>3 DEF MakeStage
  <2>2. proc'[p].cmd = "backup" => BackupStage(p)'
    <3> SUFFICES ASSUME proc[p].cmd = "backup" PROVE BackupStage(p)'
      BY <1>6
    <3>1. proc[p].step = 11 /\ proc'[p].step = 12
      BY <1>4, <1>6 DEF Last
    <3>2. HasDb(d) /\ Complete(DbOf(d)) /\ ~DbOf(d).wal /\ Kept(d, d) /\ cache[d]["manifest"] = Sealed(d) /\ Verified(d)
      BY <1>1, <1>2, <3>1 DEF Stage, BackupStage
    <3>3. /\ HasDb(d)' /\ Complete(DbOf(d))' /\ ~DbOf(d)'.wal /\ Kept(d, d)' /\ cache'[d]["manifest"] = Sealed(d)'
          /\ Verified(d)'
      BY <1>3, <1>7, <3>2 DEF HasDb, DbOf, Kept, Sealed, Verified, WholeKeys, OfOneDevice, KeysOf
    <3> QED  BY <1>6, <3>1, <3>3 DEF BackupStage
  <2>3. proc'[p].cmd = "restore" => RestoreStage(p)'
    <3> SUFFICES ASSUME proc[p].cmd = "restore" PROVE RestoreStage(p)'
      BY <1>6
    <3>1. proc[p].step = 9 /\ proc'[p].step = 10
      BY <1>4, <1>6 DEF Last
    <3>2. Verified(d)
      BY <1>1, <1>2, <3>1 DEF Stage, RestoreStage
    <3>3. Verified(d)'
      BY <1>3, <1>7, <3>2 DEF HasDb, DbOf, Kept, Verified, WholeKeys, OfOneDevice, KeysOf
    <3> QED  BY <1>6, <3>1, <3>3 DEF RestoreStage
  <2> QED  BY <1>4, <1>6, <2>1, <2>2, <2>3 DEF Stage, Opens, Makes
<1>13. d \notin strayed => DirOk(d)'
  <2> SUFFICES ASSUME d \notin strayed PROVE DirOk(d)'
    OBVIOUS
  <2>1. cache'[d]["db"] = Absent => disk'[d]["db"] = {Absent}
    BY <1>7, FileNames DEF Exists
  <2>2. \A g \in KeyFiles : disk'[d][g] \subseteq {Absent, cache'[d][g]}
    BY <1>11 DEF Steady, Copied
  <2> QED  BY <1>9, <2>1, <2>2, MarkedDir
<1>18. d \in strayed => Stage(p)' /\ DirOk(d)'
  <2> SUFFICES ASSUME d \in strayed PROVE Stage(p)' /\ DirOk(d)'
    OBVIOUS
  <2>1. DirOk(d) /\ Gone(d)
    BY DEF IInv, DirOk
  <2>2. ~Exists(d, "db") => disk'[d]["db"] = disk[d]["db"]
    BY <1>7, <2>1, FileNames DEF Gone
  <2>3. Exists(d, "db") => Exists(d, "db")'
    BY <1>7 DEF Exists
  <2>4. DirOk(d)'
    BY <1>3, <1>7, <1>9, <2>1, <2>2, <2>3, StrayDir
  <2>5. Stage(p)'
    BY <1>3, <1>4, <1>6, StrayStage DEF Makes
  <2> QED  BY <2>4, <2>5
<1>14. \A f \in Files : cache'[d][f] \in disk'[d][f] /\ disk'[d][f] \subseteq disk[d][f]
  <2> SUFFICES ASSUME NEW f \in Files
               PROVE  cache'[d][f] \in disk'[d][f] /\ disk'[d][f] \subseteq disk[d][f]
    OBVIOUS
  <2>1. cache[d][f] \in disk[d][f] /\ cache'[d][f] = cache[d][f]
    BY <1>1, <1>7 DEF FilesOk
  <2>2. CASE f \notin Entries
    BY <1>7, <2>1, <2>2
  <2>3. CASE f \in Entries /\ Exists(d, f)
    BY <1>7, <2>1, <2>3 DEF Exists
  <2>4. CASE f \in Entries /\ ~Exists(d, f)
    <3>1. disk'[d][f] = {Absent} /\ cache[d][f] = Absent
      BY <1>7, <2>4 DEF Exists
    <3> QED  BY <2>1, <3>1
  <2> QED  BY <2>2, <2>3, <2>4
<1>15. NoNewToken
  <2>1. \A e \in Dirs : disk'[e]["db"] \subseteq disk[e]["db"]
    BY <1>7, <1>14, FileNames DEF OnlyIn
  <2> QED  BY <2>1, SameTokens
<1>16. \A f \in Files : cache'[d][f] \in disk'[d][f] /\ \A content \in disk'[d][f] : ContentOk(f, content)
  BY <1>1, <1>14 DEF FilesOk
<1>17. promised' \in [Dirs -> 0..MaxLength]
  BY <1>1, <1>3 DEF Typed
<1> QED  BY <1>2, <1>3, <1>5, <1>6, <1>7, <1>9, <1>10, <1>12, <1>13, <1>15, <1>16, <1>17, <1>18, MakerStep

\* The marker goes: what is in the directory now is what a power failure leaves.
LEMMA UnmarkKeeps ==
  ASSUME IInv, NEW p \in Procs, Unmark(p)
  PROVE  IInv'
<1>1. Typed /\ FilesOk /\ Exclusive /\ ProcOk(p) /\ Stage(p)
  BY DEF IInv, Typed
<1>2. PICK d \in Dirs : d = Dir(p) /\ proc[p].step \in Nat
  BY <1>1, ProcFields
<1>3. /\ At(p, "unmark") /\ Proceed(p) /\ Written(d, "marker", Absent)
      /\ finished' = finished /\ promised' = promised /\ bereft' = bereft /\ strayed' = strayed
  BY <1>2 DEF Unmark, history
<1>4. Makes(p) /\ proc[p].step = Last(p)
  BY <1>1, <1>3, Places
<1>5. /\ Last(p) \in {10, 12} /\ proc[p].step <= Last(p) /\ ~(proc[p].step < Last(p))
      /\ Making(p) /\ Made(p)
  BY <1>4 DEF Last, Making, Made
<1>6. /\ proc' \in [Procs -> {proc'[q] : q \in Procs}]
      /\ \A q \in Procs : q # p => proc'[q] = proc[q]
      /\ \A q \in Procs : ProcOk(q)'
      /\ proc'[p].cmd = proc[p].cmd /\ proc'[p].dir = d /\ Dir(p)' = d
      /\ proc'[p].step = Last(p) + 1 /\ Last(p)' = Last(p)
  BY <1>2, <1>3, <1>4, <1>5, MakerMoves DEF Dir
<1>7. /\ OnlyIn(d)
      /\ \A g \in Files : cache'[d][g] = IF g = "marker" THEN Absent ELSE cache[d][g]
      /\ \A g \in Files :
           disk'[d][g] = IF g = "marker" THEN disk[d]["marker"] \cup {Absent} ELSE disk[d][g]
  BY <1>1, <1>3, WrittenEffect, FileNames DEF Changed
<1>8. Exists(d, "dir")
  BY <1>1, <1>2, <1>5 DEF Exclusive
<1>9. /\ cache'[d]["dir"] = cache[d]["dir"] /\ cache'[d]["token"] = cache[d]["token"] /\ Exists(d, "dir")'
      /\ disk'[d]["token"] = disk[d]["token"] /\ cache'[d]["marker"] = Absent
  BY <1>7, <1>8, FileNames DEF Exists
<1>10. Exclusive'
  BY <1>2, <1>3, <1>5, <1>7, <1>9, MakerExclusive
<1>16. ASSUME d \notin strayed PROVE Stage(p)' /\ DirOk(d)'
  <2>11. Verified(d) /\ \A f \in Copied \cup {"manifest"} : Settled(d, f)
    <3>1. proc[p].cmd = "backup" => Verified(d)
      BY <1>1, <1>2, <1>4, <1>16 DEF Stage, BackupStage, Last, Makes
    <3>2. proc[p].cmd = "restore" => Verified(d)
      BY <1>1, <1>2, <1>4, <1>16 DEF Stage, RestoreStage, Last, Makes
    <3>3. \A f \in Copied \cup {"manifest"} : Settled(d, f)
      BY <1>1, <1>2, <1>4, <1>16 DEF Stage, MakeStage
    <3> QED  BY <1>4, <3>1, <3>2, <3>3 DEF Makes
  <2>12. \A f \in Copied \cup {"manifest"} :
           f \in Files /\ cache'[d][f] = cache[d][f] /\ disk'[d][f] = disk[d][f] /\ disk'[d][f] = {cache'[d][f]}
    BY <1>7, <2>11, FileNames DEF Settled
  <2>13. /\ cache'[d]["db"] = cache[d]["db"] /\ cache'[d]["author"] = cache[d]["author"]
         /\ cache'[d]["master"] = cache[d]["master"] /\ cache'[d]["manifest"] = cache[d]["manifest"]
         /\ disk'[d]["db"] = {cache[d]["db"]}
    BY <2>12, FileNames
  <2>14. /\ HasDb(d)' /\ Complete(DbOf(d))' /\ WholeKeys(d)' /\ OfOneDevice(d)' /\ Kept(d, d)'
         /\ KeysOf(d)' = KeysOf(d) /\ DbOf(d)' = DbOf(d)
    BY <1>3, <2>11, <2>13, FileNames DEF Verified, HasDb, DbOf, Kept, WholeKeys, OfOneDevice, KeysOf
  <2>15. Verified(d)'
    BY <2>14 DEF Verified
  <2>16. Stage(p)'
    <3>1. MakeStage(p)'
      <4>1. /\ ~(proc'[p].step \in {3, 4}) /\ ~(proc'[p].step <= Last(p)')
            /\ proc'[p].step # Last(p)' /\ ~(proc'[p].step \in 5..8)
        BY <1>5, <1>6
      <4> QED  BY <1>6, <4>1 DEF MakeStage, Making
    <3>2. proc'[p].cmd = "backup" => BackupStage(p)'
      <4> SUFFICES ASSUME proc[p].cmd = "backup" PROVE BackupStage(p)'
        BY <1>6
      <4>1. proc[p].step = 12 /\ proc'[p].step = 13
        BY <1>4, <1>6 DEF Last
      <4>2. ~DbOf(d).wal /\ cache[d]["manifest"] = Sealed(d)
        BY <1>1, <1>2, <1>16, <4>1 DEF Stage, BackupStage
      <4>3. Sealed(d)' = Sealed(d)
        BY <2>12 DEF Sealed
      <4>4. ~DbOf(d)'.wal /\ cache'[d]["manifest"] = Sealed(d)' /\ ~Exists(d, "marker")'
        BY <1>9, <2>13, <2>14, <4>2, <4>3 DEF Exists
      <4>5. \A f \in Copied \cup {"manifest"} : Settled(d, f)'
        BY <2>12 DEF Settled
      <4> QED  BY <1>6, <2>14, <2>15, <4>1, <4>4, <4>5 DEF BackupStage
    <3>3. proc'[p].cmd = "restore" => RestoreStage(p)'
      <4> SUFFICES ASSUME proc[p].cmd = "restore" PROVE RestoreStage(p)'
        BY <1>6
      <4>1. proc'[p].step = 11
        BY <1>4, <1>6 DEF Last
      <4> QED  BY <4>1 DEF RestoreStage
    <3> QED  BY <1>4, <1>6, <3>1, <3>2, <3>3 DEF Stage, Opens, Makes
  <2>17. DirOk(d)'
    <3>1. Gone(d)'
      BY <1>8, <1>9, <2>13, <2>14 DEF Gone, Exists, HasDb, Absent
    <3>2. ASSUME NEW f \in KeyFiles PROVE disk'[d][f] = {cache'[d][f]}
      BY <2>12 DEF Copied
    <3>3. KeysLast(d)'
      BY <3>2 DEF KeysLast, Steady
    <3>4. KeysOutlive(d)'
      BY <2>14, <3>2 DEF KeysOutlive, Settled
    <3>5. OneDevice(d)'
      BY <2>13, <2>14 DEF OneDevice, OfOneDevice, DbOf
    <3>6. PromiseKept(d)'
      BY <2>13, <2>14 DEF PromiseKept, Kept
    <3> QED  BY <3>1, <3>3, <3>4, <3>5, <3>6 DEF DirOk
  <2> QED  BY <2>16, <2>17
<1>17. ASSUME d \in strayed PROVE Stage(p)' /\ DirOk(d)'
  <2>1. cache'[d]["db"] = cache[d]["db"] /\ disk'[d]["db"] = disk[d]["db"] /\ DirOk(d)
    BY <1>7, FileNames DEF IInv
  <2>2. DirOk(d)'
    BY <1>3, <1>9, <1>17, <2>1, StrayDir
  <2>3. Stage(p)'
    BY <1>3, <1>4, <1>6, <1>17, StrayStage DEF Makes
  <2> QED  BY <2>2, <2>3
<1>18. NoNewToken
  <2>1. \A e \in Dirs : disk'[e]["db"] \subseteq disk[e]["db"]
    BY <1>7, FileNames DEF OnlyIn
  <2> QED  BY <2>1, SameTokens
<1>19. ASSUME NEW f \in Files
       PROVE  cache'[d][f] \in disk'[d][f] /\ \A content \in disk'[d][f] : ContentOk(f, content)
  <2>1. CASE f = "marker"
    BY <1>7, <2>1, FileNames DEF ContentOk
  <2>2. CASE f # "marker"
    BY <1>1, <1>7, <2>2 DEF FilesOk
  <2> QED  BY <2>1, <2>2
<1>20. promised' \in [Dirs -> 0..MaxLength]
  BY <1>1, <1>3 DEF Typed
<1> QED  BY <1>2, <1>3, <1>5, <1>6, <1>7, <1>9, <1>10, <1>16, <1>17, <1>18, <1>19, <1>20, MakerStep

\* A step that makes durable what processes see, and changes nothing of it.
Shrunk ==
  /\ cache' = cache
  /\ \A e \in Dirs, f \in Files : disk'[e][f] \subseteq disk[e][f] /\ cache[e][f] \in disk'[e][f]
  /\ \A e \in Dirs : disk'[e]["token"] = disk[e]["token"]

LEMMA StageShrunk ==
  ASSUME NEW q \in Procs, ProcOk(q), Stage(q), proc'[q] = proc[q], Shrunk, promised' = promised,
         strayed' = strayed
  PROVE  Stage(q)'
<1>1. PICK d \in Dirs, s \in Dirs : d = Dir(q) /\ s = Src(q)
  BY ProcFields
<1>2. Dir(q)' = d /\ Src(q)' = s /\ Making(q)' = Making(q) /\ Last(q)' = Last(q) /\ OpenStep(q)' = OpenStep(q)
  BY <1>1 DEF Dir, Src, Making, Made, Makes, Last, OpenStep
<1>3. /\ \A f \in Files : cache'[d][f] = cache[d][f] /\ cache[d][f] \in disk'[d][f] /\ disk'[d][f] \subseteq disk[d][f]
      /\ disk'[d]["token"] = disk[d]["token"] /\ cache' = cache
  BY DEF Shrunk
<1>4. ASSUME NEW f \in Files
      PROVE  /\ disk[d][f] = {Absent} => disk'[d][f] = {Absent}
             /\ disk[d][f] \subseteq {Absent, cache[d][f]} => disk'[d][f] \subseteq {Absent, cache'[d][f]}
             /\ disk[d][f] = {cache[d][f]} => disk'[d][f] = {cache'[d][f]}
             /\ IsKey(d, f)' = IsKey(d, f) /\ Exists(d, f)' = Exists(d, f)
  <2>1. cache'[d][f] = cache[d][f] /\ cache[d][f] \in disk'[d][f] /\ disk'[d][f] \subseteq disk[d][f]
    BY <1>3
  <2> QED  BY <2>1 DEF IsKey, Exists
<1>5. /\ HasDb(d)' = HasDb(d) /\ DbOf(d)' = DbOf(d) /\ WholeKeys(d)' = WholeKeys(d) /\ KeysOf(d)' = KeysOf(d)
      /\ Kept(d, d)' = Kept(d, d) /\ Kept(d, s)' = Kept(d, s) /\ Sealed(d)' = Sealed(d)
      /\ KeysIfDatabase(d)' = KeysIfDatabase(d) /\ OfOneDevice(d)' = OfOneDevice(d)
  BY <1>3 DEF HasDb, DbOf, WholeKeys, KeysOf, Kept, Sealed, KeysIfDatabase, Exists, OfOneDevice
<1>6. Verified(d)' = Verified(d)
  BY <1>5 DEF Verified
<1>7. NobodyHas(d) => NobodyHas(d)'
  <2>1. \A e \in Dirs : disk'[e]["db"] \subseteq disk[e]["db"]
    BY FileNames DEF Shrunk
  <2> QED  BY <2>1 DEF NobodyHas
<1>8. Entries \subseteq Files /\ Copied \cup {"manifest"} \subseteq Files /\ "marker" \in Files
      /\ "author" \in Files /\ "master" \in Files /\ "db" \in Files
  BY FileNames
<1>10. proc[q].cmd = "register" => TokenStage(q)'
  <2> SUFFICES ASSUME proc[q].cmd = "register" PROVE TokenStage(q)'
    OBVIOUS
  <2>1. TokenStage(q)
    BY DEF Stage
  <2> QED  BY <1>1, <1>2, <1>3, <1>7, <2>1 DEF TokenStage
<1>9. ASSUME d \notin strayed
      PROVE  /\ proc[q].cmd \in {"init", "register"} => KeysStage(q)'
             /\ proc[q].cmd = "serve" => ServeStage(q)'
             /\ Opens(q) => OpenStage(q)'
             /\ Makes(q) => MakeStage(q)'
             /\ proc[q].cmd = "backup" => BackupStage(q)'
             /\ proc[q].cmd = "restore" => RestoreStage(q)'
  <2>0. Dir(q) \notin strayed
    BY <1>1, <1>9
  <2>9. proc[q].cmd \in {"init", "register"} => KeysStage(q)'
    <3> SUFFICES ASSUME proc[q].cmd \in {"init", "register"} PROVE KeysStage(q)'
      OBVIOUS
    <3>1. KeysStage(q)
      BY <2>0 DEF Stage
    <3> QED  BY <1>1, <1>2, <1>3, <1>4, <1>5, <1>8, <3>1 DEF KeysStage
  <2>11. Opens(q) => OpenStage(q)'
    BY <1>1, <1>2, <1>5, <2>0 DEF Stage, OpenStage
  <2>12. proc[q].cmd = "serve" => ServeStage(q)'
    BY <1>1, <1>2, <1>5, <2>0 DEF Stage, ServeStage
  <2>13. Makes(q) => MakeStage(q)'
    <3> SUFFICES ASSUME Makes(q) PROVE MakeStage(q)'
      OBVIOUS
    <3>1. MakeStage(q)
      BY <2>0 DEF Stage
    <3>2. \A f \in Entries : f \in Files
      BY <1>8
    <3>3. \A f \in Copied \cup {"manifest"} : f \in Files
      BY <1>8
    <3> QED  BY <1>1, <1>2, <1>4, <3>1, <3>2, <3>3 DEF MakeStage, Steady, Settled
  <2>14. proc[q].cmd = "backup" => BackupStage(q)'
    <3> SUFFICES ASSUME proc[q].cmd = "backup" PROVE BackupStage(q)'
      OBVIOUS
    <3>1. BackupStage(q)
      BY <2>0 DEF Stage
    <3>2. \A f \in Copied \cup {"manifest"} : f \in Files
      BY <1>8
    <3>3. \A f \in Copied \cup {"manifest"} : Settled(d, f) => Settled(d, f)'
      BY <1>4, <3>2 DEF Settled
    <3>4. cache'[d]["manifest"] = cache[d]["manifest"] /\ Exists(d, "marker")' = Exists(d, "marker")
      BY <1>3 DEF Exists
    <3> QED  BY <1>1, <1>2, <1>5, <1>6, <3>1, <3>3, <3>4 DEF BackupStage
  <2>15. proc[q].cmd = "restore" => RestoreStage(q)'
    BY <1>1, <1>2, <1>5, <1>6, <2>0 DEF Stage, RestoreStage
  <2> QED  BY <2>9, <2>11, <2>12, <2>13, <2>14, <2>15
<1> QED  BY <1>2, <1>9, <1>10 DEF Stage, Opens, Makes

LEMMA DirShrunk ==
  ASSUME NEW d \in Dirs, DirOk(d), Shrunk, promised' = promised, bereft' = bereft, strayed' = strayed,
         \A f \in KeyFiles : Syncing(d, f) => Syncing(d, f)'
  PROVE  DirOk(d)'
<1>1. ASSUME NEW f \in Files
      PROVE  /\ disk[d][f] = {Absent} => disk'[d][f] = {Absent}
             /\ disk[d][f] \subseteq {Absent, cache[d][f]} => disk'[d][f] \subseteq {Absent, cache'[d][f]}
             /\ disk[d][f] = {cache[d][f]} => disk'[d][f] = {cache'[d][f]}
             /\ disk'[d][f] \subseteq disk[d][f]
  <2>1. cache'[d][f] = cache[d][f] /\ cache[d][f] \in disk'[d][f] /\ disk'[d][f] \subseteq disk[d][f]
    BY DEF Shrunk
  <2> QED  BY <2>1
<1>2. cache' = cache
  BY DEF Shrunk
<1>3. \A f \in Entries \cup KeyFiles \cup {"db", "marker"} : f \in Files
  BY FileNames
<1>4. Gone(d)'
  BY <1>1, <1>2, <1>3 DEF DirOk, Gone, Exists
<1>5. d \notin strayed => KeysLast(d)'
  BY <1>1, <1>2, <1>3 DEF DirOk, KeysLast, IsKey, Steady
<1>6. ASSUME d \notin strayed, Unmarked(d)' PROVE KeysOutlive(d)' /\ OneDevice(d)' /\ PromiseKept(d)'
  <2>1. KeysOutlive(d) /\ OneDevice(d) /\ PromiseKept(d)
    BY <1>1, <1>3, <1>6 DEF DirOk, Unmarked
  <2>2. disk'[d]["db"] \subseteq disk[d]["db"] /\ WholeKeys(d)' = WholeKeys(d) /\ KeysOf(d)' = KeysOf(d)
    BY <1>1, <1>2, <1>3 DEF WholeKeys, KeysOf
  <2>3. KeysOutlive(d)'
    BY <1>1, <1>3, <2>1, <2>2 DEF KeysOutlive, Settled
  <2> QED  BY <2>1, <2>2, <2>3 DEF OneDevice, PromiseKept
<1> QED  BY <1>4, <1>5, <1>6 DEF DirOk

\* finish_destination: that the marker is gone is durable, and a backup is reported.
LEMMA FinishKeeps ==
  ASSUME IInv, NEW p \in Procs, Finish(p)
  PROVE  IInv'
<1>1. /\ Typed /\ FilesOk /\ Exclusive /\ ProcOk(p) /\ Stage(p) /\ TokensOk /\ FinishedBackupSurvives
      /\ LeftAlone /\ Strays /\ finished \subseteq Dirs /\ \A q \in Procs : ProcOk(q)
  BY DEF IInv, Typed
<1>2. PICK d \in Dirs : d = Dir(p) /\ proc[p].step \in Nat
  BY <1>1, ProcFields
<1>3. /\ At(p, "finish") /\ Running(p) /\ Proceed(p) /\ SyncDir(d, Entries \cup {"dir"})
      /\ finished' = finished \cup (IF proc[p].cmd = "backup" THEN {d} ELSE {})
      /\ promised' = promised /\ bereft' = bereft /\ strayed' = strayed
  BY <1>2 DEF Finish, At
<1>4. Makes(p) /\ proc[p].step = Last(p) + 1
  BY <1>1, <1>3, Places
<1>5. Made(p) /\ proc[p].cmd # "none"
  BY <1>4 DEF Made, Makes, Last
<1>6. /\ proc' \in [Procs -> {proc'[q] : q \in Procs}]
      /\ \A q \in Procs : q # p => proc'[q] = proc[q]
      /\ \A q \in Procs : ProcOk(q)'
      /\ proc'[p] = Idle
  <2>1. proc[p].step + 1 > Size(proc[p].cmd)
    BY <1>4, LengthOfProgram DEF Makes, Last
  <2>2. proc' = [proc EXCEPT ![p] = Idle]
    BY <1>3, <2>1 DEF Proceed, Advanced, Size
  <2> QED  BY <1>1, <2>2, Ended
<1>7. /\ OnlyIn(d) /\ cache' = cache
      /\ \A g \in Files :
           disk'[d][g] = IF g \notin Entries \cup {"dir"} THEN disk[d][g]
                         ELSE IF Exists(d, g) THEN disk[d][g] \ {Absent} ELSE {Absent}
  <2>1. Entries \cup {"dir"} \in SUBSET Files
    BY FileNames
  <2> QED  BY <1>1, <1>3, <2>1, SyncDirEffect, ZenonT(60) DEF SyncDir
<1>8. Shrunk
  <2>1. ASSUME NEW e \in Dirs, NEW f \in Files
        PROVE  disk'[e][f] \subseteq disk[e][f] /\ cache[e][f] \in disk'[e][f]
    <3>1. cache[e][f] \in disk[e][f]
      BY <1>1 DEF FilesOk
    <3>2. CASE e # d
      BY <1>7, <3>1, <3>2 DEF OnlyIn
    <3>3. CASE e = d /\ f \notin Entries \cup {"dir"}
      BY <1>7, <3>1, <3>3
    <3>4. CASE e = d /\ f \in Entries \cup {"dir"} /\ Exists(d, f)
      BY <1>7, <3>1, <3>4 DEF Exists
    <3>5. CASE e = d /\ f \in Entries \cup {"dir"} /\ ~Exists(d, f)
      <4>1. disk'[d][f] = {Absent} /\ cache[d][f] = Absent
        BY <1>7, <3>5 DEF Exists
      <4> QED  BY <3>1, <3>5, <4>1
    <3> QED  BY <3>2, <3>3, <3>4, <3>5
  <2>2. ASSUME NEW e \in Dirs PROVE disk'[e]["token"] = disk[e]["token"]
    BY <1>7, FileNames DEF OnlyIn
  <2> QED  BY <1>7, <2>1, <2>2 DEF Shrunk
<1>9. Typed'
  <2>1. FilesOk'
    <3>1. Grid(cache') /\ Grid(disk')
      BY <1>7 DEF OnlyIn
    <3>2. \A e \in Dirs, f \in Files : cache'[e][f] \in disk'[e][f]
      BY <1>8 DEF Shrunk
    <3>3. \A e \in Dirs, f \in Files : \A content \in disk'[e][f] : ContentOk(f, content)
      BY <1>1, <1>8 DEF FilesOk, Shrunk
    <3> QED  BY <3>1, <3>2, <3>3 DEF FilesOk, Grid
  <2>2. /\ promised' \in [Dirs -> 0..MaxLength] /\ finished' \subseteq Dirs
        /\ bereft' \subseteq Dirs /\ strayed' \subseteq Dirs
    BY <1>1, <1>3 DEF Typed
  <2> QED  BY <1>6, <2>1, <2>2 DEF Typed
<1>17. proc[p].cmd = "backup" => d \notin strayed
  BY <1>1, <1>2, <1>5 DEF Exclusive
<1>10. Exclusive'
  <2>1. proc'[p].cmd = "none"
    BY <1>6 DEF Idle
  <2>2. \A e \in Dirs :
          /\ Exists(e, "dir") => Exists(e, "dir")'
          /\ Exists(e, "marker")' = Exists(e, "marker")
          /\ Absent \notin disk[e]["marker"] => Absent \notin disk'[e]["marker"]
          /\ WholeKeys(e) => WholeKeys(e)' \/ e \in strayed
    BY <1>8, FileNames DEF Shrunk, Exists, WholeKeys
  <2> QED  BY <1>1, <1>3, <1>6, <2>1, <2>2, ExclusiveKept
<1>11. ASSUME NEW q \in Procs PROVE Stage(q)'
  <2>1. CASE q = p
    BY <1>6, <2>1 DEF Stage, Idle, Opens, Makes
  <2>2. CASE q # p
    <3>1. Stage(q)
      BY DEF IInv
    <3> QED  BY <1>1, <1>3, <1>6, <1>8, <2>2, <3>1, StageShrunk
  <2> QED  BY <2>1, <2>2
<1>12. ASSUME NEW e \in Dirs PROVE DirOk(e)'
  <2>1. ASSUME NEW f \in KeyFiles, Syncing(e, f) PROVE Syncing(e, f)'
    BY <1>4, <1>6, <2>1, SyncingKept DEF Makes
  <2>2. DirOk(e)
    BY DEF IInv
  <2> QED  BY <1>3, <1>8, <2>1, <2>2, DirShrunk
<1>13. TokensOk'
  <2>1. NoNewToken
    <3>1. \A e \in Dirs : disk'[e]["db"] \subseteq disk[e]["db"]
      BY <1>8, FileNames DEF Shrunk
    <3> QED  BY <3>1, SameTokens
  <2> QED  BY <1>1, <1>8, <2>1, TokensKept DEF Shrunk
<1>14. d \notin finished
  BY <1>1, <1>2, <1>5 DEF LeftAlone
<1>15. FinishedBackupSurvives'
  <2> SUFFICES ASSUME NEW e \in finished'
               PROVE  /\ \A f \in Entries \cup {"dir"} : disk'[e][f] = {cache'[e][f]}
                      /\ ~Exists(e, "marker")' /\ Genuine(e, e)'
    BY DEF FinishedBackupSurvives
  <2>1. CASE e \in finished
    <3>1. e # d /\ e \in Dirs /\ cache' = cache /\ disk'[e] = disk[e]
      BY <1>1, <1>7, <1>14, <2>1 DEF OnlyIn
    <3>2. /\ \A f \in Entries \cup {"dir"} : disk[e][f] = {cache[e][f]}
          /\ ~Exists(e, "marker") /\ Genuine(e, e)
      BY <1>1, <2>1 DEF FinishedBackupSurvives
    <3>3. Genuine(e, e)' = Genuine(e, e) /\ Exists(e, "marker")' = Exists(e, "marker")
      BY <3>1 DEF Genuine, Exists, Sealed, WholeKeys, DbOf, OfOneDevice, KeysOf
    <3> QED  BY <3>1, <3>2, <3>3
  <2>2. CASE e \notin finished
    <3>1. e = d /\ proc[p].cmd = "backup" /\ proc[p].step = 13
      BY <1>3, <1>4, <2>2 DEF Last
    <3>2. /\ cache[d]["manifest"] = Sealed(d) /\ Verified(d) /\ ~Exists(d, "marker")
          /\ \A f \in Copied \cup {"manifest"} : Settled(d, f)
      BY <1>1, <1>2, <1>17, <3>1 DEF Stage, BackupStage
    <3>3. Genuine(d, d)' /\ ~Exists(d, "marker")'
      <4>1. Genuine(d, d)
        BY <3>2 DEF Genuine, Verified, HasDb
      <4>2. Genuine(d, d)' = Genuine(d, d) /\ Exists(d, "marker")' = Exists(d, "marker")
        BY <1>7 DEF Genuine, Exists, Sealed, WholeKeys, DbOf, OfOneDevice, KeysOf
      <4> QED  BY <3>2, <4>1, <4>2
    <3>4. ASSUME NEW f \in Entries \cup {"dir"} PROVE disk'[d][f] = {cache'[d][f]}
      <4>0. f \in Files /\ cache'[d][f] = cache[d][f] /\ cache[d][f] \in disk'[d][f] /\ disk'[d][f] \subseteq disk[d][f]
        <5>1. f \in Files
          BY FileNames
        <5> QED  BY <1>8, <5>1 DEF Shrunk
      <4>1. CASE f \in Copied \cup {"manifest"}
        <5>1. disk[d][f] = {cache[d][f]}
          BY <3>2, <4>1 DEF Settled
        <5> QED  BY <4>0, <5>1
      <4>2. CASE f = "marker"
        <5>1. disk'[d][f] = {Absent} /\ cache[d][f] = Absent
          BY <1>7, <3>2, <4>0, <4>2 DEF Exists
        <5> QED  BY <4>0, <5>1
      <4>3. CASE f = "dir"
        <5>1. Exists(d, "dir")
          BY <1>1, <1>2, <1>5 DEF Exclusive
        <5>2. disk'[d][f] = disk[d][f] \ {Absent}
          BY <1>7, <4>0, <4>3, <5>1
        <5>3. \A content \in disk[d][f] : content \in {Absent, Plain}
          BY <1>1, <4>0, <4>3 DEF FilesOk, ContentOk
        <5> QED  BY <4>0, <5>2, <5>3
      <4> QED  BY <4>1, <4>2, <4>3, FileNames
    <3> QED  BY <3>1, <3>3, <3>4
  <2> QED  BY <2>1, <2>2
<1>16. LeftAlone'
  <2> SUFFICES ASSUME NEW q \in Procs, Using(q)' \/ Made(q)'
               PROVE  Dir(q)' \notin finished'
    BY DEF LeftAlone
  <2>1. q # p
    BY <1>6 DEF Using, Made, Opens, Makes, Idle
  <2>2. (Using(q) \/ Made(q)) /\ Dir(q)' = Dir(q) /\ proc[q].cmd # "none"
    BY <1>6, <2>1 DEF Using, Made, Opens, Makes, OpenStep, Dir
  <2>3. Dir(q) \notin finished
    BY <1>1, <2>2 DEF LeftAlone
  <2>4. proc[p].cmd = "backup" => Dir(q) # d
    BY <1>1, <1>2, <2>1, <2>2 DEF Exclusive
  <2> QED  BY <1>3, <2>2, <2>3, <2>4
<1>18. Strays'
  <2> SUFFICES ASSUME NEW e \in strayed PROVE Exists(e, "dir")' /\ e \notin finished'
    BY <1>3 DEF Strays
  <2>1. Exists(e, "dir") /\ e \notin finished
    BY <1>1 DEF Strays
  <2> QED  BY <1>3, <1>7, <1>17, <2>1 DEF Exists
<1> QED  BY <1>9, <1>10, <1>11, <1>12, <1>13, <1>15, <1>16, <1>18 DEF IInv

\* The look for the marker: the directory is there afterwards.
LEMMA CheckMarkerKeeps ==
  ASSUME IInv, NEW p \in Procs, CheckMarker(p)
  PROVE  IInv'
<1>1. /\ Typed /\ FilesOk /\ Exclusive /\ ProcOk(p) /\ TokensOk /\ FinishedBackupSurvives
      /\ LeftAlone /\ Strays /\ finished \subseteq Dirs /\ \A q \in Procs : ProcOk(q)
  BY DEF IInv, Typed
<1>2. PICK d \in Dirs : d = Dir(p) /\ proc[p].step \in Nat
  BY <1>1, ProcFields
<1>3. /\ At(p, "check") /\ Running(p) /\ Allowed(p) /\ Proceed(p)
      /\ IF Exists(d, "dir") THEN cache' = cache /\ disk' = disk ELSE Written(d, "dir", Plain)
      /\ strayed' = strayed \cup {e \in {d} : \E q \in Procs : At(q, "mark") /\ Dir(q) = e}
      /\ finished' = finished /\ promised' = promised /\ bereft' = bereft
  BY <1>2 DEF CheckMarker, At
<1>4. Opens(p) /\ proc[p].step = 1 /\ cache[d]["marker"] = Absent
  BY <1>1, <1>2, <1>3, Places DEF Allowed, Exists
<1>5. /\ proc' \in [Procs -> {proc'[q] : q \in Procs}]
      /\ \A q \in Procs : q # p => proc'[q] = proc[q]
      /\ \A q \in Procs : ProcOk(q)'
      /\ proc'[p].cmd = proc[p].cmd /\ proc'[p].dir = d /\ proc'[p].src = Src(p)
      /\ proc'[p].step = 2 /\ Dir(p)' = d /\ Src(p)' = Src(p)
  <2>1. proc[p].step + 1 <= Size(proc[p].cmd)
    BY <1>4, LengthOfProgram DEF Opens
  <2>2. /\ proc' \in [Procs -> {proc'[q] : q \in Procs}]
        /\ \A q \in Procs : q # p => proc'[q] = proc[q]
        /\ \A q \in Procs : ProcOk(q)'
        /\ proc'[p].cmd = proc[p].cmd /\ proc'[p].dir = proc[p].dir /\ proc'[p].src = proc[p].src
        /\ proc'[p].step = proc[p].step + 1
    BY <1>1, <1>3, <2>1, Advance DEF Proceed
  <2> QED  BY <1>2, <1>4, <2>2 DEF Dir, Src
<1>6. /\ Grid(cache') /\ Grid(disk') /\ \A e \in Dirs : e # d => cache'[e] = cache[e] /\ disk'[e] = disk[e]
      /\ \A g \in Files : cache'[d][g] = IF g = "dir" THEN Plain ELSE cache[d][g]
      /\ \A g \in Files : g # "dir" => disk'[d][g] = disk[d][g]
      /\ Exists(d, "dir") => cache'[d] = cache[d] /\ disk'[d] = disk[d]
      /\ disk'[d]["dir"] \subseteq disk[d]["dir"] \cup {Plain} /\ Plain \in disk'[d]["dir"]
  <2>1. "dir" \in Files
    BY FileNames
  <2>2. CASE Exists(d, "dir")
    <3>1. cache' = cache /\ disk' = disk /\ cache[d]["dir"] # Absent
      BY <1>3, <2>2 DEF Exists
    <3>2. cache[d]["dir"] \in disk[d]["dir"] /\ ContentOk("dir", cache[d]["dir"])
      BY <1>1, <2>1 DEF FilesOk
    <3>3. cache[d]["dir"] = Plain
      BY <3>1, <3>2 DEF ContentOk
    <3>4. Grid(cache') /\ Grid(disk')
      BY <1>1, <3>1 DEF FilesOk
    <3> QED  BY <3>1, <3>2, <3>3, <3>4
  <2>3. CASE ~Exists(d, "dir")
    <3>1. Written(d, "dir", Plain)
      BY <1>3, <2>3
    <3>2. /\ OnlyIn(d)
          /\ \A g \in Files : cache'[d][g] = IF g = "dir" THEN Plain ELSE cache[d][g]
          /\ \A g \in Files : disk'[d][g] = IF g = "dir" THEN disk[d]["dir"] \cup {Plain} ELSE disk[d][g]
      BY <1>1, <3>1, WrittenEffect, FileNames DEF Changed
    <3> QED  BY <2>1, <2>3, <3>2 DEF OnlyIn
  <2> QED  BY <2>2, <2>3
<1>7. \A e \in Dirs, f \in Files : f # "dir" => cache'[e][f] = cache[e][f] /\ disk'[e][f] = disk[e][f]
  BY <1>6
<1>8. \A e \in Dirs, f \in Entries \cup {"token"} : cache'[e][f] = cache[e][f] /\ disk'[e][f] = disk[e][f]
  BY <1>7, FileNames
<1>9. cache'[d]["dir"] = Plain /\ Plain # Absent
  BY <1>6, FileNames DEF Plain, Absent
<1>10. \A e \in Dirs : cache[e]["dir"] # Absent => cache'[e]["dir"] # Absent
  BY <1>6, <1>9
<1>11. Typed'
  <2>1. ASSUME NEW e \in Dirs, NEW f \in Files
        PROVE  cache'[e][f] \in disk'[e][f] /\ \A content \in disk'[e][f] : ContentOk(f, content)
    <3>1. CASE e = d /\ f = "dir"
      <4>1. \A content \in disk[d]["dir"] : ContentOk("dir", content)
        BY <1>1, FileNames DEF FilesOk
      <4> QED  BY <1>6, <1>9, <3>1, <4>1 DEF ContentOk
    <3>2. CASE ~(e = d /\ f = "dir")
      <4>1. cache'[e][f] = cache[e][f] /\ disk'[e][f] = disk[e][f]
        BY <1>6, <3>2
      <4> QED  BY <1>1, <4>1 DEF FilesOk
    <3> QED  BY <3>1, <3>2
  <2>2. FilesOk'
    BY <1>6, <2>1 DEF FilesOk, Grid
  <2>3. /\ promised' \in [Dirs -> 0..MaxLength] /\ finished' \subseteq Dirs
        /\ bereft' \subseteq Dirs /\ strayed' \subseteq Dirs
    BY <1>1, <1>3 DEF Typed
  <2> QED  BY <1>5, <2>2, <2>3 DEF Typed
<1>12. /\ ~Locks(p)' /\ ~Made(p)' /\ ~Making(p)' /\ ~Reads(p)' /\ ~Using(p)' /\ proc'[p].cmd # "backup"
       /\ proc[p].cmd # "none" /\ proc'[p].cmd # "none"
  BY <1>4, <1>5 DEF Locks, Made, Making, Reads, Makes, Using, Opens, OpenStep
<1>19. ASSUME NEW q \in Procs, Making(q), Dir(q) = d PROVE d \in strayed'
  <2>1. proc[q].step \in Nat /\ proc[q].step > 2 /\ Makes(q)
    BY <1>1, <1>19 DEF ProcOk, Making, Made
  <2>2. CASE proc[q].step = 3
    <3>1. At(q, "mark")
      BY <1>1, <2>1, <2>2, Places
    <3> QED  BY <1>3, <1>19, <3>1
  <2>3. CASE proc[q].step > 3
    BY <1>1, <1>4, <1>19, <2>3 DEF Exclusive, Exists
  <2> QED  BY <2>1, <2>2, <2>3
<1>20. \A q \in Procs : proc[q].cmd = "backup" => Dir(q) # d
  <2>1. proc[p].cmd # "backup"
    BY <1>4 DEF Opens
  <2> QED  BY <1>1, <1>2, <1>12, <2>1 DEF Exclusive
\* A restore has just made a directory that becomes strayed, and nobody reads it.
<1>21. ASSUME d \in strayed', d \notin strayed
       PROVE  d \notin finished /\ \A q \in Procs : Reads(q) => Src(q) # d
  <2>1. PICK q \in Procs : At(q, "mark") /\ Dir(q) = d
    BY <1>3, <1>21
  <2>2. Makes(q) /\ proc[q].step = 3
    BY <1>1, <2>1, Places
  <2>3. Made(q) /\ Making(q)
    BY <2>2 DEF Made, Making, Last
  <2>4. d \notin finished
    BY <1>1, <2>1, <2>3 DEF LeftAlone
  <2>5. \A r \in Procs : Reads(r) => Src(r) # d
    BY <1>1, <1>21, <2>1, <2>3 DEF Exclusive
  <2> QED  BY <2>4, <2>5
<1>22. strayed \subseteq strayed' /\ strayed' \subseteq strayed \cup {d}
  BY <1>3
<1>13. Exclusive'
  <2>1. \A q \in Procs : Making(q) => Dir(q) # d \/ d \in strayed'
    BY <1>19
  <2>3. ASSUME NEW q \in Procs
        PROVE  /\ Claims(q) => cache'[Dir(q)]["marker"] = Absent \/ Dir(q) \in strayed'
               /\ Made(q) /\ proc[q].cmd = "backup" => Dir(q) \notin strayed'
               /\ Making(q) /\ proc[q].step > 3 => cache'[Dir(q)]["marker"] # Absent
               /\ Making(q) /\ proc[q].step > 4 => Absent \notin disk'[Dir(q)]["marker"]
    <3>1. Dir(q) \in Dirs
      BY <1>1, ProcFields
    <3>2. cache'[Dir(q)]["marker"] = cache[Dir(q)]["marker"] /\ disk'[Dir(q)]["marker"] = disk[Dir(q)]["marker"]
      BY <1>8, <3>1, FileNames
    <3>3. Made(q) /\ proc[q].cmd = "backup" => Dir(q) \notin strayed'
      BY <1>1, <1>20, <1>22 DEF Exclusive
    <3>4. Claims(q) => cache[Dir(q)]["marker"] = Absent \/ Dir(q) \in strayed'
      BY <1>1, <1>22 DEF Exclusive, Exists
    <3>5. /\ Making(q) /\ proc[q].step > 3 => cache[Dir(q)]["marker"] # Absent
          /\ Making(q) /\ proc[q].step > 4 => Absent \notin disk[Dir(q)]["marker"]
      BY <1>1 DEF Exclusive, Exists
    <3> QED  BY <3>2, <3>3, <3>4, <3>5
  <2>4. \A e \in Dirs : WholeKeys(e) => WholeKeys(e)'
    BY <1>8, FileNames DEF WholeKeys
  <2>5. cache'[d]["marker"] = Absent
    BY <1>4, <1>8, FileNames
  <2> QED  BY <1>1, <1>5, <1>9, <1>10, <1>12, <1>20, <1>22, <2>1, <2>3, <2>4, <2>5, ExclusiveMoved
<1>14. ASSUME NEW q \in Procs PROVE Stage(q)'
  <2>1. CASE q = p
    <3>1. ~Makes(p)'
      BY <1>4, <1>5 DEF Opens, Makes
    <3> QED  BY <1>5, <2>1, <3>1, FreshStage
  <2>2. CASE q # p
    <3>1. Stage(q)
      BY DEF IInv
    <3>2. NotNewlyStrayed(q)
      <4>1. Made(q) => Reads(q)
        BY <1>1 DEF Made, Reads, ProcOk
      <4> QED  BY <1>21, <1>22, <4>1 DEF NotNewlyStrayed
    <3> QED  BY <1>1, <1>3, <1>5, <1>8, <1>22, <2>2, <3>1, <3>2, StageSame
  <2> QED  BY <2>1, <2>2
<1>15. ASSUME NEW e \in Dirs PROVE DirOk(e)'
  <2>1. ASSUME NEW f \in KeyFiles, Syncing(e, f) PROVE Syncing(e, f)'
    BY <1>4, <1>5, <2>1, SyncingKept
  <2>2. DirOk(e)
    BY DEF IInv
  <2>3. disk'[e]["marker"] = disk[e]["marker"]
    BY <1>8, FileNames
  <2> QED  BY <1>3, <1>8, <1>10, <1>22, <2>1, <2>2, <2>3, DirKept
<1>16. TokensOk'
  <2>1. NoNewToken
    <3>1. \A e \in Dirs : disk'[e]["db"] \subseteq disk[e]["db"]
      BY <1>7, FileNames
    <3> QED  BY <3>1, SameTokens
  <2>2. \A e \in Dirs : disk'[e]["token"] = disk[e]["token"]
    BY <1>7, FileNames
  <2> QED  BY <1>1, <2>1, <2>2, TokensKept
<1>17. FinishedBackupSurvives'
  <2>1. ASSUME NEW e \in finished, NEW f \in Entries \cup {"dir"}
        PROVE  cache'[e][f] = cache[e][f] /\ disk'[e][f] = disk[e][f]
    <3>1. e \in Dirs
      BY <1>1
    <3>2. CASE f # "dir" \/ e # d
      BY <1>6, <1>8, <3>1, <3>2
    <3>3. CASE f = "dir" /\ e = d
      <4>1. disk[d]["dir"] = {cache[d]["dir"]} /\ Genuine(d, d)
        BY <1>1, <3>3, <2>1 DEF FinishedBackupSurvives
      <4>2. cache[d]["author"] # Absent /\ cache[d]["author"] \in disk[d]["author"]
        BY <1>1, <4>1, FileNames DEF Genuine, WholeKeys, Absent, FilesOk
      <4>3. DirOk(d)
        BY DEF IInv
      <4>4. cache[d]["dir"] # Absent
        BY <4>2, <4>3, FileNames DEF DirOk, Gone, Exists
      <4> QED  BY <1>6, <3>3, <4>4 DEF Exists
    <3> QED  BY <3>2, <3>3
  <2> QED  BY <1>1, <1>3, <2>1, FinishedKept
<1>18. LeftAlone'
  BY <1>1, <1>3, <1>5, <1>12, LeftAloneKept
<1>23. Strays'
  <2> SUFFICES ASSUME NEW e \in strayed' PROVE Exists(e, "dir")' /\ e \notin finished'
    BY DEF Strays
  <2>1. CASE e \in strayed
    <3>1. Exists(e, "dir") /\ e \notin finished /\ e \in Dirs
      BY <1>1, <2>1 DEF Strays, Typed
    <3> QED  BY <1>3, <1>10, <3>1 DEF Exists
  <2>2. CASE e \notin strayed
    <3>1. e = d /\ d \notin finished
      BY <1>21, <1>22, <2>2
    <3> QED  BY <1>3, <1>9, <3>1 DEF Exists
  <2> QED  BY <2>1, <2>2
<1> QED  BY <1>11, <1>13, <1>14, <1>15, <1>16, <1>17, <1>18, <1>23 DEF IInv

-----------------------------------------------------------------------------
(* What may go wrong                                                       *)

\* What is left of a directory: its files, each as the disk may have it, or none of them.
LEMMA OutcomeOk ==
  ASSUME NEW d \in Dirs, NEW o \in Outcomes(d)
  PROVE  /\ o = [f \in Files |-> o[f]]
         /\ o["token"] \in disk[d]["token"] /\ o["dir"] \in disk[d]["dir"]
         /\ \/ o["dir"] = Plain /\ \A f \in Entries : o[f] \in disk[d][f]
            \/ o["dir"] = Absent /\ \A f \in Entries : o[f] = Absent
<1>1. o["dir"] \in disk[d]["dir"]
  BY DEF Outcomes
<1>2. CASE \E author \in disk[d]["author"], master \in disk[d]["master"], db \in disk[d]["db"],
              marker \in disk[d]["marker"], manifest \in disk[d]["manifest"], token \in disk[d]["token"] :
             o = [Nothing EXCEPT !["dir"] = Plain, !["author"] = author, !["master"] = master, !["db"] = db,
                                 !["marker"] = marker, !["manifest"] = manifest, !["token"] = token]
  <2>1. PICK author \in disk[d]["author"], master \in disk[d]["master"], db \in disk[d]["db"],
              marker \in disk[d]["marker"], manifest \in disk[d]["manifest"], token \in disk[d]["token"] :
             o = [Nothing EXCEPT !["dir"] = Plain, !["author"] = author, !["master"] = master, !["db"] = db,
                                 !["marker"] = marker, !["manifest"] = manifest, !["token"] = token]
    BY <1>2
  <2>2. /\ o = [f \in Files |-> o[f]] /\ o["dir"] = Plain /\ o["author"] = author /\ o["master"] = master
        /\ o["db"] = db /\ o["marker"] = marker /\ o["manifest"] = manifest /\ o["token"] = token
    BY <2>1, FileNames DEF Nothing
  <2> QED  BY <1>1, <2>2, FileNames
<1>3. CASE \E token \in disk[d]["token"] : o = [Nothing EXCEPT !["token"] = token]
  <2>1. PICK token \in disk[d]["token"] : o = [Nothing EXCEPT !["token"] = token]
    BY <1>3
  <2>2. /\ o = [f \in Files |-> o[f]] /\ o["token"] = token
        /\ \A f \in Entries \cup {"dir"} : o[f] = Absent
    BY <2>1, FileNames DEF Nothing
  <2> QED  BY <1>1, <2>2
<1> QED  BY <1>2, <1>3 DEF Outcomes

LEMMA PowerFailureKeeps ==
  ASSUME IInv, NEW d \in Dirs, PowerFailure(d)
  PROVE  IInv'
<1>1. /\ Typed /\ FilesOk /\ TokensOk /\ FinishedBackupSurvives /\ Strays /\ finished \subseteq Dirs
      /\ promised \in [Dirs -> 0..MaxLength]
  BY DEF IInv, Typed
<1>2. PICK o \in Outcomes(d) :
        /\ cache' = [cache EXCEPT ![d] = o]
        /\ promised' = [promised EXCEPT ![d] = IF o["dir"] = Absent THEN 0 ELSE @]
        /\ strayed' = strayed \ (IF o["dir"] = Absent THEN {d} ELSE {})
  BY DEF PowerFailure
<1>3. /\ disk' = [e \in Dirs |-> [f \in Files |-> {cache'[e][f]}]] /\ proc' = [p \in Procs |-> Idle]
      /\ finished' = finished /\ bereft' = bereft
  BY DEF PowerFailure
<1>4. /\ o = [f \in Files |-> o[f]]
      /\ o["token"] \in disk[d]["token"] /\ o["dir"] \in disk[d]["dir"]
      /\ \/ o["dir"] = Plain /\ \A f \in Entries : o[f] \in disk[d][f]
         \/ o["dir"] = Absent /\ \A f \in Entries : o[f] = Absent
  BY OutcomeOk
<1>5. Grid(cache') /\ cache'[d] = o /\ \A e \in Dirs : e # d => cache'[e] = cache[e]
  <2>1. cache' = PutRow(cache, d, o)
    BY <1>2 DEF PutRow
  <2> QED  BY <1>1, <1>4, <2>1, OneDirectory DEF FilesOk
<1>6. Grid(disk') /\ \A e \in Dirs, f \in Files : disk'[e][f] = {cache'[e][f]}
  BY <1>3 DEF Grid
<1>7. ASSUME NEW e \in Dirs
      PROVE  /\ cache'[e]["token"] \in disk[e]["token"] /\ cache'[e]["dir"] \in disk[e]["dir"]
             /\ \/ /\ \A f \in Entries : cache'[e][f] \in disk[e][f]
                   /\ promised'[e] = promised[e] /\ (e \in strayed => e \in strayed' /\ cache'[e]["dir"] # Absent)
                   /\ cache'[e]["dir"] = Absent => \A f \in Entries : cache'[e][f] = Absent
                \/ /\ \A f \in Entries \cup {"dir"} : cache'[e][f] = Absent
                   /\ promised'[e] = 0
             /\ promised'[e] \in 0..MaxLength
             /\ e \in strayed' => e \in strayed /\ cache'[e]["dir"] # Absent
  <2>1. CASE e = d
    <3>1. CASE o["dir"] = Absent
      <4>1. promised'[e] = 0 /\ e \notin strayed' /\ cache'[e] = o
        BY <1>1, <1>2, <1>5, <2>1, <3>1
      <4>2. \A f \in Entries : o[f] = Absent
        BY <1>4, <3>1 DEF Plain, Absent
      <4> QED  BY <1>4, <2>1, <3>1, <4>1, <4>2, BoundAssumption
    <3>2. CASE o["dir"] # Absent
      <4>1. promised'[e] = promised[e] /\ promised[e] \in 0..MaxLength /\ strayed' = strayed /\ cache'[e] = o
        BY <1>1, <1>2, <1>5, <2>1, <3>2
      <4>2. \A f \in Entries : o[f] \in disk[d][f]
        BY <1>4, <3>2
      <4> QED  BY <1>4, <2>1, <3>2, <4>1, <4>2
    <3> QED  BY <3>1, <3>2
  <2>2. CASE e # d
    <3>1. cache'[e] = cache[e] /\ promised'[e] = promised[e]
      BY <1>1, <1>2, <1>5, <2>2
    <3>2. \A f \in Files : cache[e][f] \in disk[e][f]
      BY <1>1 DEF FilesOk
    <3>3. Gone(e)
      BY DEF IInv, DirOk
    <3>4. cache[e]["dir"] = Absent => \A f \in Entries : cache[e][f] = Absent
      BY <3>2, <3>3, FileNames DEF Gone, Exists
    <3>5. (e \in strayed <=> e \in strayed') /\ (e \in strayed => cache[e]["dir"] # Absent)
      BY <1>1, <1>2, <2>2 DEF Strays, Exists
    <3>6. promised[e] \in 0..MaxLength
      BY <1>1
    <3> QED  BY <3>1, <3>2, <3>4, <3>5, <3>6, FileNames
  <2> QED  BY <2>1, <2>2
<1>8. \A p \in Procs : proc'[p] = Idle /\ proc'[p].cmd = "none"
  BY <1>3 DEF Idle
<1>9. Typed'
  <2>1. ASSUME NEW e \in Dirs, NEW f \in Files PROVE ContentOk(f, cache'[e][f])
    <3>1. CASE cache'[e][f] \in disk[e][f]
      BY <1>1, <3>1 DEF FilesOk
    <3>2. CASE cache'[e][f] = Absent
      BY <3>2 DEF ContentOk, Absent
    <3> QED  BY <1>7, <3>1, <3>2, FileNames
  <2>2. FilesOk'
    BY <1>5, <1>6, <2>1 DEF FilesOk, Grid
  <2>3. \A p \in Procs : ProcOk(p)'
    BY <1>8, HomeAssumption DEF ProcOk, Idle, CommandNames
  <2>4. promised' \in [Dirs -> 0..MaxLength]
    <3>1. promised' = [e \in Dirs |-> promised'[e]]
      BY <1>1, <1>2
    <3> QED  BY <1>7, <3>1
  <2>5. proc' \in [Procs -> {proc'[p] : p \in Procs}]
    BY <1>3, <1>8
  <2>6. strayed' \subseteq Dirs
    BY <1>1, <1>2 DEF Typed
  <2> QED  BY <1>1, <1>3, <2>2, <2>3, <2>4, <2>5, <2>6 DEF Typed
<1>10. Exclusive' /\ LeftAlone'
  BY <1>8 DEF Exclusive, LeftAlone, Locks, Claims, Reads, Made, Making, Using, Opens, Makes
<1>11. \A p \in Procs : Stage(p)'
  BY <1>8 DEF Stage, Opens, Makes
<1>12. ASSUME NEW e \in Dirs PROVE DirOk(e)'
  <2>1. Gone(e) /\ (e \notin strayed => KeysLast(e))
    BY DEF IInv, DirOk
  <2>2. Gone(e)'
    BY <1>6, <1>7, FileNames DEF Gone, Exists
  <2>3. KeysLast(e)'
    BY <1>6, FileNames DEF KeysLast, Steady
  <2>4. ASSUME e \notin strayed', Unmarked(e)' PROVE KeysOutlive(e)' /\ OneDevice(e)' /\ PromiseKept(e)'
    <3>1. CASE \A f \in Entries \cup {"dir"} : cache'[e][f] = Absent /\ promised'[e] = 0
      <4>1. disk'[e]["db"] = {Absent}
        BY <1>6, <3>1, FileNames
      <4> QED  BY <3>1, <4>1, FileNames DEF KeysOutlive, OneDevice, PromiseKept, LengthOf, Absent
    <3>2. CASE (\A f \in Entries : cache'[e][f] \in disk[e][f]) /\ promised'[e] = promised[e] /\ e \notin strayed
      <4>1. cache'[e]["marker"] = Absent
        BY <1>6, <2>4, FileNames DEF Unmarked
      <4>2. KeysOutlive(e) /\ OneDevice(e) /\ PromiseKept(e)
        BY <3>2, <4>1, FileNames DEF IInv, DirOk, Unmarked
      <4> DEFINE content == cache'[e]["db"]
      <4>3. content \in disk[e]["db"] /\ disk'[e]["db"] = {content}
        BY <1>6, <3>2, FileNames
      <4> HIDE DEF content
      <4>4. WholeKeys(e)' => WholeKeys(e) /\ KeysOf(e)' = KeysOf(e)
        <5> SUFFICES ASSUME WholeKeys(e)' PROVE WholeKeys(e) /\ KeysOf(e)' = KeysOf(e)
          OBVIOUS
        <5>1. \A f \in KeyFiles : cache'[e][f] \in disk[e][f] /\ cache'[e][f].kind = "key"
          BY <3>2, FileNames DEF WholeKeys
        <5>2. \A f \in KeyFiles : cache'[e][f] = cache[e][f]
          BY <2>1, <3>2, <5>1 DEF KeysLast
        <5> QED  BY <5>1, <5>2, FileNames DEF WholeKeys, KeysOf
      <4>5. KeysOutlive(e)'
        <5> SUFFICES ASSUME e \notin bereft, content.kind = "db", content.db.schema > 0
                     PROVE  WholeKeys(e)' /\ \A f \in KeyFiles : Settled(e, f)'
          BY <1>3, <4>3 DEF KeysOutlive
        <5>1. WholeKeys(e) /\ \A f \in KeyFiles : disk[e][f] = {cache[e][f]}
          BY <4>2, <4>3 DEF KeysOutlive, Settled
        <5>2. \A f \in KeyFiles : cache'[e][f] = cache[e][f] /\ disk'[e][f] = {cache'[e][f]}
          BY <1>6, <3>2, <5>1, FileNames
        <5> QED  BY <5>1, <5>2 DEF WholeKeys, Settled
      <4>6. OneDevice(e)'
        BY <4>2, <4>3, <4>4 DEF OneDevice
      <4>7. PromiseKept(e)'
        BY <3>2, <4>2, <4>3 DEF PromiseKept
      <4> QED  BY <4>5, <4>6, <4>7
    <3> QED  BY <1>7, <2>4, <3>1, <3>2
  <2> QED  BY <2>2, <2>3, <2>4 DEF DirOk
<1>13. TokensOk'
  <2> SUFFICES ASSUME NEW e \in Dirs, NEW content \in disk'[e]["db"], content.kind = "db",
                      NEW t \in content.db.tokens
               PROVE  t[1] \in Dirs /\ disk'[t[1]]["token"] = {Token(t)}
    BY DEF TokensOk
  <2>1. content = cache'[e]["db"]
    BY <1>6, FileNames
  <2>2. content \in disk[e]["db"]
    <3>1. content # Absent
      BY DEF Absent
    <3> QED  BY <1>7, <2>1, <3>1, FileNames
  <2>3. t[1] \in Dirs /\ disk[t[1]]["token"] = {Token(t)}
    BY <1>1, <2>2 DEF TokensOk
  <2>4. cache'[t[1]]["token"] \in disk[t[1]]["token"]
    BY <1>7, <2>3
  <2> QED  BY <1>6, <2>3, <2>4, FileNames
<1>14. FinishedBackupSurvives'
  <2>1. ASSUME NEW e \in finished, NEW f \in Entries \cup {"dir"}
        PROVE  cache'[e][f] = cache[e][f] /\ disk'[e][f] = disk[e][f]
    <3>1. e \in Dirs /\ f \in Files
      BY <1>1, FileNames
    <3>2. (\A g \in Entries \cup {"dir"} : disk[e][g] = {cache[e][g]}) /\ Genuine(e, e)
      BY <1>1 DEF FinishedBackupSurvives
    <3>3. cache[e]["author"] # Absent /\ Gone(e)
      BY <3>1, <3>2, FileNames DEF Genuine, WholeKeys, Absent, IInv, DirOk
    <3>4. cache[e]["dir"] # Absent
      BY <3>2, <3>3, FileNames DEF Gone, Exists
    <3>5. cache'[e]["dir"] # Absent
      BY <1>7, <3>1, <3>2, <3>4
    <3>6. cache'[e][f] \in disk[e][f]
      BY <1>7, <3>1, <3>5
    <3>7. disk[e][f] = {cache[e][f]} /\ disk'[e][f] = {cache'[e][f]}
      BY <1>6, <3>1, <3>2
    <3> QED  BY <3>6, <3>7
  <2> QED  BY <1>1, <1>3, <2>1, FinishedKept
<1>15. Strays'
  <2> SUFFICES ASSUME NEW e \in strayed' PROVE Exists(e, "dir")' /\ e \notin finished'
    BY DEF Strays
  <2>1. e \in Dirs /\ e \in strayed
    BY <1>1, <1>2 DEF Typed
  <2>2. e \notin finished /\ cache'[e]["dir"] # Absent
    BY <1>1, <1>7, <2>1 DEF Strays
  <2> QED  BY <1>3, <2>2 DEF Exists
<1> QED  BY <1>9, <1>10, <1>11, <1>12, <1>13, <1>14, <1>15 DEF IInv

\* A change in a directory that no process uses.
LEMMA BesideKeeps ==
  ASSUME IInv, NEW d \in Dirs, ~InUse(d), proc' = proc, promised' = promised, OnlyIn(d),
         \A f \in Files : cache'[d][f] \in disk'[d][f]
                            /\ \A content \in disk'[d][f] : ContentOk(f, content),
         \A e \in Dirs : disk'[e]["token"] = disk[e]["token"], NoNewToken,
         finished' \subseteq finished, bereft \subseteq bereft', bereft' \subseteq Dirs,
         strayed' = strayed, d \in strayed => Exists(d, "dir")',
         DirOk(d)', FinishedBackupSurvives'
  PROVE  IInv'
<1>1. /\ Typed /\ FilesOk /\ Exclusive /\ TokensOk /\ LeftAlone /\ Strays /\ finished \subseteq Dirs
      /\ \A q \in Procs : ProcOk(q)
  BY DEF IInv, Typed
<1>2. ASSUME NEW q \in Procs, proc[q].cmd # "none" PROVE Dir(q) # d /\ Src(q) # d /\ Dir(q) \in Dirs /\ Src(q) \in Dirs
  BY <1>1, <1>2, Places, ProcFields DEF InUse
<1>3. \A e \in Dirs : e # d => cache'[e] = cache[e] /\ disk'[e] = disk[e]
  BY DEF OnlyIn
<1>4. Typed'
  <2>1. Grid(cache') /\ Grid(disk')
    BY DEF OnlyIn
  <2>2. ASSUME NEW e \in Dirs, NEW f \in Files
        PROVE  cache'[e][f] \in disk'[e][f] /\ \A content \in disk'[e][f] : ContentOk(f, content)
    <3>1. CASE e = d  BY <3>1
    <3>2. CASE e # d  BY <1>1, <1>3, <3>2 DEF FilesOk
    <3> QED  BY <3>1, <3>2
  <2>3. FilesOk'
    BY <2>1, <2>2 DEF FilesOk, Grid
  <2>4. \A q \in Procs : ProcOk(q)'
    BY <1>1 DEF ProcOk, Dir
  <2>5. /\ proc' \in [Procs -> {proc'[q] : q \in Procs}] /\ promised' \in [Dirs -> 0..MaxLength]
        /\ finished' \subseteq Dirs
    BY <1>1 DEF Typed
  <2>6. strayed' \subseteq Dirs
    BY <1>1 DEF Typed
  <2> QED  BY <2>3, <2>4, <2>5, <2>6 DEF Typed
<1>5. ASSUME NEW q \in Procs
      PROVE  /\ Locks(q)' = Locks(q) /\ Claims(q)' = Claims(q) /\ Making(q)' = Making(q)
             /\ Made(q)' = Made(q) /\ Reads(q)' = Reads(q) /\ Dir(q)' = Dir(q) /\ Src(q)' = Src(q)
             /\ Using(q)' = Using(q)
             /\ Claims(q) \/ Made(q) \/ Making(q) \/ Reads(q) => proc[q].cmd # "none"
  BY DEF Locks, Claims, Making, Made, Reads, Using, Opens, Makes, Last, OpenStep, Dir, Src
<1>6. Exclusive'
  <2>1. ASSUME NEW q \in Procs
        PROVE  /\ Claims(q)' => Exists(Dir(q), "dir")'
               /\ Claims(q)' /\ Exists(Dir(q), "marker")' => Dir(q)' \in strayed'
               /\ Made(q)' => Exists(Dir(q), "dir")'
               /\ Made(q)' /\ proc'[q].cmd = "backup" => Dir(q)' \notin strayed'
               /\ Making(q)' /\ proc'[q].step > 3 => Exists(Dir(q), "marker")'
               /\ Making(q)' /\ proc'[q].step > 4 => Absent \notin disk'[Dir(q)']["marker"]
               /\ Reads(q)' => WholeKeys(Src(q))' \/ Src(q)' \in strayed'
    <3>1. CASE proc[q].cmd = "none"
      BY <1>5, <3>1
    <3>2. CASE proc[q].cmd # "none"
      <4>1. PICK e \in Dirs, s \in Dirs : e = Dir(q) /\ s = Src(q) /\ e # d /\ s # d
        BY <1>2, <3>2
      <4>2. Dir(q)' = e /\ Src(q)' = s /\ cache'[e] = cache[e] /\ disk'[e] = disk[e] /\ cache'[s] = cache[s]
        BY <1>3, <1>5, <4>1
      <4>3. /\ Claims(q) => cache[e]["dir"] # Absent
            /\ Claims(q) /\ cache[e]["marker"] # Absent => e \in strayed
            /\ Made(q) => cache[e]["dir"] # Absent
            /\ Made(q) /\ proc[q].cmd = "backup" => e \notin strayed
            /\ Making(q) /\ proc[q].step > 3 => cache[e]["marker"] # Absent
            /\ Making(q) /\ proc[q].step > 4 => Absent \notin disk[e]["marker"]
            /\ Reads(q) => WholeKeys(s) \/ s \in strayed
        BY <1>1, <4>1 DEF Exclusive, Exists
      <4>4. WholeKeys(s) => WholeKeys(Src(q))'
        BY <4>2 DEF WholeKeys
      <4> QED  BY <1>5, <4>2, <4>3, <4>4 DEF Exists
    <3> QED  BY <3>1, <3>2
  <2>2. ASSUME NEW p \in Procs, NEW q \in Procs
        PROVE  /\ Locks(p)' /\ Locks(q)' /\ Dir(p)' = Dir(q)' => p = q
               /\ Made(p)' /\ Made(q)' /\ Dir(p)' = Dir(q)' => p = q
               /\ Making(p)' /\ Claims(q)' /\ Dir(p)' = Dir(q)' => Dir(p)' \in strayed'
               /\ Making(p)' /\ Reads(q)' /\ Dir(p)' = Src(q)' => Dir(p)' \in strayed'
               /\ proc'[p].cmd = "backup" /\ proc'[q].cmd # "none" /\ Dir(p)' = Dir(q)' => p = q
    <3>1. /\ Locks(p) /\ Locks(q) /\ Dir(p) = Dir(q) => p = q
          /\ Made(p) /\ Made(q) /\ Dir(p) = Dir(q) => p = q
          /\ Making(p) /\ Claims(q) /\ Dir(p) = Dir(q) => Dir(p) \in strayed
          /\ Making(p) /\ Reads(q) /\ Dir(p) = Src(q) => Dir(p) \in strayed
          /\ proc[p].cmd = "backup" /\ proc[q].cmd # "none" /\ Dir(p) = Dir(q) => p = q
      BY <1>1 DEF Exclusive
    <3> QED  BY <1>5, <3>1
  <2> QED  BY <2>1, <2>2 DEF Exclusive
<1>7. ASSUME NEW q \in Procs PROVE Stage(q)'
  <2>1. CASE proc[q].cmd = "none"
    BY <2>1 DEF Stage, Opens, Makes
  <2>2. CASE proc[q].cmd # "none"
    <3>1. PICK e \in Dirs : e = Dir(q) /\ e # d /\ Src(q) # d
      BY <1>2, <2>2
    <3>2. LengthOf(cache'[d]["db"]) \in Nat
      <4>1. ContentOk("db", cache'[d]["db"])
        BY FileNames
      <4> QED  BY <4>1, BoundAssumption DEF ContentOk, DbOk, LengthOf
    <3>3. proc[q].cmd = "register" /\ proc[q].step > 10 => NobodyHas(Dir(q))'
      <4> SUFFICES ASSUME proc[q].cmd = "register", proc[q].step > 10 PROVE NobodyHas(Dir(q))'
        OBVIOUS
      <4>1. NobodyHas(e)
        BY <3>1 DEF IInv, Stage, TokenStage
      <4>2. NobodyHas(e)'
        BY <4>1, NobodyKept
      <4> QED  BY <1>5, <3>1, <4>2
    <3>4. Stage(q)
      BY DEF IInv
    <3>5. NotNewlyStrayed(q) /\ strayed \subseteq strayed'
      BY DEF NotNewlyStrayed
    <3> QED  BY <1>1, <3>1, <3>2, <3>3, <3>4, <3>5, StageElsewhere
  <2> QED  BY <2>1, <2>2
<1>8. ASSUME NEW e \in Dirs PROVE DirOk(e)'
  <2>1. CASE e = d
    BY <2>1
  <2>2. CASE e # d
    <3>1. cache'[e] = cache[e] /\ disk'[e] = disk[e] /\ DirOk(e)
      BY <1>3, <2>2 DEF IInv
    <3>2. \A f \in KeyFiles : Syncing(e, f) => Syncing(e, f)'
      BY DEF Syncing, Dir
    <3> QED  BY <3>1, <3>2, DirKept
  <2> QED  BY <2>1, <2>2
<1>9. TokensOk'
  BY <1>1, TokensKept
<1>10. LeftAlone'
  <2> SUFFICES ASSUME NEW q \in Procs, Using(q)' \/ Made(q)' PROVE Dir(q)' \notin finished'
    BY DEF LeftAlone
  <2> QED  BY <1>1, <1>5 DEF LeftAlone
<1>11. Strays'
  <2> SUFFICES ASSUME NEW e \in strayed PROVE Exists(e, "dir")' /\ e \notin finished'
    BY DEF Strays
  <2>1. e \in Dirs /\ Exists(e, "dir") /\ e \notin finished
    BY <1>1 DEF Strays, Typed
  <2> QED  BY <1>3, <2>1 DEF Exists
<1> QED  BY <1>4, <1>6, <1>7, <1>8, <1>9, <1>10, <1>11 DEF IInv

LEMMA LoseKeysKeeps ==
  ASSUME IInv, NEW d \in Dirs, LoseKeys(d)
  PROVE  IInv'
<1>1. /\ Typed /\ FilesOk /\ FinishedBackupSurvives /\ finished \subseteq Dirs /\ bereft \subseteq Dirs
      /\ DirOk(d)
  BY DEF IInv, Typed
<1> DEFINE files == [f \in Files |-> IF f \in KeyFiles THEN Absent ELSE cache[d][f]]
           left == [f \in Files |-> IF f \in KeyFiles THEN {Absent} ELSE disk[d][f]]
<1>2. /\ ~InUse(d) /\ cache' = PutRow(cache, d, files) /\ disk' = PutRow(disk, d, left)
      /\ finished' = finished \ {d} /\ bereft' = bereft \cup {d}
      /\ proc' = proc /\ promised' = promised /\ strayed' = strayed
  BY DEF LoseKeys, PutRow
<1>3. /\ files = [f \in Files |-> files[f]] /\ left = [f \in Files |-> left[f]]
      /\ \A f \in Files : files[f] = IF f \in KeyFiles THEN Absent ELSE cache[d][f]
      /\ \A f \in Files : left[f] = IF f \in KeyFiles THEN {Absent} ELSE disk[d][f]
  OBVIOUS
<1> HIDE DEF files, left
<1>4. Grid(cache') /\ cache'[d] = files /\ \A e \in Dirs : e # d => cache'[e] = cache[e]
  BY <1>1, <1>2, <1>3, OneDirectory DEF FilesOk
<1>5. Grid(disk') /\ disk'[d] = left /\ \A e \in Dirs : e # d => disk'[e] = disk[e]
  BY <1>1, <1>2, <1>3, OneDirectory DEF FilesOk
<1>6. OnlyIn(d)
  BY <1>4, <1>5 DEF OnlyIn
<1>7. ASSUME NEW f \in Files
      PROVE  /\ f \in KeyFiles => cache'[d][f] = Absent /\ disk'[d][f] = {Absent}
             /\ f \notin KeyFiles => cache'[d][f] = cache[d][f] /\ disk'[d][f] = disk[d][f]
  BY <1>3, <1>4, <1>5
<1>8. ASSUME NEW f \in Files
      PROVE  cache'[d][f] \in disk'[d][f] /\ \A content \in disk'[d][f] : ContentOk(f, content)
  <2>1. CASE f \in KeyFiles
    BY <1>7, <2>1, FileNames DEF ContentOk
  <2>2. CASE f \notin KeyFiles
    BY <1>1, <1>7, <2>2 DEF FilesOk
  <2> QED  BY <2>1, <2>2
<1>9. \A e \in Dirs : disk'[e]["token"] = disk[e]["token"] /\ disk'[e]["db"] = disk[e]["db"]
  <2>1. disk'[d]["token"] = disk[d]["token"] /\ disk'[d]["db"] = disk[d]["db"]
    BY <1>7, FileNames
  <2> QED  BY <1>5, <2>1
<1>10. NoNewToken
  BY <1>9, SameTokens
<1>11. DirOk(d)'
  <2>1. Gone(d)'
    BY <1>1, <1>7, FileNames DEF DirOk, Gone, Exists
  <2>2. KeysLast(d)'
    BY <1>2, <1>7, FileNames DEF KeysLast, Absent
  <2>3. ~WholeKeys(d)'
    BY <1>7, FileNames DEF WholeKeys, Absent
  <2>4. Unmarked(d)' => Unmarked(d)
    BY <1>7, FileNames DEF Unmarked
  <2>5. KeysOutlive(d)' /\ OneDevice(d)'
    BY <1>2, <2>3 DEF KeysOutlive, OneDevice
  <2>6. PromiseKept(d) => PromiseKept(d)'
    BY <1>2, <1>9 DEF PromiseKept
  <2> QED  BY <1>1, <1>2, <2>1, <2>2, <2>4, <2>5, <2>6 DEF DirOk
<1>12. FinishedBackupSurvives'
  <2>1. \A e \in finished' : \A f \in Entries \cup {"dir"} :
          cache'[e][f] = cache[e][f] /\ disk'[e][f] = disk[e][f]
    BY <1>1, <1>2, <1>4, <1>5
  <2> QED  BY <1>1, <1>2, <2>1, FinishedKept
<1>13. d \in strayed => Exists(d, "dir")'
  <2>1. d \in strayed => Exists(d, "dir")
    BY DEF IInv, Strays
  <2> QED  BY <1>7, <2>1, FileNames DEF Exists
<1> QED  BY <1>1, <1>2, <1>6, <1>8, <1>9, <1>10, <1>11, <1>12, <1>13, BesideKeeps

LEMMA PreviousReleaseKeeps ==
  ASSUME IInv, NEW d \in Dirs, PreviousRelease(d)
  PROVE  IInv'
<1>1. /\ Typed /\ FilesOk /\ FinishedBackupSurvives /\ finished \subseteq Dirs /\ bereft \subseteq Dirs
      /\ DirOk(d)
  BY DEF IInv, Typed
<1>2. /\ ~InUse(d) /\ HasDb(d) /\ cache[d]["marker"] = Absent /\ DbOf(d).schema \in 1..4
      /\ proc' = proc /\ promised' = promised /\ finished' = finished /\ bereft' = bereft
      /\ strayed' = strayed
  BY DEF PreviousRelease, HasDb, Exists, history
<1>3. PICK db \in OfPreviousRelease(DbOf(d)) : Committed(d, db)
  BY DEF PreviousRelease
<1>4. cache[d]["db"] \in disk[d]["db"] /\ cache[d]["db"].kind = "db" /\ cache[d]["db"].db = DbOf(d)
  BY <1>1, <1>2, FileNames DEF FilesOk, HasDb, DbOf
<1>5. DbOk(DbOf(d))
  <2>1. ContentOk("db", cache[d]["db"])
    BY <1>1, <1>4, FileNames DEF FilesOk
  <2> QED  BY <1>4, <2>1 DEF ContentOk
<1>6. DbOk(db) /\ db.length = DbOf(d).length /\ db.keys = DbOf(d).keys /\ db.tokens = DbOf(d).tokens
  BY <1>5, PreviousOk
<1>7. d \notin strayed => KeysOutlive(d) /\ OneDevice(d) /\ PromiseKept(d)
  <2>1. Unmarked(d)
    BY <1>1, <1>2, FileNames DEF Unmarked, FilesOk
  <2> QED  BY <1>1, <2>1 DEF DirOk
<1>8. d \notin strayed =>
        /\ WholeKeys(d) => db.keys \subseteq {KeysOf(d)}
        /\ db.length >= promised'[d]
        /\ d \notin bereft => WholeKeys(d)
  <2>1. LengthOf(cache[d]["db"]) = DbOf(d).length
    BY <1>4 DEF LengthOf
  <2>2. DbOf(d).schema > 0
    BY <1>2
  <2> QED  BY <1>2, <1>4, <1>6, <1>7, <2>1, <2>2 DEF OneDevice, PromiseKept, KeysOutlive
<1>9. \A f \in KeyFiles : ~Syncing(d, f)
  <2>1. ASSUME NEW p \in Procs, proc[p].cmd \in {"init", "register"} PROVE Dir(p) # d
    <3>1. Running(p)
      BY <2>1 DEF Running, Idle
    <3> QED  BY <1>2, <3>1 DEF InUse
  <2> QED  BY <2>1 DEF Syncing
<1>10. /\ DirOk(d)' /\ OnlyIn(d) /\ \A f \in Files : f # "db" => cache'[d][f] = cache[d][f]
       /\ \A f \in Files : cache'[d][f] \in disk'[d][f]
                             /\ \A content \in disk'[d][f] : ContentOk(f, content)
       /\ disk'[d]["db"] = {Database(db)} /\ disk'[d]["token"] = disk[d]["token"]
  BY <1>2, <1>3, <1>6, <1>8, <1>9, CommitDir
<1>11. \A e \in Dirs : disk'[e]["token"] = disk[e]["token"]
  BY <1>10 DEF OnlyIn
<1>12. NoNewToken
  <2> SUFFICES ASSUME NEW e \in Dirs, NEW content \in disk'[e]["db"], content.kind = "db",
                      NEW t \in content.db.tokens
               PROVE  \E c \in Dirs : \E old \in disk[c]["db"] : old.kind = "db" /\ t \in old.db.tokens
    BY DEF NoNewToken
  <2>1. CASE e # d
    BY <1>10, <2>1 DEF OnlyIn
  <2>2. CASE e = d
    <3>1. content = Database(db)
      BY <1>10, <2>2
    <3>2. content.db = db
      BY <3>1 DEF Database
    <3>3. t \in DbOf(d).tokens
      BY <1>6, <3>2
    <3> QED  BY <1>4, <3>3
  <2> QED  BY <2>1, <2>2
<1>13. d \notin finished
  <2> SUFFICES ASSUME d \in finished PROVE FALSE
    OBVIOUS
  <2>1. Complete(DbOf(d))
    BY <1>1 DEF FinishedBackupSurvives, Genuine
  <2> QED  BY <1>2, <2>1 DEF Complete, PrefixVerified, Newest
<1>14. FinishedBackupSurvives'
  <2>1. \A e \in finished' : \A f \in Entries \cup {"dir"} :
          cache'[e][f] = cache[e][f] /\ disk'[e][f] = disk[e][f]
    BY <1>1, <1>2, <1>10, <1>13 DEF OnlyIn
  <2> QED  BY <1>1, <1>2, <2>1, FinishedKept
<1>15. d \in strayed => Exists(d, "dir")'
  <2>1. d \in strayed => Exists(d, "dir")
    BY DEF IInv, Strays
  <2>2. cache'[d]["dir"] = cache[d]["dir"]
    BY <1>10, FileNames
  <2> QED  BY <2>1, <2>2 DEF Exists
<1> QED  BY <1>1, <1>2, <1>10, <1>11, <1>12, <1>14, <1>15, BesideKeeps

-----------------------------------------------------------------------------
(* The theorems                                                            *)

LEMMA NothingKeeps ==
  ASSUME IInv, UNCHANGED vars
  PROVE  IInv'
<1>1. /\ cache' = cache /\ disk' = disk /\ proc' = proc /\ promised' = promised
      /\ finished' = finished /\ bereft' = bereft /\ strayed' = strayed
  BY DEF vars, history
<1>2. /\ Typed /\ FilesOk /\ Exclusive /\ TokensOk /\ FinishedBackupSurvives /\ LeftAlone
      /\ \A q \in Procs : ProcOk(q)
  BY DEF IInv, Typed
<1>3. Typed'
  <2>1. FilesOk'
    BY <1>1, <1>2 DEF FilesOk, Grid
  <2>2. \A q \in Procs : ProcOk(q)'
    BY <1>1, <1>2 DEF ProcOk, Dir
  <2> QED  BY <1>1, <1>2, <2>1, <2>2 DEF Typed
<1>4. Shrunk
  BY <1>1, <1>2 DEF Shrunk, FilesOk
<1>5. \A q \in Procs : Stage(q)'
  BY <1>1, <1>2, <1>4, StageShrunk DEF IInv
<1>6. ASSUME NEW d \in Dirs PROVE DirOk(d)'
  <2>1. \A f \in KeyFiles : Syncing(d, f) => Syncing(d, f)'
    BY <1>1 DEF Syncing, Dir
  <2> QED  BY <1>1, <1>4, <2>1, DirShrunk DEF IInv
<1>7. Exclusive'
  BY <1>1, <1>2 DEF Exclusive, Locks, Claims, Making, Made, Reads, Opens, Makes, Last, Dir, Src,
                    Exists, WholeKeys
<1>8. TokensOk'
  BY <1>1, <1>2 DEF TokensOk
<1>9. FinishedBackupSurvives'
  <2>1. \A d \in finished' : \A f \in Entries \cup {"dir"} :
          cache'[d][f] = cache[d][f] /\ disk'[d][f] = disk[d][f]
    BY <1>1
  <2> QED  BY <1>1, <1>2, <2>1, FinishedKept DEF Typed
<1>10. LeftAlone'
  BY <1>1, <1>2 DEF LeftAlone, Using, Made, Opens, Makes, OpenStep, Dir
<1>11. Strays'
  BY <1>1 DEF IInv, Strays, Exists
<1> QED  BY <1>3, <1>5, <1>6, <1>7, <1>8, <1>9, <1>10, <1>11 DEF IInv

LEMMA StepKeeps ==
  ASSUME IInv, NEW p \in Procs, Step(p)
  PROVE  IInv'
<1>1. CASE Look(p)  BY <1>1, LookKeeps
<1>2. CASE Refuse(p)  BY <1>2, RefuseKeeps
<1>3. CASE CheckMarker(p)  BY <1>3, CheckMarkerKeeps
<1>4. CASE Create(p)  BY <1>4, CreateKeeps
<1>5. CASE Keep(p)  BY <1>5, KeepKeeps
<1>6. CASE WriteKey(p)  BY <1>6, WriteKeyKeeps
<1>7. CASE SyncKey(p)  BY <1>7, SyncKeyKeeps
<1>8. CASE LoadKeys(p)  BY <1>8, LoadKeysKeeps
<1>9. CASE LinkToken(p)  BY <1>9, LinkTokenKeeps
<1>10. CASE SettleToken(p)  BY <1>10, SettleTokenKeeps
<1>11. CASE Open(p)  BY <1>11, OpenKeeps
<1>12. CASE SetWal(p)  BY <1>12, SetWalKeeps
<1>13. CASE Migrate(p)  BY <1>13, MigrateKeeps
<1>14. CASE Enroll(p)  BY <1>14, EnrollKeeps
<1>15. CASE Serve(p)  BY <1>15, ServeKeeps
<1>16. CASE Stop(p)  BY <1>16, StopKeeps
<1>17. CASE MakeDir(p)  BY <1>17, MakeDirKeeps
<1>18. CASE Mark(p)  BY <1>18, MarkKeeps
<1>19. CASE Marked(p)  BY <1>19, MarkedKeeps
<1>20. CASE Copy(p)  BY <1>20, CopyKeeps
<1>21. CASE Empty(p)  BY <1>21, EmptyKeeps
<1>22. CASE Snapshot(p)  BY <1>22, SnapshotKeeps
<1>23. CASE Seal(p)  BY <1>23, SealKeeps
<1>24. CASE Settle(p)  BY <1>24, SettleKeeps
<1>25. CASE Unmark(p)  BY <1>25, UnmarkKeeps
<1>26. CASE Finish(p)  BY <1>26, FinishKeeps
<1>27. CASE BeginCopy(p)  BY <1>27, BeginCopyKeeps
<1> QED  BY <1>1, <1>2, <1>3, <1>4, <1>5, <1>6, <1>7, <1>8, <1>9, <1>10, <1>11, <1>12, <1>13, <1>14,
            <1>15, <1>16, <1>17, <1>18, <1>19, <1>20, <1>21, <1>22, <1>23, <1>24, <1>25, <1>26, <1>27
     DEF Step

\* Whatever happens, what commands, the directories and the disk are is as they left it.
LEMMA Inductive == Spec => []IInv
<1>1. IInv /\ [Next]_vars => IInv'
  <2> SUFFICES ASSUME IInv, [Next]_vars PROVE IInv'
    OBVIOUS
  <2>1. CASE UNCHANGED vars
    BY <2>1, NothingKeeps
  <2>2. ASSUME NEW p \in Procs, NEW c \in Commands, Run(p, c) PROVE IInv'
    BY <2>2, RunKeeps
  <2>3. ASSUME NEW p \in Procs, Step(p) PROVE IInv'
    BY <2>3, StepKeeps
  <2>4. ASSUME NEW p \in Procs, Interrupt(p) PROVE IInv'
    BY <2>4, InterruptKeeps
  <2>5. ASSUME NEW d \in Dirs, PowerFailure(d) PROVE IInv'
    BY <2>5, PowerFailureKeeps
  <2>6. ASSUME NEW d \in Dirs, LoseKeys(d) PROVE IInv'
    BY <2>6, LoseKeysKeeps
  <2>7. ASSUME NEW d \in Dirs, PreviousRelease(d) PROVE IInv'
    BY <2>7, PreviousReleaseKeeps
  <2> QED  BY <2>1, <2>2, <2>3, <2>4, <2>5, <2>6, <2>7 DEF Next
<1> QED  BY <1>1, Begins, PTL DEF Spec

\* TypeOK: what processes see of a file is among what the disk may hold of it, nothing is in a
\* directory that is not there, and every command is at a step of its program.
THEOREM FilesAreTyped == Spec => []TypeOK
<1>1. IInv => TypeOK
  <2> SUFFICES ASSUME IInv PROVE TypeOK
    OBVIOUS
  <2>1. /\ Typed /\ FilesOk /\ promised \in [Dirs -> 0..MaxLength] /\ finished \subseteq Dirs
        /\ bereft \subseteq Dirs /\ strayed \subseteq Dirs
    BY DEF IInv, Typed
  <2>2. \A d \in Dirs, f \in Files : cache[d][f] \in disk[d][f]
    BY <2>1 DEF FilesOk
  <2>3. ASSUME NEW d \in Dirs, ~Exists(d, "dir"), NEW f \in Entries PROVE ~Exists(d, f)
    <3>1. Gone(d) /\ cache[d][f] \in disk[d][f]
      BY <2>2, FileNames DEF IInv, DirOk
    <3> QED  BY <2>3, <3>1 DEF Gone, Exists
  <2>4. ASSUME NEW p \in Procs, Running(p) PROVE proc[p].step \in 1..Len(Program[proc[p].cmd])
    BY <2>1, <2>4 DEF Typed, ProcOk, Running
  <2> QED  BY <2>1, <2>2, <2>3, <2>4 DEF TypeOK
<1> QED  BY <1>1, Inductive, PTL

\* ServedIsWhole: in a directory that no core entered between a restore's mkdir and its marker,
\* a core that serves has a complete database without reserved or ambiguous accounts, the keys
\* that all of it is of, and every write acknowledged since the directory was made or in what
\* it was restored from.
THEOREM WhatIsServed == Spec => []ServedIsWhole
<1>1. IInv => ServedIsWhole
  <2> SUFFICES ASSUME IInv, NEW p \in Procs, At(p, "serve"), Dir(p) \notin strayed
               PROVE  LET db == DbOf(Dir(p))
                      IN /\ Complete(db) /\ ~db.reserved /\ ~db.ambiguous
                         /\ proc[p].secret = KeysOf(Dir(p)) /\ OfOneDevice(Dir(p))
                         /\ db.length >= promised[Dir(p)]
    BY DEF ServedIsWhole
  <2>1. Typed /\ FilesOk /\ ProcOk(p) /\ Stage(p)
    BY DEF IInv, Typed
  <2>2. PICK d \in Dirs : d = Dir(p)
    BY <2>1, ProcFields
  <2>3. proc[p].cmd = "serve" /\ proc[p].step = 7
    BY <2>1, Places
  <2>4. Using(p) /\ Locks(p) /\ Opens(p) /\ OpenStep(p) = 4
    BY <2>3 DEF Using, Locks, Opens, OpenStep
  <2>6. HasDb(d) /\ Complete(DbOf(d))
    BY <2>1, <2>2, <2>3, <2>4 DEF Stage, OpenStage
  <2>5. HasDb(d) /\ DbOk(DbOf(d)) /\ DbOf(d).length >= promised[d]
    BY <2>2, <2>4, <2>6, UsersDatabase
  <2>7. WholeKeys(d) /\ proc[p].secret = KeysOf(d)
    BY <2>1, <2>2, <2>3 DEF Stage, ServeStage
  <2>8. OfOneDevice(d)
    <3>1. OneDevice(d)
      BY <2>2, <2>4, Ready
    <3>2. cache[d]["db"] \in disk[d]["db"]
      BY <2>1, FileNames DEF FilesOk
    <3> QED  BY <2>5, <2>7, <3>1, <3>2 DEF OneDevice, OfOneDevice, HasDb, DbOf
  <2>9. DbOf(d).schema = 6
    BY <2>6 DEF Complete, PrefixVerified, Newest
  <2>10. ~DbOf(d).reserved /\ ~DbOf(d).ambiguous
    BY <2>5, <2>9 DEF DbOk
  <2> QED  BY <2>2, <2>5, <2>6, <2>7, <2>8, <2>10
<1> QED  BY <1>1, Inductive, PTL

\* KeysOutliveIn: whatever a power failure leaves of a directory that no core strayed into, a
\* database with content has its keys, unless a mishap took them.
THEOREM KeysAreThere == Spec => [](\A d \in Dirs \ (bereft \cup strayed) : KeysOutliveIn(d))
<1>1. IInv => \A d \in Dirs \ (bereft \cup strayed) : KeysOutliveIn(d)
  BY DEF IInv, DirOk, Unmarked, KeysOutlive, Settled, KeysOutliveIn
<1> QED  BY <1>1, Inductive, PTL

\* FinishedBackupSurvives: a backup that was reported can be restored from, whatever fails
\* afterwards, until somebody opens it.
THEOREM BackupsSurvive == Spec => []FinishedBackupSurvives
<1>1. IInv => FinishedBackupSurvives
  BY DEF IInv
<1> QED  BY <1>1, Inductive, PTL

\* RegisteredTokenIsDurable: the file of a token that a database accepts, or may accept after a
\* power failure, is there.
THEOREM TokensAreDurable == Spec => []RegisteredTokenIsDurable
<1>1. IInv => RegisteredTokenIsDurable
  BY DEF IInv, TokensOk, RegisteredTokenIsDurable
<1> QED  BY <1>1, Inductive, PTL
=============================================================================
