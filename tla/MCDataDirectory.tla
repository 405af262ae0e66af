--------------------------- MODULE MCDataDirectory ---------------------------
(* An instance of DataDirectory: a device in a, its backup in b, and a restored
   copy in c. *)
EXTENDS DataDirectory, TLC

CONSTANTS a, b, c, p1, p2

Interchangeable == Permutations({p1, p2})

To(cmd, dir) == [cmd |-> cmd, dir |-> dir, src |-> dir]
Of(cmd, dir, src) == [cmd |-> cmd, dir |-> dir, src |-> src]

\* Directories are used as their names say, but an operator may also serve the backup, and
\* register or start a core in c before a restore makes it or while it does.
MCCommands ==
  {To("serve", a), Of("backup", b, a), To("serve", b),
   Of("restore", c, b), To("register", c), To("serve", c)}

Old(db) ==
  [Nothing EXCEPT !["dir"] = Plain, !["author"] = Key(<<>>), !["master"] = Key(<<>>),
                  !["db"] = Database(db)]
Before == [NewDatabase EXCEPT !.wal = TRUE, !.keys = {<< <<>>, <<>> >>}, !.length = 0]

\* One of release 3, one of release 5 with a changed digest, and a current one; a device
\* that is new is what a registration makes in c.
MCDevices ==
  {Old([Before EXCEPT !.schema = 3]),
   Old([Before EXCEPT !.schema = 5, !.checksums = 1..4]),
   Old([Before EXCEPT !.schema = Newest, !.checksums = 1..Newest])}
=============================================================================
