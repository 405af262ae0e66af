------------------------------ MODULE Migrations ------------------------------
(***************************************************************************)
(* The schema versions of a database and the rules of apply_migrations.    *)
(* A database says how many versions it has, which of their rows in        *)
(* schema_migrations carry the reviewed digest, and whether its accounts   *)
(* collide with what a later version reserves.                             *)
(***************************************************************************)
EXTENDS Naturals

Newest == 6

\* verify_schema_prefix
PrefixVerified(db, count) == db.schema = count /\ db.checksums = 1..count

\* verify_complete_schema
Complete(db) == PrefixVerified(db, Newest)

\* Seeded fault: a disabled or enabled principal of the reserved name is kept.
PreflightWithoutReserved(db, version) ==
  /\ version = 5 => ~db.ambiguous
  /\ version = 6 => PrefixVerified(db, 5)

\* What a version asks of the database before it changes it: no enabled
\* principal with the planning namespace, no credential both APP and ADMIN, and
\* the digests of the versions before.
Preflight(db, version) ==
  /\ version = 4 => ~db.reserved
  /\ version = 5 => ~db.ambiguous
  /\ version = 6 => PrefixVerified(db, 5)

\* The first version that is not applied can be; a newer database is refused.
CanMigrate(db) == db.schema < Newest /\ Preflight(db, db.schema + 1)

\* One version with its row: one transaction.  Version 5 adds the checksums, for
\* itself and all before.
Migrated(db) ==
  LET version == db.schema + 1
  IN [db EXCEPT !.schema = version,
                !.checksums = CASE version < 5 -> @
                                [] version = 5 -> 1..5
                                [] version > 5 -> @ \cup {version}]

Relabelled(db, reserved, ambiguous) ==
  [db EXCEPT !.reserved = reserved, !.ambiguous = ambiguous]
\* What a release before the version that reserves or unites accounts may make of
\* a database that it can still open.
OfPreviousRelease(db) ==
  {Relabelled(db, r, a) :
     r \in IF db.schema < 4 THEN BOOLEAN ELSE {db.reserved},
     a \in IF db.schema < 5 THEN BOOLEAN ELSE {db.ambiguous}}
=============================================================================
