---- MODULE MCDocumentLocks ----
(* Instances of DocumentLocks for TLC. *)
EXTENDS DocumentLocks, TLC

CONSTANTS t1, t2, t3, profile, a, c, l1, l2, l3, l4

\* A planning record of a community, and a document of an application.
OneOrTwo == {<<profile, a>>, <<c>>}
====
