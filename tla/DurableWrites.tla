--------------------------- MODULE DurableWrites ---------------------------
(***************************************************************************)
(* What the write path promises to an application, with no handler, lock,  *)
(* queue or log head in sight: a document advances one revision at a time, *)
(* an idempotency key is spent at most once, and a write is acknowledged   *)
(* only after it has been applied.  LocalWrite implements this module.     *)
(***************************************************************************)
EXTENDS Naturals

CONSTANTS
  Requests,   \* write requests: records with app, key, doc, expected, body
  Docs        \* documents

VARIABLES
  revision,      \* the revision of every document
  applied,       \* the writes applied: [req, revision] records
  acknowledged   \* the writes acknowledged to a caller, same records

vars == <<revision, applied, acknowledged>>

\* Two requests spend the same idempotency key (one namespace per caller).
SameKey(r, s) == r.app = s.app /\ r.key = s.key

Init ==
  /\ revision = [d \in Docs |-> 0]
  /\ applied = {}
  /\ acknowledged = {}

Apply(r) ==
  /\ \A a \in applied : ~SameKey(a.req, r)
  /\ r.expected \in {{}, {revision[r.doc]}}
  /\ revision' = [revision EXCEPT ![r.doc] = @ + 1]
  /\ applied' = applied \cup {[req |-> r, revision |-> revision[r.doc] + 1]}
  /\ UNCHANGED acknowledged

Acknowledge(a) ==
  /\ a \in applied
  /\ acknowledged' = acknowledged \cup {a}
  /\ UNCHANGED <<revision, applied>>

Next ==
  \/ \E r \in Requests : Apply(r)
  \/ \E a \in applied : Acknowledge(a)

Spec == Init /\ [][Next]_vars
=============================================================================
