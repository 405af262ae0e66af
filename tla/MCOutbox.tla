---- MODULE MCOutbox ----
(* An instance of Outbox for TLC. *)
EXTENDS Outbox, TLC

CONSTANTS w1, w2, w3, t1, t2, o1, o2

TwoTransports == (w1 :> t1) @@ (w2 :> t1) @@ (w3 :> t2)

\* o1 is too large for every budget of the instance.
BigFirst == (o1 :> 3) @@ (o2 :> 1)
====
