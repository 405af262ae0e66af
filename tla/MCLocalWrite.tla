---- MODULE MCLocalWrite ----
(* Instances of LocalWrite for TLC. *)
EXTENDS LocalWrite, TLC

CONSTANTS c1, c2, t1, t2, d1, d2

Request(key, doc, expected, body) ==
  [app |-> "a", key |-> key, doc |-> doc, expected |-> expected, body |-> body]

\* One key used for two documents, a second write of the first one that expects
\* it to be empty, and a third for which its log may be full.
OneCoreRequests ==
  {Request("k1", d1, {}, "x"), Request("k1", d2, {}, "x"),
   Request("k2", d1, {0}, "x"), Request("k3", d1, {}, "x")}
TwoCoreRequests ==
  {Request("k1", d1, {}, "x"), Request("k2", d1, {0}, "x"), Request("k1", d2, {}, "x")}
ReuseRequests ==
  {Request("k1", d1, {}, "x"), Request("k1", d1, {}, "y")}

OneCorePair == [t \in {t1, t2} |-> c1]
TwoCore == (t1 :> c1) @@ (t2 :> c2)
====
