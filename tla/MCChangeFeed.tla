---- MODULE MCChangeFeed ----
(* An instance of ChangeFeed, and of LocalWrite below it, for TLC. *)
EXTENDS MCLocalWrite, ChangeFeed

CONSTANT d3

\* The two-core requests with a write of a third document.
ThreeDocuments == TwoCoreRequests \cup {Request("k3", d3, {}, "x")}
Ascending == (d1 :> 1) @@ (d2 :> 2) @@ (d3 :> 3)
\* The two cores, each with its handler, are alike.
CorePairs == {(t1 :> t2) @@ (t2 :> t1) @@ (c1 :> c2) @@ (c2 :> c1)}
====
