---- MODULE MCFacts ----
(* Instances of Facts for TLC. *)
EXTENDS Facts, MCFactSchemas, TLC

CONSTANTS t1, t2, k1, k2, c1, c2, u1, s1, s2

\* One schema for all: where the subject is, with a source.
Located == [s \in Schemas |->
  [object |-> Object([x \in {"p"} |-> String(1, {})], {"p"}), provenance |-> {"source"}]]
At(text) == Record([x \in {"p"} |-> Text(text)])

Request(key, claim, schema, status) ==
  [key |-> key, claim |-> claim, subject |-> u1, schema |-> schema, status |-> status,
   object |-> At("a"), given |-> {"source"}]

\* Two claims of one subject that exclude one another: asserted, superseded,
\* retracted, and disputed, which the schema does not allow.
TwoClaims ==
  {Request("a", k1, s1, "ASSERTED"), Request("b", k1, s1, "ASSERTED"),
   Request("c", k1, s1, "RETRACTED"), Request("d", k2, s1, "ASSERTED"),
   Request("e", k1, s1, "DISPUTED")}
Once == {Request("a", k1, s1, "ASSERTED")}

TwoCore == (t1 :> c1) @@ (t2 :> c2)
OneCore == (t1 :> c1) @@ (t2 :> c1)
AllowAll == [s \in Schemas |-> {"ASSERTED", "RETRACTED", "DISPUTED", "EXPIRED"}]
NoDispute == [s \in Schemas |-> {"ASSERTED", "RETRACTED"}]
\* The two slots are alike: each has a core of its own.
CoreSymmetry == Permutations(Handlers)
====
