---- MODULE MCToolkit ----
(* An instance of Toolkit for TLC. *)
EXTENDS Toolkit, TLC

CONSTANTS t1, t2, yes, no, tool

Concept(key, kind, categories, one) ==
  [key |-> key, kind |-> kind, one |-> one, categories |-> categories, parent |-> {},
   values |-> {yes, no}, rubric |-> {}]
Domain == Concept("domain", "category", {}, TRUE)
Redefined == Concept("domain", "other", {}, TRUE)
Attribute == Concept("attribute", "other", {"domain"}, TRUE)
Vocabulary == {Domain, Redefined, Attribute}

Asserted(id, concept, value, origin, state) ==
  [key |-> id, kind |-> "assertion", id |-> id, tool |-> tool, concept |-> concept,
   revision |-> {}, value |-> value, origin |-> origin, state |-> state, rubric |-> {}]
Review(id, assertion, state) ==
  [key |-> id, kind |-> "review", id |-> id, assertion |-> assertion, state |-> state]

\* An attribute of the tools of a domain that is redefined, two values for it, an
\* open question and three reviews.
ToolkitRequests ==
  {[key |-> "domain", kind |-> "concept", def |-> Domain],
   [key |-> "again", kind |-> "concept", def |-> Domain],
   [key |-> "redefined", kind |-> "concept", def |-> Redefined],
   [key |-> "attribute", kind |-> "concept", def |-> Attribute],
   [key |-> "tool", kind |-> "tool", tool |-> tool, active |-> TRUE],
   Asserted("member", "domain", {yes}, "human", "verified"),
   Asserted("open", "attribute", {}, "human", "unknown"),
   Asserted("ai", "attribute", {yes}, "ai", "proposed"),
   Asserted("human", "attribute", {no}, "human", "verified"),
   Review("confirm", "ai", "verified"), Review("refute", "ai", "rejected"),
   Review("expel", "member", "rejected")}
OtherRequests == {[key |-> "expel", kind |-> "other"]}
HandlerSymmetry == Permutations(Handlers)
====
