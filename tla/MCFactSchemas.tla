---------------------------- MODULE MCFactSchemas ----------------------------
(* FactSchemas against a definition by recursion over the tree, for small  *)
(* schemas and every small value: TLC evaluates the assumptions.            *)
EXTENDS FactSchemas
LOCAL INSTANCE FiniteSetsExt
LOCAL INSTANCE SequencesExt

Object(properties, required) ==
  [type |-> "object", properties |-> properties, required |-> required, closed |-> TRUE]
Array(items, n) == [type |-> "array", items |-> items, maxItems |-> n]
String(n, enum) == [type |-> "string", maxLength |-> n, enum |-> enum]
Number(type, lo, hi) == [type |-> type, minimum |-> lo, maximum |-> hi]
Plain(type) == [type |-> type]

Texts == {"", "a", "b", "ab"}
Chars(text) == CASE text = "" -> 0 [] text = "ab" -> 2 [] OTHER -> 1
Text(text) == [kind |-> "string", text |-> text, length |-> Chars(text)]
Record(fields) == [kind |-> "object", fields |-> fields]
List(items) == [kind |-> "array", items |-> items]

Leaves ==
  {String(1, {}), String(1, {{"a", "ab"}}), String(3, {}), String(0, {{}}),
   Number("integer", {}, {0}), Number("number", {1}, {}), Plain("boolean"), Plain("null")}
Parents(nodes) ==
  {Array(n, i) : n \in nodes, i \in {1, 3}}
    \cup {Object([x \in names |-> n], required) :
            names \in {{}, {"p"}, {"p", "q"}}, n \in nodes, required \in {{}, {"p"}}}
Nested(n) == Object([x \in {"p"} |-> n], {})
SmallSchemas ==
  Leaves \cup Parents(Leaves)
    \cup Parents({Array(n, 1) : n \in Leaves} \cup {Nested(n) : n \in Leaves})
    \cup {Nested(Nested(Nested(n))) : n \in Leaves}
    \cup {[Nested(n) EXCEPT !.closed = FALSE] : n \in Leaves}

Scalar ==
  {Text(x) : x \in Texts} \cup [kind : Numeric, at : 0..1]
    \cup [kind : {"boolean"}, at : 0..1] \cup [kind : {"null"}]
Fields(values) == UNION {[names -> values] : names \in SUBSET {"p", "q"}}
SmallObjects ==
  {Record(f) : f \in Fields(Scalar)}
    \cup {Record([x \in {"p"} |-> v]) :
            v \in {List(s) : s \in SeqOf(Scalar, 2)} \cup {Record([x \in {"p"} |-> s]) : s \in Scalar}}

\* The depth of a schema below its root, and the number of its nodes.
RECURSIVE Depth(_)
Depth(n) ==
  LET below == {Depth(x.node) : x \in Below(<<>>, n)}
  IN IF below = {} THEN 0 ELSE 1 + Max(below)
RECURSIVE Count(_)
Count(n) == 1 + MapThenSumSet(LAMBDA x : Count(x.node), Below(<<>>, n))
RECURSIVE Orderly(_)
Orderly(n) == NodeFits(n) /\ \A x \in Below(<<>>, n) : Orderly(x.node)

\* What a schema says of a value; a boolean is a boolean, and null is null.
RECURSIVE Says(_, _)
Says(n, v) ==
  CASE n.type = "object" ->
         /\ v.kind = "object"
         /\ n.required \subseteq DOMAIN v.fields
         /\ \A f \in DOMAIN v.fields :
              f \in DOMAIN n.properties /\ Says(n.properties[f], v.fields[f])
    [] n.type = "array" ->
         v.kind = "array" /\ Len(v.items) <= n.maxItems
           /\ \A i \in DOMAIN v.items : Says(n.items, v.items[i])
    [] n.type \in {"boolean", "null"} -> v.kind = n.type
    [] OTHER -> ValueFits(v, n)

RECURSIVE Mentions(_, _)
Mentions(v, kinds) ==
  \/ v.kind \in kinds
  \/ v.kind = "object" /\ \E f \in DOMAIN v.fields : Mentions(v.fields[f], kinds)
  \/ v.kind = "array" /\ \E i \in DOMAIN v.items : Mentions(v.items[i], kinds)

ASSUME RegistrationWalksTheTree ==
  \A s \in SmallSchemas :
    SchemaFits(s) <=>
      s.type = "object" /\ Orderly(s) /\ Depth(s) <= MaxDepth /\ Count(s) <= MaxNodes

\* fact.assert takes what the schema says, unless there is a boolean or a null in it.
ASSUME AssertionFollowsTheSchema ==
  \A s \in {x \in SmallSchemas : SchemaFits(x)}, v \in SmallObjects :
    ObjectFits(v, s) <=> Says(s, v) /\ ~Mentions(v, {"boolean", "null"})
=============================================================================
