----------------------------- MODULE FactSchemas -----------------------------
(***************************************************************************)
(* The closed subset of JSON schema that facts are bound to: which object  *)
(* schemas schema.register takes, and which objects fact.assert takes under *)
(* one.  Both walk a tree; here the tree is a set of levels.  A node has    *)
(* the keywords of its type, a JSON value its kind; numbers are finite.     *)
(*   object   properties, required, closed (additionalProperties: false)    *)
(*   array    items, maxItems                                               *)
(*   string   maxLength, enum (none, or one set)                            *)
(*   integer, number   minimum, maximum (none, or one)                      *)
(*   boolean, null                                                          *)
(***************************************************************************)
EXTENDS Naturals, Sequences, FiniteSets

CONSTANTS MaxDepth, MaxNodes, MaxProperties, MaxItems, MaxLength, MaxEnum

ASSUME SchemaBoundAssumption ==
  {MaxDepth, MaxNodes, MaxProperties, MaxItems, MaxLength, MaxEnum} \subseteq Nat

Numeric == {"integer", "number"}
Scalars == Numeric \cup {"string", "boolean", "null"}

-----------------------------------------------------------------------------
(* Registration                                                            *)

\* What validate_schema_node asks of a node by itself.
NodeFits(n) ==
  \/ n.type = "object" /\ n.closed
       /\ Cardinality(DOMAIN n.properties) <= MaxProperties
       /\ n.required \subseteq DOMAIN n.properties
  \/ n.type = "array" /\ n.maxItems <= MaxItems
  \/ n.type = "string" /\ n.maxLength <= MaxLength
       /\ \A e \in n.enum : e # {} /\ Cardinality(e) <= MaxEnum
  \/ n.type \in Numeric \cup {"boolean", "null"}

\* The nodes below a node, with the way to them.
Below(path, n) ==
  IF n.type = "object"
  THEN {[path |-> Append(path, f), node |-> n.properties[f]] : f \in DOMAIN n.properties}
  ELSE IF n.type = "array"
       THEN {[path |-> Append(path, "[]"), node |-> n.items]}
       ELSE {}

\* The nodes of each level, one more level than is allowed.
NodeLevels(schema) ==
  LET level[d \in 0..MaxDepth + 1] ==
        IF d = 0 THEN {[path |-> <<>>, node |-> schema]}
        ELSE UNION {Below(x.path, x.node) : x \in level[d - 1]}
  IN level

\* validate_schema_registration: an object at the root, no node too deep, not too
\* many, each in order.
SchemaFits(schema) ==
  LET level == NodeLevels(schema)
      nodes == UNION {level[d] : d \in 0..MaxDepth}
  IN /\ schema.type = "object"
     /\ \A x \in nodes : NodeFits(x.node)
     /\ level[MaxDepth + 1] = {}
     /\ Cardinality(nodes) <= MaxNodes

-----------------------------------------------------------------------------
(* Assertion                                                               *)

InRange(v, n) == (\A lo \in n.minimum : lo <= v.at) /\ (\A hi \in n.maximum : v.at <= hi)

\* What validate_json_value asks of a value by itself.  A boolean or a null that
\* is one falls through the guards of its own arm to the last, which refuses it.
ValueFits(v, n) ==
  \/ n.type = "object" /\ v.kind = "object"
       /\ DOMAIN v.fields \subseteq DOMAIN n.properties
       /\ n.required \subseteq DOMAIN v.fields
  \/ n.type = "array" /\ v.kind = "array" /\ Len(v.items) <= n.maxItems
  \/ n.type = "string" /\ v.kind = "string"
       /\ v.length <= n.maxLength
       /\ \A e \in n.enum : v.text \in e
  \/ n.type = "integer" /\ v.kind = "integer" /\ InRange(v, n)
  \/ n.type = "number" /\ v.kind \in Numeric /\ InRange(v, n)

\* The parts of a value that fits its node, each with the node it is bound to.
PartsOf(v, n) ==
  IF ~ValueFits(v, n) THEN {}
  ELSE IF n.type = "object"
       THEN {<<v.fields[f], n.properties[f]>> : f \in DOMAIN v.fields}
       ELSE IF n.type = "array" THEN {<<v.items[i], n.items>> : i \in DOMAIN v.items} ELSE {}

ValueLevels(object, schema) ==
  LET level[d \in 0..MaxDepth + 1] ==
        IF d = 0 THEN {<<object, schema>>}
        ELSE UNION {PartsOf(x[1], x[2]) : x \in level[d - 1]}
  IN level

\* validate_json_value from the root
ObjectFits(object, schema) ==
  LET level == ValueLevels(object, schema)
  IN /\ \A d \in 0..MaxDepth : \A x \in level[d] : ValueFits(x[1], x[2])
     /\ level[MaxDepth + 1] = {}
=============================================================================
