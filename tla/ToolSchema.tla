------------------------------ MODULE ToolSchema ------------------------------
(* JSON schemas of tools and what the processor does with one: adapt it to  *)
(* the target, encode optional properties for OpenAI's strict mode, restore *)
(* the arguments of a call, and measure it. Recursive, for TLC only.        *)
(*                                                                          *)
(* A schema is a function from the keywords it has, a subset of             *)
(*   type (a set of names), enum (a set of values), anyOf, oneOf            *)
(*   (sequences), props (name -> schema), required (a set), closed          *)
(*   (additionalProperties: false), items, pattern, ref, defs, nullable     *)
(* to what they say; `pattern` admits only the string "a". A request is     *)
(* [provider, gateway, lossy, ...]: gateway for a Vercel route, lossy for   *)
(* AllowUnsupported.                                                        *)
EXTENDS Integers, Sequences, FiniteSets, SequencesExt, FiniteSetsExt, Functions

Null == [null |-> TRUE]
Str(s) == [string |-> s]
IsObject(v) == "object" \in DOMAIN v
IsArray(v) == "array" \in DOMAIN v

TypeName(v) ==
    CASE "null" \in DOMAIN v -> "null"
      [] "string" \in DOMAIN v -> "string"
      [] IsObject(v) -> "object"
      [] IsArray(v) -> "array"

Has(s, keyword) == keyword \in DOMAIN s
Without(s, keywords) == Restrict(s, DOMAIN s \ keywords)
Only(keyword, value) == [k \in {keyword} |-> value]
\* f with g's entries in place of its own.
Updated(f, g) == [k \in DOMAIN f \cup DOMAIN g |-> IF k \in DOMAIN g THEN g[k] ELSE f[k]]
NullSchema == Only("type", {"null"})

Props(s) == IF Has(s, "props") THEN s.props ELSE << >>
Required(s) == IF Has(s, "required") THEN s.required ELSE {}

\* children: the schemas directly inside s, and s with each replaced.
Named(f) == LET names == SetToSeq(DOMAIN f) IN [i \in DOMAIN names |-> f[names[i]]]
Branches(s) == (IF Has(s, "anyOf") THEN s.anyOf ELSE << >>)
            \o (IF Has(s, "oneOf") THEN s.oneOf ELSE << >>)
Children(s) ==
    Branches(s) \o Named(Props(s)) \o (IF Has(s, "items") THEN <<s.items>> ELSE << >>)
    \o (IF Has(s, "defs") THEN Named(s.defs) ELSE << >>)

MapChildren(s, F(_)) ==
    [k \in DOMAIN s |->
        CASE k \in {"props", "defs"} -> [name \in DOMAIN s[k] |-> F(s[k][name])]
          [] k \in {"anyOf", "oneOf"} -> [i \in DOMAIN s[k] |-> F(s[k][i])]
          [] k = "items" -> F(s[k])
          [] OTHER -> s[k]]

------------------------------------------------------------------------------
(* What a schema means *)

RECURSIVE Valid(_, _, _)
Valid(root, s, v) == (Has(s, "nullable") /\ v = Null) \/
    /\ Has(s, "ref") => Valid(root, root.defs[s.ref], v)
    /\ Has(s, "type") => TypeName(v) \in s.type
    /\ Has(s, "enum") => v \in s.enum
    /\ Has(s, "pattern") => (TypeName(v) = "string" => v = Str("a"))
    /\ Has(s, "anyOf") => \E i \in DOMAIN s.anyOf : Valid(root, s.anyOf[i], v)
    /\ Has(s, "oneOf") => Cardinality({i \in DOMAIN s.oneOf : Valid(root, s.oneOf[i], v)}) = 1
    /\ IsObject(v) =>
         /\ \A p \in DOMAIN v.object \cap DOMAIN Props(s) : Valid(root, s.props[p], v.object[p])
         /\ Required(s) \subseteq DOMAIN v.object
         /\ Has(s, "closed") => DOMAIN v.object \subseteq DOMAIN Props(s)
    /\ IsArray(v) /\ Has(s, "items") =>
         \A i \in DOMAIN v.array : Valid(root, s.items, v.array[i])

\* Arguments worth trying on s: every shape s talks about, right and wrong,
\* with at most one array element.
RECURSIVE Samples(_, _)
Samples(root, s) ==
    LET objects ==
          {[object |-> f] : f \in UNION {
             {g \in [P -> UNION {Samples(root, s.props[p]) : p \in P}] :
                \A p \in P : g[p] \in Samples(root, s.props[p])} :
             P \in SUBSET DOMAIN Props(s)}}
        extended == IF Has(s, "closed") THEN
                       {[object |-> Updated(v.object, Only("extra", Null))] : v \in objects}
                    ELSE {}
    IN {Null, Str("a"), Str("b")}
       \cup (IF Has(s, "props") THEN objects \cup extended ELSE {})
       \cup (IF Has(s, "items")
             THEN {[array |-> << >>]} \cup {[array |-> <<v>>] : v \in Samples(root, s.items)}
             ELSE {})
       \cup UNION {Samples(root, b) : b \in ToSet(Branches(s))}
       \cup (IF Has(s, "ref") THEN Samples(root, root.defs[s.ref]) ELSE {})

------------------------------------------------------------------------------
(* Adapting a schema to its target *)

\* normalise: a typed schema's nullable covers all of it.
RECURSIVE Normalised(_)
Normalised(s) ==
    LET normal == MapChildren(Without(s, {"nullable"}), LAMBDA c : Normalised(c))
    IN IF Has(s, "nullable") THEN Only("anyOf", <<normal, NullSchema>>) ELSE normal

RootIsObject(s) == Has(s, "type") /\ s.type = {"object"}

Definition(root, name) == Has(root, "defs") /\ name \in DOMAIN root.defs

\* checkReferences: every reference names a definition, and none is circular.
RECURSIVE ReferencesHold(_, _, _)
ReferencesHold(root, s, active) ==
    /\ Has(s, "ref") =>
         /\ Definition(root, s.ref)
         /\ s.ref \notin active
         /\ ReferencesHold(root, root.defs[s.ref], active \cup {s.ref})
    /\ \A child \in ToSet(Children(s)) : ReferencesHold(root, child, active)

GoogleGateway(r) == r.provider = "google" /\ r.gateway

Supports(r, keyword) ==
    CASE keyword = "oneOf"   -> r.provider = "compatible"
      [] keyword = "pattern" -> \/ r.provider \in {"openai", "compatible"}
                                \/ r.provider = "google" /\ ~r.gateway
      [] keyword = "closed"  -> ~GoogleGateway(r)
      [] OTHER -> TRUE

\* The keywords a schema loses on this route; at the root a union is one.
Lost(r, s, isRoot) ==
    {k \in DOMAIN s : \/ ~Supports(r, k)
                      \/ isRoot /\ k = "anyOf" /\ (r.provider = "anthropic" \/ GoogleGateway(r))}

\* Claude takes a nullable enum as a type list, not as a union.
FlattenNullableEnum(s) ==
    LET foldable == {i \in DOMAIN s.anyOf :
                       /\ DOMAIN s.anyOf[i] = {"type", "enum"}
                       /\ s.anyOf[i].type # {"null"} /\ Cardinality(s.anyOf[i].type) = 1
                       /\ s.anyOf[3 - i] = NullSchema}
    IN IF /\ Has(s, "anyOf") /\ Len(s.anyOf) = 2 /\ foldable # {}
          /\ ~Has(s, "type") /\ ~Has(s, "enum")
       THEN LET value == s.anyOf[CHOOSE i \in foldable : TRUE]
            IN Updated(Without(s, {"anyOf"}),
                       [type |-> value.type \cup {"null"}, enum |-> value.enum \cup {Null}])
       ELSE s

\* Google's gateway expands a type list itself, so complete alternatives are
\* sent; assertions beside a union cannot be.
GoogleUnion(s) ==
    IF Has(s, "type") /\ Cardinality(s.type) > 1
    THEN Only("anyOf", SetToSeq({Updated(s, Only("type", {t})) : t \in s.type}))
    ELSE s

RECURSIVE GoogleAccepts(_)
GoogleAccepts(s) ==
    /\ Has(s, "anyOf") => DOMAIN s = {"anyOf"}
    /\ \A child \in ToSet(Children(s)) : GoogleAccepts(child)

RECURSIVE Adapted(_, _, _)
Adapted(r, s, isRoot) ==
    LET flat == IF r.provider = "anthropic" THEN FlattenNullableEnum(s) ELSE s
        lost == Lost(r, flat, isRoot)
        widened == IF r.provider = "openai" /\ "oneOf" \in lost /\ ~Has(flat, "anyOf")
                   THEN Updated(flat, [anyOf |-> flat.oneOf]) ELSE flat
        adapted == MapChildren(Without(widened, lost), LAMBDA c : Adapted(r, c, FALSE))
    IN IF GoogleGateway(r) THEN GoogleUnion(adapted) ELSE adapted

\* A loss the caller has not allowed is an error.
RECURSIVE LosesAny(_, _, _)
LosesAny(r, s, isRoot) ==
    LET flat == IF r.provider = "anthropic" THEN FlattenNullableEnum(s) ELSE s
    IN \/ Lost(r, flat, isRoot) # {}
       \/ \E child \in ToSet(Children(flat)) : LosesAny(r, child, FALSE)

------------------------------------------------------------------------------
(* Optional properties in OpenAI's strict mode *)

ExcludesNull(root, s) ==
    LET RECURSIVE excludes(_)
        excludes(t) == IF DOMAIN t = {"ref"} THEN excludes(root.defs[t.ref])
                       ELSE Has(t, "type") /\ "null" \notin t.type
    IN excludes(s)

\* nullableValue: the value branch of a value-or-null union, 0 if it is none.
ValueBranch(s) ==
    IF DOMAIN s = {"anyOf"} /\ Len(s.anyOf) = 2 /\ NullSchema \in ToSet(s.anyOf)
    THEN IF s.anyOf[1] = NullSchema THEN 2 ELSE 1
    ELSE 0

\* Fault: every optional property is taken to have no null of its own.
OmittedWheneverOptional(root, s, p) == p \notin Required(s)

OmittedAsNull(root, s, p) ==
    p \notin Required(s) /\ ExcludesNull(root, s.props[p])

\* The encoded schema. A definition is encoded where it is first planned.
RECURSIVE Encoded(_, _)
Encoded(root, s) ==
    IF DOMAIN s = {"ref"} THEN s
    ELSE IF ValueBranch(s) # 0
    THEN [s EXCEPT !.anyOf[ValueBranch(s)] = Encoded(root, @)]
    ELSE LET encode(p) ==
               IF OmittedAsNull(root, s, p)
               THEN Only("anyOf", <<Encoded(root, s.props[p]), NullSchema>>)
               ELSE Encoded(root, s.props[p])
             required == Required(s) \cup {p \in DOMAIN Props(s) : OmittedAsNull(root, s, p)}
         IN Updated(s,
              [k \in (DOMAIN s \cap {"props", "items"}) \cup
                     (IF required = {} THEN {} ELSE {"required"}) |->
                 CASE k = "props" -> [p \in DOMAIN s.props |-> encode(p)]
                   [] k = "items" -> Encoded(root, s.items)
                   [] k = "required" -> required])

\* The definitions the plan walks through. It does not enter unions.
RECURSIVE PlannedRefs(_, _)
PlannedRefs(root, s) ==
    IF DOMAIN s = {"ref"} THEN {s.ref} \cup PlannedRefs(root, root.defs[s.ref])
    ELSE IF ValueBranch(s) # 0 THEN PlannedRefs(root, s.anyOf[ValueBranch(s)])
    ELSE UNION {PlannedRefs(root, c) :
                c \in Range(Props(s)) \cup (IF Has(s, "items") THEN {s.items} ELSE {})}

EncodedRoot(root) ==
    LET planned == PlannedRefs(root, root)
        encoded == Encoded(root, root)
    IN IF Has(root, "defs")
       THEN [encoded EXCEPT !.defs = [d \in DOMAIN @ |->
               IF d \in planned THEN Encoded(root, @[d]) ELSE @[d]]]
       ELSE encoded

\* omissionPlan. The marker belongs to the property, never to a definition
\* that other properties share.
RECURSIVE PlanOf(_, _)
PlanOf(root, s) ==
    IF DOMAIN s = {"ref"} THEN PlanOf(root, root.defs[s.ref])
    ELSE IF ValueBranch(s) # 0 THEN PlanOf(root, s.anyOf[ValueBranch(s)])
    ELSE [omit  |-> {p \in DOMAIN Props(s) : OmittedAsNull(root, s, p)},
          props |-> [p \in DOMAIN Props(s) |-> PlanOf(root, s.props[p])],
          items |-> IF Has(s, "items") THEN <<PlanOf(root, s.items)>> ELSE << >>]

NoPlan == [omit |-> {}, props |-> << >>, items |-> << >>]

\* restore: the arguments of a final call without the placeholders.
RECURSIVE Restored(_, _)
Restored(plan, v) ==
    CASE IsObject(v) ->
           [object |-> [p \in {q \in DOMAIN v.object : ~(q \in plan.omit /\ v.object[q] = Null)} |->
              IF p \in DOMAIN plan.props THEN Restored(plan.props[p], v.object[p])
              ELSE v.object[p]]]
      [] IsArray(v) /\ plan.items # << >> ->
           [array |-> [i \in DOMAIN v.array |-> Restored(plan.items[1], v.array[i])]]
      [] OTHER -> v

------------------------------------------------------------------------------
(* Strict mode *)

RECURSIVE Nested(_)
Nested(s) ==
    LET inside == Children(s)
    IN <<s>> \o FlattenSeq([i \in DOMAIN inside |-> Nested(inside[i])])

OptionalProps(s) == DOMAIN Props(s) \ Required(s)

\* anthropicStrictCost, over the schema and everything in it.
StrictCost(schema) ==
    LET all == Nested(schema)
        unions(s) == (IF Has(s, "anyOf") /\ Len(s.anyOf) > 1 THEN 1 ELSE 0)
                   + (IF Has(s, "type") /\ Cardinality(s.type) > 1 THEN 1 ELSE 0)
    IN [optional |-> SumFunction([i \in DOMAIN all |-> Cardinality(OptionalProps(all[i]))]),
        unions   |-> SumFunction([i \in DOMAIN all |-> unions(all[i])])]

StrictCompatible(r, schema) ==
    /\ r.provider = "openai" => ~Has(schema, "anyOf")
    /\ \A s \in ToSet(Nested(schema)) :
         Has(s, "props") \/ (Has(s, "type") /\ s.type = {"object"}) =>
           /\ Has(s, "closed")
           /\ r.provider = "openai" => OptionalProps(s) = {}

ContainsNullableEnum(schema) ==
    \E s \in ToSet(Nested(schema)) : Has(s, "enum") /\ Has(s, "type") /\ "null" \in s.type

\* Prepare, for one declared schema: canonical, checkReferences, adapt, and
\* for OpenAI encodeOmissions.
Converted(r, schema) ==
    LET root == Normalised(schema)
        adapted == Adapted(r, root, TRUE)
        openai == r.provider = "openai"
        wire == IF openai THEN EncodedRoot(adapted) ELSE adapted
    IN IF /\ RootIsObject(root)
          /\ ReferencesHold(root, root, {})
          /\ r.lossy \/ ~LosesAny(r, root, TRUE)
          /\ GoogleGateway(r) => GoogleAccepts(adapted)
       THEN [ok     |-> TRUE,
             wire   |-> wire,
             plan   |-> IF openai THEN PlanOf(adapted, adapted) ELSE NoPlan,
             strict |-> /\ r.provider \in {"openai", "anthropic"}
                        /\ StrictCompatible(r, wire)
                        /\ r.provider = "anthropic" /\ ~r.gateway => ~ContainsNullableEnum(wire)]
       ELSE [ok |-> FALSE, wire |-> << >>, plan |-> NoPlan, strict |-> FALSE]
==============================================================================
