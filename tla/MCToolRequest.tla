---------------------------- MODULE MCToolRequest ----------------------------
(* Small requests: one tool with each kind of schema the processor treats   *)
(* differently, on every target; and several tools that compete for a small *)
(* strict-mode budget under every kind of hints.                            *)
EXTENDS ToolRequest, TLC

A == Only("type", {"string"})
OneOf(S) == [type |-> {"string"}, enum |-> {Str(x) : x \in S}]
Maybe(s) == [anyOf |-> <<s, NullSchema>>]
Ref(d) == [ref |-> d]
List(s) == [type |-> {"array"}, items |-> s]
Object(props, required) ==
    [type |-> {"object"}, closed |-> TRUE, props |-> props, required |-> required]

Item == Object([count |-> A, note |-> Maybe(A)], {"note"})
Shared(props, required) ==
    Updated(Object(props, required), [defs |-> [Item |-> Item, Alias |-> Ref("Item")]])

ArgumentSchemas == {
    Only("type", {"object"}),
    Object([label |-> A, count |-> OneOf({"a"})], {"label"}),
    [type |-> {"object"}, props |-> [rows |-> List(Object([value |-> A], {}))]],
    Object([inner |-> Object([x |-> A, y |-> Maybe(A)], {"y"}), flag |-> A], {}),
    Object([row |-> Maybe(Object([x |-> A], {}))], {"row"}),
    Shared([one |-> Ref("Item"), other |-> Ref("Alias")], {"one"}),
    Shared([one |-> Maybe(Ref("Item"))], {}),
    Shared([one |-> Ref("Item"), other |-> [anyOf |-> <<Ref("Item"), A>>]], {"one", "other"}),
    Object([pick |-> [anyOf |-> <<[type |-> {"string"}, pattern |-> TRUE], List(A)>>]], {}),
    Object([pick |-> [oneOf |-> <<A, OneOf({"a"}), NullSchema>>]], {"pick"}),
    Object([kind |-> Maybe(OneOf({"a"}))], {"kind"}),
    Object([kind |-> [nullable |-> TRUE, type |-> {"string"}, enum |-> {Str("b")}]], {}),
    Object([many |-> [type |-> {"array", "null"}, items |-> A]], {}),
    Updated(Object([x |-> A, y |-> A], {}),
            [anyOf |-> <<[required |-> {"x"}], [required |-> {"y"}]>>]),
    Object([x |-> [type |-> {"string"}, anyOf |-> <<OneOf({"a"}), OneOf({"b"})>>]], {"x"}),
    Object([x |-> Ref("Missing")], {}),
    Updated(Object([x |-> Ref("Loop")], {}), [defs |-> [Loop |-> List(Ref("Loop"))]]),
    Maybe(Object([x |-> A], {})) }

\* Costs (optional, unions) of (0, 0), (2, 0), (1, 2) and (4, 0); the limits
\* of the run are 3 and 2.
BudgetSchemas == {
    Object([x |-> A], {"x"}),
    Object([x |-> A, y |-> A], {}),
    Object([x |-> Maybe(A), y |-> Maybe(A)], {"x"}),
    Object([w |-> A, x |-> A, y |-> A, z |-> A], {}) }

Single(names, schemas) == {<<[name |-> n, schema |-> s]>> : n \in names, s \in schemas}
Triples ==
    {<<[name |-> "t1", schema |-> s], [name |-> "t2", schema |-> t], [name |-> last, schema |-> u]>> :
       s \in BudgetSchemas, t \in BudgetSchemas, u \in BudgetSchemas, last \in {"t3"}}

Request(providers, gateways, losses, hints, tools) ==
    [provider : providers, gateway : gateways, lossy : losses, hints : hints, tools : tools]

MCRequests ==
    Request({"openai", "anthropic", "google", "compatible"}, BOOLEAN, BOOLEAN, {NoHints},
            Single({"t1", ""}, ArgumentSchemas))
    \cup Request({"anthropic"}, {TRUE}, {FALSE},
            {NoHints, << >>, <<"t3", "t1">>, <<"t2", "gone", "t2", "t1", "t3">>}, Triples)
    \cup Request({"openai"}, {FALSE}, {FALSE}, {<<"t2">>},
            {<<t[1], t[2], [t[3] EXCEPT !.name = n]>> : t \in Triples, n \in {"t1", "t3"}})
==============================================================================
