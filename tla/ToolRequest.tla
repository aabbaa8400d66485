----------------------------- MODULE ToolRequest -----------------------------
(* The tools of a request from their declarations to the arguments of the   *)
(* calls that come back: Prepare with the schemas of ToolSchema.            *)
EXTENDS PreparedTools, ToolSchema

------------------------------------------------------------------------------
(* Arguments *)

\* Names of the definitions a union refers to where the plan does not follow.
RECURSIVE UnplannedRefs(_, _)
UnplannedRefs(root, s) ==
    LET refs(t) == {u.ref : u \in {v \in ToSet(Nested(t)) : Has(v, "ref")}}
        branches == {i \in DOMAIN Branches(s) : i # ValueBranch(s)}
    IN UNION {refs(Branches(s)[i]) : i \in branches}
       \cup UNION {UnplannedRefs(root, c) : c \in ToSet(Children(s))}

\* Where the encoding of optional properties does change a schema's meaning:
\* a definition also used in a union asks for placeholders that no plan
\* removes there; a union beside optional properties, which may say that one
\* of them must be present, is content with a placeholder.
Entangled(root) ==
    \/ PlannedRefs(root, root) \cap UnplannedRefs(root, root) # {}
    \/ \E s \in ToSet(Nested(root)) :
         Branches(s) # << >> /\ \E p \in DOMAIN Props(s) : OmittedAsNull(root, s, p)

\* Whatever the provider may answer under the schema it was sent, the
\* arguments handed over are arguments the application's own schema allows;
\* and everything that schema allows can still be said. A loss the caller
\* opted into may only widen. OpenAI schemas with unions that meet optional
\* properties are set apart (schema.go:92, support.go:16, optional.go:21).
ArgumentsMeanTheSame ==
    \A name \in Names :
        LET tool == prepared[name]
            root == tool.schema
            normal == Normalised(root)
            trials == {v \in Samples(root, root) : IsObject(v)}
            meant == {v \in trials : Valid(root, root, v)}
            received == {Restored(tool.plan, v) :
                         v \in {u \in trials : Valid(tool.wire, tool.wire, u)}}
        IN (request.provider = "openai" => ~Entangled(normal)) =>
             /\ meant \subseteq received
             /\ ~LosesAny(request, normal, TRUE) => received \subseteq meant
==============================================================================
