------------------------------ MODULE Discovery ------------------------------
(* Native tool discovery: the request-local plan (discovery.New) built from *)
(* the history, the tools the application currently defines and those it    *)
(* can execute, and the three rewrites of a converted request that load     *)
(* searched tools on the provider's side (OpenAIWire, AnthropicWire,        *)
(* VercelWire).                                                             *)
(*                                                                          *)
(* A tool on the wire is [name, kind, feedback, marked]; kind is            *)
(* "function", "search" (the provider's search tool) or "deferred"          *)
(* (defer_loading), feedback the search whose result is appended to the     *)
(* description, and marked says that the tools' cache breakpoint is on it.  *)
(* A search result's piece of the wire gains `loads`, the names it          *)
(* introduces.                                                              *)
EXTENDS CallTracker, TLC

CONSTANTS
    Catalogue,      \* every tool name, in the order CanonicalRequest sorts them
    SearchTool,     \* Catalog.SearchTool
    AlwaysLoaded    \* Catalog.AlwaysLoaded

ASSUME CatalogueAssumption ==
    /\ SearchTool \in ToSet(Catalogue) \ AlwaysLoaded
    /\ AlwaysLoaded \subseteq ToSet(Catalogue)

Always(name) == name = SearchTool \/ name \in AlwaysLoaded

Calls(contents) == OfKind(PartsOf(contents), "call")
Searches(contents) ==
    SelectSeq(OfKind(PartsOf(contents), "result"), LAMBDA r : r.name = SearchTool)

------------------------------------------------------------------------------
(* The plan *)

\* Names: what each search found and is still defined.
Names(contents, defs) ==
    FoldLeft(LAMBDA f, r : (r.id :> SelectSeq(r.found, LAMBDA t : t \in defs)) @@ f,
             <<>>, Searches(contents))

\* Fault: every search loads all it found.
ReferencesRepeated(contents, defs) ==
    LET step(f, r) ==
          LET found == SelectSeq(r.found, LAMBDA t : t \in defs /\ ~Always(t))
          IN IF found = <<>> THEN f ELSE (r.id :> found) @@ f
    IN FoldLeft(step, <<>>, Searches(contents))

\* References: the tools each search is the first to load.
References(contents, defs) ==
    LET step(w, r) ==
          LET fresh == SelectSeq(r.found, LAMBDA t :
                         t \in defs /\ ~Always(t) /\ t \notin w.seen)
          IN IF fresh = <<>> THEN w
             ELSE [seen |-> w.seen \cup ToSet(fresh), refs |-> (r.id :> fresh) @@ w.refs]
    IN FoldLeft(step, [seen |-> {}, refs |-> <<>>], Searches(contents)).refs

\* Fault: every search puts its result on the first tool it finds, loaded or not.
FirstFeedbackRepeated(plan, t) ==
    LET given == {id \in DOMAIN plan.names : plan.names[id] # <<>> /\ Head(plan.names[id]) = t}
    IN IF given = {} THEN NoId
       ELSE CHOOSE id \in given : \A other \in given : other <= id

\* FirstFeedback: the search whose result goes on the definition of a tool, if the
\* tool is the first of those a search loads.
FirstFeedback(plan, t) ==
    LET given == {id \in DOMAIN plan.references : Head(plan.references[id]) = t}
    IN IF given = {} THEN NoId ELSE CHOOSE id \in given : TRUE

LoadedBySearch(names) == UNION {ToSet(names[id]) : id \in DOMAIN names}

HasNamespace(names, call) ==
    call.native \in DOMAIN names /\ call.name \in ToSet(names[call.native])

Loaded(plan, name) ==
    Always(name) \/ name \in plan.executable \/ name \in LoadedBySearch(plan.names)

\* Fault: tools the application loaded by itself are forgotten.
NeedsFallbackLate(contents, defs, executable, openAI, names) ==
    LET loaded == LoadedBySearch(names)
    IN \/ \E i \in DOMAIN Searches(contents) :
            ~ToSet(Searches(contents)[i].found) \subseteq defs
       \/ /\ openAI
          /\ \E i \in DOMAIN Calls(contents) :
               LET call == Calls(contents)[i]
               IN /\ ~Always(call.name)
                  /\ call.name \in executable \cup loaded
                  /\ ~HasNamespace(names, call)

\* Native history is not enough: a tool was taken away, or the application
\* loaded one by itself, or (OpenAI) a call has lost its namespace.
NeedsFallback(contents, defs, executable, openAI, names) ==
    LET loaded == LoadedBySearch(names)
    IN \/ \E i \in DOMAIN Searches(contents) :
            ~ToSet(Searches(contents)[i].found) \subseteq defs
       \/ \E t \in executable \cap defs : t \notin loaded /\ ~Always(t)
       \/ /\ openAI
          /\ \E i \in DOMAIN Calls(contents) :
               LET call == Calls(contents)[i]
               IN /\ ~Always(call.name)
                  /\ call.name \in executable \cup loaded
                  /\ ~HasNamespace(names, call)

NewPlan(contents, defs, executable, openAI) ==
    LET names == Names(contents, defs)
        calls == Calls(contents)
    IN [openAI     |-> openAI,
        defs       |-> defs,
        executable |-> executable,
        names      |-> names,
        references |-> References(contents, defs),
        native     |-> [id \in {calls[i].id : i \in DOMAIN calls} |->
                          calls[CHOOSE i \in DOMAIN calls : calls[i].id = id].native],
        fallback   |-> NeedsFallback(contents, defs, executable, openAI, names)]

\* Native OpenAI discovery cannot pin a tool that is not an ordinary function.
RefusesChoice(plan, allowed) ==
    /\ plan.openAI /\ ~plan.fallback
    /\ \E t \in allowed : t = SearchTool \/ ~Always(t)

------------------------------------------------------------------------------
(* The wires *)

Defined(plan) == SelectSeq(Catalogue, LAMBDA t : t \in plan.defs)
Tool(name, kind) == [name |-> name, kind |-> kind, feedback |-> NoId, marked |-> FALSE]

OrdinaryTools(plan) ==
    LET loaded == SelectSeq(Defined(plan), LAMBDA t : Loaded(plan, t))
    IN [i \in DOMAIN loaded |-> Tool(loaded[i], "function")]

\* OpenAI: only always-loaded tools stay at the top, the search tool as the
\* provider's. Anthropic: the whole catalogue stays, the rest deferred; as a
\* reference leaves no room for words, the feedback goes on a definition.
NamespacedTools(plan) ==
    LET always == SelectSeq(Defined(plan), Always)
    IN [i \in DOMAIN always |->
          Tool(always[i], IF always[i] = SearchTool THEN "search" ELSE "function")]

DeferredTools(plan) ==
    LET all == Defined(plan)
    IN [i \in DOMAIN all |->
          IF Always(all[i]) THEN Tool(all[i], "function")
          ELSE [Tool(all[i], "deferred") EXCEPT !.feedback = FirstFeedback(plan, all[i])]]

\* The breakpoint applyCacheBreakpoints puts on the last tool; a deferred tool
\* hands it to the last one that is not.
Marked(tools, name) ==
    [i \in DOMAIN tools |-> [tools[i] EXCEPT !.marked = tools[i].name = name]]

IsSearchResult(plan, id) == id \in DOMAIN plan.names

\* An empty search keeps its feedback, as ordinary output under the same id.
OpenAIItem(plan, x) ==
    CASE x.type = "function_call" /\ x.name = SearchTool ->
            <<[x EXCEPT !.type = "tool_search_call"]>>
      [] x.type = "function_call" /\ x.name # SearchTool ->
            <<[x EXCEPT !.namespace = plan.native[x.id]]>>
      [] x.type = "function_call_output" /\ IsSearchResult(plan, x.id) ->
            LET output == [type |-> "tool_search_output", loads |-> plan.names[x.id]] @@ x
            IN IF plan.names[x.id] = <<>>
               THEN <<output, [x EXCEPT !.of = <<>>]>> ELSE <<output>>
      [] OTHER -> <<x>>

OpenAIWire(plan, items) ==
    IF plan.fallback THEN [tools |-> OrdinaryTools(plan), items |-> items]
    ELSE [tools |-> NamespacedTools(plan),
          items |-> FlattenSeq([i \in DOMAIN items |-> OpenAIItem(plan, items[i])])]

AnthropicBlock(plan, x) ==
    IF x.type = "tool_result" /\ x.id \in DOMAIN plan.references
    THEN [content |-> "references", loads |-> plan.references[x.id]] @@ x
    ELSE x

AnthropicWire(plan, messages) ==
    IF plan.fallback
    THEN [tools |-> Marked(OrdinaryTools(plan), Last(Defined(plan))), messages |-> messages]
    ELSE [tools |-> Marked(DeferredTools(plan), Last(SelectSeq(Defined(plan), Always))),
          messages |-> [i \in DOMAIN messages |->
             [messages[i] EXCEPT !.content =
                [j \in DOMAIN @ |-> AnthropicBlock(plan, @[j])]]]]

VercelWirePart(plan, x) ==
    CASE x.type = "tool-call" /\ plan.openAI /\ x.name # SearchTool ->
            <<[x EXCEPT !.namespace = plan.native[x.id]]>>
      [] x.type = "tool-result" /\ plan.openAI /\ IsSearchResult(plan, x.id) ->
            LET output == [output |-> "namespace", loads |-> plan.names[x.id]] @@ x
            IN IF plan.names[x.id] = <<>>
               THEN <<output, [x EXCEPT !.of = <<>>]>> ELSE <<output>>
      [] x.type = "tool-result" /\ ~plan.openAI /\ x.id \in DOMAIN plan.references ->
            <<[output |-> "references", loads |-> plan.references[x.id]] @@ x>>
      [] OTHER -> <<x>>

VercelWire(plan, messages) ==
    IF plan.fallback THEN [tools |-> OrdinaryTools(plan), messages |-> messages]
    ELSE [tools |-> IF plan.openAI THEN NamespacedTools(plan) ELSE DeferredTools(plan),
          messages |-> [i \in DOMAIN messages |->
             [messages[i] EXCEPT !.parts =
                FlattenSeq([j \in DOMAIN @ |-> VercelWirePart(plan, @[j])])]]]

------------------------------------------------------------------------------
(* The answer *)

\* Annotate accepts a call in a namespace only if that search loaded it.
Authorised(plan, name, namespace) ==
    \/ plan.fallback
    \/ namespace = NoId
    \/ namespace \in DOMAIN plan.names /\ name \in ToSet(plan.names[namespace])
==============================================================================
