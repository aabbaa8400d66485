------------------------------- MODULE Session -------------------------------
(* A conversation that grows turn by turn, and the requests the adapters    *)
(* derive from it. The application keeps the history (the user's words, the *)
(* model's turns, tool results), the tools it defines and the ones it can   *)
(* execute; at every moment each adapter may be asked to convert the whole  *)
(* history, so the properties below read every state as a request.          *)
EXTENDS AnthropicRequest, OpenAIRequest, VercelRequest, Discovery, PromptCache,
        StructuredOutput

CONSTANTS
    UserTurns,      \* what an ordinary agent's user may say: sequences of parts
    ModelTurns,     \* what the model of an ordinary agent may answer
    Deferred,       \* the tools a search may load
    MaxPlain,       \* bound: parts of an ordinary agent's history
    MaxNative       \* bound: parts of a discovering agent's history

ASSUME DeferredAssumption ==
    Deferred \subseteq ToSet(Catalogue) \ (AlwaysLoaded \cup {SearchTool})

Said == [kind : {"text"}, words : {"some", "blank", "empty"}, item : STRING]
        \cup [kind : {"media"}, form : {"image", "remote", "other"}]
Answer == Said \cup [kind : {"thought"}] \cup [kind : {"signed"}, by : {"own", "other"}]
          \cup [kind : {"call"}, id : Nat, name : STRING, native : {NoId}]

\* A provider that names its calls gives the calls of one turn different ids.
ASSUME TurnsAssumption ==
    /\ UserTurns \subseteq Seq(Said) \ {<<>>}
    /\ ModelTurns \subseteq Seq(Answer) \ {<<>>}
    /\ \A turn \in ModelTurns : \A i, j \in DOMAIN turn :
         turn[i].kind = "call" /\ turn[j].kind = "call" /\ turn[i].id = turn[j].id
           => i = j \/ turn[i].id = NoId

VARIABLES
    agent,          \* "plain", or the provider of an agent with native discovery
    contents,       \* LLMRequest.Contents
    defs,           \* names of the tools in LLMRequest.Config.Tools
    executable      \* names in LLMRequest.Tools

vars == <<agent, contents, defs, executable>>

Agents == {"plain", "openai", "anthropic"}

------------------------------------------------------------------------------
(* The history *)

LastNumber == IF contents = <<>> THEN 0 ELSE Last(Last(contents).parts).n
Numbered(parts) == [i \in DOMAIN parts |-> Number(parts[i], LastNumber + i)]
Say(role, parts) == contents' = Append(contents, [role |-> role, parts |-> Numbered(parts)])

\* The calls no result answers yet.
AllParts(history) == UNION {ToSet(history[i].parts) : i \in DOMAIN history}
OpenIn(said) ==
    {c \in said : c.kind = "call" /\ ~\E r \in said : r.kind = "result" /\ r.answers = c.n}
Open == OpenIn(AllParts(contents))

\* A result without id can only mean the oldest open call, so an id-less call
\* is settled, in call order, while no other turn's call is open.
Unnamed(parts) == \E p \in parts : p.kind = "call" /\ p.id = NoId
HasRoom == LastNumber < (IF agent = "plain" THEN MaxPlain ELSE MaxNative)

Init ==
    /\ agent \in Agents
    /\ contents = <<>>
    /\ defs = IF agent = "plain" THEN {} ELSE ToSet(Catalogue)
    /\ executable = defs \ Deferred

UserSpeaks ==
    /\ HasRoom
    /\ ~Unnamed(Open)
    /\ agent # "plain" => Open = {}
    /\ \E turn \in IF agent = "plain" THEN UserTurns ELSE {<<Text("some", NoItem)>>} :
         Say("user", turn)
    /\ UNCHANGED <<agent, defs, executable>>

\* Another agent's turn may follow a model turn, and a turn may be cut before
\* its tools ran.
ModelSpeaks ==
    /\ agent = "plain" /\ HasRoom
    /\ contents # <<>>
    /\ ~Unnamed(Open)
    /\ \E turn \in ModelTurns :
         /\ Unnamed(ToSet(turn)) => Open = {}
         /\ \A i \in DOMAIN turn : turn[i].kind = "call" =>
              \A c \in Open : c.id # turn[i].id
         /\ Say("model", turn)
    /\ UNCHANGED <<agent, defs, executable>>

\* Some of the open calls are answered in one content: named ones in any
\* order, id-less ones from the oldest.
ToolsAnswer ==
    /\ HasRoom
    /\ \E count \in 1..Cardinality(Open) : \E pick \in [1..count -> Open] :
         /\ \A i, j \in 1..count : i # j => pick[i] # pick[j]
         /\ Unnamed(Open) => \A i \in 1..count : \A c \in Open :
              c.n < pick[i].n => \E j \in 1..(i - 1) : pick[j] = c
         /\ \A i \in 1..count : pick[i].name # SearchTool
         /\ Say("user", [i \in 1..count |->
                Result(pick[i].id, pick[i].name, pick[i].n, <<>>)])
    /\ UNCHANGED <<agent, defs, executable>>

------------------------------------------------------------------------------
(* Agents with native discovery: their calls are settled at once and have    *)
(* ids of their own.                                                         *)

Plan == NewPlan(contents, defs, executable, agent = "openai")

Asked == /\ agent # "plain" /\ HasRoom
         /\ contents # <<>> /\ Open = {}
         /\ Last(contents).role = "user"

ModelSearches ==
    /\ Asked
    /\ Say("model", <<Call(LastNumber + 1, SearchTool, NoId)>>)
    /\ UNCHANGED <<agent, defs, executable>>

\* The application resolves a search to tools it defines, and can run them
\* from now on.
SearchAnswers ==
    /\ HasRoom
    /\ \E call \in Open : \E count \in 0..Cardinality(Deferred) :
       \E found \in [1..count -> Deferred \cap defs] :
         /\ call.name = SearchTool /\ \A c \in Open : call.n <= c.n
         /\ \A i, j \in 1..count : i # j => found[i] # found[j]
         /\ Say("user", <<Result(call.id, SearchTool, call.n, found)>>)
         /\ executable' = executable \cup ToSet(found)
    /\ UNCHANGED <<agent, defs>>

\* The provider calls a tool it was shown, in any namespace of its own; an
\* unauthorised pair is refused and leaves no trace in the history.
ModelCalls ==
    /\ Asked
    /\ \E t \in executable \cap Deferred :
       \E namespace \in {NoId} \cup (IF agent = "openai" /\ ~Plan.fallback
                                     THEN DOMAIN Plan.names ELSE {}) :
         /\ Authorised(Plan, t, namespace)
         /\ Say("model", <<Call(LastNumber + 1, t, namespace)>>)
    /\ UNCHANGED <<agent, defs, executable>>

\* Between turns the application withdraws a tool, grants it again, loads one
\* on its own, or replaces the settled start of the history by a summary.
Idle == agent # "plain" /\ contents # <<>> /\ Open = {}

Revoke ==
    /\ Idle
    /\ \E t \in Deferred \cap defs : /\ defs' = defs \ {t}
                                     /\ executable' = executable \ {t}
    /\ UNCHANGED <<agent, contents>>

Grant ==
    /\ Idle
    /\ \E t \in Deferred \ defs : defs' = defs \cup {t}
    /\ UNCHANGED <<agent, contents, executable>>

ApplicationLoads ==
    /\ Idle
    /\ \E t \in (Deferred \cap defs) \ executable : executable' = executable \cup {t}
    /\ UNCHANGED <<agent, contents, defs>>

Compact ==
    /\ Idle
    /\ \E k \in 2..(Len(contents) - 1) :
         LET rest == SubSeq(contents, k + 1, Len(contents))
             kept == AllParts(rest)
         IN /\ \A r \in kept : r.kind = "result" =>
                 \E c \in kept : c.kind = "call" /\ c.n = r.answers
            /\ contents' = <<[role |-> "user", parts |-> <<AdaptersText>>]>> \o rest
    /\ UNCHANGED <<agent, defs, executable>>

Next ==
    \/ UserSpeaks \/ ModelSpeaks \/ ToolsAnswer
    \/ ModelSearches \/ SearchAnswers \/ ModelCalls
    \/ Revoke \/ Grant \/ ApplicationLoads \/ Compact

Spec == Init /\ [][Next]_vars
------------------------------------------------------------------------------
(* The requests of a state *)

Vercel    == VercelPrompt(contents)
Responses == ResponsesInput(contents)
Chat      == ChatMessages(contents)
Anthropic == AnthropicRequest(contents)

Discovers == agent # "plain" /\ SearchTool \in defs

------------------------------------------------------------------------------
(* Nothing lost or moved *)

\* The pieces of a request, in the order of the wire.
MessageParts(messages) == FlattenSeq([i \in DOMAIN messages |-> messages[i].parts])
MessageBlocks(messages) == FlattenSeq([i \in DOMAIN messages |-> messages[i].content])
ChatPieces(messages) ==
    FlattenSeq([i \in DOMAIN messages |->
        IF messages[i].role = "tool" THEN <<messages[i]>> ELSE messages[i].calls])

\* The pieces each adapter sends; none if it refuses the history.
VercelPieces == LET v == Vercel IN IF v.ok THEN MessageParts(v.messages) ELSE <<>>
ResponsesPieces == LET r == Responses IN IF r.ok THEN r.items ELSE <<>>
AnthropicPieces == LET a == Anthropic IN IF a.ok THEN MessageBlocks(a.messages) ELSE <<>>

Carried(pieces) == FlattenSeq([i \in DOMAIN pieces |-> pieces[i].of])

\* What each provider must be told, read off the history alone.
Expected(history, Shown(_, _)) ==
    FlattenSeq([i \in DOMAIN history |->
        Numbers(Kept(history[i].parts,
                     {k \in DOMAIN history[i].parts :
                        Shown(history[i].role, history[i].parts[k])}))])

NotHidden(role, p) == p.kind # "thought"
Worthwhile(role, p) ==
    /\ p.kind # "thought"
    /\ ~(role = "model" /\ p.kind = "text" /\ p.words # "some" /\ p.item = NoItem)
\* Anthropic shows the assistant's unsigned thoughts; nobody else's.
Presentable(role, p) ==
    /\ ~(role = "user" /\ p.kind \in {"thought", "signed"})
    /\ ~(p.kind = "text" /\ p.words = "empty")

\* Chat Completions has one place for a turn's text and one for its calls.
ChatExpected ==
    FlattenSeq([i \in DOMAIN contents |->
        LET parts == contents[i].parts
            calls == {k \in DOMAIN parts : parts[k].kind = "call"}
        IN Numbers(Kept(parts, DOMAIN parts \ calls)) \o Numbers(Kept(parts, calls))])
ChatCarried(messages) ==
    FlattenSeq([i \in DOMAIN messages |->
        IF messages[i].role = "tool" THEN messages[i].of
        ELSE messages[i].of \o Carried(messages[i].calls)])

\* Every part of the history that a provider may see is in its request once
\* and in the history's order: converting, merging and flushing messages
\* neither drops, repeats nor reorders what was said (vercel/request.go:57,
\* openaiconvert/request.go:118, chat.go:18, anthropicconvert/request.go:37).
NothingLostOrMoved ==
    /\ \A pieces \in {VercelPieces} :
         pieces # <<>> => Carried(pieces) = Expected(contents, NotHidden)
    /\ \A items \in {ResponsesPieces} :
         items # <<>> => Carried(items) = Expected(contents, Worthwhile)
    /\ \A chat \in {Chat} : chat.ok => ChatCarried(chat.messages) = ChatExpected
    /\ \A blocks \in {AnthropicPieces} :
         blocks # <<>> => Carried(blocks) = Expected(WithUserTurn(contents), Presentable)

------------------------------------------------------------------------------
(* Calls and results *)

IsResult(piece) == "answers" \in DOMAIN piece
IsCall(piece) == "id" \in DOMAIN piece /\ ~IsResult(piece)

\* Position i holds a result, and the last call with its id is its own and
\* not answered before.
ReachesItsCall(pieces, i) ==
    \E j \in 1..(i - 1) :
        /\ IsCall(pieces[j]) /\ pieces[j].id = pieces[i].id
        /\ pieces[j].of = <<pieces[i].answers>>
        /\ \A k \in (j + 1)..(i - 1) :
             "id" \in DOMAIN pieces[k] => pieces[k].id # pieces[i].id

Paired(wire) ==
    \A pieces \in {wire} : \A i \in DOMAIN pieces :
        IsResult(pieces[i]) => ReachesItsCall(pieces, i)

\* On every wire a tool result carries the id of the call it is the result
\* of, whether the provider named its calls or the adapter made the ids up,
\* and however parallel calls were answered (vercel/request.go:195,
\* openaiconvert/request.go:341).
ResultsReachTheirCalls ==
    /\ Paired(VercelPieces)
    /\ Paired(ResponsesPieces)
    /\ \A chat \in {Chat} : chat.ok => Paired(ChatPieces(chat.messages))
    /\ Paired(AnthropicPieces)

\* A Chat Completions request answers all the calls of an assistant message,
\* each once, before anything else is said, and ends settled (chat.go:59,
\* 110, 130).
ChatIsSettled ==
    Chat.ok => \A m \in {Chat.messages} :
        LET calls(i) == IF m[i].role = "assistant" THEN {c.id : c \in ToSet(m[i].calls)} ELSE {}
            run(i) == (i + 1)..(i + Cardinality(calls(i)))
        IN /\ \A i \in DOMAIN m : calls(i) # {} =>
                /\ run(i) \subseteq DOMAIN m
                /\ \A j \in run(i) : m[j].role = "tool"
                /\ {m[j].id : j \in run(i)} = calls(i)
           /\ \A j \in DOMAIN m : m[j].role = "tool" =>
                \E i \in 1..(j - 1) : j \in run(i)

------------------------------------------------------------------------------
(* Messages *)

\* The tools of a turn were all answered before the model spoke again.
AnsweredInTurn(history) ==
    \A i \in DOMAIN history : \A p \in ToSet(history[i].parts) : p.kind = "result" =>
        \E j \in 1..(i - 1) :
            /\ p.answers \in ToSet(Numbers(history[j].parts))
            /\ \A k \in (j + 1)..i : history[k].role = "user"

\* An Anthropic request alternates roles and ends with the user; a message
\* with signed thinking is one content of the history, untouched; a tool use
\* is followed by its results if the history answered it in turn, and never
\* by the adapter's own words (anthropicconvert/request.go:433).
AnthropicTurnsHold ==
    LET anthropic == Anthropic
        m == anthropic.messages
        history == WithUserTurn(contents)
    IN anthropic.ok =>
         /\ \A i \in DOMAIN m : i > 1 => m[i].role # m[i - 1].role
         /\ m # <<>> => Last(m).role = "user"
         /\ \A i \in DOMAIN m : HasBlock(m[i], "thinking") =>
              \E c \in DOMAIN history : m[i].from = {c} /\ m[i].content = Blocks(history[c])
         /\ \A i \in DOMAIN m : HasBlock(m[i], "tool_use") /\ i < Len(m) =>
              m[i + 1].from # {}
         /\ AnsweredInTurn(history) =>
              \A i, j \in DOMAIN m : \A x \in ToSet(m[i].content), y \in ToSet(m[j].content) :
                  x.type = "tool_use" /\ y.type = "tool_result" /\ x.of = <<y.answers>> => j = i + 1

\* The piece of the wire that carries part n.
Carrier(pieces, n) == CHOOSE i \in DOMAIN pieces : n \in ToSet(pieces[i].of)

\* What the application decoded as a turn's marked answer is all of what a
\* replay of the turn tells the provider was its final message.
AnswerIsTheFinalMessage(turn, pieces) ==
    LET texts == OfKind(turn, "text")
        candidates == TextCandidates(turn)
    IN candidates # <<>> /\ Phased(texts) /\ pieces # <<>> =>
         ToSet(candidates[1]) =
            {p.n : p \in {q \in ToSet(texts) : q.words # "empty"
                          /\ Phase(pieces[Carrier(pieces, q.n)].item) = "final_answer"}}

JoinsByIdentity(pieces, joinsUnnamed) ==
    \A content \in {c \in ToSet(contents) : c.role = "model"} :
      /\ AnswerIsTheFinalMessage(content.parts, pieces)
      /\ \A told \in {SelectSeq(content.parts, LAMBDA p : Worthwhile("model", p))} :
         \A i \in DOMAIN told :
           pieces # <<>> /\ told[i].kind = "text" =>
             \E own \in {Carrier(pieces, told[i].n)} :
               /\ pieces[own].item = told[i].item
               /\ i > 1 /\ told[i - 1].kind = "text" =>
                    (own = Carrier(pieces, told[i - 1].n)
                      <=> /\ told[i].item = told[i - 1].item
                          /\ joinsUnnamed \/ told[i].item # NoItem)

\* Two adjacent fragments of a model turn belong to one message on the wire
\* exactly if the provider gave them one identity, and the message carries
\* that identity; so the answer structured output read from the turn stays the
\* answer (openaiconvert/request.go:168, vercel/request.go:92,
\* structuredoutput/json.go:51).
MessageIdentityKept ==
    /\ \A pieces \in {ResponsesPieces} : JoinsByIdentity(pieces, TRUE)
    /\ \A pieces \in {VercelPieces} : JoinsByIdentity(pieces, FALSE)

------------------------------------------------------------------------------
(* Discovery *)

WireTools(wire, kinds) == {t.name : t \in {u \in ToSet(wire.tools) : u.kind \in kinds}}
Loads(pieces) == UNION {IF "loads" \in DOMAIN x THEN ToSet(x.loads) ELSE {} : x \in ToSet(pieces)}

\* The pieces of the two wires of an agent, each with its tools.
Wires ==
    LET gateway == {VercelWire(plan, Vercel.messages) : plan \in {Plan}}
        openAI == {OpenAIWire(plan, Responses.items) : plan \in {Plan}}
        anthropic == {AnthropicWire(plan, Anthropic.messages) : plan \in {Plan}}
    IN {[tools |-> wire.tools, pieces |-> MessageParts(wire.messages)] : wire \in gateway}
       \cup IF agent = "openai"
            THEN {[tools |-> wire.tools, pieces |-> wire.items] : wire \in openAI}
            ELSE {[tools |-> wire.tools, pieces |-> MessageBlocks(wire.messages)] :
                    wire \in anthropic}

\* Whatever was loaded, withdrawn, granted or compacted since, the model can
\* call every tool the application defines and can execute: as an ordinary
\* tool, in a namespace or by reference; and it is offered nothing the
\* application took away. A tool choice restricted to one tool keeps that tool
\* an ordinary function or refuses the request (discovery/plan.go:38, 84, 125).
LoadedToolsStayCallable ==
    Discovers =>
      \A wire \in Wires :
        LET offered == WireTools(wire, {"function", "search"}) \cup Loads(wire.pieces)
        IN /\ executable \cap defs \subseteq offered
           /\ offered \subseteq defs
           /\ agent = "openai" =>
                \A t \in executable \cap defs :
                   RefusesChoice(Plan, {t}) \/ t \in WireTools(wire, {"function"})

\* A namespace or a reference on the wire resolves: a call's namespace was
\* introduced earlier, with the called tool in it, by a search on the same
\* wire, as long as the tool is loaded; a reference names a deferred tool of
\* the request and is given once (discovery/plan.go:109, wire.go:41, 121).
WireResolves ==
    Discovers =>
      \A wire \in Wires :
        LET p == wire.pieces
            plan == Plan
        IN /\ \A i \in DOMAIN p :
                /\ IsCall(p[i]) /\ "namespace" \in DOMAIN p[i]
                /\ p[i].namespace # NoId /\ Loaded(plan, p[i].name)
                => \E j \in 1..(i - 1) :
                     /\ "loads" \in DOMAIN p[j] /\ p[j].id = p[i].namespace
                     /\ p[i].name \in ToSet(p[j].loads)
           /\ agent = "anthropic" =>
                /\ Loads(p) \subseteq WireTools(wire, {"deferred"})
                /\ \A i, j \in DOMAIN p : i # j =>
                     Loads(<<p[i]>>) \cap Loads(<<p[j]>>) = {}

------------------------------------------------------------------------------
(* Prompt caching *)

\* The requests for a history and what discovery plans for it; a plain agent's
\* have no tools to speak of.
VercelSent(prompt, plan) ==
    LET wire == IF Discovers THEN VercelWire(plan, prompt.messages)
                ELSE [tools |-> <<>>, messages |-> prompt.messages]
    IN [ok |-> prompt.ok, tools |-> wire.tools, pieces |-> wire.messages,
        loaded |-> Loads(MessageParts(wire.messages))]

ResponsesSent(input, plan) ==
    LET wire == IF Discovers THEN OpenAIWire(plan, input.items)
                ELSE [tools |-> <<>>, items |-> input.items]
    IN [ok |-> agent # "anthropic" /\ input.ok, tools |-> wire.tools, pieces |-> wire.items,
        loaded |-> Loads(wire.items)]

ChatSent(chat) ==
    [ok |-> agent = "plain" /\ chat.ok, tools |-> <<>>, pieces |-> chat.messages, loaded |-> {}]

AnthropicSent(request, plan) ==
    LET wire == IF Discovers THEN AnthropicWire(plan, request.messages)
                ELSE [tools |-> <<>>, messages |-> request.messages]
    IN [ok |-> agent # "openai" /\ request.ok, tools |-> wire.tools, pieces |-> wire.messages,
        loaded |-> Loads(MessageBlocks(wire.messages))]

\* All four, as the one member of a set.
Sent(history, plan) ==
    {[vercel |-> VercelSent(prompt, plan), responses |-> ResponsesSent(input, plan),
      chat |-> ChatSent(chat), anthropic |-> AnthropicSent(request, plan)] :
        prompt \in {VercelPrompt(history)}, input \in {ResponsesInput(history)},
        chat \in {ChatMessages(history)}, request \in {AnthropicRequest(history)}}

\* What a provider compares, and the pieces after which the request may leave a
\* breakpoint in the history. Anthropic compares blocks; the adapter's own last
\* turn is not the history's.
Cached(request, boundaries) == [boundaries |-> boundaries] @@ request

Lasting(blocks) ==
    IF blocks # <<>> /\ Last(blocks).of = <<AdaptersText.n>> THEN Front(blocks) ELSE blocks

Cacheable(sent) ==
    LET m == sent.anthropic.pieces
    IN [vercel |-> Cached(sent.vercel, VercelBoundaries(sent.vercel.pieces)),
        responses |-> Cached(sent.responses, ResponsesBoundaries(sent.responses.pieces)),
        chat |-> Cached(sent.chat, ChatBoundaries(sent.chat.pieces)),
        anthropic |-> Cached([sent.anthropic EXCEPT !.pieces = Lasting(MessageBlocks(m))],
                             {Len(MessageBlocks(SubSeq(m, 1, i))) : i \in AnthropicMarks(m)})]

OpenAIWires == {"vercel", "responses", "chat"}

\* The catalogue stays, with its breakpoint, and so does every definition the
\* provider has read: those that are not deferred, at the start, and those a
\* reference has loaded, where it stands in the history.
ToolsKept(later, earlier) ==
    /\ DOMAIN later.tools = DOMAIN earlier.tools
    /\ \A i \in DOMAIN earlier.tools :
         LET was == earlier.tools[i]
             is == later.tools[i]
         IN /\ [is EXCEPT !.feedback = was.feedback] = was
            /\ was.kind # "deferred" \/ was.name \in earlier.loaded => is = was

\* The later request starts with all the earlier one could have cached, and
\* what the earlier one marked is part of that.
Extends(later, earlier) ==
    earlier.ok /\ later.ok =>
        /\ ToolsKept(later, earlier)
        /\ IsPrefix(earlier.pieces, later.pieces)
        /\ earlier.boundaries \subseteq DOMAIN earlier.pieces

\* One user turn later, the latest boundary the earlier request wrote is still
\* one the later request marks, whatever the mode leaves for the history.
Rereads(later, earlier) ==
    /\ earlier.ok /\ later.ok /\ earlier.boundaries # {}
    /\ Cardinality(later.boundaries \ earlier.boundaries) <= 1
    => \A limit \in HistoryLimits :
         Max(HistoryMarks(earlier.boundaries, limit)) \in HistoryMarks(later.boundaries, limit)

\* While the catalogue stays and no tool has to fall back, a request extends
\* every request made earlier in the conversation, whatever the application
\* could execute then: nothing a provider may have cached is rewritten by a
\* later turn's tools, ids, references or merged messages. The description of a
\* deferred tool does change, when a search first loads it, but not once its
\* reference has been sent. OpenAI requests mark their predecessor's latest
\* boundary again (README.md:411, discovery/wire.go:117, openai/cache.go:60).
CachedPrefixKept ==
    LET Native(plan) == ~Discovers \/ ~plan.fallback
        Before(k) == SubSeq(contents, 1, k)
    IN \A plan \in {Plan} : \A later \in {Cacheable(sent) : sent \in Sent(contents, plan)} :
       \A k \in 1..(Len(contents) - 1), new \in SUBSET (executable \cap Deferred) :
       \A older \in {NewPlan(Before(k), defs, executable \ new, agent = "openai")} :
         Native(plan) /\ Native(older) =>
           \A earlier \in {Cacheable(sent) : sent \in Sent(Before(k), older)} :
             /\ \A wire \in DOMAIN later : Extends(later[wire], earlier[wire])
             /\ \A wire \in OpenAIWires : Rereads(later[wire], earlier[wire])

==============================================================================
