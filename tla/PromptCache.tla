------------------------------ MODULE PromptCache ------------------------------
(* Where the adapters put the history's cache breakpoints. A breakpoint is  *)
(* the position, in a request, after which the provider keeps the prefix.   *)
(* Breakpoints of tools and instructions come before the history and take   *)
(* a share of the limit; their own place is fixed by the configuration.     *)
EXTENDS Integers, Sequences, FiniteSetsExt

ProviderLimit == 4

\* What an OpenAI mode and a marked instruction leave for the history.
HistoryLimit(mode, instruction) ==
    ProviderLimit - (IF mode = "implicit" THEN 1 ELSE 0) - (IF instruction THEN 1 ELSE 0)

HistoryLimits == {HistoryLimit(mode, instruction) :
                    mode \in {"implicit", "explicit"}, instruction \in BOOLEAN}

\* The latest user messages without media keep a breakpoint, as many as the
\* limit allows.
HistoryMarks(boundaries, limit) ==
    {i \in boundaries : Cardinality({j \in boundaries : j > i}) < limit}

\* The eligible messages of the three OpenAI requests.
ResponsesBoundaries(items) ==
    {i \in DOMAIN items :
        items[i].type = "message" /\ items[i].role = "user" /\ ~items[i].media}

ChatBoundaries(messages) ==
    {i \in DOMAIN messages : messages[i].role = "user" /\ ~messages[i].media}

VercelBoundaries(messages) ==
    {i \in DOMAIN messages :
        /\ messages[i].role = "user"
        /\ \E j \in DOMAIN messages[i].parts : messages[i].parts[j].type = "text"
        /\ \A j \in DOMAIN messages[i].parts : messages[i].parts[j].type # "file"}

\* The Anthropic adapter marks the message before the last one, if its last
\* block can carry a breakpoint: thinking cannot.
AnthropicMarks(messages) ==
    {i \in DOMAIN messages :
        /\ i = Len(messages) - 1
        /\ messages[i].content # <<>>
        /\ messages[i].content[Len(messages[i].content)].type # "thinking"}
================================================================================
