------------------------------ MODULE ToolChoice ------------------------------
(* The four adapters' reading of FunctionCallingConfig: which of the        *)
(* declared tools go on the wire, and the tool choice beside them. A wire   *)
(* is [ok, tools, choice, only, reasoning, options]; tools is the set of    *)
(* those sent (their order is left out), and only lists the tools the       *)
(* choice itself names, << >> if it names none.                             *)
(*                                                                          *)
(* reasoning is what the Messages fields say of thinking and effort, and    *)
(* options what the gateway's provider options say of them to a Claude      *)
(* model. All four adapters reach one through the gateway; on a direct      *)
(* route there are no options, and the wire is otherwise the same.          *)
EXTENDS Sequences, SequencesExt, FiniteSets

Modes == {"unset", "auto", "any", "none"}
Adapters == {"anthropic", "responses", "chat", "vercel"}

\* Map, for Claude: what a thinking level becomes.
NoReasoning == [thinking |-> "unset", effort |-> FALSE]
Reasonings == {NoReasoning, [thinking |-> "disabled", effort |-> TRUE],
               [thinking |-> "adaptive", effort |-> TRUE]}

Wire(ok, tools, choice, only) ==
    [ok |-> ok, tools |-> tools, choice |-> choice, only |-> only,
     reasoning |-> NoReasoning, options |-> NoReasoning]
Rejected == Wire(FALSE, {}, "omitted", << >>)

\* resolveToolChoice. Disabling tools is not expressed, and a restriction
\* is ignored unless a call is forced.
AnthropicChoice(mode, allowed, tools) ==
    CASE Len(allowed) > 1 \/ mode = "unset" -> Rejected
      [] Len(allowed) <= 1 /\ mode = "none" -> Wire(TRUE, tools, "omitted", << >>)
      [] Len(allowed) <= 1 /\ mode = "auto" -> Wire(TRUE, tools, "auto", << >>)
      [] Len(allowed) <= 1 /\ mode = "any"  ->
            Wire(TRUE, tools, IF allowed = << >> THEN "any" ELSE "tool", allowed)

IsForcedToolUse(wire) == wire.choice \in {"any", "tool"}

\* Thinking goes, and with it the effort that belongs to adaptive thinking.
Suppressed(reasoning) ==
    [thinking |-> "unset", effort |-> reasoning.effort /\ reasoning.thinking # "adaptive"]

\* convertRequest: thinking gives way to a forced call.
MessagesReasoning(wire, asked) == IF IsForcedToolUse(wire) THEN Suppressed(asked) ELSE asked

\* Fault: the gateway is still asked for the effort of adaptive thinking.
ForcedToolsEffortKept(options, mode) ==
    IF mode = "any" THEN [options EXCEPT !.thinking = "unset"] ELSE options

\* ForcedTools: nor may the gateway's options restore it.
ForcedTools(options, mode) == IF mode = "any" THEN Suppressed(options) ELSE options

AnthropicToolWire(mode, allowed, tools, asked) ==
    LET wire == AnthropicChoice(mode, allowed, tools)
    IN [wire EXCEPT !.reasoning = MessagesReasoning(wire, asked)]

\* convertToolChoice
ResponsesToolWire(mode, allowed, tools) ==
    CASE mode \in {"unset", "auto"} ->
            Wire(TRUE, tools, IF allowed = << >> THEN "omitted" ELSE "auto", allowed)
      [] mode = "none" -> Wire(TRUE, tools, "none", << >>)
      [] mode = "any" -> Wire(TRUE, tools, "required", allowed)

\* chatToolChoice: the restriction is applied to the tools themselves.
ChatToolWire(mode, allowed, tools) ==
    LET sent == IF allowed = << >> THEN tools ELSE ToSet(allowed)
        choice == CASE mode \in {"unset", "auto"} -> "auto"
                    [] mode = "any" -> "required"
                    [] mode = "none" -> "none"
    IN IF \/ mode = "none" /\ allowed # << >>
          \/ ~ToSet(allowed) \subseteq tools
          \/ mode = "any" /\ sent = {}
       THEN Rejected
       ELSE Wire(TRUE, sent, choice, << >>)

\* applyToolConfig: as Chat, but without checks.
VercelToolWire(mode, allowed, tools) ==
    LET sent == IF allowed = << >> THEN tools ELSE tools \cap ToSet(allowed)
        choice == CASE mode \in {"unset", "auto"} -> "auto"
                    [] mode = "any" -> "required"
                    [] mode = "none" -> "none"
    IN Wire(TRUE, sent, choice, << >>)

ToolWire(adapter, mode, allowed, tools, asked) ==
    LET wire ==
          CASE adapter = "anthropic" -> AnthropicToolWire(mode, allowed, tools, asked)
            [] adapter = "responses" -> ResponsesToolWire(mode, allowed, tools)
            [] adapter = "chat"      -> ChatToolWire(mode, allowed, tools)
            [] adapter = "vercel"    -> VercelToolWire(mode, allowed, tools)
    IN [wire EXCEPT !.options = ForcedTools(asked, mode)]

\* What a provider makes of a wire.
Callable(wire) ==
    IF wire.choice = "none" THEN {}
    ELSE IF wire.only = << >> THEN wire.tools
    ELSE wire.tools \cap ToSet(wire.only)

MustCall(wire) == wire.choice \in {"any", "tool", "required"}
==============================================================================
