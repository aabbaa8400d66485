---------------------------- MODULE PreparedTools -----------------------------
(* The prepared tools of a request and the tool choice the adapters send    *)
(* along with them.                                                         *)
EXTENDS StrictSelection, ToolChoice

Restrictions == {<< >>} \cup {<<a>> : a \in Names} \cup {<<a, b>> : a, b \in Names}

\* A forced call reaches the provider as one and limited to the tools the caller
\* allowed, through every adapter; neither the Messages fields nor the gateway's
\* options then ask Claude for thinking, which could suppress the call, or for the
\* effort of adaptive thinking, and only then is what was asked for dropped. The
\* other modes hand out no tool the caller excluded, but for Anthropic, which
\* cannot say so (anthropicconvert/tools.go:370, 452, openaiconvert/tools.go:112,
\* chat.go:214, vercel/request.go:370, gateway/options.go:157, README.md:276).
ForcedChoiceHonoured ==
    phase = "ready" =>
      \A adapter \in Adapters, mode \in Modes, allowed \in Restrictions, asked \in Reasonings :
        LET wire == ToolWire(adapter, mode, allowed, Names, asked)
            permitted == IF mode = "none" THEN {}
                         ELSE IF allowed = << >> THEN Names ELSE ToSet(allowed)
            quiet(r) == r.thinking = "unset" /\ (asked.thinking = "adaptive" => ~r.effort)
        IN wire.ok =>
             /\ mode = "any" => MustCall(wire)
             /\ mode = "any" \/ adapter # "anthropic" => Callable(wire) \subseteq permitted
             /\ mode = "any" => quiet(wire.reasoning) /\ quiet(wire.options)
             /\ mode # "any" => wire.options = asked
             /\ mode # "any" /\ adapter = "anthropic" => wire.reasoning = asked
==============================================================================
