---------------------------- MODULE VercelStream ----------------------------
(***************************************************************************)
(* The native Vercel adapter's side of one GenerateContent call: post the  *)
(* call options, translate the Language Model V4 stream part by part, and  *)
(* finish with the response assembled from everything received.            *)
(*                                                                         *)
(* Every item passes discovery.Responses and toolschema.RestoreOmissions   *)
(* on its way to the caller.  The assembled content and the partial        *)
(* responses share the parts of tool calls, so what the pipeline does to   *)
(* one the caller sees in the other.                                       *)
(*                                                                         *)
(* The provider sends stream parts in any order, with any ids.  Data kept: *)
(* how many deltas a part holds, how many its signature encodes, and in    *)
(* which form the arguments of a call are.                                 *)
(***************************************************************************)
EXTENDS Integers, Sequences

CONSTANTS
    Ids,        \* the ids of text and reasoning blocks
    MaxParts,   \* bound: parts of the assembled content
    MaxEvents   \* bound: stream parts received

ASSUME BoundsAssumption == MaxParts \in Nat /\ MaxEvents \in Nat

VARIABLES
    req,        \* what the caller asked for: streaming?  thoughts included?
    ctxDead,    \* the context the adapter runs under is done
    it,         \* the adapter's iterator (see ResponseStream)
    pc,         \* where the adapter's function stands
    open,       \* the response body is open
    content,    \* state.content
    textParts,  \* state.textParts: the part of each id, 0 for nil
    reasoning,  \* state.reasoning: deltas held by each id's builder, -1 for nil
    reasoningParts,   \* state.reasoningParts: the part of each id, 0 for nil
    events,     \* stream parts received
    result,     \* the terminal item, once there is one
    history     \* for each part: deltas received and shown, times it ended,
                \* and the value last handed to the caller

stream == <<content, textParts, reasoning, reasoningParts>>
local  == <<pc, open, stream, events, result, history>>
vars   == <<req, ctxDead, it, local>>

Items == {"partial", "final", "error"}

\* Arguments: plain; padded with the nulls Prepare's schema asked for; wrapped
\* in the provider's search call; normalised; with the padding removed.
Forms    == {"none", "plain", "padded", "wrapped", "normalised", "restored"}
Unsigned == -1
Text     == [kind |-> "text", text |-> 0, signature |-> Unsigned, args |-> "none"]
Thought  == [Text EXCEPT !.kind = "thought"]
Call(form) == [Text EXCEPT !.kind = "call", !.args = form]

NoResult     == [kind |-> "none", parts |-> <<>>]
Failed       == [kind |-> "failed", parts |-> <<>>]
FreshHistory == [received |-> 0, shown |-> 0, ends |-> 0, handed |-> Text]

-----------------------------------------------------------------------------
(* The pipeline every item passes *)

\* Fault: a search call that was normalised as a partial is unwrapped again.
AnnotateTwice(part) ==
    IF part.args = "wrapped" THEN [part EXCEPT !.args = "normalised"]
    ELSE IF part.args = "normalised" THEN [part EXCEPT !.args = "none"]
    ELSE part

\* Plan.Annotate unwraps the arguments of a provider's search call in place,
\* once: the marker it leaves keeps the shared part from a second pass.
Annotate(part) ==
    IF part.args = "wrapped" THEN [part EXCEPT !.args = "normalised"] ELSE part

\* RestoreOmissions on a copy of a final call.
Restore(part) ==
    IF part.args = "padded" THEN [part EXCEPT !.args = "restored"] ELSE part

Annotated(parts) == [i \in DOMAIN parts |-> Annotate(parts[i])]
Restored(parts)  == [i \in DOMAIN parts |-> Restore(parts[i])]

-----------------------------------------------------------------------------
(* generateContent, generate, and the start of generateStream *)

Running(where) == it = "running" /\ pc = where

YieldLast(item, outcome) ==
    /\ it' = item
    /\ pc' = "exit"
    /\ result' = outcome

\* Any of the conversions before the request fails.
PrepareFails ==
    /\ Running("prepare")
    /\ YieldLast("error", Failed)
    /\ UNCHANGED <<req, ctxDead, open, stream, events, history>>

Prepare ==
    /\ Running("prepare")
    /\ pc' = "post"
    /\ UNCHANGED <<req, ctxDead, it, open, stream, events, result, history>>

\* The call fails, or the gateway answers with anything but a 2xx; in the
\* second case a body is open until the deferred Close.
PostFails ==
    /\ Running("post")
    /\ open' \in BOOLEAN
    /\ YieldLast("error", Failed)
    /\ UNCHANGED <<req, ctxDead, stream, events, history>>

PostSucceeds ==
    /\ Running("post")
    /\ open' = TRUE
    /\ pc' = "reading"
    /\ UNCHANGED <<req, ctxDead, it, stream, events, result, history>>

\* generate: one whole answer, converted at once ...
CompleteParts ==
    {Text} \cup {[Thought EXCEPT !.signature = 0]}
    \cup {Call(form) : form \in {"plain", "padded", "wrapped"}}

Generate ==
    /\ Running("reading")
    /\ ~req.streaming
    /\ \E n \in 0..MaxParts : \E parts \in [1..n -> CompleteParts] :
          YieldLast("final", [kind |-> "final", parts |-> Restored(Annotated(parts))])
    /\ UNCHANGED <<req, ctxDead, open, stream, events, history>>

\* ... or not decodable, or not convertible.
GenerateFails ==
    /\ Running("reading")
    /\ ~req.streaming
    /\ YieldLast("error", Failed)
    /\ UNCHANGED <<req, ctxDead, open, stream, events, history>>

-----------------------------------------------------------------------------
(* streamState.convert *)

Receive ==
    /\ Running("reading")
    /\ req.streaming
    /\ events < MaxEvents
    /\ events' = events + 1

Next1 == Len(content) + 1

NewPart == Len(content) < MaxParts

\* The part an id's text goes to, creating it if the id has none.
TextIndex(id) == IF textParts[id] # 0 THEN textParts[id] ELSE Next1

WithText(id) ==
    IF textParts[id] # 0 THEN content ELSE Append(content, Text)

HistoryWith(parts) ==
    IF Len(parts) > Len(history) THEN Append(history, FreshHistory) ELSE history

\* A part and its history after a delta of which that much is shown.
Longer(part, shown) == [part EXCEPT !.text = @ + shown]
Grown(entry, shown) == [entry EXCEPT !.received = @ + 1, !.shown = @ + shown]

TextStart(id) ==
    /\ Receive
    /\ textParts[id] # 0 \/ NewPart
    /\ content' = WithText(id)
    /\ history' = HistoryWith(content')
    /\ textParts' = [textParts EXCEPT ![id] = TextIndex(id)]
    /\ UNCHANGED <<req, ctxDead, it, pc, open, reasoning, reasoningParts, result>>

TextEnd(id) ==
    /\ Receive
    /\ textParts' = [textParts EXCEPT ![id] = 0]
    /\ UNCHANGED <<req, ctxDead, it, pc, open, content, reasoning, reasoningParts, result,
                   history>>

\* Fault: a delta is shown but the assembled part misses it.
TextDeltaShownOnly(id) ==
    /\ Receive
    /\ textParts[id] # 0 \/ NewPart
    /\ content' = WithText(id)
    /\ textParts' = [textParts EXCEPT ![id] = TextIndex(id)]
    /\ history' = [HistoryWith(content') EXCEPT ![TextIndex(id)] = Grown(@, 1)]
    /\ it' = "partial"
    /\ UNCHANGED <<req, ctxDead, pc, open, reasoning, reasoningParts, result>>

\* A text delta is added to its part and shown as a part of its own.  (An
\* empty one does what TextStart does.)
TextDelta(id) ==
    /\ Receive
    /\ textParts[id] # 0 \/ NewPart
    /\ content' = [WithText(id) EXCEPT ![TextIndex(id)] = Longer(@, 1)]
    /\ textParts' = [textParts EXCEPT ![id] = TextIndex(id)]
    /\ history' = [HistoryWith(content') EXCEPT ![TextIndex(id)] = Grown(@, 1)]
    /\ it' = "partial"
    /\ UNCHANGED <<req, ctxDead, pc, open, reasoning, reasoningParts, result>>

\* A new builder and a new part, whatever the id had before.
ReasoningStart(id) ==
    /\ Receive
    /\ NewPart
    /\ content' = Append(content, Thought)
    /\ history' = HistoryWith(content')
    /\ reasoning' = [reasoning EXCEPT ![id] = 0]
    /\ reasoningParts' = [reasoningParts EXCEPT ![id] = Next1]
    /\ UNCHANGED <<req, ctxDead, it, pc, open, textParts, result>>

\* The part an id's reasoning goes to; without a builder it gets a new one.
ReasoningIndex(id) == IF reasoning[id] # -1 THEN reasoningParts[id] ELSE Next1

WithReasoning(id) ==
    IF reasoning[id] # -1 THEN content ELSE Append(content, Thought)

\* Fault: a late delta without a builder goes to the part its id had before.
LateDeltaToOldPart(id) ==
    /\ Receive
    /\ reasoningParts[id] # 0
    /\ reasoning' = [reasoning EXCEPT ![id] = IF @ = -1 THEN 1 ELSE @ + 1]
    /\ content' = [content EXCEPT ![reasoningParts[id]] = Longer(@, IF req.thoughts THEN 1 ELSE 0)]
    /\ history' = [history EXCEPT ![reasoningParts[id]] = Grown(@, IF req.thoughts THEN 1 ELSE 0)]
    /\ it' = IF req.thoughts THEN "partial" ELSE it
    /\ UNCHANGED <<req, ctxDead, pc, open, textParts, reasoningParts, result>>

\* The builder keeps every delta for the signature; the text is assembled and
\* shown only if the caller asked for thoughts.  (An empty delta does no more
\* than register the builder, as ReasoningStart does.)
ReasoningDelta(id) ==
    LET i    == ReasoningIndex(id)
        seen == IF req.thoughts THEN 1 ELSE 0
    IN  /\ Receive
        /\ reasoning[id] # -1 \/ NewPart
        /\ reasoning' = [reasoning EXCEPT ![id] = IF @ = -1 THEN 1 ELSE @ + 1]
        /\ reasoningParts' = [reasoningParts EXCEPT ![id] = i]
        /\ content' = [WithReasoning(id) EXCEPT ![i] = Longer(@, seen)]
        /\ history' = [HistoryWith(content') EXCEPT ![i] = Grown(@, seen)]
        /\ it' = IF req.thoughts THEN "partial" ELSE it
        /\ UNCHANGED <<req, ctxDead, pc, open, textParts, result>>

Sealed(part, held) ==
    [part EXCEPT !.signature = held, !.text = IF req.thoughts THEN held ELSE @]

Ended(entry) == [entry EXCEPT !.ends = @ + 1]

\* The block's state is sealed into its signature and shown.  The id keeps its
\* part, and an id that never had one gets a part nothing else refers to.
ReasoningEnd(id) ==
    LET held == IF reasoning[id] = -1 THEN 0 ELSE reasoning[id]
        i    == IF reasoningParts[id] # 0 THEN reasoningParts[id] ELSE Next1
        all  == IF reasoningParts[id] # 0 THEN content ELSE Append(content, Thought)
    IN  /\ Receive
        /\ reasoningParts[id] # 0 \/ NewPart
        /\ content' = [all EXCEPT ![i] = Sealed(@, held)]
        /\ history' = [HistoryWith(content') EXCEPT ![i] = Ended(@)]
        /\ reasoning' = [reasoning EXCEPT ![id] = -1]
        /\ it' = "partial"
        /\ UNCHANGED <<req, ctxDead, pc, open, textParts, reasoningParts, result>>

\* A tool call, tool result or file: the content and the partial response share
\* the part, which Annotate has changed before the caller sees it.
ToolPart(form) ==
    /\ Receive
    /\ NewPart
    /\ content' = Append(content, Annotate(Call(form)))
    /\ history' = Append(history, [FreshHistory EXCEPT !.handed = Annotate(Call(form))])
    /\ it' = "partial"
    /\ UNCHANGED <<req, ctxDead, pc, open, textParts, reasoning, reasoningParts, result>>

\* Metadata, sources, tool input progress, [DONE]: nothing to hand over.
OtherPart ==
    /\ Receive
    /\ UNCHANGED <<req, ctxDead, it, pc, open, stream, result, history>>

\* Fault: the placeholders are removed from the shared parts.
FinishInPlace ==
    /\ Receive
    /\ content' = Restored(Annotated(content))
    /\ it' = "final"
    /\ result' = [kind |-> "final", parts |-> content']
    /\ UNCHANGED <<req, ctxDead, pc, open, textParts, reasoning, reasoningParts, history>>

\* The complete response.  The loop would go on reading, but the wrapper never
\* asks for more after it (TimeoutGuard!TakeFinal).
Finish ==
    /\ Receive
    /\ content' = Annotated(content)
    /\ it' = "final"
    /\ result' = [kind |-> "final", parts |-> Restored(content')]
    /\ UNCHANGED <<req, ctxDead, pc, open, textParts, reasoning, reasoningParts, history>>

\* A part that cannot be decoded, converted or annotated, an unknown one, the
\* provider's error, or a read that fails: the loop's error is the last item.
StreamFails ==
    /\ Running("reading")
    /\ req.streaming
    /\ YieldLast("error", Failed)
    /\ UNCHANGED <<req, ctxDead, open, stream, events, history>>

\* Fault: a stream that just ends is taken for a complete one.
EndQuietly ==
    /\ Running("reading")
    /\ req.streaming
    /\ pc' = "exit"
    /\ UNCHANGED <<req, ctxDead, it, open, stream, events, result, history>>

\* The end of the stream without a finish: ErrMissingFinish.
EndOfStream ==
    /\ Running("reading")
    /\ req.streaming
    /\ YieldLast("error", Failed)
    /\ UNCHANGED <<req, ctxDead, open, stream, events, history>>

Convert ==
    \/ \E id \in Ids : \/ TextStart(id) \/ TextDelta(id) \/ TextEnd(id)
                       \/ ReasoningStart(id) \/ ReasoningDelta(id) \/ ReasoningEnd(id)
    \/ \E form \in {"plain", "padded", "wrapped"} : ToolPart(form)
    \/ OtherPart \/ Finish

\* errConsumerStopped, or everything has been said; the body is closed.
Return ==
    /\ it = "stop" \/ Running("exit")
    /\ it' = "returned"
    /\ pc' = "exit"
    /\ open' = FALSE
    /\ UNCHANGED <<req, ctxDead, stream, events, result, history>>

Post == PostFails \/ PostSucceeds

Adapter ==
    \/ PrepareFails \/ Prepare \/ Post
    \/ Generate \/ GenerateFails
    \/ Convert \/ StreamFails \/ EndOfStream
    \/ Return

\* What happens without the provider.
RunsOn == PrepareFails \/ Prepare \/ Return

\* Once the context is dead the reads fail.
HonoursContext == ctxDead /\ (GenerateFails \/ StreamFails)

-----------------------------------------------------------------------------
(* The caller and the context *)

Start == it = "idle" /\ it' = "running" /\ UNCHANGED <<req, ctxDead, local>>

\* The wrapper asks for more only after a partial response.
Continue == it = "partial" /\ it' = "running" /\ UNCHANGED <<req, ctxDead, local>>

Stop == it \in Items /\ it' = "stop" /\ UNCHANGED <<req, ctxDead, local>>

ContextDies == ~ctxDead /\ ctxDead' = TRUE /\ UNCHANGED <<req, it, local>>

Done == it = "returned" /\ UNCHANGED vars

AdapterInit ==
    /\ req \in [streaming : BOOLEAN, thoughts : BOOLEAN]
    /\ pc = "prepare"
    /\ open = FALSE
    /\ content = <<>>
    /\ textParts = [id \in Ids |-> 0]
    /\ reasoning = [id \in Ids |-> -1]
    /\ reasoningParts = [id \in Ids |-> 0]
    /\ events = 0
    /\ result = NoResult
    /\ history = <<>>

Init == AdapterInit /\ it = "idle" /\ ctxDead = FALSE

Next == Adapter \/ Start \/ Continue \/ Stop \/ ContextDies \/ Done

Spec == Init /\ [][Next]_vars

-----------------------------------------------------------------------------
(* Properties *)

Parts == [kind : {"text", "thought", "call"}, text : 0..MaxEvents,
          signature : -1..MaxEvents, args : Forms]

\* Was the block ended more than once?  A second end without a builder seals an
\* empty state over the first one.
EndedTwice(i) == history[i].ends > 1

\* The assembled response holds, part for part, exactly the deltas the caller
\* was shown: nothing lost, nothing repeated, and no hidden reasoning.
FinalIsWhatWasShown ==
    result.kind = "final" /\ req.streaming =>
        \A i \in DOMAIN result.parts :
            result.parts[i].kind # "call" /\ ~EndedTwice(i) =>
                result.parts[i].text = history[i].shown

\* The state sent back on the next turn covers the whole block: a signature
\* encodes every reasoning delta its part received, hidden ones included.
SignaturesAreWhole ==
    \A i \in DOMAIN content :
        content[i].signature # Unsigned /\ ~EndedTwice(i) =>
            content[i].signature = history[i].received

\* A part the caller already holds does not change under its hands.
PartialsAreStable ==
    \A i \in DOMAIN content : content[i].kind = "call" => content[i] = history[i].handed

\* The calls of a complete response are ready to execute: no placeholder the
\* schema made the model write, no provider wrapping, none unwrapped twice.
CallsAreExecutable ==
    \A i \in DOMAIN result.parts :
        result.parts[i].kind = "call" =>
            result.parts[i].args \in {"plain", "normalised", "restored"}
=============================================================================
