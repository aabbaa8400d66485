-------------------------- MODULE AnthropicStream --------------------------
(***************************************************************************)
(* The Anthropic adapter's side of one GenerateContent call: convert the   *)
(* request, open an SSE stream, accumulate the message event by event,     *)
(* pass text and thinking deltas on, and finish with the complete          *)
(* response, an interruption that salvages what is intact, or an error.    *)
(* An overload reported inside an accepted stream is retried, but only     *)
(* while the caller has seen nothing.                                      *)
(*                                                                         *)
(* The provider sends any well-formed event sequence, cut off at any point *)
(* by a clean end of stream, an error event or a transport failure.  The   *)
(* caller may stop at any item and the context may die at any step.        *)
(*                                                                         *)
(* Data kept: the kind of every content block, how much of a tool's JSON   *)
(* input has arrived, whether a thought is signed, one usage counter       *)
(* standing for the four the code treats alike, and the stop reason.       *)
(***************************************************************************)
EXTENDS Integers, Sequences, FiniteSets

CONSTANTS
    MaxAttempts,   \* streamMaxAttempts
    MaxBlocks,     \* bound: content blocks of one message
    MaxEvents,     \* bound: events received in one attempt
    MaxUsage       \* bound: the usage counter

ASSUME AttemptsAssumption == MaxAttempts \in Nat \ {0}
ASSUME BoundsAssumption == MaxBlocks \in Nat /\ MaxEvents \in Nat /\ MaxUsage \in Nat

VARIABLES
    req,        \* what the caller asked for: streaming?  thoughts included?
    ctxDead,    \* the context the adapter runs under is done
    it,         \* the adapter's iterator (see ResponseStream)
    pc,         \* where generateStream or streamOnce stands
    attempt,    \* the loop counter of generateStream
    open,       \* attempts whose SSE connection is open
    message,    \* the message accumulated in this attempt
    events,     \* events received in this attempt
    yielded,    \* streamOnce's point of no return
    result,     \* the terminal item, once there is one
    shown,      \* history: <<attempt, kind>> of every partial handed over
    accepted    \* history: attempts the provider accepted with a 2xx

local == <<pc, attempt, open, message, events, yielded, result, shown, accepted>>
vars  == <<req, ctxDead, it, local>>

Items       == {"partial", "final", "error"}
Kinds       == {"text", "thinking", "redacted", "tool"}
Inputs      == {"empty", "cut", "whole"}   \* {}, invalid JSON, valid JSON
StopReasons == {"end_turn", "tool_use", "max_tokens"}
\* An overload reported by an event of an accepted stream, the same error as a
\* refused request (HTTP 529), and the failures that never suggest a retry.
Errors      == {"overloaded", "overloaded_529", "api_error", "transport", "context"}

\* input is what the SDK holds, sent what the provider has sent of it.
NewBlock(kind) == [type |-> kind, input |-> "empty", sent |-> "empty",
                   signed |-> FALSE, closed |-> FALSE]
Blocks == [type : Kinds, input : Inputs, sent : Inputs, signed : BOOLEAN, closed : BOOLEAN]
Marker    == [NewBlock("thinking") EXCEPT !.type = "marker"]
NoMessage == [blocks |-> <<>>, stop |-> "none", usage |-> 0, ended |-> FALSE]
NoResult  == [kind |-> "none", parts |-> <<>>, reason |-> "none"]

-----------------------------------------------------------------------------
(* The provider's event stream *)

InBlock(m) == m.blocks # <<>> /\ ~m.blocks[Len(m.blocks)].closed
LastBlock(m) == m.blocks[Len(m.blocks)]

\* The events a provider may send next; "malformed" stands for any event the
\* SDK's accumulator refuses.
NextEvents(m) ==
    IF m.ended THEN {}
    ELSE {[type |-> "malformed"]} \cup
         IF InBlock(m) THEN
             {[type |-> "content_block_stop"]} \cup
             CASE LastBlock(m).type = "text"     -> {[type |-> "text_delta"]}
               [] LastBlock(m).type = "thinking" -> {[type |-> "thinking_delta"],
                                                     [type |-> "signature_delta"]}
               [] LastBlock(m).type = "redacted" -> {}
               [] LastBlock(m).type = "tool"     -> [type : {"input_json_delta"},
                                                     input : {"cut", "whole"}]
         ELSE IF m.stop = "none" /\ Len(m.blocks) < MaxBlocks
              THEN [type : {"content_block_start"}, kind : Kinds]
                   \cup [type : {"message_delta"}, stop : StopReasons, usage : 0..MaxUsage]
         ELSE [type : {"message_delta"}, stop : StopReasons, usage : 0..MaxUsage]
              \cup {[type |-> "message_stop"]}

WithLast(m, block) == [m EXCEPT !.blocks = [m.blocks EXCEPT ![Len(m.blocks)] = block]]

Received(b, input) == [[b EXCEPT !.input = input] EXCEPT !.sent = input]
Closed(b, input) == [[b EXCEPT !.closed = TRUE] EXCEPT !.input = input]

\* Message.Accumulate of the Anthropic SDK.  It updates the input of the last
\* block with every input delta, and replaces an input that is still not valid
\* JSON by {} when the block stops.
SDKAccumulate(m, ev) ==
    LET last == LastBlock(m)
    IN  CASE ev.type = "content_block_start" ->
                 [m EXCEPT !.blocks = Append(m.blocks, NewBlock(ev.kind))]
          [] ev.type = "input_json_delta" -> WithLast(m, Received(last, ev.input))
          [] ev.type = "signature_delta" -> WithLast(m, [last EXCEPT !.signed = TRUE])
          [] ev.type = "content_block_stop" ->
                 WithLast(m, Closed(last, IF last.input = "cut" THEN "empty" ELSE last.input))
          [] ev.type = "message_delta" -> [[m EXCEPT !.stop = ev.stop] EXCEPT !.usage = ev.usage]
          [] ev.type = "message_stop" -> [m EXCEPT !.ended = TRUE]
          [] OTHER -> m

-----------------------------------------------------------------------------
(* Accumulation and conversion *)

Incomplete(block) == block.type = "tool" /\ block.input = "cut"

HasIncompleteToolInput(m) == \E i \in DOMAIN m.blocks : Incomplete(m.blocks[i])

\* Fault: every block stop goes to the SDK, which hides a cut input behind {}.
AccumulateAsSDK(m, ev) == SDKAccumulate(m, ev)

\* accumulateMessage: a cut tool input survives its block's stop, and a counter
\* that a later message_delta reports lower keeps its larger value.
AccumulateMessage(m, ev) ==
    IF ev.type = "content_block_stop" /\ Incomplete(LastBlock(m))
    THEN WithLast(m, Closed(LastBlock(m), "cut"))
    ELSE LET acc == SDKAccumulate(m, ev)
         IN  IF ev.type = "message_delta" /\ acc.usage < m.usage
             THEN [acc EXCEPT !.usage = m.usage]
             ELSE acc

\* The events accumulateMessage answers with an error.
Rejected(m, ev) ==
    \/ ev.type = "malformed"
    \/ ev.type = "message_stop" /\ HasIncompleteToolInput(m)

\* The parts at some of their positions, in order: SelectSeq, in a form that
\* can be reasoned about.
Kept(parts, positions) ==
    LET upTo[n \in 0..Len(parts)] ==
            IF n = 0 THEN <<>>
            ELSE IF n \in positions THEN Append(upTo[n - 1], parts[n]) ELSE upTo[n - 1]
    IN  upTo[Len(parts)]

Showable(parts) == {i \in DOMAIN parts : parts[i].type # "thinking" \/ parts[i].signed}

\* Fault: thoughts are dropped whole, leaving a thought-only turn empty.
DropThoughts(parts) == Kept(parts, Showable(parts))

\* filterThoughtParts: unsigned thinking is display text and is dropped, signed
\* thinking is provider state and stays; a turn of nothing but hidden thoughts
\* keeps an empty marker.
FilterThoughtParts(parts) ==
    LET kept == Kept(parts, Showable(parts))
    IN  IF kept = <<>> /\ parts # <<>> THEN <<Marker>> ELSE kept

VisibleParts(parts) == IF req.thoughts THEN parts ELSE FilterThoughtParts(parts)

\* ContentBlockToGenaiPart: a tool's input is read from the accumulated block,
\* everything else from a copy that the SDK refreshes when the block stops, so
\* the signature of a block that never stopped is not there yet.
Converted(blocks) == [i \in DOMAIN blocks |-> [blocks[i] EXCEPT !.signed = @ /\ blocks[i].closed]]

\* MessageToLLMResponse and filterResponseThoughts.
FinalResponse(m) ==
    [kind |-> "final", parts |-> VisibleParts(Converted(m.blocks)), reason |-> m.stop]

Intact(parts) == {i \in DOMAIN parts : ~Incomplete(parts[i])}

\* SalvageInterruptedMessage: the intact blocks, without the cut tool call.
Salvaged(m) == Kept(Converted(m.blocks), Intact(Converted(m.blocks)))

\* newOutputInterruptedError
OutputInterrupted(m) ==
    [kind   |-> "interrupted",
     parts  |-> VisibleParts(Salvaged(m)),
     reason |-> IF m.stop = "none" THEN "stream_interrupted" ELSE m.stop]

Failed(why) == [kind |-> "failed", parts |-> <<>>, reason |-> why]

\* classifyAccumulateError
ClassifyAccumulateError(m) ==
    IF HasIncompleteToolInput(m) THEN OutputInterrupted(m) ELSE Failed("accumulate")

-----------------------------------------------------------------------------
(* generateContent, generate and generateStream *)

Running(where) == it = "running" /\ pc = where

\* Hand the terminal item to the caller.  Whatever the caller answers, the
\* functions return and streamOnce's deferred Close runs.
YieldLast(item, outcome) ==
    /\ it' = item
    /\ pc' = "exit"
    /\ result' = outcome

\* The schemas cannot be prepared, or the request cannot be converted.
ConvertFails ==
    /\ Running("convert")
    /\ YieldLast("error", Failed("convert"))
    /\ UNCHANGED <<req, ctxDead, attempt, open, message, events, yielded, shown, accepted>>

Convert ==
    /\ Running("convert")
    /\ pc' = "connect"
    /\ UNCHANGED <<req, ctxDead, it, attempt, open, message, events, yielded, result,
                   shown, accepted>>

\* generate: a request without streaming, answered by a whole message.
CompleteBlocks ==
    {b \in Blocks : /\ b.closed /\ b.sent = b.input
                    /\ b.input = IF b.type = "tool" THEN "whole" ELSE "empty"
                    /\ b.type = "tool" => ~b.signed}

Generate ==
    /\ Running("connect")
    /\ ~req.streaming
    /\ \E n \in 0..MaxBlocks, stop \in StopReasons :
          \E blocks \in [1..n -> CompleteBlocks] :
              message' = [blocks |-> blocks, stop |-> stop, usage |-> 0, ended |-> TRUE]
    /\ YieldLast("final", FinalResponse(message'))
    /\ accepted' = accepted \cup {attempt}
    /\ UNCHANGED <<req, ctxDead, attempt, open, events, yielded, shown>>

\* streamOnce starts: a 2xx answer opens the stream.
Connect ==
    /\ Running("connect")
    /\ req.streaming
    /\ pc' = "reading"
    /\ open' = open \cup {attempt}
    /\ message' = NoMessage
    /\ events' = 0
    /\ yielded' = FALSE
    /\ accepted' = accepted \cup {attempt}
    /\ UNCHANGED <<req, ctxDead, it, attempt, result, shown>>

-----------------------------------------------------------------------------
(* streamOnce: the loop over events *)

Receives(ev) ==
    /\ Running("reading")
    /\ events < MaxEvents
    /\ ev \in NextEvents(message)
    /\ events' = events + 1

RejectEvent ==
    \E ev \in NextEvents(message) :
        /\ Receives(ev)
        /\ Rejected(message, ev)
        /\ YieldLast("error", ClassifyAccumulateError(message))
        /\ UNCHANGED <<req, ctxDead, attempt, open, message, yielded, shown, accepted>>

\* The deltas the caller is shown.
IsShown(ev) ==
    \/ ev.type = "text_delta"
    \/ ev.type = "thinking_delta" /\ req.thoughts

\* Fault: only visible text counts as shown, a thinking delta does not.
ShowDeltaUnmarked ==
    \E ev \in NextEvents(message) :
        /\ Receives(ev)
        /\ ~Rejected(message, ev)
        /\ IsShown(ev)
        /\ message' = AccumulateMessage(message, ev)
        /\ yielded' = (yielded \/ ev.type = "text_delta")
        /\ it' = "partial"
        /\ shown' = shown \cup {<<attempt, LastBlock(message).type>>}
        /\ UNCHANGED <<req, ctxDead, pc, attempt, open, result, accepted>>

\* The caller is suspended on a partial response; no retry from here on.
ShowDelta ==
    \E ev \in NextEvents(message) :
        /\ Receives(ev)
        /\ ~Rejected(message, ev)
        /\ IsShown(ev)
        /\ message' = AccumulateMessage(message, ev)
        /\ yielded' = TRUE
        /\ it' = "partial"
        /\ shown' = shown \cup {<<attempt, LastBlock(message).type>>}
        /\ UNCHANGED <<req, ctxDead, pc, attempt, open, result, accepted>>

ReadEvent ==
    \E ev \in NextEvents(message) :
        /\ Receives(ev)
        /\ ~Rejected(message, ev)
        /\ ~IsShown(ev)
        /\ message' = AccumulateMessage(message, ev)
        /\ UNCHANGED <<req, ctxDead, it, pc, attempt, open, yielded, result, shown, accepted>>

-----------------------------------------------------------------------------
(* streamOnce and generateStream: the stream is over *)

\* Next returned false: a clean end (err = "none"), an error event inside the
\* stream ("overloaded", "api_error"), or a failed read.
StreamOver(err) ==
    /\ Running("reading")
    /\ err # "overloaded_529"
    /\ err = "context" => ctxDead

\* The provider refuses the request, or it cannot be sent.  The SDK has spent
\* its own retries on a 529 by then.
Refused(err) ==
    /\ Running("connect")
    /\ err # "overloaded"
    /\ err = "context" => ctxDead

\* Incomplete tool input is an interruption, whatever ended the stream.
Interrupted(err) ==
    /\ StreamOver(err)
    /\ HasIncompleteToolInput(message)
    /\ YieldLast("error", OutputInterrupted(message))
    /\ UNCHANGED <<req, ctxDead, attempt, open, message, events, yielded, shown, accepted>>

\* Fault: a late failure only ends the stream.
SwallowLate(err) ==
    /\ StreamOver(err)
    /\ err # "none"
    /\ ~HasIncompleteToolInput(message)
    /\ yielded
    /\ pc' = "exit"
    /\ UNCHANGED <<req, ctxDead, it, attempt, open, message, events, yielded, result, shown,
                   accepted>>

\* A failure after the caller has seen a delta is final.
FailsLate(err) ==
    /\ StreamOver(err)
    /\ err # "none"
    /\ ~HasIncompleteToolInput(message)
    /\ yielded
    /\ YieldLast("error", Failed(err))
    /\ UNCHANGED <<req, ctxDead, attempt, open, message, events, yielded, shown, accepted>>

\* A failure nobody has seen anything of, the only one streamOnce returns.
EarlyFailure(err) ==
    \/ Refused(err)
    \/ /\ StreamOver(err)
       /\ err # "none"
       /\ ~HasIncompleteToolInput(message)
       /\ ~yielded

\* isOverloadedStreamError: an overload that arrived with status 200.
IsOverloadedStreamError(err) == err = "overloaded"

\* Whether generateStream makes another attempt; generate never does.
MayRetry(err) ==
    /\ req.streaming
    /\ attempt < MaxAttempts
    /\ IsOverloadedStreamError(err)

\* streamOnce has closed its stream; generateStream gives up ...
FailsEarly(err) ==
    /\ EarlyFailure(err)
    /\ ~MayRetry(err)
    /\ open' = open \ {attempt}
    /\ YieldLast("error", Failed(err))
    /\ UNCHANGED <<req, ctxDead, attempt, message, events, yielded, shown, accepted>>

\* Fault: the deferred Close is missing, so the error event leaves the
\* connection open behind the next attempt.
RetryWithoutClose(err) ==
    /\ EarlyFailure(err)
    /\ MayRetry(err)
    /\ pc' = "backoff"
    /\ UNCHANGED <<req, ctxDead, it, attempt, open, message, events, yielded, result, shown,
                   accepted>>

\* ... or sleeps before another attempt.
Retry(err) ==
    /\ EarlyFailure(err)
    /\ MayRetry(err)
    /\ open' = open \ {attempt}
    /\ pc' = "backoff"
    /\ UNCHANGED <<req, ctxDead, it, attempt, message, events, yielded, result, shown, accepted>>

\* The stream ended without an error: the accumulated message is the response.
Complete ==
    /\ StreamOver("none")
    /\ ~HasIncompleteToolInput(message)
    /\ YieldLast("final", FinalResponse(message))
    /\ UNCHANGED <<req, ctxDead, attempt, open, message, events, yielded, shown, accepted>>

\* MessageToLLMResponse refuses the message: a signature that does not decode,
\* or a tool input that is no object.
ConvertResponseFails ==
    /\ \/ /\ Running("connect")
          /\ ~req.streaming
          /\ accepted' = accepted \cup {attempt}
       \/ /\ StreamOver("none")
          /\ ~HasIncompleteToolInput(message)
          /\ \E i \in DOMAIN message.blocks : message.blocks[i].type \in {"thinking", "tool"}
          /\ UNCHANGED accepted
    /\ YieldLast("error", Failed("convert"))
    /\ UNCHANGED <<req, ctxDead, attempt, open, message, events, yielded, shown>>

EndOfStream ==
    \/ Complete \/ ConvertResponseFails
    \/ \E err \in Errors \cup {"none"} : Interrupted(err)
    \/ \E err \in Errors : FailsLate(err) \/ FailsEarly(err) \/ Retry(err)

\* sleepWithContext: the pause ends ...
WakeUp ==
    /\ Running("backoff")
    /\ pc' = "connect"
    /\ attempt' = attempt + 1
    /\ UNCHANGED <<req, ctxDead, it, open, message, events, yielded, result, shown, accepted>>

\* ... or the context does.
BackoffAborted ==
    /\ Running("backoff")
    /\ ctxDead
    /\ YieldLast("error", Failed("overloaded"))
    /\ UNCHANGED <<req, ctxDead, attempt, open, message, events, yielded, shown, accepted>>

\* The caller stopped, or everything has been said: the functions return and
\* the deferred Close releases the stream if it is still open.
Return ==
    /\ it = "stop" \/ Running("exit")
    /\ it' = "returned"
    /\ pc' = "exit"
    /\ open' = open \ {attempt}
    /\ UNCHANGED <<req, ctxDead, attempt, message, events, yielded, result, shown, accepted>>

Adapter ==
    \/ ConvertFails \/ Convert \/ Generate \/ Connect
    \/ RejectEvent \/ ShowDelta \/ ReadEvent \/ EndOfStream
    \/ WakeUp \/ BackoffAborted \/ Return

\* What happens without the provider: the code runs on, and once the context
\* is dead a request, a read or a pause fails with the context's error.
RunsOn == ConvertFails \/ Convert \/ WakeUp \/ Return

HonoursContext ==
    /\ ctxDead
    /\ \/ BackoffAborted
       \/ Interrupted("context") \/ FailsLate("context") \/ FailsEarly("context")

-----------------------------------------------------------------------------
(* The caller and the context *)

Start == it = "idle" /\ it' = "running" /\ UNCHANGED <<req, ctxDead, local>>

Continue == it \in Items /\ it' = "running" /\ UNCHANGED <<req, ctxDead, local>>

Stop == it \in Items /\ it' = "stop" /\ UNCHANGED <<req, ctxDead, local>>

ContextDies == ~ctxDead /\ ctxDead' = TRUE /\ UNCHANGED <<req, it, local>>

Done == it = "returned" /\ UNCHANGED vars

AdapterInit ==
    /\ req \in [streaming : BOOLEAN, thoughts : BOOLEAN]
    /\ pc = "convert"
    /\ attempt = 1
    /\ open = {}
    /\ message = NoMessage
    /\ events = 0
    /\ yielded = FALSE
    /\ result = NoResult
    /\ shown = {}
    /\ accepted = {}

Init == AdapterInit /\ it = "idle" /\ ctxDead = FALSE

Next == Adapter \/ Start \/ Continue \/ Stop \/ ContextDies \/ Done

Spec == Init /\ [][Next]_vars

-----------------------------------------------------------------------------
(* Properties *)

\* A retry is invisible: everything the caller has been shown comes from the
\* attempt under way, and every earlier attempt was accepted by the provider
\* and showed nothing, so no content is replayed and no refused request is
\* sent again on top of the SDK's own retries; and an endpoint that stays
\* overloaded is asked no more often than the limit allows.
RetryIsInvisible ==
    /\ attempt <= MaxAttempts
    /\ \A s \in shown : s[1] = attempt
    /\ \A a \in 1..(attempt - 1) : a \in accepted

\* Attempts never hold two streams, a pause between attempts holds none, and
\* none outlives the call however it ends.
StreamsAreClosed ==
    /\ open \subseteq {attempt}
    /\ pc \in {"connect", "backoff"} \/ it = "returned" => open = {}

\* A tool call whose input was cut is never handed over as a call to execute,
\* neither in a complete response nor among the salvaged parts, and is never
\* retried.
CutInputNeverExecutes ==
    /\ \A i \in DOMAIN result.parts :
          result.parts[i].type = "tool" => result.parts[i].sent # "cut"
    /\ pc = "backoff" => \A i \in DOMAIN message.blocks : message.blocks[i].sent # "cut"

\* Without IncludeThoughts no thinking delta and no unsigned thought reaches the
\* caller, and hiding them never leaves a complete turn without any part.
HiddenThoughtsStayHidden ==
    ~req.thoughts =>
        /\ \A s \in shown : s[2] # "thinking"
        /\ \A i \in DOMAIN result.parts :
              result.parts[i].type = "thinking" => result.parts[i].signed
        /\ result.kind = "final" /\ message.blocks # <<>> => result.parts # <<>>

View == IF it = "running" /\ result.kind # "none" THEN "stop" ELSE it

Contract == INSTANCE ResponseStream WITH it <- View, SilentEnd <- FALSE

\* Unless the caller stops, the adapter ends with exactly one terminal item.
ContractHolds == Contract!Spec

\* "Incomplete tool input must remain an interruption, never an executable
\* call": a complete response carries a tool call only if the provider
\* finished sending it.
UnfinishedToolNeverExecutes ==
    result.kind = "final" =>
        \A i \in DOMAIN result.parts :
            result.parts[i].type = "tool" => result.parts[i].closed
=============================================================================
