---------------------------- MODULE OpenAIStream ----------------------------
(***************************************************************************)
(* The OpenAI adapter's side of one GenerateContent call over the          *)
(* Responses API: send the request, translate the event stream item by     *)
(* item, and finish with the response the provider's terminal event        *)
(* carries.  The translator buffers the arguments of function calls, which *)
(* may arrive interleaved, until the provider says a call is complete.     *)
(*                                                                         *)
(* The provider adds output items, sends their deltas in any order and may *)
(* fail, be cut off or give up (an incomplete response) anywhere.  Data    *)
(* kept: the deltas of each item, those of a refusal apart, and of a       *)
(* call's buffered arguments which item every delta came from.             *)
(***************************************************************************)
EXTENDS Integers, Sequences

CONSTANTS
    ItemIds,    \* what item_id can be; "" stands for a provider that sends none
    MaxItems,   \* bound: output items of one response
    MaxEvents   \* bound: events received

ASSUME ItemIdsAssumption == ItemIds # {} /\ "default" \notin ItemIds
ASSUME BoundsAssumption  == MaxItems \in Nat /\ MaxEvents \in Nat

VARIABLES
    req,           \* what the caller asked for: streaming?  thoughts included?
    it,            \* the adapter's iterator (see ResponseStream)
    pc,            \* where generate or generateStream stands
    open,          \* the SSE connection is open
    output,        \* the provider's output items so far
    functionArgs,  \* t.functionArgs: whose deltas each builder holds, in order
    identity,      \* t.itemToCallID and t.itemToName: the item behind an id, or 0
    terminal,      \* finalResponse: the items of the terminal event, <<>> for nil
    ended,         \* the provider has sent its terminal event
    events,        \* events received
    result,        \* the terminal item handed over, once there is one
    shown,         \* history: deltas of each item the caller was shown
    calls          \* history: every call handed over as a partial response

translator == <<functionArgs, identity>>
history    == <<shown, calls>>
vars       == <<req, it, pc, open, output, translator, terminal, ended, events, result, history>>

Items == {"partial", "final", "error"}
Kinds == {"message", "reasoning", "call", "search"}
Statuses == {"in_progress", "completed"}
Slots == ItemIds \cup {"default"}

\* What a message refuses is content of its own, beside its text.
NewItem(kind, id) ==
    [kind |-> kind, id |-> id, deltas |-> 0, refusal |-> 0, status |-> "in_progress"]
NoResult == [kind |-> "none", parts |-> <<>>]
Failed   == [kind |-> "failed", parts |-> <<>>]

\* The arguments the provider has sent for an item.
Sent(i) == [k \in 1..output[i].deltas |-> i]

-----------------------------------------------------------------------------
(* Conversion of a whole response *)

\* Arguments that stop in the middle are no JSON.  (None at all stand for {}.)
Cut(item) == item.kind = "call" /\ item.deltas > 0 /\ item.status = "in_progress"

\* convertOutputItems refuses an empty output and unparsable arguments.
Convertible(items) == items # <<>> /\ \A i \in DOMAIN items : ~Cut(items[i])

\* Reasoning keeps its encrypted state for the next turn; its text is for
\* callers that asked for it.
PartOf(item) ==
    [kind |-> item.kind, status |-> item.status, refusal |-> item.refusal,
     deltas |-> IF item.kind = "reasoning" /\ ~req.thoughts THEN 0 ELSE item.deltas]

Parts(items) == [i \in DOMAIN items |-> PartOf(items[i])]

\* ResponseToLLMResponse, Annotate, RestoreOmissions.  What the converters
\* refuse for its content (an unknown item type, a namespace that was not
\* offered) may fail any response.
Outcome(items) ==
    {Failed} \cup IF Convertible(items) THEN {[kind |-> "final", parts |-> Parts(items)]} ELSE {}

-----------------------------------------------------------------------------
(* generateContent and generate *)

Running(where) == it = "running" /\ pc = where

YieldLast(outcome) ==
    /\ it' = IF outcome = Failed THEN "error" ELSE "final"
    /\ pc' = "exit"
    /\ result' = outcome

PrepareFails ==
    /\ Running("prepare")
    /\ YieldLast(Failed)
    /\ UNCHANGED <<req, open, output, translator, terminal, ended, events, history>>

Prepare ==
    /\ Running("prepare")
    /\ pc' = "request"
    /\ UNCHANGED <<req, it, open, output, translator, terminal, ended, events, result, history>>

\* The request fails before there is anything to read.
RequestFails ==
    /\ Running("request")
    /\ YieldLast(Failed)
    /\ UNCHANGED <<req, open, output, translator, terminal, ended, events, history>>

WholeItems ==
    {item \in [kind : Kinds, id : ItemIds, deltas : 0..1, refusal : 0..1, status : Statuses] :
        item.kind = "message" \/ item.refusal = 0}

Generate ==
    /\ Running("request")
    /\ ~req.streaming
    /\ \E n \in 0..MaxItems : output' \in [1..n -> WholeItems]
    /\ \E outcome \in Outcome(output') : YieldLast(outcome)
    /\ UNCHANGED <<req, open, translator, terminal, ended, events, history>>

Connect ==
    /\ Running("request")
    /\ req.streaming
    /\ open' = TRUE
    /\ pc' = "reading"
    /\ UNCHANGED <<req, it, output, translator, terminal, ended, events, result, history>>

-----------------------------------------------------------------------------
(* The events of an output item: streamTranslator.process *)

Receive ==
    /\ Running("reading")
    /\ ~ended
    /\ events < MaxEvents
    /\ events' = events + 1

InProgress(i, kind) == output[i].kind = kind /\ output[i].status = "in_progress"

\* response.output_item.added; an item without an id leaves no identity.
ItemAdded(kind, id) ==
    /\ Receive
    /\ Len(output) < MaxItems
    /\ id = "" \/ \A i \in DOMAIN output : output[i].id # id
    /\ output' = Append(output, NewItem(kind, id))
    /\ shown' = Append(shown, 0)
    /\ identity' = IF id # "" /\ kind \in {"call", "search"}
                   THEN [identity EXCEPT ![id] = Len(output')] ELSE identity
    /\ UNCHANGED <<req, it, pc, open, functionArgs, terminal, ended, result, calls>>

\* A delta the caller sees at once.
Shown(i) ==
    /\ shown' = [shown EXCEPT ![i] = @ + 1]
    /\ it' = "partial"

\* response.output_text.delta
TextDelta(i) ==
    /\ Receive
    /\ InProgress(i, "message")
    /\ output' = [output EXCEPT ![i].deltas = @ + 1]
    /\ Shown(i)
    /\ UNCHANGED <<req, pc, open, translator, terminal, ended, result, calls>>

\* response.refusal.delta is no event the translator knows: nothing is shown.
RefusalDelta(i) ==
    /\ Receive
    /\ InProgress(i, "message")
    /\ output' = [output EXCEPT ![i].refusal = @ + 1]
    /\ UNCHANGED <<req, it, pc, open, translator, terminal, ended, result, history>>

\* Fault: reasoning is shown to every caller.
ReasoningDeltaShown(i) ==
    /\ Receive
    /\ InProgress(i, "reasoning")
    /\ output' = [output EXCEPT ![i].deltas = @ + 1]
    /\ Shown(i)
    /\ UNCHANGED <<req, pc, open, translator, terminal, ended, result, calls>>

\* Reasoning is skipped before it reaches the translator unless asked for.
ReasoningDelta(i) ==
    /\ Receive
    /\ InProgress(i, "reasoning")
    /\ output' = [output EXCEPT ![i].deltas = @ + 1]
    /\ IF req.thoughts THEN Shown(i) ELSE UNCHANGED <<it, shown>>
    /\ UNCHANGED <<req, pc, open, translator, terminal, ended, result, calls>>

\* Fault: one builder for all calls.
SharedSlot(id) == "default"

\* buffer: the builder the arguments of an id go to.
Slot(id) == IF id = "" THEN "default" ELSE id

ArgumentsDelta(i) ==
    /\ Receive
    /\ InProgress(i, "call")
    /\ output' = [output EXCEPT ![i].deltas = @ + 1]
    /\ functionArgs' = [functionArgs EXCEPT ![Slot(output[i].id)] = Append(@, i)]
    /\ UNCHANGED <<req, it, pc, open, identity, terminal, ended, result, history>>

\* emitFunctionCall looks the id up as it is, where buffer has replaced "".
Buffered(id) == IF id = "" THEN <<>> ELSE functionArgs[id]

\* What was kept for an id is dropped, again by the id as it is.
Dropped(id) == IF id = "" THEN functionArgs ELSE [functionArgs EXCEPT ![id] = <<>>]

\* The provider says the call is complete, with or without repeating its
\* arguments.
ArgumentsDone(i, repeated) ==
    LET id      == output[i].id
        payload == IF repeated THEN Sent(i) ELSE Buffered(id)
        named   == IF id = "" THEN 0 ELSE identity[id]
    IN  /\ Receive
        /\ InProgress(i, "call")
        /\ payload \in {<<>>, Sent(i)}
        /\ output' = [output EXCEPT ![i].status = "completed"]
        /\ functionArgs' = Dropped(id)
        /\ identity' = IF id = "" THEN identity ELSE [identity EXCEPT ![id] = 0]
        /\ calls' = calls \cup {[item |-> i, named |-> named, args |-> payload]}
        /\ it' = "partial"
        /\ UNCHANGED <<req, pc, open, terminal, ended, result, shown>>

\* response.output_item.done: a search call is handed over now, everything
\* else has been.
ItemDone(i) ==
    /\ Receive
    /\ output[i].status = "in_progress"
    /\ output[i].kind # "call"
    /\ output' = [output EXCEPT ![i].status = "completed"]
    /\ it' = IF output[i].kind = "search" THEN "partial" ELSE it
    /\ UNCHANGED <<req, pc, open, translator, terminal, ended, result, history>>

\* response.completed, or response.incomplete with items still in progress; no
\* event but a failure follows it.
TerminalEvent ==
    /\ Receive
    /\ terminal' = output
    /\ ended' = TRUE
    /\ UNCHANGED <<req, it, pc, open, output, translator, result, history>>

OtherEvent ==
    /\ Receive
    /\ UNCHANGED <<req, it, pc, open, output, translator, terminal, ended, result, history>>

Process ==
    \/ \E kind \in Kinds, id \in ItemIds : ItemAdded(kind, id)
    \/ \E i \in DOMAIN output :
          \/ TextDelta(i) \/ RefusalDelta(i) \/ ReasoningDelta(i) \/ ArgumentsDelta(i)
          \/ \E repeated \in BOOLEAN : ArgumentsDone(i, repeated)
          \/ ItemDone(i)
    \/ TerminalEvent \/ OtherEvent

-----------------------------------------------------------------------------
(* generateStream: the stream is over *)

\* An event that reports a failure or cannot be translated, or a read that
\* fails - even after the terminal event.
StreamFails ==
    /\ Running("reading")
    /\ YieldLast(Failed)
    /\ UNCHANGED <<req, open, output, translator, terminal, ended, events, history>>

\* Fault: a stream without a terminal event just ends.
EndsQuietly ==
    /\ Running("reading")
    /\ ~ended
    /\ pc' = "exit"
    /\ UNCHANGED <<req, it, open, output, translator, terminal, ended, events, result, history>>

\* A clean end without a terminal event: ErrMissingTerminalResponse.
TerminalMissing ==
    /\ Running("reading")
    /\ ~ended
    /\ YieldLast(Failed)
    /\ UNCHANGED <<req, open, output, translator, terminal, ended, events, history>>

Complete ==
    /\ Running("reading")
    /\ ended
    /\ \E outcome \in Outcome(terminal) : YieldLast(outcome)
    /\ UNCHANGED <<req, open, output, translator, terminal, ended, events, history>>

\* The functions return; the deferred Close releases the connection.
Return ==
    /\ it = "stop" \/ Running("exit")
    /\ it' = "returned"
    /\ pc' = "exit"
    /\ open' = FALSE
    /\ UNCHANGED <<req, output, translator, terminal, ended, events, result, history>>

Adapter ==
    \/ PrepareFails \/ Prepare
    \/ RequestFails \/ Generate \/ Connect
    \/ Process
    \/ StreamFails \/ TerminalMissing \/ Complete
    \/ Return

-----------------------------------------------------------------------------
(* The caller *)

rest == <<req, pc, open, output, translator, terminal, ended, events, result, history>>

Start    == it = "idle" /\ it' = "running" /\ UNCHANGED rest
Continue == it \in Items /\ it' = "running" /\ UNCHANGED rest
Stop     == it \in Items /\ it' = "stop" /\ UNCHANGED rest
Done     == it = "returned" /\ UNCHANGED vars

Init ==
    /\ req \in [streaming : BOOLEAN, thoughts : BOOLEAN]
    /\ it = "idle"
    /\ pc = "prepare"
    /\ open = FALSE
    /\ output = <<>>
    /\ functionArgs = [slot \in Slots |-> <<>>]
    /\ identity = [slot \in Slots |-> 0]
    /\ terminal = <<>>
    /\ ended = FALSE
    /\ events = 0
    /\ result = NoResult
    /\ shown = <<>>
    /\ calls = {}

Next == Adapter \/ Start \/ Continue \/ Stop \/ Done

Spec == Init /\ [][Next]_vars

-----------------------------------------------------------------------------
(* Properties *)

\* "retrieving the complete, buffered function arguments (either from the done
\* event or our functionArgs map)": a call handed over in the stream has all the
\* arguments the provider streamed for it.
ArgumentsAreRetrieved == \A c \in calls : c.args = Sent(c.item)

\* However the deltas of several calls interleave, a call handed over in the
\* stream carries its own name and call id and exactly its own arguments.
StreamedCallsAreTheirOwn == ArgumentsAreRetrieved /\ \A c \in calls : c.named = c.item

\* The complete response comes from the terminal event and not from what was
\* assembled on the way; still it holds exactly the text and the reasoning the
\* caller was shown, and no reasoning the caller had hidden. A refusal is the
\* exception: none of it was shown, all of it is in the complete response.
FinalIsWhatWasShown ==
    result.kind = "final" /\ req.streaming =>
        \A i \in DOMAIN result.parts :
            /\ result.parts[i].kind \in {"message", "reasoning"} => result.parts[i].deltas = shown[i]
            /\ result.parts[i].refusal = output[i].refusal

\* A stream completes only if it reached its terminal event, and a response the
\* provider cut short in the middle of a call's arguments never becomes a
\* complete response with that call.
CutCallNeverExecutes ==
    /\ result.kind = "final" /\ req.streaming => ended
    /\ \A i \in DOMAIN result.parts : ~Cut(result.parts[i])

View == IF it = "running" /\ result.kind # "none" THEN "stop" ELSE it

Contract == INSTANCE ResponseStream WITH it <- View, SilentEnd <- FALSE

\* Unless the caller stops, the adapter ends with exactly one terminal item: a
\* stream that just ends is an error.
ContractHolds == Contract!Spec
=============================================================================
