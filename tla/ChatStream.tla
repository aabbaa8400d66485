------------------------------ MODULE ChatStream ------------------------------
(***************************************************************************)
(* The OpenAI adapter's side of one GenerateContent call over the Chat     *)
(* Completions API: the chunks of a stream are shown as they come and      *)
(* added up by the SDK; the reply so added up becomes the complete         *)
(* response, if the provider finished it.                                  *)
(*                                                                         *)
(* Data kept of the reply: how many deltas its text and its refusal have,  *)
(* how far each call has come, and the finish reason.                      *)
(***************************************************************************)
EXTENDS Integers, Sequences

CONSTANTS
    MaxCalls,   \* bound: calls of one reply
    MaxChunks   \* bound: chunks received

VARIABLES
    req,        \* what the caller asked for: streaming?  thoughts included?
    it,         \* the adapter's iterator (see ResponseStream)
    pc,         \* where generate or stream stands
    open,       \* the SSE connection is open
    reply,      \* the SDK's accumulator: the choice received so far
    chunks,     \* chunks received
    result,     \* the terminal item handed over, once there is one
    seen        \* history: deltas of text and of refusal the caller was shown

vars == <<req, it, pc, open, reply, chunks, result, seen>>

Items == {"partial", "final", "error"}
FinishReasons == {"stop", "tool_calls", "length", "content_filter"}

\* A call begins with its id and name; its arguments are "none", "cut" or
\* "whole".
Arguments == {"none", "cut", "whole"}
EmptyReply == [text |-> 0, refusal |-> 0, calls |-> <<>>, choices |-> 0, finish |-> ""]
NoResult == [kind |-> "none", parts |-> <<>>]
Failed   == [kind |-> "failed", parts |-> <<>>]

-----------------------------------------------------------------------------
(* ChatToLLMResponse *)

\* Fault: a reply is complete whenever its stream is over.
FinishedWhenever(r) == TRUE

Finished(r) == r.choices = 1 /\ r.finish # ""

\* Arguments that stop anywhere, or never began, are no JSON object.
CallsParse(r) == \A i \in DOMAIN r.calls : r.calls[i] = "whole"

Parts(r) ==
    (IF r.text > 0 THEN <<[kind |-> "text", deltas |-> r.text]>> ELSE <<>>)
    \o (IF r.refusal > 0 THEN <<[kind |-> "refusal", deltas |-> r.refusal]>> ELSE <<>>)
    \o [i \in DOMAIN r.calls |-> [kind |-> "tool", arguments |-> r.calls[i]]]

\* The converter may also refuse a call for its kind, id or name.
Outcome(r) ==
    {Failed} \cup IF Finished(r) /\ CallsParse(r)
                  THEN {[kind |-> "final", parts |-> Parts(r)]} ELSE {}

-----------------------------------------------------------------------------
(* generate *)

Running(where) == it = "running" /\ pc = where

YieldLast(outcome) ==
    /\ it' = IF outcome = Failed THEN "error" ELSE "final"
    /\ pc' = "exit"
    /\ result' = outcome

\* Also: thoughts are not to be had over this API.
PrepareFails ==
    /\ Running("prepare")
    /\ YieldLast(Failed)
    /\ UNCHANGED <<req, open, reply, chunks, seen>>

Prepare ==
    /\ Running("prepare")
    /\ ~req.thoughts
    /\ pc' = "request"
    /\ UNCHANGED <<req, it, open, reply, chunks, result, seen>>

RequestFails ==
    /\ Running("request")
    /\ YieldLast(Failed)
    /\ UNCHANGED <<req, open, reply, chunks, seen>>

WholeReplies ==
    [text : 0..1, refusal : 0..1, choices : 0..2, finish : FinishReasons \cup {""},
     calls : UNION {[1..n -> Arguments] : n \in 0..MaxCalls}]

Generate ==
    /\ Running("request")
    /\ ~req.streaming
    /\ reply' \in WholeReplies
    /\ \E outcome \in Outcome(reply') : YieldLast(outcome)
    /\ UNCHANGED <<req, open, chunks, seen>>

Connect ==
    /\ Running("request")
    /\ req.streaming
    /\ open' = TRUE
    /\ pc' = "reading"
    /\ UNCHANGED <<req, it, reply, chunks, result, seen>>

-----------------------------------------------------------------------------
(* stream: the chunks *)

Receive ==
    /\ Running("reading")
    /\ chunks < MaxChunks
    /\ chunks' = chunks + 1

\* A chunk of the only choice; the provider says nothing after the finish.
Choice(added) ==
    /\ Receive
    /\ reply.finish = ""
    /\ reply' = [added EXCEPT !.choices = 1]

Spoken(r, text, refusal) ==
    [[r EXCEPT !.text = r.text + text] EXCEPT !.refusal = r.refusal + refusal]

\* Text and refusal of one chunk are shown as one partial response.
Words(text, refusal) ==
    /\ text + refusal > 0
    /\ Choice(Spoken(reply, text, refusal))
    /\ seen' = [text |-> seen.text + text, refusal |-> seen.refusal + refusal]
    /\ it' = "partial"
    /\ UNCHANGED <<req, pc, open, result>>

\* Calls are not shown; their deltas may interleave.
CallBegins ==
    /\ Len(reply.calls) < MaxCalls
    /\ Choice([reply EXCEPT !.calls = Append(reply.calls, "none")])
    /\ UNCHANGED <<req, it, pc, open, result, seen>>

CallContinues(i, arguments) ==
    /\ reply.calls[i] # "whole"
    /\ Choice([reply EXCEPT !.calls = [reply.calls EXCEPT ![i] = arguments]])
    /\ UNCHANGED <<req, it, pc, open, result, seen>>

\* Only a reply cut for length or content leaves calls unfinished.
FinishChunk(reason) ==
    /\ reason \in {"stop", "tool_calls"} => CallsParse(reply)
    /\ Choice([reply EXCEPT !.finish = reason])
    /\ UNCHANGED <<req, it, pc, open, result, seen>>

\* Usage, or a chunk without news.
OtherChunk ==
    /\ Receive
    /\ UNCHANGED <<req, it, pc, open, reply, result, seen>>

Chunk ==
    \/ \E text, refusal \in 0..1 : Words(text, refusal)
    \/ CallBegins
    \/ \E i \in DOMAIN reply.calls, arguments \in {"cut", "whole"} : CallContinues(i, arguments)
    \/ \E reason \in FinishReasons : FinishChunk(reason)
    \/ OtherChunk

-----------------------------------------------------------------------------
(* stream: the end *)

\* A chunk that belongs to no reply or to a second choice, or a failed read.
StreamFails ==
    /\ Running("reading")
    /\ YieldLast(Failed)
    /\ UNCHANGED <<req, open, reply, chunks, seen>>

\* The stream ends, wherever the provider or the network ends it.
Complete ==
    /\ Running("reading")
    /\ \E outcome \in Outcome(reply) : YieldLast(outcome)
    /\ UNCHANGED <<req, open, reply, chunks, seen>>

Return ==
    /\ it = "stop" \/ Running("exit")
    /\ it' = "returned"
    /\ pc' = "exit"
    /\ open' = FALSE
    /\ UNCHANGED <<req, reply, chunks, result, seen>>

Adapter ==
    \/ PrepareFails \/ Prepare
    \/ RequestFails \/ Generate \/ Connect
    \/ Chunk \/ StreamFails \/ Complete
    \/ Return

-----------------------------------------------------------------------------
(* The caller *)

rest == <<req, pc, open, reply, chunks, result, seen>>

Start    == it = "idle" /\ it' = "running" /\ UNCHANGED rest
Continue == it \in Items /\ it' = "running" /\ UNCHANGED rest
Stop     == it \in Items /\ it' = "stop" /\ UNCHANGED rest
Done     == it = "returned" /\ UNCHANGED vars

Init ==
    /\ req \in [streaming : BOOLEAN, thoughts : BOOLEAN]
    /\ it = "idle"
    /\ pc = "prepare"
    /\ open = FALSE
    /\ reply = EmptyReply
    /\ chunks = 0
    /\ result = NoResult
    /\ seen = [text |-> 0, refusal |-> 0]

Next == Adapter \/ Start \/ Continue \/ Stop \/ Done

Spec == Init /\ [][Next]_vars

-----------------------------------------------------------------------------
(* Properties *)

Told(kind) == {i \in DOMAIN result.parts : result.parts[i].kind = kind}

\* The complete response is the accumulator's and the partial ones are the
\* chunks'; both hold the same text and the same refusal (openai/chat.go:219).
ReplyIsWhatWasShown ==
    result.kind = "final" /\ req.streaming =>
        \A kind \in {"text", "refusal"} :
            IF seen[kind] = 0 THEN Told(kind) = {}
            ELSE \E i \in Told(kind) : result.parts[i].deltas = seen[kind]

\* A stream that ends before the provider finished the reply, or in the middle
\* of a call, never becomes a complete response (openaiconvert/chat.go:258).
OnlyFinishedRepliesComplete ==
    result.kind = "final" =>
        /\ reply.finish # ""
        /\ \A i \in Told("tool") : result.parts[i].arguments = "whole"
===============================================================================
