----------------------------- MODULE OpenAIAdapter -----------------------------
(* One call of an OpenAI model, over whichever of the two APIs NewModel     *)
(* chose for it. Both adapters keep to one contract with the caller and     *)
(* share the call's bookkeeping; what each accumulates is its own.          *)
EXTENDS OpenAIStream

CONSTANTS
    MaxCalls,   \* bound: calls of one chat reply
    MaxChunks   \* bound: chunks of one chat reply

ASSUME ChatBoundsAssumption == MaxCalls \in Nat /\ MaxChunks \in Nat

VARIABLES
    api,        \* Config.API
    reply,      \* the chat accumulator
    seen        \* history: chat text and refusal the caller was shown

Chat == INSTANCE ChatStream WITH chunks <- events

responsesVars == <<output, translator, terminal, ended, history>>
adapterVars == <<vars, api, reply, seen>>

AdapterInit ==
    /\ Init
    /\ api \in {"responses", "chat_completions"}
    /\ reply = Chat!EmptyReply
    /\ seen = [text |-> 0, refusal |-> 0]

ResponsesStep ==
    /\ api = "responses"
    /\ Next
    /\ UNCHANGED <<api, reply, seen>>

ChatStep ==
    /\ api = "chat_completions"
    /\ Chat!Next
    /\ UNCHANGED <<api, responsesVars>>

AdapterNext == ResponsesStep \/ ChatStep

AdapterSpec == AdapterInit /\ [][AdapterNext]_adapterVars

--------------------------------------------------------------------------------
(* Properties of either API *)

\* What was shown comes from deltas and what is kept comes from elsewhere: the
\* terminal event, or the SDK's accumulator. Over both APIs the complete
\* response holds exactly the text the caller saw, and no hidden reasoning. A
\* refusal is seen in full over Chat Completions and kept; over Responses it is
\* kept in full and never seen (openai.go:279, openai/stream.go:133, chat.go:219).
KeptIsWhatWasShown ==
    /\ api = "responses" => FinalIsWhatWasShown
    /\ api = "chat_completions" => Chat!ReplyIsWhatWasShown

\* Over Responses a stream completes only with a terminal event, and if that
\* reports an incomplete response, without a call whose arguments were begun and
\* not finished; over Chat Completions only a reply with a finish reason and
\* whole calls completes (openaiconvert/response.go:214, chat.go:258).
UnfinishedNeverExecutes ==
    /\ api = "responses" => CutCallNeverExecutes
    /\ api = "chat_completions" => Chat!OnlyFinishedRepliesComplete
================================================================================
