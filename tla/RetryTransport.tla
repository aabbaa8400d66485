--------------------------- MODULE RetryTransport ---------------------------
(***************************************************************************)
(* vercel/retry.go: one RoundTrip of the transport that repeats an HTTP    *)
(* request which failed before it produced an answer.  The transport owns  *)
(* two kinds of resources on the way: the request bodies it has obtained   *)
(* and not yet handed to the base transport, and the response bodies it    *)
(* has received and not yet closed or returned.                            *)
(***************************************************************************)
EXTENDS Integers

CONSTANT LastAttempt   \* 2: the index of the last attempt

ASSUME LastAttemptAssumption == LastAttempt \in Nat

VARIABLES
    pc,         \* where RoundTrip stands
    attempt,    \* the loop's counter
    bodyKind,   \* what req.Body and req.GetBody are: absent, read once, or replayable
    bodies,     \* who holds each attempt's request body
    replies,    \* history: what the base transport answered to each attempt
    responses,  \* attempts whose response body is still open
    outcome,    \* what RoundTrip returned
    ctxDead     \* req.Context().Err() != nil

vars == <<pc, attempt, bodyKind, bodies, replies, responses, outcome, ctxDead>>

Attempts == 0..LastAttempt
Holders  == {"absent", "ours", "base", "closed"}

\* An HTTP answer: its status as the code tells it apart (transient is 408,
\* 409, 429 and 5xx), and the x-should-retry header.
Answers == [status : {"success", "transient", "permanent"}, hint : {"none", "true", "false"}]
Lost    == [status |-> "lost", hint |-> "none"]   \* no response but an error
NoReply == [status |-> "none", hint |-> "none"]
Reply   == replies[attempt]

Give(result) == pc' = "returned" /\ outcome' = result

\* Nothing is sent for a context that is already dead; the body that would
\* have been sent is closed here, for the base transport never sees it.
AbortBeforeSend ==
    /\ pc = "check"
    /\ ctxDead
    /\ bodies' = [bodies EXCEPT ![attempt] = IF bodyKind = "none" THEN "absent" ELSE "closed"]
    /\ Give("error")
    /\ UNCHANGED <<attempt, bodyKind, replies, responses, ctxDead>>

\* t.base.RoundTrip(current): from here the body is the base transport's.
Send ==
    /\ pc = "check"
    /\ ~ctxDead
    /\ pc' = "inflight"
    /\ bodies' = [bodies EXCEPT ![attempt] = IF bodyKind = "none" THEN "absent" ELSE "base"]
    /\ UNCHANGED <<attempt, bodyKind, replies, responses, outcome, ctxDead>>

\* The base transport answers, or fails with an error.
Answer ==
    /\ pc = "inflight"
    /\ pc' = "judge"
    /\ \E r \in Answers \cup {Lost} :
          /\ replies' = [replies EXCEPT ![attempt] = r]
          /\ responses' = IF r = Lost THEN responses ELSE responses \cup {attempt}
    /\ UNCHANGED <<attempt, bodyKind, bodies, outcome, ctxDead>>

\* The base transport always closes the body it was given, perhaps late and
\* from a goroutine of its own.
BaseClosesBody(i) ==
    /\ bodies[i] = "base"
    /\ bodies' = [bodies EXCEPT ![i] = "closed"]
    /\ UNCHANGED <<pc, attempt, bodyKind, replies, responses, outcome, ctxDead>>

\* Fault: the server's hint is asked before the status.
HintFirst ==
    /\ ~ctxDead
    /\ bodyKind # "oneshot"
    /\ \/ Reply = Lost
       \/ Reply.hint = "true"
       \/ Reply.hint = "none" /\ Reply.status = "transient"

\* May this reply be followed by another attempt?  A success never; otherwise
\* the server's hint decides, and without one the status.
Retryable ==
    /\ ~ctxDead
    /\ bodyKind # "oneshot"
    /\ \/ Reply = Lost
       \/ /\ Reply.status # "success"
          /\ Reply.hint = "true" \/ (Reply.hint = "none" /\ Reply.status = "transient")

\* What RoundTrip returns when it returns the base transport's answer.
HandOver == Give(IF Reply = Lost THEN "error" ELSE "response")

GiveUp ==
    /\ pc = "judge"
    /\ attempt = LastAttempt \/ ~Retryable
    /\ HandOver
    /\ UNCHANGED <<attempt, bodyKind, bodies, replies, responses, ctxDead>>

\* req.GetBody fails: the answer in hand is returned as it is.
CannotRewind ==
    /\ pc = "judge"
    /\ attempt < LastAttempt /\ Retryable
    /\ bodyKind = "replayable"
    /\ HandOver
    /\ UNCHANGED <<attempt, bodyKind, bodies, replies, responses, ctxDead>>

\* Clone the request with a fresh body, then close the refused answer.
Rewind ==
    /\ pc = "judge"
    /\ attempt < LastAttempt /\ Retryable
    /\ bodies' = [bodies EXCEPT ![attempt + 1] = IF bodyKind = "none" THEN "absent" ELSE "ours"]
    /\ responses' = responses \ {attempt}
    /\ pc' = "sleep"
    /\ UNCHANGED <<attempt, bodyKind, replies, outcome, ctxDead>>

\* The timer fires; with the context dead as well the select may take either.
Wake ==
    /\ pc = "sleep"
    /\ pc' = "check"
    /\ attempt' = attempt + 1
    /\ UNCHANGED <<bodyKind, bodies, replies, responses, outcome, ctxDead>>

\* Fault: the fresh body is forgotten when the pause is cut short.
SleepAbortedLeaks ==
    /\ pc = "sleep"
    /\ ctxDead
    /\ Give("error")
    /\ UNCHANGED <<attempt, bodyKind, bodies, replies, responses, ctxDead>>

\* Fault: the pause does not watch the context.
SleepOn == FALSE

\* The context dies during the pause: the body obtained for the next attempt
\* is closed.
SleepAborted ==
    /\ pc = "sleep"
    /\ ctxDead
    /\ bodies' = [bodies EXCEPT ![attempt + 1] = IF bodyKind = "none" THEN "absent" ELSE "closed"]
    /\ Give("error")
    /\ UNCHANGED <<attempt, bodyKind, replies, responses, ctxDead>>

ContextDies ==
    /\ ~ctxDead
    /\ ctxDead' = TRUE
    /\ UNCHANGED <<pc, attempt, bodyKind, bodies, replies, responses, outcome>>

Init ==
    /\ pc = "check"
    /\ attempt = 0
    /\ bodyKind \in {"none", "oneshot", "replayable"}
    /\ bodies = [i \in Attempts |-> IF i = 0 /\ bodyKind # "none" THEN "ours" ELSE "absent"]
    /\ replies = [i \in Attempts |-> NoReply]
    /\ responses = {}
    /\ outcome = "none"
    /\ ctxDead \in BOOLEAN

\* RoundTrip's own steps.  Wake is apart: a pause may last a minute.
Transport ==
    \/ AbortBeforeSend \/ Send
    \/ GiveUp \/ CannotRewind \/ Rewind
    \/ SleepAborted

Next ==
    \/ Transport \/ Wake \/ Answer \/ ContextDies
    \/ \E i \in Attempts : BaseClosesBody(i)

\* RoundTrip keeps running, and the base transport honours the context it is
\* given; nothing is asked of the length of a pause.
Fairness == WF_vars(Transport) /\ WF_vars(Answer /\ ctxDead)

Spec == Init /\ [][Next]_vars /\ Fairness

-----------------------------------------------------------------------------
(* Properties *)

\* The variables keep to their domains; no attempt goes past the last one.
TypeOK ==
    /\ pc \in {"check", "inflight", "judge", "sleep", "returned"}
    /\ attempt \in Attempts
    /\ bodyKind \in {"none", "oneshot", "replayable"}
    /\ bodies \in [Attempts -> Holders]
    /\ replies \in [Attempts -> Answers \cup {Lost, NoReply}]
    /\ responses \subseteq Attempts
    /\ outcome \in {"none", "response", "error"}
    /\ ctxDead \in BOOLEAN

\* Whichever way RoundTrip ends, it leaves no request body of its own open,
\* and no response body but the one it returns, which it has not touched.
NothingLeaks ==
    pc = "returned" =>
       /\ \A i \in Attempts : bodies[i] # "ours"
       /\ responses = IF outcome = "response" THEN {attempt} ELSE {}

\* "Successful streaming responses are returned untouched": what was answered
\* with success, or with the server's veto, is not asked again, nor is a
\* request whose body could only be read once.
OnlyRefusalsAreRepeated ==
    \A i \in Attempts : i < attempt =>
       /\ replies[i].status # "success"
       /\ replies[i].hint # "false"
       /\ bodyKind # "oneshot"

\* No connection is held by a refused answer while the transport pauses, and
\* every attempt is sent with a body nobody has read.
AttemptsStartClean ==
    [][/\ pc = "judge" /\ pc' = "sleep" => responses' = {}
       /\ pc = "check" /\ pc' = "inflight" => bodies[attempt] \in {"absent", "ours"}]_vars

\* A dead context ends the call without waiting for a pause to run out.
CancellationIsPrompt == ctxDead ~> pc = "returned"
=============================================================================
