-------------------------- MODULE VercelInvocation --------------------------
(***************************************************************************)
(* gatewayModel.GenerateContent with the default HTTP client: the timeout  *)
(* wrapper drives the Vercel adapter, and the adapter's post is a          *)
(* RoundTrip of the retrying transport.  Adapter and transport run under   *)
(* the wrapper's callCtx; the request body is a bytes.Reader, so it can    *)
(* always be replayed.  When the base transport closes a body it was given *)
(* makes no difference here, and is left to RetryTransport's own run.      *)
(***************************************************************************)
EXTENDS Naturals

CONSTANTS Ids, MaxParts, MaxEvents, LastAttempt

VARIABLES
    budget, parentErr, timer, outer, final, cause,   \* TimeoutGuard
    it,                                              \* shared
    req, pc, open, content, textParts, reasoning, reasoningParts, events, result, history,
                                                     \* VercelStream
    step, attempt, bodyKind, bodies, replies, responses, outcome
                                                     \* RetryTransport

guardVars  == <<budget, parentErr, timer, outer, final, cause>>
streamVars == <<req, pc, open, content, textParts, reasoning, reasoningParts, events, result,
                history>>
postVars   == <<step, attempt, bodyKind, bodies, replies, responses, outcome>>
vars       == <<guardVars, it, streamVars, postVars>>

Guard == INSTANCE TimeoutGuard WITH inner <- it

\* Adapter and transport see callCtx.
CallContext == Guard!CallDead

Stream == INSTANCE VercelStream WITH ctxDead <- CallContext

\* Fault: the request is built without the call's context.
CallerContext == parentErr # "none"

\* http.NewRequestWithContext(ctx, ...)
RequestContext == CallContext

RoundTrip == INSTANCE RetryTransport WITH pc <- step, ctxDead <- RequestContext

Init ==
    /\ Guard!Init
    /\ Stream!AdapterInit
    /\ RoundTrip!Init /\ bodyKind = "replayable"

\* post returns what RoundTrip returned, and generateStream tells a 2xx from
\* every other answer.
PostAgrees ==
    LET answered == outcome = "response"
    IN  /\ step = "returned"
        /\ open' = answered
        /\ (pc' = "reading") = (answered /\ replies[attempt].status = "success")

GuardStep ==
    /\ UNCHANGED <<streamVars, postVars>>
    /\ Guard!Wrapper \/ Guard!Caller \/ Guard!Contexts \/ Guard!Done

StreamStep ==
    /\ UNCHANGED <<guardVars, postVars>>
    /\ Stream!Adapter
    /\ pc = "post" => PostAgrees

Posting == UNCHANGED <<guardVars, it, streamVars>> /\ Stream!Running("post")

PostStep == Posting /\ (RoundTrip!Transport \/ RoundTrip!Wake \/ RoundTrip!Answer)

Next == GuardStep \/ StreamStep \/ PostStep

\* As in the components: the code runs on, the caller's loop body ends, and a
\* dead context fails the base transport and the reads.  Neither the gateway's
\* answers nor the end of a pause are counted on.
Fairness ==
    /\ WF_vars(UNCHANGED <<streamVars, postVars>> /\ Guard!Wrapper)
    /\ WF_vars(UNCHANGED <<streamVars, postVars>> /\ Guard!Caller)
    /\ WF_vars(UNCHANGED <<streamVars, postVars>> /\ Guard!TimerFires)
    /\ WF_vars(UNCHANGED <<guardVars, postVars>> /\ Stream!RunsOn)
    /\ WF_vars(UNCHANGED <<guardVars, postVars>> /\ Stream!Post /\ PostAgrees)
    /\ WF_vars(UNCHANGED <<guardVars, postVars>> /\ Stream!HonoursContext)
    /\ WF_vars(Posting /\ RoundTrip!Transport)
    /\ WF_vars(Posting /\ CallContext /\ RoundTrip!Answer)

Spec == Init /\ [][Next]_vars /\ Fairness

-----------------------------------------------------------------------------
(* Properties *)

\* Adapter and transport together are a generator as the wrapper requires it;
\* in particular neither a pause nor a lost gateway outlives callCtx.
ImplementsGuard == Guard!Spec

CallerSees == INSTANCE ResponseStream WITH it <- Guard!CallerView, SilentEnd <- FALSE

\* From the caller's side: partial responses, then exactly one terminal item
\* unless the caller stops first - although the adapter's own loop would read
\* on after a finish.
CallerContract == CallerSees!Spec

\* While the caller runs tools on the complete response, and after the call,
\* no answer is held open and no request body waits to be sent.
NothingHeld ==
    outer \in {"final", "returned"} =>
        /\ ~open
        /\ \/ step = "returned" /\ \A i \in RoundTrip!Attempts : bodies[i] # "ours"
           \/ step = "check" /\ attempt = 0   \* nothing was ever posted
=============================================================================
