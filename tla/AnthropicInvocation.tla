------------------------ MODULE AnthropicInvocation ------------------------
(***************************************************************************)
(* anthropicModel.GenerateContent: the timeout wrapper around the          *)
(* Anthropic adapter.  The wrapper's loop drives the adapter's iterator,   *)
(* and the adapter runs under the wrapper's callCtx.                       *)
(***************************************************************************)
EXTENDS Naturals

CONSTANTS MaxAttempts, MaxBlocks, MaxEvents, MaxUsage

VARIABLES
    budget, parentErr, timer, outer, final, cause,         \* TimeoutGuard
    it,                                                    \* shared
    req, pc, attempt, open, message, events, yielded, result, shown, accepted
                                                           \* AnthropicStream

guardVars  == <<budget, parentErr, timer, outer, final, cause>>
streamVars == <<req, pc, attempt, open, message, events, yielded, result, shown, accepted>>
vars       == <<guardVars, it, streamVars>>

Guard  == INSTANCE TimeoutGuard WITH inner <- it

\* Fault: the adapter is called with the caller's context.
CallerContextOnly == parentErr # "none"

\* The adapter sees callCtx.
AdapterContext == Guard!CallDead

Stream == INSTANCE AnthropicStream WITH ctxDead <- AdapterContext

Init == Guard!Init /\ Stream!AdapterInit

GuardStep ==
    /\ UNCHANGED streamVars
    /\ Guard!Wrapper \/ Guard!Caller \/ Guard!Contexts \/ Guard!Done

StreamStep == UNCHANGED guardVars /\ Stream!Adapter

Next == GuardStep \/ StreamStep

\* As in TimeoutGuard; of the adapter only what needs no provider is fair.
Fairness ==
    /\ WF_vars(UNCHANGED streamVars /\ Guard!Wrapper)
    /\ WF_vars(UNCHANGED streamVars /\ Guard!Caller)
    /\ WF_vars(UNCHANGED streamVars /\ Guard!TimerFires)
    /\ WF_vars(UNCHANGED guardVars /\ Stream!RunsOn)
    /\ WF_vars(UNCHANGED guardVars /\ Stream!HonoursContext)

Spec == Init /\ [][Next]_vars /\ Fairness

-----------------------------------------------------------------------------
(* Properties *)

\* The adapter is a generator as the wrapper requires it: it follows the
\* iterator protocol and, once callCtx is dead, ends without the provider's
\* help.  What TimeoutGuard shows of any such generator holds here.
ImplementsGuard == Guard!Spec
=============================================================================
