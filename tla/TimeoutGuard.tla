---------------------------- MODULE TimeoutGuard ----------------------------
(***************************************************************************)
(* internal.GenerateWithTimeout: the wrapper every adapter runs under.  It *)
(* puts the request's optional HTTPOptions.Timeout around the adapter,     *)
(* decides which error the caller sees, and hands over the complete        *)
(* response only after the adapter's stream is closed and the budget       *)
(* released.                                                               *)
(*                                                                         *)
(* The adapter is any generator of items: it may yield items in any order, *)
(* even after a terminal one, and may stop at any point.  The caller's     *)
(* context may be cancelled, or expire, between any two steps.             *)
(***************************************************************************)
EXTENDS Naturals

VARIABLES
    budget,     \* the request sets a positive HTTPOptions.Timeout
    parentErr,  \* ctx.Err(): the caller's own context
    timer,      \* the timer behind callCtx: unset, armed, fired, released
    outer,      \* the iterator the caller ranges over
    inner,      \* the adapter's iterator, which the wrapper ranges over
    final,      \* the complete response has been taken from the adapter
    cause       \* what the error handed to the caller says

vars == <<budget, parentErr, timer, outer, inner, final, cause>>

Items      == {"partial", "final", "error"}
ContextErr == {"canceled", "deadline"}

\* callCtx is dead: its parent is, its timer fired, or cancel was called.
CallDead == parentErr # "none" \/ timer \in {"fired", "released"}

\* Fault: any failure under a budget is put down to the budget.
BlameBudget(err) ==
    IF parentErr # "none" THEN parentErr
    ELSE IF timer # "unset" /\ err # "none" THEN "budget"
    ELSE err

\* Fault: the budget is looked at before the caller's own context.
BudgetFirst(err) ==
    IF timer = "fired" THEN "budget"
    ELSE IF parentErr # "none" THEN parentErr
    ELSE err

\* failure(err): the caller's own context first, then this call's budget,
\* then whatever the adapter reported.
Failure(err) ==
    IF parentErr # "none" THEN parentErr
    ELSE IF timer = "fired" THEN "budget"
    ELSE err

AdapterErr == IF inner = "error" THEN "adapter" ELSE "none"

-----------------------------------------------------------------------------
(* The wrapper *)

\* Fault: the deadline is never attached to the adapter's context.
ArmDetached ==
    /\ outer = "idle"
    /\ outer' = "armed"
    /\ UNCHANGED <<budget, parentErr, timer, inner, final, cause>>

\* callCtx, cancel = context.WithTimeout(ctx, timeout), if one is set.
Arm ==
    /\ outer = "idle"
    /\ outer' = "armed"
    /\ timer' = IF budget THEN "armed" ELSE "unset"
    /\ UNCHANGED <<budget, parentErr, inner, final, cause>>

\* Hand an error to the caller; the deferred cancel has not run yet.
Fail(err) ==
    /\ outer' = "error"
    /\ cause' = err
    /\ UNCHANGED <<budget, parentErr, timer, inner, final>>

\* The check before the adapter is called at all.
Refuse ==
    /\ outer = "armed"
    /\ Failure("none") # "none"
    /\ Fail(Failure("none"))

Call ==
    /\ outer = "armed"
    /\ Failure("none") = "none"
    /\ outer' = "pulling"
    /\ inner' = "running"
    /\ UNCHANGED <<budget, parentErr, timer, final, cause>>

\* The adapter yielded, and either it failed or a context did.
RelayError ==
    /\ outer = "pulling"
    /\ inner \in Items
    /\ Failure(AdapterErr) # "none"
    /\ Fail(Failure(AdapterErr))

RelayPartial ==
    /\ outer = "pulling"
    /\ inner = "partial"
    /\ Failure("none") = "none"
    /\ outer' = "partial"
    /\ UNCHANGED <<budget, parentErr, timer, inner, final, cause>>

\* Fault: the response is handed over from inside the loop.
YieldFinalInLoop ==
    /\ outer = "pulling"
    /\ inner = "final"
    /\ Failure("none") = "none"
    /\ final' = TRUE
    /\ outer' = "final"
    /\ UNCHANGED <<budget, parentErr, timer, inner, cause>>

\* A non-partial response leaves the loop: the adapter's yield returns false
\* and its deferred calls close the stream.
TakeFinal ==
    /\ outer = "pulling"
    /\ inner = "final"
    /\ Failure("none") = "none"
    /\ final' = TRUE
    /\ outer' = "closing"
    /\ inner' = "stop"
    /\ UNCHANGED <<budget, parentErr, timer, cause>>

\* The loop is over.  A context that died meanwhile discards the response.
FinishFailed ==
    /\ outer \in {"pulling", "closing"}
    /\ inner = "returned"
    /\ Failure("none") # "none"
    /\ Fail(Failure("none"))

Finish ==
    /\ outer \in {"pulling", "closing"}
    /\ inner = "returned"
    /\ Failure("none") = "none"
    /\ timer' = IF budget THEN "released" ELSE timer
    /\ outer' = IF final THEN "final" ELSE "returned"
    /\ UNCHANGED <<budget, parentErr, inner, final, cause>>

\* The function returns; the deferred cancel releases the timer.
Return ==
    /\ outer = "unwinding"
    /\ inner \in {"idle", "returned"}
    /\ outer' = "returned"
    /\ timer' = IF budget THEN "released" ELSE timer
    /\ UNCHANGED <<budget, parentErr, inner, final, cause>>

Wrapper ==
    \/ Arm \/ Refuse \/ Call \/ RelayError \/ RelayPartial \/ TakeFinal
    \/ FinishFailed \/ Finish \/ Return

-----------------------------------------------------------------------------
(* The caller's loop body *)

\* It wants the next item.
Continue ==
    /\ outer = "partial"
    /\ outer' = "pulling"
    /\ inner' = "running"
    /\ UNCHANGED <<budget, parentErr, timer, final, cause>>

\* Fault: after an error the loop goes on with the next item.
LeaveOrRetry ==
    /\ outer \in Items
    /\ outer' = IF outer = "error" /\ inner = "error" THEN "pulling" ELSE "unwinding"
    /\ inner' = IF outer = "error" /\ inner = "error" THEN "running"
                ELSE IF inner \in Items THEN "stop" ELSE inner
    /\ UNCHANGED <<budget, parentErr, timer, final, cause>>

\* It leaves its loop, or it has seen the last item.  Returning from the
\* wrapper's loop makes a suspended adapter's yield return false.
Leave ==
    /\ outer \in Items
    /\ outer' = "unwinding"
    /\ inner' = IF inner \in Items THEN "stop" ELSE inner
    /\ UNCHANGED <<budget, parentErr, timer, final, cause>>

Caller == Continue \/ Leave

-----------------------------------------------------------------------------
(* The adapter, of which only the iterator protocol is assumed *)

AdapterYields(item) ==
    /\ inner = "running"
    /\ inner' = item
    /\ UNCHANGED <<budget, parentErr, timer, outer, final, cause>>

AdapterReturns ==
    /\ inner \in {"running", "stop"}
    /\ inner' = "returned"
    /\ UNCHANGED <<budget, parentErr, timer, outer, final, cause>>

Adapter == AdapterReturns \/ \E item \in Items : AdapterYields(item)

-----------------------------------------------------------------------------
(* Contexts *)

\* The budget runs out.  A context whose parent died no longer has a timer.
TimerFires ==
    /\ timer = "armed"
    /\ parentErr = "none"
    /\ timer' = "fired"
    /\ UNCHANGED <<budget, parentErr, outer, inner, final, cause>>

CallerContextDies(err) ==
    /\ parentErr = "none"
    /\ parentErr' = err
    /\ UNCHANGED <<budget, timer, outer, inner, final, cause>>

Contexts == TimerFires \/ \E err \in ContextErr : CallerContextDies(err)

-----------------------------------------------------------------------------
Init ==
    /\ budget \in BOOLEAN
    /\ parentErr \in ContextErr \cup {"none"}
    /\ timer = "unset"
    /\ outer = "idle"
    /\ inner = "idle"
    /\ final = FALSE
    /\ cause = "none"

\* A finished call stays finished, so a run that ends is not a deadlock.
Done == outer = "returned" /\ UNCHANGED vars

Next == Wrapper \/ Caller \/ Adapter \/ Contexts \/ Done

\* "generate must honour context cancellation": once callCtx is dead a running
\* adapter ends or reports it, and an adapter told to stop always returns.
Honour ==
    \/ CallDead /\ inner = "running" /\ (AdapterReturns \/ AdapterYields("error"))
    \/ inner = "stop" /\ AdapterReturns

\* The Go scheduler runs the wrapper and the timer; the caller's loop body
\* ends.  The provider owes nothing, and the caller need not cancel.
Fairness ==
    /\ WF_vars(Wrapper)
    /\ WF_vars(Caller)
    /\ WF_vars(TimerFires)
    /\ WF_vars(Honour)

Spec == Init /\ [][Next]_vars /\ Fairness

-----------------------------------------------------------------------------
(* Properties *)

OuterStates ==
    Items \cup {"idle", "armed", "pulling", "closing", "unwinding", "returned"}
InnerStates == Items \cup {"idle", "running", "stop", "returned"}

\* The variables range over the wrapper's own states.
TypeOK ==
    /\ budget \in BOOLEAN
    /\ parentErr \in ContextErr \cup {"none"}
    /\ timer \in {"unset", "armed", "fired", "released"}
    /\ outer \in OuterStates
    /\ inner \in InnerStates
    /\ final \in BOOLEAN
    /\ cause \in ContextErr \cup {"none", "budget", "adapter"}

\* While the caller works on the complete response (running the tools it asks
\* for), the adapter's stream is closed and no budget is running, so neither
\* can fail or starve that work.
FinalIsDetached ==
    outer = "final" => inner = "returned" /\ timer \in {"unset", "released"}

\* However the call ends - refused, failed, abandoned by the caller or
\* complete - the adapter is not left suspended and no timer stays armed.
CleanExit ==
    outer = "returned" =>
        /\ inner \in {"idle", "returned"}
        /\ timer = IF budget THEN "released" ELSE "unset"

\* The error the caller reads tells the truth: it blames the caller's context
\* only if that died, the budget only if it ran out, and the adapter only for
\* an error the adapter reported.
ErrorHasACause ==
    outer = "error" =>
        /\ cause \in ContextErr => parentErr = cause
        /\ cause = "budget" => timer = "fired"
        /\ cause = "adapter" => inner = "error"
        /\ cause # "none"

\* A caller whose context died while the wrapper was at work gets exactly that
\* error: neither a response the adapter had ready nor the adapter's or the
\* budget's own error can take its place.
CancellationSurfaces ==
    \A err \in ContextErr :
        (parentErr = err /\ outer \in {"armed", "pulling", "closing"})
            ~> (outer = "error" /\ cause = err)

\* With a timeout set the whole call ends, even if the provider never answers
\* or never stops sending partial responses.
BudgetEndsTheCall == budget ~> (outer = "returned")

\* What the caller sees of the wrapper's states.
CallerView ==
    IF outer \in {"armed", "pulling", "closing"} THEN "running"
    ELSE IF outer = "unwinding" THEN "stop" ELSE outer

Contract == INSTANCE ResponseStream WITH it <- CallerView, SilentEnd <- TRUE

\* Whatever the adapter does, the caller sees a ResponseStream.  An adapter
\* that ends without a terminal item makes the call end the same way.
ContractHolds == Contract!Spec
=============================================================================
