------------------------ MODULE TimeoutGuard_proofs ------------------------
(***************************************************************************)
(* The wrapper's guarantees hold for every adapter, every pattern of       *)
(* cancellation and every caller, with or without a budget.  The inductive *)
(* invariant adds what the wrapper's control point says about the adapter  *)
(* and about the timer.                                                    *)
(***************************************************************************)
EXTENDS TimeoutGuard, TLAPS

\* Where the wrapper stands determines where the adapter can stand.
AdapterInStep ==
    /\ outer \in {"idle", "armed"} => inner = "idle"
    /\ outer = "partial" => inner = "partial"
    /\ outer = "unwinding" => inner \in {"idle", "stop", "returned"}
    /\ outer = "closing" => final /\ inner \in {"stop", "returned"}
    /\ outer \in {"final", "returned"} => inner \in {"idle", "returned"}

\* An armed timer belongs to a call that has a budget and is still at work.
TimerInStep ==
    /\ ~budget => timer = "unset"
    /\ outer = "idle" => timer = "unset"
    /\ budget /\ outer # "idle" => timer # "unset"
    /\ outer = "final" => inner = "returned" /\ timer \in {"unset", "released"}
    /\ outer = "returned" => (budget => timer = "released")

\* An error is decided at one step and stays true while the caller reads it.
ErrorInStep ==
    outer = "error" =>
        /\ cause \in ContextErr => parentErr = cause
        /\ cause = "budget" => timer = "fired"
        /\ cause = "adapter" => inner = "error"
        /\ cause # "none"
        /\ inner \in Items \cup {"idle", "returned"}

IInv == TypeOK /\ AdapterInStep /\ TimerInStep /\ ErrorInStep

\* The wrapper starts within the invariant.
LEMMA InitIInv == Init => IInv
BY DEF Init, IInv, TypeOK, AdapterInStep, TimerInStep, ErrorInStep, Items,
       ContextErr, OuterStates, InnerStates

\* Every error the wrapper hands over names a context that is dead or an error
\* the adapter has just yielded.
LEMMA FailureIsTrue ==
    ASSUME TypeOK,
           NEW err \in {"none", "adapter"}, err = "adapter" => inner = "error",
           Failure(err) # "none"
    PROVE  /\ Failure(err) \in ContextErr \cup {"budget", "adapter"}
           /\ Failure(err) \in ContextErr => parentErr = Failure(err)
           /\ Failure(err) = "budget" => timer = "fired"
           /\ Failure(err) = "adapter" => inner = "error"
BY DEF TypeOK, Failure, ContextErr

\* No step of the wrapper, the caller, the adapter or a context leaves it.
LEMMA StepIInv == IInv /\ [Next]_vars => IInv'
<1> SUFFICES ASSUME IInv, [Next]_vars
             PROVE  IInv'
    OBVIOUS
<1> USE DEF IInv, TypeOK, AdapterInStep, TimerInStep, ErrorInStep, Items,
            ContextErr, OuterStates, InnerStates
<1>1. CASE Arm
    BY <1>1 DEF Arm
<1>2. CASE Refuse
    <2>1. inner = "idle" /\ Failure("none") # "none"
        BY <1>2 DEF Refuse
    <2>2. QED
        BY <1>2, <2>1, FailureIsTrue DEF Refuse, Fail
<1>3. CASE Call
    BY <1>3 DEF Call
<1>4. CASE RelayError
    <2>1. AdapterErr \in {"none", "adapter"} /\ (AdapterErr = "adapter" => inner = "error")
        BY DEF AdapterErr
    <2>2. QED
        BY <1>4, <2>1, FailureIsTrue DEF RelayError, Fail
<1>5. CASE RelayPartial
    BY <1>5 DEF RelayPartial
<1>6. CASE TakeFinal
    BY <1>6 DEF TakeFinal
<1>7. CASE FinishFailed
    BY <1>7, FailureIsTrue DEF FinishFailed, Fail
<1>8. CASE Finish
    <2>1. timer # "fired"
        BY <1>8 DEF Finish, Failure
    <2>2. QED
        BY <1>8, <2>1 DEF Finish
<1>9. CASE Return
    BY <1>9 DEF Return
<1>10. CASE Caller
    BY <1>10 DEF Caller, Continue, Leave
<1>11. CASE Adapter
    BY <1>11 DEF Adapter, AdapterYields, AdapterReturns
<1>12. CASE Contexts
    BY <1>12 DEF Contexts, TimerFires, CallerContextDies
<1>13. CASE UNCHANGED vars
    BY <1>13 DEF vars
<1>14. QED
    BY <1>1, <1>2, <1>3, <1>4, <1>5, <1>6, <1>7, <1>8, <1>9, <1>10, <1>11,
       <1>12, <1>13 DEF Next, Wrapper, Done

\* The inductive invariant holds in every reachable state.
THEOREM GuardInvariant == Spec => []IInv
BY InitIInv, StepIInv, PTL DEF Spec

\* Every variable keeps to the wrapper's own states.
THEOREM GuardTypeOK == Spec => []TypeOK
<1>1. IInv => TypeOK
    BY DEF IInv
<1>2. QED
    BY <1>1, GuardInvariant, PTL

\* The complete response reaches the caller only after the stream is closed
\* and the budget released.
THEOREM GuardFinalIsDetached == Spec => []FinalIsDetached
<1>1. IInv => FinalIsDetached
    BY DEF IInv, TimerInStep, FinalIsDetached
<1>2. QED
    BY <1>1, GuardInvariant, PTL

\* No exit path leaves an adapter suspended or a timer armed.
THEOREM GuardCleanExit == Spec => []CleanExit
<1>1. IInv => CleanExit
    BY DEF IInv, TypeOK, AdapterInStep, TimerInStep, CleanExit
<1>2. QED
    BY <1>1, GuardInvariant, PTL

\* The caller is never told of a cancellation, an expiry or an adapter failure
\* that did not happen.
THEOREM GuardErrorHasACause == Spec => []ErrorHasACause
<1>1. IInv => ErrorHasACause
    BY DEF IInv, ErrorInStep, ErrorHasACause
<1>2. QED
    BY <1>1, GuardInvariant, PTL

\* Every step of the wrapper is a step of the contract or invisible to the
\* caller.
LEMMA StepRefines == IInv /\ [Next]_vars => [Contract!Next]_CallerView
<1> SUFFICES ASSUME IInv, [Next]_vars
             PROVE  Contract!Next \/ CallerView' = CallerView
    OBVIOUS
<1> USE DEF CallerView
<1>0. outer \in OuterStates
    BY DEF IInv, TypeOK
<1>1. CASE Arm
    BY <1>1 DEF Arm, Contract!Next, Contract!Begin
<1>2. CASE Refuse \/ RelayError \/ FinishFailed
    <2>1. outer \in {"armed", "pulling", "closing"} /\ outer' = "error"
        BY <1>2 DEF Refuse, RelayError, FinishFailed, Fail
    <2>2. QED
        BY <2>1 DEF Contract!Next, Contract!Yield, Contract!Items
<1>3. CASE Call \/ TakeFinal
    BY <1>3 DEF Call, TakeFinal
<1>4. CASE RelayPartial
    BY <1>4 DEF RelayPartial, Contract!Next, Contract!Yield, Contract!Items
<1>5. CASE Finish
    <2>1. CASE final
        BY <1>5, <2>1 DEF Finish, Contract!Next, Contract!Yield, Contract!Items
    <2>2. CASE ~final
        BY <1>5, <2>2 DEF Finish, Contract!Next, Contract!Return
    <2>3. QED
        BY <2>1, <2>2
<1>6. CASE Return
    BY <1>6 DEF Return, Contract!Next, Contract!Return
<1>7. CASE Continue
    BY <1>7 DEF Continue, Contract!Next, Contract!More
<1>8. CASE Leave
    BY <1>8 DEF Leave, Items, Contract!Next, Contract!Stop, Contract!Items
<1>9. CASE Adapter \/ Contexts \/ UNCHANGED vars
    BY <1>9 DEF Adapter, AdapterYields, AdapterReturns, Contexts, TimerFires,
                CallerContextDies, vars
<1>10. QED
    BY <1>1, <1>2, <1>3, <1>4, <1>5, <1>6, <1>7, <1>8, <1>9
       DEF Next, Wrapper, Caller, Done

\* Whatever the adapter yields, in whatever order, the caller of the wrapper
\* sees partial responses, at most one terminal item, and nothing after it.
THEOREM GuardImplementsContract == Spec => ContractHolds
<1>1. Init => Contract!Init
    BY DEF Init, Contract!Init, CallerView
<1>2. QED
    BY <1>1, StepRefines, GuardInvariant, PTL DEF Spec, ContractHolds, Contract!Spec
=============================================================================
