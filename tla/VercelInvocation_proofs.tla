---------------------- MODULE VercelInvocation_proofs ----------------------
(***************************************************************************)
(* The timeout wrapper, the Vercel adapter and the retrying transport in   *)
(* one call, for any blocks, parts, events and attempts: every step is one *)
(* the wrapper allows its adapter, the caller sees a response stream with  *)
(* exactly one terminal item, and nothing stays open behind it.            *)
(***************************************************************************)
EXTENDS VercelInvocation, TLAPS

Items == {"partial", "final", "error"}

\* Where the adapter's function stands determines how far its iterator, its
\* response body and the transport are.
AdapterInStep ==
    /\ pc \in {"prepare", "post", "reading", "exit"}
    /\ open \in BOOLEAN
    /\ pc = "prepare" => it \in {"idle", "running"} /\ ~open /\ step = "check" /\ attempt = 0
    /\ pc = "post" => it = "running" /\ ~open
    /\ pc = "reading" => it # "idle" /\ step = "returned"
    /\ pc = "exit" => /\ it \in {"final", "error", "stop", "returned"}
                      /\ step = "returned" \/ (step = "check" /\ attempt = 0)
    /\ it = "returned" => pc = "exit" /\ ~open

\* Where the wrapper stands determines where the adapter's iterator can be; it
\* cannot have ended before the wrapper took its last item.
WrapperInStep ==
    /\ outer \in {"idle", "armed"} => it = "idle" /\ ~final
    /\ outer = "pulling" => it \in Items \cup {"running"} /\ ~final
    /\ outer = "partial" => it = "partial" /\ ~final
    /\ outer = "closing" => it \in {"stop", "returned"} /\ final
    /\ outer = "error" => it \in Items \cup {"idle", "returned"}
    /\ outer = "unwinding" => it \in {"idle", "stop", "returned"}
    /\ outer = "final" => it = "returned"
    /\ outer = "returned" => it \in {"idle", "returned"}

\* The only request body the transport may hold is the one it is about to
\* send.
HeldBody ==
    /\ bodies \in [RoundTrip!Attempts -> RoundTrip!Holders]
    /\ \A i \in RoundTrip!Attempts : bodies[i] = "ours" =>
         \/ step = "check" /\ i = attempt
         \/ step = "sleep" /\ i = attempt + 1

IInv == AdapterInStep /\ WrapperInStep /\ HeldBody

\* The parts of the call that a step leaves alone.
LEMMA Unchanged ==
    /\ UNCHANGED guardVars <=> UNCHANGED <<budget, parentErr, timer, outer, final, cause>>
    /\ UNCHANGED postVars <=> UNCHANGED <<step, attempt, bodyKind, bodies, replies, responses, outcome>>
    /\ UNCHANGED streamVars => UNCHANGED <<pc, open>>
BY DEF guardVars, postVars, streamVars

\* What a step of the adapter does to its control: it prepares, posts, reads,
\* or returns.
StreamControl ==
    \/ /\ it = "running" /\ pc = "prepare" /\ open' = open
       /\ (it' = "error" /\ pc' = "exit") \/ (it' = it /\ pc' = "post")
    \/ /\ it = "running" /\ pc = "post" /\ open' \in BOOLEAN
       /\ (it' = "error" /\ pc' = "exit") \/ (it' = it /\ pc' = "reading")
    \/ /\ it = "running" /\ pc = "reading" /\ open' = open
       /\ \/ it' \in {"final", "error"} /\ pc' = "exit"
          \/ it' \in {"running", "partial", "final"} /\ pc' = pc
    \/ /\ it = "stop" \/ (it = "running" /\ pc = "exit")
       /\ it' = "returned" /\ pc' = "exit" /\ open' = FALSE

LEMMA AdapterControl == Stream!Adapter => StreamControl
<1> SUFFICES ASSUME Stream!Adapter PROVE StreamControl
    OBVIOUS
<1> USE DEF StreamControl, Stream!Running, Stream!YieldLast, Stream!Receive, Stream!stream
<1>1. CASE Stream!PrepareFails \/ Stream!Prepare
    BY <1>1 DEF Stream!PrepareFails, Stream!Prepare
<1>2. CASE Stream!Post
    BY <1>2 DEF Stream!Post, Stream!PostFails, Stream!PostSucceeds
<1>3. CASE Stream!Generate
    <2>1. /\ it = "running" /\ pc = "reading" /\ open' = open
          /\ it' = "final" /\ pc' = "exit"
        BY <1>3 DEF Stream!Generate
    <2>2. QED
        BY <2>1
<1>4. CASE Stream!GenerateFails \/ Stream!StreamFails \/ Stream!EndOfStream
    BY <1>4 DEF Stream!GenerateFails, Stream!StreamFails, Stream!EndOfStream
<1>5. CASE Stream!Convert
    <2>1. ASSUME NEW id \in Ids,
                 Stream!TextStart(id) \/ Stream!TextDelta(id) \/ Stream!TextEnd(id)
          PROVE  StreamControl
        BY <2>1 DEF Stream!TextStart, Stream!TextDelta, Stream!TextEnd
    <2>2. ASSUME NEW id \in Ids,
                 Stream!ReasoningStart(id) \/ Stream!ReasoningDelta(id) \/ Stream!ReasoningEnd(id)
          PROVE  StreamControl
        BY <2>2 DEF Stream!ReasoningStart, Stream!ReasoningDelta, Stream!ReasoningEnd
    <2>3. ASSUME NEW form, Stream!ToolPart(form)
          PROVE  StreamControl
        BY <2>3 DEF Stream!ToolPart
    <2>4. CASE Stream!OtherPart \/ Stream!Finish
        BY <2>4 DEF Stream!OtherPart, Stream!Finish
    <2>5. QED
        BY <1>5, <2>1, <2>2, <2>3, <2>4 DEF Stream!Convert
<1>6. CASE Stream!Return
    BY <1>6 DEF Stream!Return
<1>7. QED
    BY <1>1, <1>2, <1>3, <1>4, <1>5, <1>6 DEF Stream!Adapter


\* Before the call.
LEMMA InvInit == Init => IInv
<1> SUFFICES ASSUME Init PROVE IInv
    OBVIOUS
<1>1. AdapterInStep /\ WrapperInStep
    BY DEF Init, Guard!Init, Stream!AdapterInit, RoundTrip!Init, AdapterInStep, WrapperInStep
<1>2. HeldBody
    BY DEF Init, RoundTrip!Init, HeldBody, RoundTrip!Holders
<1>3. QED
    BY <1>1, <1>2 DEF IInv

\* The wrapper, the caller and the contexts move the adapter's iterator only
\* between its steps.
LEMMA GuardStepInv == IInv /\ GuardStep => IInv'
<1> SUFFICES ASSUME IInv, GuardStep PROVE IInv'
    OBVIOUS
<1>1. /\ UNCHANGED <<pc, open>> /\ UNCHANGED <<step, attempt, bodyKind, bodies, replies, responses, outcome>>
      /\ Guard!Wrapper \/ Guard!Caller \/ Guard!Contexts \/ Guard!Done
    BY Unchanged DEF GuardStep
<1>2. HeldBody'
    BY <1>1 DEF IInv, HeldBody
<1>3. /\ WrapperInStep'
      /\ \/ it' = it
         \/ it = "idle" /\ it' = "running"
         \/ it = "partial" /\ it' = "running"
         \/ it \in Items /\ it' = "stop"
    <2> USE DEF IInv, WrapperInStep, Items
    <2>1. CASE Guard!Wrapper
        BY <2>1 DEF Guard!Wrapper, Guard!Arm, Guard!Refuse, Guard!Call, Guard!RelayError,
                    Guard!RelayPartial, Guard!TakeFinal, Guard!FinishFailed, Guard!Finish,
                    Guard!Return, Guard!Fail, Guard!Items
    <2>2. CASE Guard!Caller
        BY <2>2 DEF Guard!Caller, Guard!Continue, Guard!Leave, Guard!Items
    <2>3. CASE Guard!Contexts
        BY <2>3 DEF Guard!Contexts, Guard!TimerFires, Guard!CallerContextDies
    <2>4. CASE Guard!Done
        BY <2>4 DEF Guard!Done, Guard!vars
    <2>5. QED
        BY <1>1, <2>1, <2>2, <2>3, <2>4
<1>4. AdapterInStep'
    BY <1>1, <1>3 DEF IInv, AdapterInStep, Items
<1>5. QED
    BY <1>2, <1>3, <1>4 DEF IInv

\* The adapter runs only while the wrapper waits for it, and reads an answer
\* only of a transport that has returned.
LEMMA StreamStepInv == IInv /\ StreamStep => IInv'
<1> SUFFICES ASSUME IInv, StreamStep PROVE IInv'
    OBVIOUS
<1>1. /\ UNCHANGED <<outer, final>> /\ UNCHANGED <<step, attempt, bodies>>
      /\ StreamControl
      /\ pc = "post" => step = "returned"
    BY Unchanged, AdapterControl DEF StreamStep, PostAgrees
<1>2. HeldBody'
    BY <1>1 DEF IInv, HeldBody
<1>3. WrapperInStep'
    BY <1>1 DEF IInv, AdapterInStep, WrapperInStep, StreamControl, Items
<1>4. AdapterInStep'
    <2>1. open' \in BOOLEAN
        <3>1. open \in BOOLEAN
            BY DEF IInv, AdapterInStep
        <3>2. open' = open \/ open' \in BOOLEAN \/ open' = FALSE
            BY <1>1 DEF StreamControl
        <3>3. QED
            BY <3>1, <3>2
    <2>2. CASE pc = "prepare" \/ pc = "post"
        BY <1>1, <2>1, <2>2 DEF IInv, AdapterInStep, StreamControl
    <2>3. CASE pc = "reading"
        BY <1>1, <2>1, <2>3 DEF IInv, AdapterInStep, StreamControl
    <2>4. CASE pc = "exit"
        BY <1>1, <2>1, <2>4 DEF IInv, AdapterInStep, StreamControl
    <2>5. QED
        BY <2>2, <2>3, <2>4 DEF IInv, AdapterInStep
<1>5. QED
    BY <1>2, <1>3, <1>4 DEF IInv

\* The transport runs only within post, and holds one body at most.
LEMMA PostStepInv == IInv /\ PostStep => IInv'
<1> SUFFICES ASSUME IInv, PostStep PROVE IInv'
    OBVIOUS
<1>1. /\ UNCHANGED <<outer, final, it, pc, open>> /\ pc = "post" /\ it = "running"
      /\ RoundTrip!Transport \/ RoundTrip!Wake \/ RoundTrip!Answer
    BY Unchanged DEF PostStep, Posting, Stream!Running
<1>2. WrapperInStep' /\ AdapterInStep'
    BY <1>1 DEF IInv, WrapperInStep, AdapterInStep
<1>3. HeldBody'
    <2> USE DEF IInv, HeldBody, RoundTrip!Holders
    <2>1. CASE RoundTrip!AbortBeforeSend \/ RoundTrip!Send
        BY <2>1 DEF RoundTrip!AbortBeforeSend, RoundTrip!Send, RoundTrip!Give
    <2>2. CASE RoundTrip!GiveUp \/ RoundTrip!CannotRewind
        BY <2>2 DEF RoundTrip!GiveUp, RoundTrip!CannotRewind, RoundTrip!HandOver, RoundTrip!Give
    <2>3. CASE RoundTrip!Rewind
        BY <2>3 DEF RoundTrip!Rewind
    <2>4. CASE RoundTrip!SleepAborted
        BY <2>4 DEF RoundTrip!SleepAborted, RoundTrip!Give
    <2>5. CASE RoundTrip!Wake
        BY <2>5 DEF RoundTrip!Wake
    <2>6. CASE RoundTrip!Answer
        BY <2>6 DEF RoundTrip!Answer
    <2>7. QED
        BY <1>1, <2>1, <2>2, <2>3, <2>4, <2>5, <2>6 DEF RoundTrip!Transport
<1>4. QED
    BY <1>2, <1>3 DEF IInv

LEMMA InvNext == IInv /\ [Next]_vars => IInv'
<1>1. IInv /\ UNCHANGED vars => IInv'
    <2> SUFFICES ASSUME IInv, UNCHANGED vars PROVE IInv'
        OBVIOUS
    <2>1. UNCHANGED <<guardVars, it, streamVars, postVars>>
        BY DEF vars
    <2>2. UNCHANGED <<outer, final, it, pc, open, step, attempt, bodies>>
        BY <2>1, Unchanged
    <2>3. QED
        BY <2>2 DEF IInv, AdapterInStep, WrapperInStep, HeldBody
<1>2. QED
    BY <1>1, GuardStepInv, StreamStepInv, PostStepInv DEF Next

\* The three stay in step in every reachable state of a call.
THEOREM InvocationInvariant == Spec => []IInv
BY InvInit, InvNext, PTL DEF Spec

\* While the caller works on the response, and when the call is over, no
\* answer is open and no request body waits.
THEOREM InvocationHoldsNothing == Spec => []NothingHeld
<1>1. IInv => NothingHeld
    BY DEF IInv, AdapterInStep, WrapperInStep, HeldBody, NothingHeld
<1>2. QED
    BY <1>1, InvocationInvariant, PTL

-----------------------------------------------------------------------------
(* The abstract specifications, step by step *)

\* Every step of the call is one of the wrapper with an adapter that keeps to
\* the iterator protocol, or none of them.
LEMMA StepIsGuardStep == IInv /\ [Next]_vars => [Guard!Next]_(Guard!vars)
<1> SUFFICES ASSUME IInv, [Next]_vars
             PROVE  Guard!Next \/ UNCHANGED Guard!vars
    OBVIOUS
<1> USE DEF Guard!vars
<1>1. CASE GuardStep
    BY <1>1 DEF GuardStep, Guard!Next
<1>2. CASE StreamStep
    <2>1. UNCHANGED <<budget, parentErr, timer, outer, final, cause>> /\ StreamControl
        BY <1>2, Unchanged, AdapterControl DEF StreamStep
    <2>2. \/ it = "running" /\ it' \in Items
          \/ it \in {"running", "stop"} /\ it' = "returned"
          \/ it' = it
        BY <2>1 DEF StreamControl, Items
    <2>3. Guard!Adapter \/ UNCHANGED Guard!vars
        BY <2>1, <2>2 DEF Guard!Adapter, Guard!AdapterYields, Guard!AdapterReturns, Guard!Items, Items
    <2>4. QED
        BY <2>3 DEF Guard!Next
<1>3. CASE PostStep \/ UNCHANGED vars
    BY <1>3, Unchanged DEF PostStep, Posting, vars
<1>4. QED
    BY <1>1, <1>2, <1>3 DEF Next

\* Adapter and transport together are a generator as the wrapper requires it,
\* as far as safety goes; that they honour a dead context, which Guard's
\* fairness asks for, is left to the run.
THEOREM InvocationStepsAreGuarded == Spec => Guard!Init /\ [][Guard!Next]_(Guard!vars)
<1>1. Init => Guard!Init
    BY DEF Init
<1>2. QED
    BY <1>1, StepIsGuardStep, InvocationInvariant, PTL DEF Spec

\* A step of the call is one of the stream the caller sees, or is hidden.
LEMMA StepIsSeen == IInv /\ [Next]_vars => [CallerSees!Next]_(Guard!CallerView)
<1> SUFFICES ASSUME IInv, [Next]_vars
             PROVE  CallerSees!Next \/ Guard!CallerView' = Guard!CallerView
    OBVIOUS
<1> USE DEF Guard!CallerView
<1>1. CASE GuardStep
    <2>1. Guard!Wrapper \/ Guard!Caller \/ UNCHANGED outer
        BY <1>1 DEF GuardStep, Guard!Contexts, Guard!TimerFires, Guard!CallerContextDies,
                    Guard!Done, Guard!vars
    <2> USE DEF CallerSees!Next, CallerSees!Begin, CallerSees!Yield, CallerSees!More,
                CallerSees!Stop, CallerSees!Return, CallerSees!Items, IInv, WrapperInStep, Items
    <2>2. CASE Guard!Arm \/ Guard!Refuse \/ Guard!Call
        BY <2>2 DEF Guard!Arm, Guard!Refuse, Guard!Call, Guard!Fail
    <2>3. CASE Guard!RelayError \/ Guard!RelayPartial \/ Guard!TakeFinal
        BY <2>3 DEF Guard!RelayError, Guard!RelayPartial, Guard!TakeFinal, Guard!Fail
    <2>4. CASE Guard!FinishFailed \/ Guard!Finish
        BY <2>4 DEF Guard!FinishFailed, Guard!Finish, Guard!Fail
    <2>5. CASE Guard!Return
        BY <2>5 DEF Guard!Return
    <2>6. CASE Guard!Caller
        BY <2>6 DEF Guard!Caller, Guard!Continue, Guard!Leave, Guard!Items
    <2>7. QED
        BY <2>1, <2>2, <2>3, <2>4, <2>5, <2>6 DEF Guard!Wrapper
<1>2. CASE StreamStep \/ PostStep \/ UNCHANGED vars
    BY <1>2, Unchanged DEF StreamStep, PostStep, Posting, vars
<1>3. QED
    BY <1>1, <1>2 DEF Next

\* The caller gets partial responses, then exactly one terminal item unless
\* it stops first, and never a silent end.
THEOREM InvocationImplementsContract == Spec => CallerContract
<1>1. Init => CallerSees!Init
    BY DEF Init, Guard!Init, CallerSees!Init, Guard!CallerView
<1>2. QED
    BY <1>1, StepIsSeen, InvocationInvariant, PTL DEF Spec, CallerContract, CallerSees!Spec
=============================================================================
