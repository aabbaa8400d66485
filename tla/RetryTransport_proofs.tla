----------------------- MODULE RetryTransport_proofs -----------------------
(***************************************************************************)
(* The retrying transport for any number of attempts: what it opens it     *)
(* closes, hands over or returns, and it repeats nothing that was answered.*)
(***************************************************************************)
EXTENDS RetryTransport, TLAPS

\* At any moment at most one response is open, the one being judged or the
\* one returned.
OpenResponse ==
    responses = IF (pc = "judge" /\ Reply # Lost) \/ outcome = "response"
                THEN {attempt} ELSE {}

\* The only request body the transport may hold is the one it is about to
\* send.
HeldBody ==
    \A i \in Attempts : bodies[i] = "ours" =>
       \/ pc = "check" /\ i = attempt
       \/ pc = "sleep" /\ i = attempt + 1

\* The body about to be sent is one nobody has read.
FreshBody ==
    /\ pc = "check" => bodies[attempt] \in {"absent", "ours"}
    /\ pc = "sleep" => bodies[attempt + 1] \in {"absent", "ours"}

\* A pause is always followed by an attempt the last reply allows.
PauseIsJustified ==
    pc = "sleep" =>
       /\ attempt < LastAttempt
       /\ Reply.status # "success" /\ Reply.hint # "false" /\ bodyKind # "oneshot"

OutcomeIsLast == outcome # "none" <=> pc = "returned"

IInv ==
    /\ TypeOK /\ OpenResponse /\ HeldBody /\ FreshBody
    /\ PauseIsJustified /\ OutcomeIsLast /\ OnlyRefusalsAreRepeated

\* Replies are told apart by their fields.
LEMMA LostIsNoAnswer ==
  /\ Lost.hint = "none" /\ Lost.status = "lost"
  /\ Lost \notin Answers
  BY DEF Lost, Answers

\* RoundTrip starts with its request's own body and nothing else.
LEMMA InitIInv == Init => IInv
  <1> SUFFICES ASSUME Init PROVE IInv
    OBVIOUS
  <1>1. 0 \in Attempts
    BY LastAttemptAssumption DEF Attempts
  <1>2. TypeOK
    BY <1>1 DEF Init, TypeOK, Holders
  <1>3. OpenResponse /\ HeldBody /\ PauseIsJustified /\ OutcomeIsLast
    BY DEF Init, OpenResponse, HeldBody, PauseIsJustified, OutcomeIsLast
  <1>4. FreshBody
    BY <1>1 DEF Init, FreshBody
  <1>5. OnlyRefusalsAreRepeated
    BY DEF Init, OnlyRefusalsAreRepeated, Attempts
  <1> QED BY <1>2, <1>3, <1>4, <1>5 DEF IInv

\* Every step of the transport and of its environment preserves it.
LEMMA StepIInv == IInv /\ [Next]_vars => IInv'
  <1> SUFFICES ASSUME IInv, [Next]_vars PROVE IInv'
    OBVIOUS
  <1> USE DEF IInv
  <1>0. /\ TypeOK /\ attempt \in Attempts /\ attempt \in Int /\ LastAttempt \in Int
        /\ Attempts = 0..LastAttempt
    BY LastAttemptAssumption DEF TypeOK, Attempts
  <1>1. CASE UNCHANGED vars
    BY <1>1 DEF vars, TypeOK, OpenResponse, HeldBody, FreshBody, PauseIsJustified, OutcomeIsLast,
                OnlyRefusalsAreRepeated, Reply
  <1>2. CASE AbortBeforeSend \/ SleepAborted
    <2>1. /\ UNCHANGED <<attempt, bodyKind, replies, responses, ctxDead>>
          /\ pc' = "returned" /\ outcome' = "error" /\ pc \in {"check", "sleep"}
      BY <1>2 DEF AbortBeforeSend, SleepAborted, Give
    <2>2. bodies' \in [Attempts -> Holders] /\ \A i \in Attempts : bodies'[i] # "ours"
      BY <1>0, <1>2 DEF AbortBeforeSend, SleepAborted, TypeOK, Holders, HeldBody
    <2>3. TypeOK' /\ HeldBody' /\ FreshBody' /\ PauseIsJustified' /\ OutcomeIsLast'
      BY <2>1, <2>2 DEF TypeOK, HeldBody, FreshBody, PauseIsJustified, OutcomeIsLast
    <2>4. OpenResponse' /\ OnlyRefusalsAreRepeated'
      BY <2>1 DEF OpenResponse, OutcomeIsLast, OnlyRefusalsAreRepeated
    <2> QED BY <2>3, <2>4
  <1>3. CASE Send
    <2>1. TypeOK' /\ HeldBody'
      BY <1>0, <1>3 DEF Send, TypeOK, Holders, HeldBody
    <2>2. OpenResponse' /\ FreshBody' /\ PauseIsJustified' /\ OutcomeIsLast' /\ OnlyRefusalsAreRepeated'
      BY <1>3 DEF Send, OpenResponse, FreshBody, PauseIsJustified, OutcomeIsLast, OnlyRefusalsAreRepeated, Reply
    <2> QED BY <2>1, <2>2
  <1>4. CASE Answer
    <2>1. PICK r \in Answers \cup {Lost} :
             /\ replies' = [replies EXCEPT ![attempt] = r]
             /\ responses' = IF r = Lost THEN responses ELSE responses \cup {attempt}
      BY <1>4 DEF Answer
    <2>2. /\ pc = "inflight" /\ pc' = "judge" /\ Reply' = r /\ outcome = "none"
          /\ UNCHANGED <<attempt, bodyKind, bodies, outcome, ctxDead>>
      BY <1>0, <1>4, <2>1 DEF Answer, Reply, TypeOK, OutcomeIsLast
    <2>3. TypeOK'
      BY <1>0, <2>1, <2>2 DEF TypeOK
    <2>4. OpenResponse'
      BY <2>1, <2>2 DEF OpenResponse
    <2>5. HeldBody' /\ FreshBody' /\ PauseIsJustified' /\ OutcomeIsLast'
      BY <2>2 DEF HeldBody, FreshBody, PauseIsJustified, OutcomeIsLast
    <2>6. OnlyRefusalsAreRepeated'
      BY <1>0, <2>1, <2>2 DEF OnlyRefusalsAreRepeated, TypeOK
    <2> QED BY <2>3, <2>4, <2>5, <2>6
  <1>5. CASE GiveUp \/ CannotRewind
    <2>1. /\ UNCHANGED <<attempt, bodyKind, bodies, replies, responses, ctxDead>>
          /\ pc = "judge" /\ pc' = "returned"
          /\ outcome' = IF Reply = Lost THEN "error" ELSE "response"
          /\ outcome = "none"
      BY <1>5 DEF GiveUp, CannotRewind, HandOver, Give, OutcomeIsLast, TypeOK
    <2>2. TypeOK' /\ HeldBody' /\ FreshBody' /\ PauseIsJustified' /\ OutcomeIsLast'
      BY <2>1 DEF TypeOK, HeldBody, FreshBody, PauseIsJustified, OutcomeIsLast
    <2>3. OpenResponse' /\ OnlyRefusalsAreRepeated'
      BY <2>1 DEF OpenResponse, OnlyRefusalsAreRepeated
    <2> QED BY <2>2, <2>3
  <1>6. CASE Rewind
    <2>1. /\ UNCHANGED <<attempt, bodyKind, replies, outcome, ctxDead, Reply>>
          /\ pc = "judge" /\ pc' = "sleep" /\ attempt < LastAttempt /\ Retryable
          /\ outcome = "none" /\ responses' = responses \ {attempt}
          /\ bodies' = [bodies EXCEPT ![attempt + 1] = IF bodyKind = "none" THEN "absent" ELSE "ours"]
      BY <1>6 DEF Rewind, OutcomeIsLast, TypeOK, Reply
    <2>2. TypeOK' /\ HeldBody' /\ FreshBody'
      BY <1>0, <2>1 DEF TypeOK, Holders, HeldBody, FreshBody
    <2>3. responses' = {}
      BY <2>1 DEF OpenResponse
    <2>4. OpenResponse' /\ OutcomeIsLast' /\ OnlyRefusalsAreRepeated'
      BY <2>1, <2>3 DEF OpenResponse, OutcomeIsLast, OnlyRefusalsAreRepeated
    <2>5. PauseIsJustified'
      BY <2>1, LostIsNoAnswer DEF PauseIsJustified, Retryable
    <2> QED BY <2>2, <2>4, <2>5
  <1>7. CASE Wake
    <2>1. /\ UNCHANGED <<bodyKind, bodies, replies, responses, outcome, ctxDead>>
          /\ pc = "sleep" /\ pc' = "check" /\ attempt' = attempt + 1 /\ outcome = "none"
      BY <1>7 DEF Wake, OutcomeIsLast
    <2>2. TypeOK'
      BY <1>0, <2>1 DEF TypeOK, PauseIsJustified
    <2>3. HeldBody' /\ FreshBody' /\ OpenResponse' /\ PauseIsJustified' /\ OutcomeIsLast'
      BY <2>1 DEF HeldBody, FreshBody, OpenResponse, PauseIsJustified, OutcomeIsLast
    <2>4. OnlyRefusalsAreRepeated'
      <3> SUFFICES ASSUME NEW i \in Attempts, i < attempt + 1
                   PROVE  replies[i].status # "success" /\ replies[i].hint # "false" /\ bodyKind # "oneshot"
        BY <2>1 DEF OnlyRefusalsAreRepeated
      <3>1. i < attempt \/ i = attempt
        BY <1>0
      <3> QED BY <2>1, <3>1 DEF OnlyRefusalsAreRepeated, PauseIsJustified, Reply
    <2> QED BY <2>2, <2>3, <2>4
  <1>8. CASE ContextDies \/ \E i \in Attempts : BaseClosesBody(i)
    <2>1. /\ UNCHANGED <<pc, attempt, bodyKind, replies, responses, outcome, Reply>>
          /\ bodies' \in [Attempts -> Holders]
          /\ \A i \in Attempts : bodies'[i] = "ours" => bodies[i] = "ours"
          /\ \A i \in Attempts : bodies[i] \in {"absent", "ours"} => bodies'[i] = bodies[i]
          /\ ctxDead' \in BOOLEAN
      BY <1>8 DEF ContextDies, BaseClosesBody, TypeOK, Holders, Reply
    <2>2. TypeOK' /\ HeldBody'
      BY <2>1 DEF TypeOK, HeldBody
    <2>4. FreshBody'
      BY <1>0, <2>1 DEF FreshBody, PauseIsJustified
    <2>3. OpenResponse' /\ PauseIsJustified' /\ OutcomeIsLast' /\ OnlyRefusalsAreRepeated'
      BY <2>1 DEF OpenResponse, PauseIsJustified, OutcomeIsLast, OnlyRefusalsAreRepeated
    <2> QED BY <2>2, <2>3, <2>4
  <1> QED BY <1>1, <1>2, <1>3, <1>4, <1>5, <1>6, <1>7, <1>8 DEF Next, Transport

-----------------------------------------------------------------------------

\* The whole invariant holds of every execution.
THEOREM TransportInvariant == Spec => []IInv
  <1> QED BY InitIInv, StepIInv, PTL DEF Spec

\* retryTransport.RoundTrip leaves nothing open behind it, on every path.
THEOREM TransportLeaksNothing == Spec => []NothingLeaks
  <1>1. IInv => NothingLeaks
    <2> SUFFICES ASSUME IInv, pc = "returned" PROVE NothingLeaks
      BY DEF NothingLeaks
    <2>1. responses = IF outcome = "response" THEN {attempt} ELSE {}
      BY DEF IInv, OpenResponse
    <2>2. \A i \in Attempts : bodies[i] # "ours"
      BY DEF IInv, HeldBody
    <2> QED BY <2>1, <2>2 DEF NothingLeaks
  <1> QED BY TransportInvariant, <1>1, PTL

\* A successful answer, a vetoed one and an unrepeatable request are never
\* sent again.
THEOREM TransportRepeatsOnlyRefusals == Spec => []OnlyRefusalsAreRepeated
  <1>1. IInv => OnlyRefusalsAreRepeated
    BY DEF IInv
  <1> QED BY TransportInvariant, <1>1, PTL

\* An attempt starts with no response open and an unread body.
THEOREM TransportAttemptsStartClean == Spec => AttemptsStartClean
  <1>1. IInv /\ [Next]_vars =>
          [/\ pc = "judge" /\ pc' = "sleep" => responses' = {}
           /\ pc = "check" /\ pc' = "inflight" => bodies[attempt] \in {"absent", "ours"}]_vars
    <2> SUFFICES ASSUME IInv, Next
                 PROVE  /\ pc = "judge" /\ pc' = "sleep" => responses' = {}
                        /\ pc = "check" /\ pc' = "inflight" => bodies[attempt] \in {"absent", "ours"}
      OBVIOUS
    <2>1. pc = "judge" /\ pc' = "sleep" => responses' = {}
      <3>1. pc = "judge" /\ pc' = "sleep" => Rewind
        BY DEF Next, Transport, AbortBeforeSend, Send, GiveUp, CannotRewind, SleepAborted,
               Wake, Answer, ContextDies, BaseClosesBody, HandOver, Give
      <3>2. responses \subseteq {attempt}
        BY DEF IInv, OpenResponse
      <3> QED BY <3>1, <3>2 DEF Rewind
    <2> QED BY <2>1 DEF IInv, FreshBody
  <1> QED BY TransportInvariant, <1>1, PTL DEF Spec, AttemptsStartClean
=============================================================================
