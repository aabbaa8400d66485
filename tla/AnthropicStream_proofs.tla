----------------------- MODULE AnthropicStream_proofs -----------------------
(***************************************************************************)
(* For every number of attempts, every bound on messages and every         *)
(* behaviour of provider, caller and context: a retry replays nothing, no  *)
(* stream is left open, and the caller sees a well-formed response stream. *)
(*                                                                         *)
(* None of that depends on what the message holds, so the first part       *)
(* treats the accumulated message as an opaque value.  The second part is  *)
(* about its content: no cut call is handed over, no hidden thought shown. *)
(***************************************************************************)
EXTENDS AnthropicStream, TLAPS, SequenceTheorems, WellFoundedInduction

\* The control state: which steps of the functions go with which iterator state.
Control ==
    /\ attempt \in 1..MaxAttempts
    /\ it \in Items \cup {"idle", "running", "stop", "returned"}
    /\ pc \in {"convert", "connect", "reading", "backoff", "exit"}
    /\ yielded \in BOOLEAN
    /\ it = "idle" => pc = "convert"
    /\ it = "partial" => pc = "reading"
    /\ it \in {"final", "error"} => pc = "exit"
    /\ it = "stop" => pc \in {"reading", "exit"}
    /\ it = "returned" => pc = "exit"

\* A stream belongs to the attempt under way.
StreamInStep ==
    /\ open \subseteq {attempt}
    /\ pc \in {"convert", "connect", "backoff"} \/ it = "returned" => open = {}

\* Only a stream that is being read can have shown anything, and a pause
\* follows an accepted attempt that showed nothing.
HistoryInStep ==
    /\ \A s \in shown : s[1] = attempt
    /\ pc \in {"convert", "connect", "backoff"} => shown = {}
    /\ pc = "reading" /\ shown # {} => yielded
    /\ \A a \in 1..(attempt - 1) : a \in accepted
    /\ pc \in {"reading", "backoff"} => attempt \in accepted
    /\ pc = "backoff" => attempt < MaxAttempts

\* The terminal item is recorded when it is handed over.
ResultInStep ==
    /\ it \in {"final", "error"} => result.kind # "none"
    /\ it \in {"idle", "partial"} => result.kind = "none"
    /\ it = "running" => (pc = "exit" <=> result.kind # "none")

IInv == Control /\ StreamInStep /\ HistoryInStep /\ ResultInStep

\* The adapter starts before its first attempt, with nothing open or shown.
LEMMA InitIInv == Init => IInv
<1> SUFFICES ASSUME Init
             PROVE  IInv
    OBVIOUS
<1>1. /\ pc = "convert" /\ it = "idle" /\ attempt = 1 /\ yielded = FALSE
      /\ open = {} /\ shown = {} /\ result.kind = "none"
    BY DEF Init, AdapterInit, NoResult
<1>2. \A a \in 1..(attempt - 1) : a \in accepted
    BY <1>1
<1>3. attempt \in 1..MaxAttempts
    BY <1>1, AttemptsAssumption
<1>4. QED
    BY <1>1, <1>2, <1>3
       DEF IInv, Control, StreamInStep, HistoryInStep, ResultInStep, Items

\* Whatever is handed over last, the functions are then on their way out.
LEMMA OutcomesAreNamed ==
    ASSUME NEW m, NEW why
    PROVE  /\ FinalResponse(m).kind # "none"
           /\ OutputInterrupted(m).kind # "none"
           /\ Failed(why).kind # "none"
           /\ ClassifyAccumulateError(m).kind # "none"
BY DEF FinalResponse, OutputInterrupted, Failed, ClassifyAccumulateError

\* Handing over the terminal item keeps the invariant, if the stream's books
\* are kept.
LEMMA YieldLastIInv ==
    ASSUME IInv, it = "running", NEW item \in {"final", "error"}, NEW outcome,
           outcome.kind # "none", YieldLast(item, outcome),
           open' \subseteq open, accepted \subseteq accepted',
           UNCHANGED <<attempt, yielded, shown>>
    PROVE  IInv'
BY DEF IInv, Control, StreamInStep, HistoryInStep, ResultInStep, YieldLast, Items

\* A retry starts from a stream the provider accepted and the caller saw
\* nothing of.
LEMMA RetryIsSafe ==
    ASSUME IInv, NEW err \in Errors, Retry(err)
    PROVE  IInv'
<1>1. /\ pc = "reading" /\ it = "running" /\ ~yielded
      /\ attempt < MaxAttempts
    BY DEF Retry, EarlyFailure, Refused, StreamOver, MayRetry,
           IsOverloadedStreamError, Running
<1>2. shown = {} /\ attempt \in accepted
    BY <1>1 DEF IInv, HistoryInStep
<1>3. /\ pc' = "backoff" /\ open' = open \ {attempt}
      /\ UNCHANGED <<it, attempt, yielded, result, shown, accepted>>
    BY DEF Retry
<1>4. QED
    BY <1>1, <1>2, <1>3
       DEF IInv, Control, StreamInStep, HistoryInStep, ResultInStep, Items

\* Every step of the adapter's functions preserves the invariant.
LEMMA AdapterIInv == ASSUME IInv, Adapter PROVE IInv'
<1> USE DEF Running
<1>1. CASE ConvertFails
    BY <1>1, YieldLastIInv, OutcomesAreNamed DEF ConvertFails
<1>2. CASE Convert
    BY <1>2 DEF Convert, IInv, Control, StreamInStep, HistoryInStep, ResultInStep, Items
<1>3. CASE Generate
    BY <1>3, YieldLastIInv, OutcomesAreNamed DEF Generate
<1>4. CASE Connect
    BY <1>4 DEF Connect, IInv, Control, StreamInStep, HistoryInStep, ResultInStep, Items
<1>5. CASE RejectEvent
    BY <1>5, YieldLastIInv, OutcomesAreNamed DEF RejectEvent, Receives
<1>6. CASE ShowDelta
    <2>1. PICK ev \in NextEvents(message) :
              /\ it = "running" /\ pc = "reading"
              /\ yielded' = TRUE /\ it' = "partial"
              /\ shown' = shown \cup {<<attempt, LastBlock(message).type>>}
              /\ UNCHANGED <<pc, attempt, open, result, accepted>>
        BY <1>6 DEF ShowDelta, Receives
    <2>2. QED
        BY <2>1 DEF IInv, Control, StreamInStep, HistoryInStep, ResultInStep, Items
<1>7. CASE ReadEvent
    <2>1. UNCHANGED <<it, pc, attempt, open, yielded, result, shown, accepted>>
        BY <1>7 DEF ReadEvent
    <2>2. QED
        BY <2>1 DEF IInv, Control, StreamInStep, HistoryInStep, ResultInStep, Items
<1>8. CASE Complete \/ ConvertResponseFails
    BY <1>8, YieldLastIInv, OutcomesAreNamed DEF Complete, ConvertResponseFails, StreamOver
<1>9. ASSUME NEW err, Interrupted(err) \/ FailsLate(err)
      PROVE  IInv'
    BY <1>9, YieldLastIInv, OutcomesAreNamed DEF Interrupted, FailsLate, StreamOver
<1>10. ASSUME NEW err \in Errors, FailsEarly(err)
       PROVE  IInv'
    BY <1>10, YieldLastIInv, OutcomesAreNamed
       DEF FailsEarly, EarlyFailure, Refused, StreamOver
<1>11. CASE WakeUp
    <2>1. /\ it = "running" /\ pc = "backoff" /\ pc' = "connect"
          /\ attempt' = attempt + 1
          /\ UNCHANGED <<it, open, yielded, result, shown, accepted>>
        BY <1>11 DEF WakeUp
    <2>2. /\ attempt < MaxAttempts /\ shown = {} /\ open = {} /\ attempt \in accepted
          /\ attempt \in 1..MaxAttempts
        BY <2>1 DEF IInv, Control, StreamInStep, HistoryInStep
    <2>3. attempt' \in 1..MaxAttempts /\ attempt' - 1 = attempt
        BY <2>1, <2>2, AttemptsAssumption
    <2>4. \A a \in 1..(attempt' - 1) : a \in accepted'
        <3>1. \A a \in 1..attempt : a = attempt \/ a \in 1..(attempt - 1)
            BY <2>2
        <3>2. QED
            BY <2>1, <2>2, <2>3, <3>1 DEF IInv, HistoryInStep
    <2>5. QED
        BY <2>1, <2>2, <2>3, <2>4
           DEF IInv, Control, StreamInStep, HistoryInStep, ResultInStep, Items
<1>12. CASE BackoffAborted
    BY <1>12, YieldLastIInv, OutcomesAreNamed DEF BackoffAborted
<1>13. CASE Return
    BY <1>13 DEF Return, IInv, Control, StreamInStep, HistoryInStep, ResultInStep, Items
<1>14. QED
    BY <1>1, <1>2, <1>3, <1>4, <1>5, <1>6, <1>7, <1>8, <1>9, <1>10, <1>11, <1>12,
       <1>13, RetryIsSafe DEF Adapter, EndOfStream

\* So does every step of the caller and of the context.
LEMMA StepIInv == IInv /\ [Next]_vars => IInv'
<1> SUFFICES ASSUME IInv, [Next]_vars
             PROVE  IInv'
    OBVIOUS
<1>1. CASE Start \/ Continue \/ Stop \/ ContextDies \/ UNCHANGED vars
    <2>1. UNCHANGED local
        BY <1>1 DEF Start, Continue, Stop, ContextDies, vars
    <2>2. QED
        BY <1>1, <2>1 DEF Start, Continue, Stop, ContextDies, vars, local, Items, IInv,
                      Control, StreamInStep, HistoryInStep, ResultInStep
<1>2. QED
    BY <1>1, AdapterIInv DEF Next, Done

\* The inductive invariant holds in every reachable state.
THEOREM StreamInvariant == Spec => []IInv
BY InitIInv, StepIInv, PTL DEF Spec

\* Whatever the limit on attempts, a retry replays nothing and never repeats a
\* request the provider refused.
THEOREM RetriesAreInvisible == Spec => []RetryIsInvisible
<1>1. IInv => RetryIsInvisible
    BY DEF IInv, Control, HistoryInStep, RetryIsInvisible
<1>2. QED
    BY <1>1, StreamInvariant, PTL

\* No attempt leaves its stream open, neither behind a retry nor after the call.
THEOREM NoStreamIsLeft == Spec => []StreamsAreClosed
<1>1. IInv => StreamsAreClosed
    BY DEF IInv, StreamInStep, StreamsAreClosed
<1>2. QED
    BY <1>1, StreamInvariant, PTL

\* Every step is a step of the response stream or invisible to the caller.
LEMMA StepRefines == IInv /\ IInv' /\ [Next]_vars => [Contract!Next]_View
<1> SUFFICES ASSUME IInv, IInv', [Next]_vars
             PROVE  Contract!Next \/ View' = View
    OBVIOUS
<1> USE DEF View
<1>2. CASE UNCHANGED <<it, pc, result>>
    BY <1>2
<1>3. CASE Start
    BY <1>3 DEF Start, local, Contract!Next, Contract!Begin, IInv, ResultInStep
<1>4. CASE Continue
    BY <1>4 DEF Continue, local, Items, IInv, ResultInStep, Contract!Next,
                Contract!More, Contract!Stop, Contract!Items
<1>5. CASE Stop
    BY <1>5 DEF Stop, Items, Contract!Next, Contract!Stop, Contract!Items
<1>6. CASE Return
    BY <1>6 DEF Return, Running, IInv, ResultInStep, Contract!Next, Contract!Return
<1>7. CASE it = "running" /\ pc # "exit" /\ it' \in Items
    BY <1>7 DEF IInv, ResultInStep, Items, Contract!Next, Contract!Yield, Contract!Items
<1>8. CASE it = "running" /\ pc # "exit" /\ it' = "running" /\ pc' # "exit"
    BY <1>8 DEF IInv, ResultInStep
<1>9. ASSUME Adapter, ~Return
      PROVE  \/ it = "running" /\ pc # "exit" /\ it' \in Items
             \/ it = "running" /\ pc # "exit" /\ it' = "running" /\ pc' # "exit"
    <2> USE DEF Running, YieldLast, Items
    <2>1. CASE ConvertFails \/ Convert \/ Generate \/ Connect
        BY <2>1 DEF ConvertFails, Convert, Generate, Connect
    <2>2. CASE RejectEvent \/ ShowDelta \/ ReadEvent
        BY <2>2 DEF RejectEvent, ShowDelta, ReadEvent, Receives
    <2>3. CASE EndOfStream
        BY <2>3 DEF EndOfStream, Complete, ConvertResponseFails, Interrupted, FailsLate, FailsEarly, Retry,
                    EarlyFailure, Refused, StreamOver
    <2>4. CASE WakeUp \/ BackoffAborted
        BY <2>4 DEF WakeUp, BackoffAborted
    <2>5. QED
        BY <1>9, <2>1, <2>2, <2>3, <2>4 DEF Adapter
<1>10. CASE ContextDies \/ UNCHANGED vars
    BY <1>2, <1>10 DEF ContextDies, vars, local
<1>11. QED
    BY <1>3, <1>4, <1>5, <1>6, <1>7, <1>8, <1>9, <1>10 DEF Next, Done

\* The adapter always ends with exactly one terminal item, unless the caller
\* stops first, and says nothing after it.
THEOREM StreamImplementsContract == Spec => ContractHolds
<1>1. Init => Contract!Init
    BY DEF Init, Contract!Init, View
<1>2. QED
    BY <1>1, StepRefines, StreamInvariant, PTL DEF Spec, ContractHolds, Contract!Spec

-----------------------------------------------------------------------------
(* Filtering.  What a recursive function computes is shown by induction over *)
(* the length, here over the set of the lengths for which it holds.          *)

\* The order of the natural numbers, as a relation.
Below == {p \in Nat \X Nat : p[1] < p[2]}

\* A set with zero and, of each of its numbers, the next holds all numbers.
LEMMA SetInduction ==
    ASSUME NEW T, 0 \in T, \A n \in Nat : n \in T => n + 1 \in T
    PROVE  Nat \subseteq T
<1>1. IsWellFoundedOn(Below, Nat)
    BY NatLessThanWellFounded DEF OpToRel, Below
<1>2. SUFFICES ASSUME Nat \ T # {} PROVE FALSE
    OBVIOUS
<1>3. PICK n \in Nat \ T : \A m \in Nat \ T : ~(<<m, n>> \in Below)
    BY <1>1, <1>2, WFMin
<1>4. n # 0 /\ n - 1 \in Nat /\ <<n - 1, n>> \in Below
    BY <1>3 DEF Below
<1>5. n - 1 \in T
    BY <1>3, <1>4
<1>6. QED
    BY <1>3, <1>4, <1>5

\* f is the recursive function of Kept, on 0..top.
KeepsUpTo(f, top, parts, positions) ==
    f = [n \in 0..top |->
            IF n = 0 THEN <<>>
            ELSE IF n \in positions THEN Append(f[n - 1], parts[n]) ELSE f[n - 1]]

\* There is such a function for every length.
LEMMA KeptIsDefined ==
    ASSUME NEW parts, NEW positions
    PROVE  \A n \in Nat : \E f : KeepsUpTo(f, n, parts, positions)
<1> DEFINE T == {n \in Nat : \E f : KeepsUpTo(f, n, parts, positions)}
<1>1. 0 \in T
    <2> DEFINE g == [n \in 0..0 |-> <<>>]
    <2>1. KeepsUpTo(g, 0, parts, positions)
        BY DEF KeepsUpTo
    <2>2. QED
        BY <2>1
<1>2. ASSUME NEW n \in Nat, n \in T
      PROVE  n + 1 \in T
    <2>1. PICK f : KeepsUpTo(f, n, parts, positions)
        BY <1>2
    <2> DEFINE g == [k \in 0..(n + 1) |->
                        IF k # n + 1 THEN f[k]
                        ELSE IF k \in positions THEN Append(f[n], parts[k]) ELSE f[n]]
    <2>2. \A k \in 0..n : f[k] = IF k = 0 THEN <<>> ELSE
             IF k \in positions THEN Append(f[k - 1], parts[k]) ELSE f[k - 1]
        BY <2>1 DEF KeepsUpTo
    <2>3. \A k \in 0..(n + 1) : k = n + 1 \/ k \in 0..n
        OBVIOUS
    <2>4. \A k \in 0..n : g[k] = f[k]
        OBVIOUS
    <2>5. \A k \in 1..(n+1) : g[k-1] = f[k-1]
        BY <2>4
    <2>6. \A k \in 0..(n + 1) : g[k] = IF k = 0 THEN <<>> ELSE
             IF k \in positions THEN Append(g[k - 1], parts[k]) ELSE g[k - 1]
        BY <2>2, <2>3, <2>4, <2>5
    <2> HIDE DEF g
    <2>7. KeepsUpTo(g, n + 1, parts, positions)
        <3>1. g = [k \in 0..(n + 1) |-> g[k]]
            BY DEF g
        <3>2. QED
            BY <3>1, <2>6 DEF KeepsUpTo
    <2>8. QED
        BY <2>7
<1> HIDE DEF T
<1>3. Nat \subseteq T
    BY <1>1, <1>2, SetInduction
<1>4. QED
    BY <1>3 DEF T

\* What is kept of a sequence are elements of it, from the positions asked for,
\* and something is kept if one of those is a position of the sequence.
LEMMA KeptFacts ==
    ASSUME NEW S, NEW parts \in Seq(S), NEW positions
    PROVE  /\ Kept(parts, positions) \in Seq(S)
           /\ \A k \in DOMAIN Kept(parts, positions) :
                 \E i \in DOMAIN parts : i \in positions /\ Kept(parts, positions)[k] = parts[i]
           /\ (\E i \in DOMAIN parts : i \in positions) => Kept(parts, positions) # <<>>
<1>0. Len(parts) \in Nat /\ DOMAIN parts = 1..Len(parts) /\ \A i \in 1..Len(parts) : parts[i] \in S
    BY ElementOfSeq
<1> DEFINE up == CHOOSE f : KeepsUpTo(f, Len(parts), parts, positions)
<1>1. KeepsUpTo(up, Len(parts), parts, positions)
    BY <1>0, KeptIsDefined
<1>2. Kept(parts, positions) = up[Len(parts)]
    BY DEF Kept, KeepsUpTo
<1>2a. \A n \in 0..Len(parts) : up[n] =
         IF n = 0 THEN <<>>
         ELSE IF n \in positions THEN Append(up[n - 1], parts[n]) ELSE up[n - 1]
    BY <1>1 DEF KeepsUpTo
<1> HIDE DEF up
<1> DEFINE Good(s, n) == /\ s \in Seq(S)
                         /\ \A k \in DOMAIN s :
                               \E i \in DOMAIN parts : i \in positions /\ s[k] = parts[i]
                         /\ (\E i \in 1..n : i \in positions) => s # <<>>
<1> DEFINE T == {n \in Nat : n =< Len(parts) => Good(up[n], n)}
<1>3. 0 \in T
    <2>1. up[0] = <<>>
        BY <1>0, <1>1 DEF KeepsUpTo
    <2>2. <<>> \in Seq(S) /\ DOMAIN <<>> = {}
        OBVIOUS
    <2>3. Good(<<>>, 0)
        BY <2>2
    <2>4. Good(up[0], 0)
        BY <2>1, <2>3
    <2> HIDE DEF Good
    <2>5. QED
        BY <2>4
<1>4. ASSUME NEW n \in Nat, n \in T
      PROVE  n + 1 \in T
    <2> SUFFICES ASSUME n + 1 =< Len(parts)
                 PROVE  Good(up[n + 1], n + 1)
        OBVIOUS
    <2>0. up[n + 1] = IF n + 1 \in positions THEN Append(up[n], parts[n + 1]) ELSE up[n]
        <3>1. n + 1 \in 0..Len(parts) /\ n + 1 # 0 /\ (n + 1) - 1 = n
            BY <1>0
        <3>2. QED
            BY <1>2a, <3>1
    <2> PICK s : s = up[n]
        OBVIOUS
    <2> PICK t : t = up[n + 1]
        OBVIOUS
    <2>1. Good(s, n)
        BY <1>0, <1>4
    <2>2. t = IF n + 1 \in positions THEN Append(s, parts[n + 1]) ELSE s
        BY <2>0
    <2>3. n + 1 \in DOMAIN parts /\ parts[n + 1] \in S /\ s \in Seq(S)
        BY <1>0, <2>1
    <2>4. CASE n + 1 \in positions
        <3>0. t = Append(s, parts[n + 1])
            BY <2>2, <2>4
        <3>1. /\ t \in Seq(S)
              /\ Len(t) = Len(s) + 1
              /\ \A k \in 1..Len(s) : t[k] = s[k]
              /\ t[Len(s) + 1] = parts[n + 1]
            BY <2>3, <3>0, AppendProperties
        <3>2. /\ DOMAIN s = 1..Len(s) /\ Len(s) \in Nat
              /\ DOMAIN t = 1..(Len(s) + 1)
            BY <2>3, <3>1, LenProperties
        <3>3. ASSUME NEW k \in DOMAIN t
              PROVE  \E i \in DOMAIN parts : i \in positions /\ t[k] = parts[i]
            <4>1. CASE k = Len(s) + 1
                BY <4>1, <3>1, <2>3, <2>4
            <4>2. CASE k # Len(s) + 1
                <5>1. k \in DOMAIN s /\ t[k] = s[k]
                    BY <3>1, <3>2, <4>2
                <5>2. QED
                    BY <5>1, <2>1
            <4>3. QED
                BY <4>1, <4>2
        <3>4. t # <<>>
            BY <3>2
        <3>5. QED
            BY <3>1, <3>3, <3>4
    <2>5. CASE n + 1 \notin positions
        <3>1. t = s
            BY <2>2, <2>5
        <3>2. (\E i \in 1..(n + 1) : i \in positions) => s # <<>>
            <4>1. \A i \in 1..(n + 1) : i = n + 1 \/ i \in 1..n
                OBVIOUS
            <4>2. QED
                BY <4>1, <2>1, <2>5
        <3>3. QED
            BY <3>1, <3>2, <2>1
    <2>6. QED
        BY <2>4, <2>5
<1> HIDE DEF T
<1>5. Len(parts) \in T
    BY <1>0, <1>3, <1>4, SetInduction
<1>6. Good(up[Len(parts)], Len(parts))
    BY <1>0, <1>5 DEF T
<1>7. QED
    BY <1>0, <1>2, <1>6

-----------------------------------------------------------------------------
(* The message *)

\* If the input the provider sent is cut, that is a tool's, and what the SDK
\* holds of it is still cut: nothing has hidden it.
CutIsKnown(b) == b.sent = "cut" => b.type = "tool" /\ b.input = "cut"

Messages == [blocks : Seq(Blocks), stop : StopReasons \cup {"none"}, usage : Nat, ended : BOOLEAN]

MessageOK(m) == m \in Messages /\ \A i \in DOMAIN m.blocks : CutIsKnown(m.blocks[i])

\* A block under way is the last one of the message.
LEMMA LastBlockOK ==
    ASSUME NEW m, MessageOK(m), InBlock(m)
    PROVE  /\ Len(m.blocks) \in DOMAIN m.blocks
           /\ LastBlock(m) \in Blocks /\ CutIsKnown(LastBlock(m))
<1>1. m.blocks \in Seq(Blocks) /\ m.blocks # <<>>
    BY DEF MessageOK, Messages, InBlock
<1>2. Len(m.blocks) \in DOMAIN m.blocks /\ m.blocks[Len(m.blocks)] \in Blocks
    BY <1>1, ElementOfSeq, LenProperties, EmptySeq
<1>3. QED
    BY <1>2 DEF MessageOK, LastBlock

\* The events, each with what it takes for the provider to send it.
EventOK(m, ev) ==
    \/ ev = [type |-> "malformed"]
    \/ InBlock(m) /\ ev = [type |-> "content_block_stop"]
    \/ InBlock(m) /\ LastBlock(m).type = "text" /\ ev = [type |-> "text_delta"]
    \/ InBlock(m) /\ ev = [type |-> "thinking_delta"]
    \/ InBlock(m) /\ ev = [type |-> "signature_delta"]
    \/ /\ InBlock(m) /\ LastBlock(m).type = "tool"
       /\ ev \in [type : {"input_json_delta"}, input : {"cut", "whole"}]
    \/ ev \in [type : {"content_block_start"}, kind : Kinds]
    \/ ev \in [type : {"message_delta"}, stop : StopReasons, usage : 0..MaxUsage]
    \/ ev = [type |-> "message_stop"]

\* Every event the provider may send is one of these.
LEMMA EventFacts ==
    ASSUME NEW m, MessageOK(m), NEW ev \in NextEvents(m)
    PROVE  EventOK(m, ev)
<1>1. ~m.ended
    BY DEF NextEvents
<1>2. CASE ~InBlock(m)
    BY <1>1, <1>2 DEF NextEvents, EventOK
<1>3. CASE InBlock(m)
    <2>1. LastBlock(m).type \in Kinds
        BY <1>3, LastBlockOK DEF Blocks
    <2> USE <1>1, <1>3 DEF NextEvents, EventOK
    <2>2. CASE LastBlock(m).type = "text"
        BY <2>2
    <2>3. CASE LastBlock(m).type = "thinking"
        BY <2>3
    <2>4. CASE LastBlock(m).type = "redacted"
        BY <2>4
    <2>5. CASE LastBlock(m).type = "tool"
        BY <2>5
    <2>6. QED
        BY <2>1, <2>2, <2>3, <2>4, <2>5 DEF Kinds
<1>4. QED
    BY <1>2, <1>3

\* A message stays understood when its last block becomes one that is.
LEMMA WithLastOK ==
    ASSUME NEW m, MessageOK(m), InBlock(m), NEW b \in Blocks, CutIsKnown(b)
    PROVE  MessageOK(WithLast(m, b))
<1> PICK n : n = Len(m.blocks)
    OBVIOUS
<1> PICK s : s = [m.blocks EXCEPT ![n] = b]
    OBVIOUS
<1>1. m.blocks \in Seq(Blocks) /\ n \in DOMAIN m.blocks
    BY LastBlockOK DEF MessageOK, Messages
<1>2. s \in Seq(Blocks) /\ DOMAIN s = DOMAIN m.blocks
    BY <1>1, ExceptSeq
<1>3. \A i \in DOMAIN s : CutIsKnown(s[i])
    <2>1. \A i \in DOMAIN s : s[i] = IF i = n THEN b ELSE m.blocks[i]
        BY <1>1, <1>2
    <2>2. QED
        BY <2>1, <1>2 DEF MessageOK
<1> PICK w : w = WithLast(m, b)
    OBVIOUS
<1>4. w = [m EXCEPT !.blocks = s]
    BY DEF WithLast
<1>5. w \in Messages /\ w.blocks = s
    BY <1>2, <1>4 DEF MessageOK, Messages
<1>6. QED
    BY <1>3, <1>5 DEF MessageOK

\* So is a tool that receives some of its input ...
LEMMA ReceivedOK ==
    ASSUME NEW b \in Blocks, b.type = "tool", NEW input \in Inputs
    PROVE  Received(b, input) \in Blocks /\ CutIsKnown(Received(b, input))
<1> PICK c : c = [b EXCEPT !.input = input]
    OBVIOUS
<1>1. c \in Blocks /\ c.type = "tool" /\ c.input = input
    BY DEF Blocks
<1> PICK d : d = [c EXCEPT !.sent = input]
    OBVIOUS
<1>2. d \in Blocks /\ d.type = "tool" /\ d.input = input /\ d.sent = input
    BY <1>1 DEF Blocks
<1>3. QED
    BY <1>2 DEF Received, CutIsKnown

\* ... and a block that stops, unless the stop hides a cut.
LEMMA ClosedOK ==
    ASSUME NEW b \in Blocks, NEW input \in Inputs, CutIsKnown(b),
           b.sent = "cut" => input = "cut"
    PROVE  Closed(b, input) \in Blocks /\ CutIsKnown(Closed(b, input))
<1> PICK c : c = [b EXCEPT !.closed = TRUE]
    OBVIOUS
<1>1. c \in Blocks /\ c.type = b.type /\ c.sent = b.sent
    BY DEF Blocks
<1> PICK d : d = [c EXCEPT !.input = input]
    OBVIOUS
<1>2. d \in Blocks /\ d.type = b.type /\ d.input = input /\ d.sent = b.sent
    BY <1>1 DEF Blocks
<1>3. QED
    BY <1>2 DEF Closed, CutIsKnown

\* Every event leaves the accumulated message understood.
LEMMA AccumulateOK ==
    ASSUME NEW m, MessageOK(m), NEW ev \in NextEvents(m)
    PROVE  MessageOK(AccumulateMessage(m, ev))
<1>1. EventOK(m, ev)
    BY EventFacts
<1>2. CASE ev = [type |-> "content_block_stop"] /\ InBlock(m)
    <2> PICK b : b = LastBlock(m)
        OBVIOUS
    <2>1. b \in Blocks /\ CutIsKnown(b)
        BY <1>2, LastBlockOK
    <2>2. CASE Incomplete(b)
        <3>1. MessageOK(WithLast(m, Closed(b, "cut")))
            BY <1>2, <2>1, WithLastOK, ClosedOK DEF Inputs
        <3>2. QED
            BY <1>2, <2>2, <3>1 DEF AccumulateMessage
    <2>3. CASE ~Incomplete(b)
        <3>1. b.sent # "cut" /\ b.input \in Inputs
            BY <2>1, <2>3 DEF CutIsKnown, Incomplete, Blocks
        <3>2. PICK input \in Inputs : input = IF b.input = "cut" THEN "empty" ELSE b.input
            BY <3>1 DEF Inputs
        <3>3. MessageOK(WithLast(m, Closed(b, input)))
            BY <1>2, <2>1, <3>1, WithLastOK, ClosedOK
        <3>4. AccumulateMessage(m, ev) = WithLast(m, Closed(b, input))
            BY <1>2, <2>3, <3>2 DEF AccumulateMessage, SDKAccumulate
        <3>5. QED
            BY <3>3, <3>4
    <2>4. QED
        BY <2>2, <2>3
<1>3. CASE ev \in [type : {"input_json_delta"}, input : {"cut", "whole"}]
    <2>1. InBlock(m) /\ LastBlock(m).type = "tool"
        BY <1>1, <1>3 DEF EventOK
    <2>2. MessageOK(WithLast(m, Received(LastBlock(m), ev.input)))
        BY <1>3, <2>1, LastBlockOK, ReceivedOK, WithLastOK DEF Inputs
    <2>3. QED
        BY <1>3, <2>2 DEF AccumulateMessage, SDKAccumulate
<1>4. CASE ev = [type |-> "signature_delta"] /\ InBlock(m)
    <2> PICK b : b = [LastBlock(m) EXCEPT !.signed = TRUE]
        OBVIOUS
    <2>1. b \in Blocks /\ CutIsKnown(b)
        BY <1>4, LastBlockOK DEF Blocks, CutIsKnown
    <2>2. MessageOK(WithLast(m, b))
        BY <1>4, <2>1, WithLastOK
    <2>3. QED
        BY <1>4, <2>2 DEF AccumulateMessage, SDKAccumulate
<1>5. CASE ev \in [type : {"content_block_start"}, kind : Kinds]
    <2> PICK b : b = NewBlock(ev.kind)
        OBVIOUS
    <2> PICK s : s = Append(m.blocks, b)
        OBVIOUS
    <2> PICK w : w = [m EXCEPT !.blocks = s]
        OBVIOUS
    <2>1. b \in Blocks /\ CutIsKnown(b)
        BY <1>5 DEF NewBlock, Blocks, CutIsKnown, Inputs
    <2>2. m.blocks \in Seq(Blocks)
        BY DEF MessageOK, Messages
    <2>3. /\ s \in Seq(Blocks) /\ Len(s) = Len(m.blocks) + 1
          /\ \A i \in 1..Len(m.blocks) : s[i] = m.blocks[i]
          /\ s[Len(m.blocks) + 1] = b
        BY <2>1, <2>2, AppendProperties
    <2>4. /\ DOMAIN s = 1..(Len(m.blocks) + 1)
          /\ DOMAIN m.blocks = 1..Len(m.blocks) /\ Len(m.blocks) \in Nat
        BY <2>2, <2>3, LenProperties
    <2>5. \A i \in DOMAIN s : CutIsKnown(s[i])
        <3>1. \A i \in DOMAIN s : i = Len(m.blocks) + 1 \/ i \in DOMAIN m.blocks
            BY <2>4
        <3>2. QED
            BY <3>1, <2>1, <2>3, <2>4 DEF MessageOK
    <2>6. w \in Messages /\ w.blocks = s
        BY <2>3 DEF MessageOK, Messages
    <2>7. AccumulateMessage(m, ev) = w
        BY <1>5 DEF AccumulateMessage, SDKAccumulate
    <2>8. QED
        BY <2>5, <2>6, <2>7 DEF MessageOK
<1>6. CASE ev \in [type : {"message_delta"}, stop : StopReasons, usage : 0..MaxUsage]
    <2> PICK v : v = [m EXCEPT !.stop = ev.stop]
        OBVIOUS
    <2> PICK w : w = [v EXCEPT !.usage = ev.usage]
        OBVIOUS
    <2> PICK x : x = [w EXCEPT !.usage = m.usage]
        OBVIOUS
    <2>1. v \in Messages /\ v.blocks = m.blocks
        BY <1>6 DEF MessageOK, Messages
    <2>1a. ev.usage \in Nat
        BY <1>6, BoundsAssumption
    <2>2. w \in Messages /\ w.blocks = m.blocks
        BY <2>1, <2>1a DEF Messages
    <2>3. x \in Messages /\ x.blocks = m.blocks
        BY <2>2 DEF MessageOK, Messages
    <2>4. AccumulateMessage(m, ev) \in {w, x}
        BY <1>6 DEF AccumulateMessage, SDKAccumulate
    <2>5. QED
        BY <2>2, <2>3, <2>4 DEF MessageOK
<1>7. CASE ev = [type |-> "message_stop"]
    <2> PICK v : v = [m EXCEPT !.ended = TRUE]
        OBVIOUS
    <2>1. v \in Messages /\ v.blocks = m.blocks
        BY DEF MessageOK, Messages
    <2>2. AccumulateMessage(m, ev) = v
        BY <1>7 DEF AccumulateMessage, SDKAccumulate
    <2>3. QED
        BY <2>1, <2>2 DEF MessageOK
<1>8. CASE ev.type \in {"malformed", "text_delta", "thinking_delta"}
    BY <1>8 DEF AccumulateMessage, SDKAccumulate
<1>9. QED
    BY <1>1, <1>2, <1>3, <1>4, <1>5, <1>6, <1>7, <1>8 DEF EventOK

-----------------------------------------------------------------------------
(* The parts of a result *)

\* Conversion keeps the blocks and takes away at most a signature.
LEMMA ConvertedFacts ==
    ASSUME NEW m, MessageOK(m)
    PROVE  /\ Converted(m.blocks) \in Seq(Blocks)
           /\ DOMAIN Converted(m.blocks) = DOMAIN m.blocks
           /\ \A i \in DOMAIN m.blocks :
                 /\ Converted(m.blocks)[i].type = m.blocks[i].type
                 /\ Converted(m.blocks)[i].input = m.blocks[i].input
                 /\ Converted(m.blocks)[i].sent = m.blocks[i].sent
<1> PICK s : s = m.blocks
    OBVIOUS
<1> PICK c : c = Converted(s)
    OBVIOUS
<1>1. s \in Seq(Blocks) /\ Len(s) \in Nat /\ DOMAIN s = 1..Len(s)
    BY DEF MessageOK, Messages
<1>2. c = [i \in 1..Len(s) |-> [s[i] EXCEPT !.signed = @ /\ s[i].closed]]
    BY <1>1 DEF Converted
<1>3. ASSUME NEW i \in 1..Len(s)
      PROVE  /\ c[i] \in Blocks /\ c[i].type = s[i].type
             /\ c[i].input = s[i].input /\ c[i].sent = s[i].sent
    <2> PICK b : b = s[i]
        OBVIOUS
    <2> PICK d \in BOOLEAN : d = (b.signed /\ b.closed)
        OBVIOUS
    <2>1. b \in Blocks
        BY <1>1, ElementOfSeq
    <2>2. c[i] = [b EXCEPT !.signed = d]
        BY <1>2
    <2>3. QED
        BY <2>1, <2>2 DEF Blocks
<1>4. c \in Seq(Blocks)
    <2>1. c \in [1..Len(s) -> Blocks]
        BY <1>2, <1>3
    <2>2. QED
        BY <1>1, <2>1
<1>5. QED
    BY <1>1, <1>2, <1>3, <1>4

\* What may be handed over of a content: nothing but its parts and the marker,
\* no unsigned thought if thoughts are hidden, and never nothing of something.
LEMMA VisibleFacts ==
    ASSUME NEW parts \in Seq(Blocks)
    PROVE  /\ \A k \in DOMAIN VisibleParts(parts) :
                 \/ VisibleParts(parts)[k] = Marker
                 \/ \E i \in DOMAIN parts : VisibleParts(parts)[k] = parts[i]
           /\ ~req.thoughts =>
                 \A k \in DOMAIN VisibleParts(parts) :
                    VisibleParts(parts)[k].type = "thinking" => VisibleParts(parts)[k].signed
           /\ parts # <<>> => VisibleParts(parts) # <<>>
<1> PICK kept : kept = Kept(parts, Showable(parts))
    OBVIOUS
<1>1. \A k \in DOMAIN kept : \E i \in DOMAIN parts : i \in Showable(parts) /\ kept[k] = parts[i]
    BY KeptFacts
<1>2. CASE req.thoughts
    BY <1>2 DEF VisibleParts
<1>3. CASE ~req.thoughts /\ kept = <<>> /\ parts # <<>>
    <2>1. VisibleParts(parts) = <<Marker>>
        BY <1>3 DEF VisibleParts, FilterThoughtParts
    <2>2. Marker.type # "thinking"
        BY DEF Marker, NewBlock
    <2>3. QED
        BY <2>1, <2>2
<1>4. CASE ~req.thoughts /\ ~(kept = <<>> /\ parts # <<>>)
    <2>1. VisibleParts(parts) = kept
        BY <1>4 DEF VisibleParts, FilterThoughtParts
    <2>2. QED
        BY <1>1, <1>4, <2>1 DEF Showable
<1>5. QED
    BY <1>2, <1>3, <1>4

\* No call among the parts was cut.
NoneCut(parts) == \A i \in DOMAIN parts : parts[i].type = "tool" => parts[i].sent # "cut"

\* No unsigned thought is among the parts, if thoughts are hidden.
NoneBare(parts) ==
    ~req.thoughts => \A i \in DOMAIN parts : parts[i].type = "thinking" => parts[i].signed

\* Making parts visible adds no cut call, and takes away the unsigned thoughts.
LEMMA VisibleNoneCut ==
    ASSUME NEW parts \in Seq(Blocks), NoneCut(parts)
    PROVE  NoneCut(VisibleParts(parts)) /\ NoneBare(VisibleParts(parts))
<1>1. Marker.type # "tool"
    BY DEF Marker, NewBlock
<1>2. QED
    BY <1>1, VisibleFacts DEF NoneCut, NoneBare

\* A complete response is made of a message without cut calls, and not of nothing.
LEMMA FinalOK ==
    ASSUME NEW m, MessageOK(m), ~HasIncompleteToolInput(m)
    PROVE  /\ NoneCut(FinalResponse(m).parts) /\ NoneBare(FinalResponse(m).parts)
           /\ m.blocks # <<>> => FinalResponse(m).parts # <<>>
<1> PICK c : c = Converted(m.blocks)
    OBVIOUS
<1>1. /\ c \in Seq(Blocks) /\ DOMAIN c = DOMAIN m.blocks
      /\ \A i \in DOMAIN c : c[i].type = m.blocks[i].type /\ c[i].sent = m.blocks[i].sent
    BY ConvertedFacts
<1>2. NoneCut(c)
    BY <1>1 DEF NoneCut, HasIncompleteToolInput, Incomplete, MessageOK, CutIsKnown
<1>3. m.blocks # <<>> => c # <<>>
    <2>1. m.blocks \in Seq(Blocks)
        BY DEF MessageOK, Messages
    <2>2. QED
        BY <1>1, <2>1, EmptySeq, LenProperties
<1>4. FinalResponse(m).parts = VisibleParts(c)
    BY DEF FinalResponse
<1>5. QED
    BY <1>1, <1>2, <1>3, <1>4, VisibleNoneCut, VisibleFacts

\* What is salvaged of any message has no cut call.
LEMMA InterruptedOK ==
    ASSUME NEW m, MessageOK(m)
    PROVE  NoneCut(OutputInterrupted(m).parts) /\ NoneBare(OutputInterrupted(m).parts)
<1> PICK c : c = Converted(m.blocks)
    OBVIOUS
<1> PICK s : s = Kept(c, Intact(c))
    OBVIOUS
<1>1. /\ c \in Seq(Blocks) /\ DOMAIN c = DOMAIN m.blocks
      /\ \A i \in DOMAIN c : /\ c[i].type = m.blocks[i].type /\ c[i].sent = m.blocks[i].sent
                             /\ c[i].input = m.blocks[i].input
    BY ConvertedFacts
<1>2. /\ s \in Seq(Blocks)
      /\ \A k \in DOMAIN s : \E i \in DOMAIN c : i \in Intact(c) /\ s[k] = c[i]
    BY <1>1, KeptFacts
<1>3. NoneCut(s)
    BY <1>1, <1>2 DEF NoneCut, Intact, Incomplete, MessageOK, CutIsKnown
<1>4. OutputInterrupted(m).parts = VisibleParts(s)
    BY DEF OutputInterrupted, Salvaged
<1>5. QED
    BY <1>2, <1>3, <1>4, VisibleNoneCut

\* A failure has no parts.
LEMMA FailedOK ==
    ASSUME NEW why
    PROVE  NoneCut(Failed(why).parts) /\ NoneBare(Failed(why).parts) /\ Failed(why).kind = "failed"
BY DEF Failed, NoneCut, NoneBare

-----------------------------------------------------------------------------
(* What the caller is given *)

\* The message is one the adapter understands, a message that is retried has no
\* cut input, and nothing cut or hidden is among the parts handed over.
ContentInStep ==
    /\ MessageOK(message)
    /\ pc = "backoff" => ~HasIncompleteToolInput(message)
    /\ NoneCut(result.parts) /\ NoneBare(result.parts)
    /\ result.kind = "final" /\ message.blocks # <<>> => result.parts # <<>>
    /\ ~req.thoughts => \A s \in shown : s[2] # "thinking"

\* The call starts with an empty message.
LEMMA InitContent == Init => ContentInStep
<1> SUFFICES ASSUME Init
             PROVE  ContentInStep
    OBVIOUS
<1>1. /\ pc = "convert" /\ shown = {} /\ result = NoResult /\ message = NoMessage
    BY DEF Init, AdapterInit
<1>2. NoMessage \in Messages /\ NoMessage.blocks = <<>>
    BY DEF NoMessage, Messages
<1>3. NoResult.parts = <<>> /\ NoResult.kind = "none"
    BY DEF NoResult
<1>4. QED
    BY <1>1, <1>2, <1>3 DEF ContentInStep, MessageOK, NoneCut, NoneBare

\* Handing over a terminal item keeps the content right, if the item is.
LEMMA YieldLastContent ==
    ASSUME ContentInStep, NEW item, NEW outcome, YieldLast(item, outcome),
           NoneCut(outcome.parts), NoneBare(outcome.parts), MessageOK(message'),
           outcome.kind = "final" /\ message'.blocks # <<>> => outcome.parts # <<>>,
           UNCHANGED <<req, shown>>
    PROVE  ContentInStep'
BY DEF ContentInStep, YieldLast, NoneCut, NoneBare

\* A message received whole.
LEMMA GenerateContent == ASSUME ContentInStep, Generate PROVE ContentInStep'
<1>1. PICK n \in 0..MaxBlocks, stop \in StopReasons : \E blocks \in [1..n -> CompleteBlocks] :
          message' = [blocks |-> blocks, stop |-> stop, usage |-> 0, ended |-> TRUE]
    BY DEF Generate
<1>2. PICK blocks \in [1..n -> CompleteBlocks] :
          message' = [blocks |-> blocks, stop |-> stop, usage |-> 0, ended |-> TRUE]
    BY <1>1
<1>3. \A b \in CompleteBlocks : b \in Blocks /\ b.sent # "cut" /\ b.input # "cut"
    BY DEF CompleteBlocks
<1>4. blocks \in Seq(Blocks) /\ DOMAIN blocks = 1..n
    <2>1. n \in Nat
        BY BoundsAssumption
    <2>2. blocks \in [1..n -> Blocks]
        BY <1>2, <1>3
    <2>3. QED
        BY <2>1, <2>2
<1>5. message' \in Messages /\ message'.blocks = blocks
    BY <1>2, <1>4 DEF Messages
<1>6. MessageOK(message') /\ ~HasIncompleteToolInput(message')
    BY <1>2, <1>3, <1>4, <1>5 DEF MessageOK, CutIsKnown, HasIncompleteToolInput, Incomplete
<1>7. YieldLast("final", FinalResponse(message')) /\ UNCHANGED <<req, shown>>
    BY DEF Generate
<1>8. QED
    BY <1>6, <1>7, FinalOK, YieldLastContent

\* An event is added to the message, and shown if the caller may see it.
LEMMA EventContent == ASSUME IInv, ContentInStep, ShowDelta \/ ReadEvent PROVE ContentInStep'
<1>1. PICK ev \in NextEvents(message) :
          /\ Receives(ev)
          /\ message' = AccumulateMessage(message, ev)
          /\ UNCHANGED <<req, pc, result>>
          /\ \/ shown' = shown
             \/ IsShown(ev) /\ shown' = shown \cup {<<attempt, LastBlock(message).type>>}
    BY DEF ShowDelta, ReadEvent
<1>2. MessageOK(message')
    BY <1>1, AccumulateOK DEF ContentInStep
<1>3. result.kind # "final" /\ pc' # "backoff"
    BY <1>1 DEF Receives, Running, IInv, ResultInStep
<1>4. ~req'.thoughts => \A s \in shown' : s[2] # "thinking"
    <2>1. ~req.thoughts /\ IsShown(ev) => LastBlock(message).type = "text"
        <3>1. EventOK(message, ev)
            BY <1>1, EventFacts DEF ContentInStep
        <3>2. QED
            BY <3>1 DEF EventOK, IsShown
    <2>2. QED
        BY <1>1, <2>1 DEF ContentInStep
<1>5. QED
    BY <1>1, <1>2, <1>3, <1>4 DEF ContentInStep, NoneCut, NoneBare

\* Every step of the adapter's functions keeps the content right.
LEMMA AdapterContent == ASSUME IInv, ContentInStep, Adapter PROVE ContentInStep'
<1>0. MessageOK(message)
    BY DEF ContentInStep
<1>1. CASE ConvertFails \/ BackoffAborted
    BY <1>0, <1>1, FailedOK, YieldLastContent DEF ConvertFails, BackoffAborted
<1>2. CASE Convert \/ WakeUp \/ Return
    <2>1. /\ UNCHANGED <<req, message, result, shown>>
          /\ pc' # "backoff"
        BY <1>2 DEF Convert, WakeUp, Return
    <2>2. QED
        BY <2>1 DEF ContentInStep, NoneCut, NoneBare, HasIncompleteToolInput, Incomplete
<1>3. CASE Connect
    <2>1. /\ UNCHANGED <<req, result, shown>> /\ message' = NoMessage /\ pc' # "backoff"
        BY <1>3 DEF Connect
    <2>2. MessageOK(NoMessage) /\ NoMessage.blocks = <<>>
        BY DEF NoMessage, Messages, MessageOK
    <2>3. QED
        BY <2>1, <2>2 DEF ContentInStep, NoneCut, NoneBare
<1>4. CASE RejectEvent
    <2>1. YieldLast("error", ClassifyAccumulateError(message)) /\ UNCHANGED <<req, message, shown>>
        BY <1>4 DEF RejectEvent
    <2>2. CASE HasIncompleteToolInput(message)
        <3>1. /\ ClassifyAccumulateError(message) = OutputInterrupted(message)
              /\ OutputInterrupted(message).kind # "final"
            BY <2>2 DEF ClassifyAccumulateError, OutputInterrupted
        <3>2. QED
            BY <1>0, <2>1, <3>1, InterruptedOK, YieldLastContent
    <2>3. CASE ~HasIncompleteToolInput(message)
        <3>1. ClassifyAccumulateError(message) = Failed("accumulate")
            BY <2>3 DEF ClassifyAccumulateError
        <3>2. QED
            BY <1>0, <2>1, <3>1, FailedOK, YieldLastContent
    <2>4. QED
        BY <2>2, <2>3
<1>5. CASE Complete
    BY <1>0, <1>5, FinalOK, YieldLastContent DEF Complete
<1>6. CASE ConvertResponseFails
    BY <1>0, <1>6, FailedOK, YieldLastContent DEF ConvertResponseFails
<1>7. ASSUME NEW err, Interrupted(err)
      PROVE  ContentInStep'
    <2>1. OutputInterrupted(message).kind # "final"
        BY DEF OutputInterrupted
    <2>2. QED
        BY <1>0, <1>7, <2>1, InterruptedOK, YieldLastContent DEF Interrupted
<1>8. ASSUME NEW err \in Errors, FailsLate(err) \/ FailsEarly(err)
      PROVE  ContentInStep'
    BY <1>0, <1>8, FailedOK, YieldLastContent DEF FailsLate, FailsEarly
<1>9. ASSUME NEW err \in Errors, Retry(err)
      PROVE  ContentInStep'
    <2>1. ~HasIncompleteToolInput(message)
        BY <1>9 DEF Retry, EarlyFailure, Refused, MayRetry, IsOverloadedStreamError
    <2>2. UNCHANGED <<req, message, result, shown>>
        BY <1>9 DEF Retry
    <2>3. QED
        BY <2>1, <2>2 DEF ContentInStep, NoneCut, NoneBare, HasIncompleteToolInput, Incomplete
<1>10. QED
    BY <1>1, <1>2, <1>3, <1>4, <1>5, <1>6, <1>7, <1>8, <1>9, GenerateContent, EventContent
       DEF Adapter, EndOfStream

\* So does every step of the caller and of the context.
LEMMA StepContent == IInv /\ ContentInStep /\ [Next]_vars => ContentInStep'
<1> SUFFICES ASSUME IInv, ContentInStep, [Next]_vars
             PROVE  ContentInStep'
    OBVIOUS
<1>1. CASE Start \/ Continue \/ Stop \/ ContextDies \/ UNCHANGED vars
    <2>1. UNCHANGED <<req, local>>
        BY <1>1 DEF Start, Continue, Stop, ContextDies, vars
    <2>2. QED
        BY <2>1 DEF local, ContentInStep, NoneCut, NoneBare, HasIncompleteToolInput, Incomplete
<1>2. QED
    BY <1>1, AdapterContent DEF Next, Done

\* The content is right in every reachable state.
LEMMA ContentInvariant == Spec => []ContentInStep
BY InitContent, StepContent, StreamInvariant, PTL DEF Spec

\* For messages of any length, cut off anywhere by anything: no call whose input
\* was cut is handed over, complete or salvaged, and none is retried.
THEOREM CutInputStaysOut == Spec => []CutInputNeverExecutes
<1>1. ContentInStep => CutInputNeverExecutes
    BY DEF ContentInStep, CutInputNeverExecutes, NoneCut, HasIncompleteToolInput, Incomplete,
           MessageOK, CutIsKnown
<1>2. QED
    BY <1>1, ContentInvariant, PTL

\* Hidden thoughts are shown neither as deltas nor among the parts, and hiding
\* them leaves no complete turn without a part.
THEOREM ThoughtsStayHidden == Spec => []HiddenThoughtsStayHidden
<1>1. ContentInStep => HiddenThoughtsStayHidden
    BY DEF ContentInStep, HiddenThoughtsStayHidden, NoneBare
<1>2. QED
    BY <1>1, ContentInvariant, PTL
=============================================================================
