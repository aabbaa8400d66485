----------------------------- MODULE CallTracker -----------------------------
(* The conversation an adapter is given, and the tracker with which three   *)
(* of the four converters pair tool results with tool calls.                *)
(*                                                                          *)
(* A content is [role, parts]; a part is a record tagged with its kind.     *)
(* `n` numbers the parts of the history: no adapter reads it, properties    *)
(* use it to say which part a piece of the request came from.               *)
EXTENDS Integers, Sequences, SequencesExt

NoId == 0                 \* genai.FunctionCall.ID == ""
NoItem == "none"          \* the zero MessageMetadata

\* words: "some", "blank" (white space only) or "empty".
Text(words, item) == [kind |-> "text", words |-> words, item |-> item]
Thought           == [kind |-> "thought"]
\* by: "own" if the provider the request goes to signed it, else "other".
Signed(by)        == [kind |-> "signed", by |-> by]
Media(form)       == [kind |-> "media", form |-> form]
\* native: the search whose namespace introduced the function, NoId if none.
Call(id, name, native) == [kind |-> "call", id |-> id, name |-> name, native |-> native]
\* answers: the number of the call this is the result of; found: the tools a
\* search result loads.
Result(id, name, answers, found) ==
    [kind |-> "result", id |-> id, name |-> name, answers |-> answers, found |-> found]

\* A part of the history, with its number.
Number(part, n) == [f \in {"n"} \cup DOMAIN part |-> IF f = "n" THEN n ELSE part[f]]

PartsOf(contents) == FlattenSeq([i \in DOMAIN contents |-> contents[i].parts])
\* What s has at some places, in its order, within its first k.
KeptUpTo(s, places) ==
    LET upTo[k \in 0..Len(s)] ==
          IF k = 0 THEN <<>>
          ELSE IF k \in places THEN Append(upTo[k - 1], s[k]) ELSE upTo[k - 1]
    IN upTo

Kept(s, places) == KeptUpTo(s, places)[Len(s)]
OfKind(parts, kind) == Kept(parts, {i \in DOMAIN parts : parts[i].kind = kind})
Numbers(parts) == [i \in DOMAIN parts |-> parts[i].n]

------------------------------------------------------------------------------

NewTracker == [nextID |-> 0, pending |-> <<>>]

\* The id the adapter makes up for the k-th call that has none. Made-up ids
\* have a prefix of their own: they are never a provider's.
MadeUp(k) == -(k + 1)

CallID(tracker, call) ==
    IF call.id = NoId THEN MadeUp(tracker.nextID) ELSE call.id

TrackCall(tracker, call) ==
    [nextID  |-> IF call.id = NoId THEN tracker.nextID + 1 ELSE tracker.nextID,
     pending |-> Append(tracker.pending, CallID(tracker, call))]

\* A result without id answers the oldest pending call; one with an id must
\* name a pending call.
Unpaired(tracker, result) ==
    IF result.id = NoId THEN tracker.pending = <<>>
                        ELSE ~Contains(tracker.pending, result.id)

ResultID(tracker, result) ==
    IF result.id = NoId THEN Head(tracker.pending) ELSE result.id

\* Fault: a result without id takes the newest pending call away.
TrackResultNewest(tracker, result) ==
    [tracker EXCEPT !.pending = IF result.id = NoId THEN Front(@)
                                                    ELSE RemoveFirst(@, result.id)]

TrackResult(tracker, result) ==
    [tracker EXCEPT !.pending = IF result.id = NoId THEN Tail(@)
                                                    ELSE RemoveFirst(@, result.id)]
==============================================================================
