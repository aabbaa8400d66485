---------------------------- MODULE OpenAIRequest ----------------------------
(* The OpenAI adapter's two requests: the input items of the Responses API  *)
(* (convertContents) and the messages of Chat Completions                   *)
(* (LLMRequestToChatParams). Both pair results with calls by CallTracker;   *)
(* Chat also refuses a history whose calls are not all answered.            *)
EXTENDS CallTracker

------------------------------------------------------------------------------
(* Responses *)

ResponsesRole(role) == IF role = "model" THEN "assistant" ELSE "user"

\* open: the fragments not yet in a message; item: the identity they carry.
ItemsStart == [failed |-> FALSE, items |-> <<>>, open |-> <<>>, item |-> NoItem,
               tracker |-> NewTracker]

\* newOutputMessage drops white space that identifies no message.
Worded(fragments, item) ==
    Kept(fragments, {i \in DOMAIN fragments :
        fragments[i].kind # "text" \/ fragments[i].words = "some" \/ item # NoItem})

FlushMessage(w, role) ==
    LET kept == IF role = "assistant" THEN Worded(w.open, w.item) ELSE w.open
        closed == [w EXCEPT !.open = <<>>, !.item = NoItem]
    IN IF kept = <<>> THEN closed
       ELSE [closed EXCEPT !.items = Append(@,
               [type |-> "message", role |-> role, item |-> w.item,
                media |-> OfKind(kept, "media") # <<>>, of |-> Numbers(kept)])]

AddItem(w, item) == [w EXCEPT !.items = Append(@, item)]

\* Fault: text of another identity joins the open message.
AddTextMerged(w, role, p) ==
    [w EXCEPT !.open = Append(@, p),
              !.item = IF role = "assistant" THEN p.item ELSE @]

AddText(w, role, p) ==
    LET v == IF role = "assistant" /\ w.open # <<>> /\ p.item # w.item
             THEN FlushMessage(w, role) ELSE w
    IN [v EXCEPT !.open = Append(@, p),
                 !.item = IF role = "assistant" THEN p.item ELSE @]

\* Fault: the call overtakes the text before it.
AddCallUnflushed(w, role, p) ==
    [AddItem(w, [type |-> "function_call", id |-> CallID(w.tracker, p), name |-> p.name,
                 namespace |-> NoId, of |-> <<p.n>>])
       EXCEPT !.tracker = TrackCall(@, p)]

AddCall(w, role, p) ==
    LET v == FlushMessage(w, role)
    IN [AddItem(v, [type |-> "function_call", id |-> CallID(v.tracker, p), name |-> p.name,
                    namespace |-> NoId, of |-> <<p.n>>])
          EXCEPT !.tracker = TrackCall(@, p)]

AddOutput(w, role, p) ==
    LET v == FlushMessage(w, role)
    IN IF Unpaired(v.tracker, p) THEN [v EXCEPT !.failed = TRUE]
       ELSE [AddItem(v, [type |-> "function_call_output", id |-> ResultID(v.tracker, p),
                         answers |-> p.answers, of |-> <<p.n>>])
               EXCEPT !.tracker = TrackResult(@, p)]

ItemsPart(w, role, p) ==
    IF w.failed THEN w ELSE
    CASE p.kind = "signed" ->
            IF p.by = "own"
            THEN AddItem(FlushMessage(w, role), [type |-> "reasoning", of |-> <<p.n>>])
            ELSE [w EXCEPT !.failed = TRUE]
      [] p.kind = "thought" -> w
      [] p.kind = "text" ->
            IF p.words # "empty" \/ (role = "assistant" /\ p.item # NoItem)
            THEN AddText(w, role, p) ELSE [w EXCEPT !.failed = TRUE]
      [] p.kind = "media" ->
            IF role = "assistant" THEN [w EXCEPT !.failed = TRUE]
                                  ELSE [w EXCEPT !.open = Append(@, p)]
      [] p.kind = "call" -> AddCall(w, role, p)
      [] p.kind = "result" -> AddOutput(w, role, p)

\* The walk over a content's parts: what it knows after the first k of them.
ItemsWalk(w, role, parts) ==
    LET after[k \in 0..Len(parts)] ==
          IF k = 0 THEN w ELSE ItemsPart(after[k - 1], role, parts[k])
    IN after

\* The message left open at the end of a content is closed.
CloseItems(walked, role) == IF walked.failed THEN walked ELSE FlushMessage(walked, role)

ItemsContent(w, content) ==
    CloseItems(ItemsWalk(w, ResponsesRole(content.role), content.parts)[Len(content.parts)],
               ResponsesRole(content.role))

\* The walk over the contents.
ItemsHistory(contents) ==
    LET after[k \in 0..Len(contents)] ==
          IF k = 0 THEN ItemsStart ELSE ItemsContent(after[k - 1], contents[k])
    IN after

\* [ok, items]: the input, or a refusal of the whole request.
Input(walk) == [ok |-> ~walk.failed /\ walk.items # <<>>, items |-> walk.items]

ResponsesInput(contents) == Input(ItemsHistory(contents)[Len(contents)])

------------------------------------------------------------------------------
(* Chat Completions *)

\* Reasoning history is unsupported, roles are strict.
ChatRejects(role, p) ==
    \/ p.kind \in {"thought", "signed"}
    \/ p.kind = "call" /\ role # "model"
    \/ p.kind = "result" /\ role # "user"
    \/ p.kind = "media" /\ (role # "user" \/ p.form = "remote")
    \/ p.kind = "text" /\ p.words = "empty"

\* The calls and results of one content.
ChatPart(w, p) ==
    IF w.failed THEN w ELSE
    CASE p.kind = "call" ->
            [w EXCEPT !.calls = Append(@, [id |-> CallID(w.tracker, p), of |-> <<p.n>>]),
                      !.tracker = TrackCall(@, p)]
      [] p.kind = "result" ->
            IF Unpaired(w.tracker, p) THEN [w EXCEPT !.failed = TRUE]
            ELSE [w EXCEPT !.results = Append(@, [role |-> "tool", id |-> ResultID(w.tracker, p),
                                                  answers |-> p.answers, of |-> <<p.n>>]),
                           !.tracker = TrackResult(@, p)]
      [] OTHER -> [w EXCEPT !.parts = Append(@, p)]

\* The walk over a content's parts: what it knows after the first k of them.
ChatWalk(w, parts) ==
    LET after[k \in 0..Len(parts)] ==
          IF k = 0 THEN w ELSE ChatPart(after[k - 1], parts[k])
    IN after

\* The message a content becomes once its parts are read.
ChatMessage(w, role) ==
    LET pending == w.tracker.pending # <<>>
        message == [role |-> IF role = "model" THEN "assistant" ELSE "user",
                    calls |-> w.calls, media |-> OfKind(w.parts, "media") # <<>>,
                    of |-> Numbers(w.parts)]
    IN CASE w.results # <<>> ->
              IF w.parts # <<>> \/ w.calls # <<>> THEN [w EXCEPT !.failed = TRUE]
              ELSE [w EXCEPT !.messages = @ \o w.results]
         [] w.results = <<>> /\ w.parts = <<>> /\ w.calls = <<>> -> w
         [] OTHER ->
              IF pending /\ w.calls = <<>> THEN [w EXCEPT !.failed = TRUE]
              ELSE [w EXCEPT !.messages = Append(@, message)]

\* Fault: the model may speak again before its tools have answered.
ChatContentUnguarded(w, content) ==
    LET opened == [w EXCEPT !.parts = <<>>, !.calls = <<>>, !.results = <<>>]
        walked == ChatWalk(opened, content.parts)[Len(content.parts)]
    IN IF w.failed \/ \E i \in DOMAIN content.parts : ChatRejects(content.role, content.parts[i])
       THEN [w EXCEPT !.failed = TRUE]
       ELSE IF walked.failed THEN walked ELSE ChatMessage(walked, content.role)

ChatContent(w, content) ==
    LET opened == [w EXCEPT !.parts = <<>>, !.calls = <<>>, !.results = <<>>]
        unanswered == content.role = "model" /\ w.tracker.pending # <<>>
        walked == ChatWalk(opened, content.parts)[Len(content.parts)]
    IN IF \/ w.failed
          \/ unanswered
          \/ \E i \in DOMAIN content.parts : ChatRejects(content.role, content.parts[i])
       THEN [w EXCEPT !.failed = TRUE]
       ELSE IF walked.failed THEN walked ELSE ChatMessage(walked, content.role)

ChatStart == [failed |-> FALSE, messages |-> <<>>, parts |-> <<>>, calls |-> <<>>,
              results |-> <<>>, tracker |-> NewTracker]

\* The walk over the contents.
ChatHistory(contents) ==
    LET after[k \in 0..Len(contents)] ==
          IF k = 0 THEN ChatStart ELSE ChatContent(after[k - 1], contents[k])
    IN after

ChatMessages(contents) ==
    LET walk == ChatHistory(contents)[Len(contents)]
    IN [ok |-> ~walk.failed /\ walk.tracker.pending = <<>> /\ walk.messages # <<>>,
        messages |-> walk.messages]
==============================================================================
