---------------------------- MODULE VercelRequest ----------------------------
(* convertContents of the native Vercel adapter: the history as the prompt  *)
(* of the AI SDK, a sequence of messages of typed parts.                    *)
(* A message keeps, in `of`, the numbers of the history's parts it carries. *)
EXTENDS CallTracker

VercelRole(role) == IF role = "model" THEN "assistant" ELSE "user"

\* The walk's state: the finished messages, the open message's parts and the
\* identity (MessageMetadata) its text carries.
VercelStart == [failed |-> FALSE, messages |-> <<>>, parts |-> <<>>,
                item |-> NoItem, tracker |-> NewTracker]

FlushParts(w, role) ==
    IF w.parts = <<>> THEN w
    ELSE [w EXCEPT !.messages = Append(@, [role |-> role, parts |-> w.parts]),
                   !.parts = <<>>, !.item = NoItem]

AddPart(w, part) == [w EXCEPT !.parts = Append(@, part)]

\* Only the user's text has no identity of its own. A new identity starts a
\* new message; adjacent fragments of one identity are joined.
AddVercelText(w, role, p) ==
    LET assistant == role = "assistant"
        v == IF assistant /\ w.parts # <<>> /\ p.item # w.item
             THEN FlushParts(w, role) ELSE w
        item == IF assistant THEN p.item ELSE v.item
        joins == /\ item # NoItem
                 /\ v.parts # <<>>
                 /\ Last(v.parts).type = "text"
    IN IF joins
       THEN [v EXCEPT !.item = item,
                      !.parts[Len(v.parts)].of = Append(@, p.n)]
       ELSE [v EXCEPT !.item = item,
                      !.parts = Append(@, [type |-> "text", item |-> item, of |-> <<p.n>>])]

VercelCall(w, p) ==
    [AddPart(w, [type |-> "tool-call", id |-> CallID(w.tracker, p), name |-> p.name,
                 namespace |-> NoId, of |-> <<p.n>>])
        EXCEPT !.tracker = TrackCall(@, p)]

\* A result is a message of its own.
VercelResult(w, role, p) ==
    LET v == FlushParts(w, role)
    IN IF Unpaired(v.tracker, p) THEN [v EXCEPT !.failed = TRUE]
       ELSE FlushParts(
              [AddPart(v, [type |-> "tool-result", id |-> ResultID(v.tracker, p),
                           answers |-> p.answers, output |-> "result", of |-> <<p.n>>])
                  EXCEPT !.tracker = TrackResult(@, p)], "tool")

VercelPart(w, role, p) ==
    IF w.failed THEN w ELSE
    CASE p.kind = "signed" ->
            IF p.by = "own" THEN AddPart(w, [type |-> "reasoning", of |-> <<p.n>>])
                               ELSE [w EXCEPT !.failed = TRUE]
      [] p.kind = "thought" -> w
      [] p.kind = "text" ->
            IF p.words # "empty" \/ (role = "assistant" /\ p.item # NoItem)
            THEN AddVercelText(w, role, p) ELSE [w EXCEPT !.failed = TRUE]
      [] p.kind = "media" -> AddPart(w, [type |-> "file", of |-> <<p.n>>])
      [] p.kind = "call" -> VercelCall(w, p)
      [] p.kind = "result" -> VercelResult(w, role, p)

\* The walk over a content's parts: what it knows after the first k of them.
VercelWalk(w, role, parts) ==
    LET after[k \in 0..Len(parts)] ==
          IF k = 0 THEN w ELSE VercelPart(after[k - 1], role, parts[k])
    IN after

\* The message left open at the end of a content is closed.
CloseContent(walked, role) == IF walked.failed THEN walked ELSE FlushParts(walked, role)

VercelContent(w, content) ==
    CloseContent(VercelWalk(w, VercelRole(content.role), content.parts)[Len(content.parts)],
                 VercelRole(content.role))

\* The walk over the contents.
VercelHistory(contents) ==
    LET after[k \in 0..Len(contents)] ==
          IF k = 0 THEN VercelStart ELSE VercelContent(after[k - 1], contents[k])
    IN after

\* [ok, messages]: the prompt, or a refusal of the whole request.
Prompt(walk) == [ok |-> ~walk.failed /\ walk.messages # <<>>, messages |-> walk.messages]

VercelPrompt(contents) == Prompt(VercelHistory(contents)[Len(contents)])
==============================================================================
