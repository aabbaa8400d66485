--------------------------- MODULE AnthropicRequest ---------------------------
(* ContentsToMessages of the Anthropic adapter: one message per content,    *)
(* then the normalisation that makes roles alternate without changing a     *)
(* message that holds a signed thought.                                     *)
(* A block keeps the number of its part in `of`; a message keeps, in        *)
(* `from`, the contents its blocks were taken from.                         *)
EXTENDS CallTracker

\* maybeAppendUserContent, with its two texts; part numbers below 1 are the
\* adapter's own words.
AdaptersText == Number(Text("some", NoItem), 0)
WithUserTurn(contents) ==
    IF contents = <<>> \/ Last(contents).role # "user"
    THEN Append(contents, [role |-> "user", parts |-> <<AdaptersText>>])
    ELSE contents

HasKind(content, kind) == \E i \in DOMAIN content.parts : content.parts[i].kind = kind

\* Results are always the user's, calls always the assistant's.
MessageRole(content) ==
    CASE HasKind(content, "result") -> "user"
      [] ~HasKind(content, "result") /\ HasKind(content, "call") -> "assistant"
      [] OTHER -> IF content.role = "model" THEN "assistant" ELSE "user"

\* An unsigned thought of the assistant becomes ordinary text.
Block(p) ==
    CASE p.kind = "signed"  -> [type |-> "thinking", of |-> <<p.n>>]
      [] p.kind = "thought" -> [type |-> "text", of |-> <<p.n>>]
      [] p.kind = "text"    -> [type |-> "text", of |-> <<p.n>>]
      [] p.kind = "media"   -> [type |-> "media", of |-> <<p.n>>]
      [] p.kind = "call"    -> [type |-> "tool_use", id |-> p.id, name |-> p.name, of |-> <<p.n>>]
      [] p.kind = "result"  -> [type |-> "tool_result", id |-> p.id, answers |-> p.answers,
                                content |-> "result", of |-> <<p.n>>]

Unsupported(p) ==
    \/ p.kind = "media" /\ p.form = "other"     \* neither an image nor a PDF
    \/ p.kind = "result" /\ p.id = NoId

Sendable(content, p) ==
    /\ ~(MessageRole(content) = "user" /\ p.kind \in {"thought", "signed"})
    /\ ~(p.kind = "text" /\ p.words = "empty")

\* The blocks of a content's first k parts.
BlocksUpTo(content) ==
    LET upTo[k \in 0..Len(content.parts)] ==
          IF k = 0 THEN <<>>
          ELSE IF Sendable(content, content.parts[k])
               THEN Append(upTo[k - 1], Block(content.parts[k])) ELSE upTo[k - 1]
    IN upTo

Blocks(content) == BlocksUpTo(content)[Len(content.parts)]

\* The message of content i, before normalisation.
MessageOf(contents, i) ==
    [role |-> MessageRole(contents[i]), content |-> Blocks(contents[i]), from |-> {i}]

HasBlock(message, type) == \E i \in DOMAIN message.content : message.content[i].type = type

ContinuationPrompt ==
    [role |-> "user", content |-> <<[type |-> "text", of |-> <<>>]>>, from |-> {}]

Joined(last, m) == [last EXCEPT !.content = @ \o m.content, !.from = @ \cup m.from]

\* Fault: a continuation may come between a tool use and its results.
AddMessageContinued(w, m) ==
    LET last == Last(w.messages)
        bounded == /\ m.role = "assistant"
                   /\ HasBlock(last, "thinking") \/ HasBlock(m, "thinking")
    IN IF w.messages = <<>> THEN [w EXCEPT !.messages = <<m>>]
       ELSE IF last.role # m.role THEN [w EXCEPT !.messages = Append(@, m)]
       ELSE IF bounded THEN [w EXCEPT !.messages = @ \o <<ContinuationPrompt, m>>]
       ELSE [w EXCEPT !.messages[Len(w.messages)] = Joined(@, m)]

\* One step of normalizeConsecutiveMessages.
AddMessage(w, m) ==
    LET last == Last(w.messages)
        bounded == /\ m.role = "assistant"
                   /\ HasBlock(last, "thinking") \/ HasBlock(m, "thinking")
    IN IF w.failed THEN w
       ELSE IF w.messages = <<>> THEN [w EXCEPT !.messages = <<m>>]
       ELSE IF last.role # m.role THEN [w EXCEPT !.messages = Append(@, m)]
       ELSE IF bounded
       THEN IF HasBlock(last, "tool_use") THEN [w EXCEPT !.failed = TRUE]
            ELSE [w EXCEPT !.messages = @ \o <<ContinuationPrompt, m>>]
       ELSE [w EXCEPT !.messages[Len(w.messages)] = Joined(@, m)]

\* The walk over the contents; one without blocks has no message.
NormalizeConsecutiveMessages(contents) ==
    LET after[k \in 0..Len(contents)] ==
          IF k = 0 THEN [failed |-> FALSE, messages |-> <<>>]
          ELSE LET m == MessageOf(contents, k)
               IN IF m.content = <<>> THEN after[k - 1] ELSE AddMessage(after[k - 1], m)
    IN after

ContentsToMessages(contents) ==
    LET parts == PartsOf(contents)
        normalized == NormalizeConsecutiveMessages(contents)[Len(contents)]
    IN [ok |-> /\ \A i \in DOMAIN parts : ~Unsupported(parts[i])
               /\ ~normalized.failed,
        messages |-> normalized.messages]

\* What the adapter sends for a history.
AnthropicRequest(contents) == ContentsToMessages(WithUserTurn(contents))
==============================================================================
