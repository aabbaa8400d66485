---------------------------- MODULE SessionWalks ----------------------------
(***************************************************************************)
(* What the converters of Session keep while they walk over a history, and  *)
(* what the history keeps while it grows: the invariants of Session_proofs. *)
(***************************************************************************)
EXTENDS Session

IsSeq(s) == s \in Seq(ToSet(s))

\* The smaller of two numbers, as a relation on the naturals.
Below == {p \in Nat \X Nat : p[1] < p[2]}

\* t is s without its element at k.
Without(s, t, k) ==
    /\ k \in 1..Len(s)
    /\ IsSeq(t)
    /\ Len(t) = Len(s) - 1
    /\ \A i \in 1..Len(t) : t[i] = IF i < k THEN s[i] ELSE s[i + 1]

\* What a walk knows is a record of sequences.
ChatState(w) ==
    /\ w = [failed |-> w.failed, messages |-> w.messages, parts |-> w.parts,
            calls |-> w.calls, results |-> w.results, tracker |-> w.tracker]
    /\ w.failed \in BOOLEAN
    /\ IsSeq(w.messages) /\ IsSeq(w.parts) /\ IsSeq(w.calls) /\ IsSeq(w.results)
    /\ w.tracker = [nextID |-> w.tracker.nextID, pending |-> w.tracker.pending]
    /\ w.tracker.nextID \in Nat /\ IsSeq(w.tracker.pending)

\* v is w after a call p, a result p, or anything else.
ReadsCall(w, v, p) ==
    /\ v.calls = Append(w.calls, [id |-> CallID(w.tracker, p), of |-> <<p.n>>])
    /\ v.tracker.pending = Append(w.tracker.pending, CallID(w.tracker, p))
    /\ v.tracker.nextID = IF p.id = NoId THEN w.tracker.nextID + 1 ELSE w.tracker.nextID
    /\ v.results = w.results

ReadsResult(w, v, p) ==
    /\ \E id, k : /\ v.results = Append(w.results, [role |-> "tool", id |-> id,
                                                    answers |-> p.answers, of |-> <<p.n>>])
                  /\ Without(w.tracker.pending, v.tracker.pending, k)
                  /\ w.tracker.pending[k] = id
    /\ v.calls = w.calls

ReadsOther(w, v) ==
    v.calls = w.calls /\ v.results = w.results /\ v.tracker = w.tracker

Reads(w, v, p) ==
    /\ ChatState(v)
    /\ ~v.failed =>
         /\ ~w.failed
         /\ v.messages = w.messages
         /\ p.kind = "call" => ReadsCall(w, v, p)
         /\ p.kind = "result" => ReadsResult(w, v, p)
         /\ p.kind \notin {"call", "result"} => ReadsOther(w, v)

CallsOf(msg) == IF msg.role = "assistant" THEN {c.id : c \in ToSet(msg.calls)} ELSE {}
Run(m, i) == (i + 1)..(i + Cardinality(CallsOf(m[i])))

\* The calls of message i are all answered behind it.
AllAnswered(m, i) ==
    CallsOf(m[i]) # {} =>
        /\ Run(m, i) \subseteq DOMAIN m
        /\ \A j \in Run(m, i) : m[j].role = "tool"
        /\ {m[j].id : j \in Run(m, i)} = CallsOf(m[i])

\* The answers to the calls of message a end the messages; P are missing.
Answering(m, P, a) ==
    /\ CallsOf(m[a]) # {}
    /\ Cardinality(CallsOf(m[a])) = Len(m) - a + Len(P)
    /\ \A j \in (a + 1)..Len(m) : m[j].role = "tool"
    /\ {m[j].id : j \in (a + 1)..Len(m)} \cup ToSet(P) = CallsOf(m[a])

Settled(m, P) ==
    /\ IsSeq(m) /\ IsSeq(P)
    /\ \A i \in 1..Len(m) : IsFiniteSet(CallsOf(m[i]))
    /\ \A j \in 1..Len(m) : m[j].role = "tool" => \E i \in 1..(j - 1) : j \in Run(m, i)
    /\ \E a \in 0..Len(m) :
         /\ \A i \in 1..Len(m) : i # a => AllAnswered(m, i)
         /\ IF P = <<>> THEN a = 0 ELSE a # 0 /\ Answering(m, P, a)

\* f is the function that ChatWalk defines.
WalksParts(f, w, parts, n) ==
    f = [k \in 0..n |-> IF k = 0 THEN w ELSE ChatPart(f[k - 1], parts[k])]

\* A content that makes no calls: its results settle what is missing.
ResultsInStep(w, u) ==
    /\ ChatState(u)
    /\ ~u.failed => /\ u.messages = w.messages
                    /\ u.calls = <<>>
                    /\ Settled(w.messages \o u.results, u.tracker.pending)

\* The calls of one content have ids of their own, unless they have none.
CallsApart(parts) ==
    /\ IsSeq(parts)
    /\ \A i \in DOMAIN parts : parts[i].kind = "call" => parts[i].id \in Nat
    /\ \A i, j \in DOMAIN parts :
         /\ parts[i].kind = "call" /\ parts[j].kind = "call"
         /\ parts[i].id = parts[j].id /\ parts[i].id # NoId
         => i = j

\* Where the id of a pending call comes from: the adapter, or one of the first
\* k parts.
Known(id, u, parts, k) ==
    \/ id \in Int /\ id < 0 /\ id >= -u.tracker.nextID
    \/ \E i \in 1..k : parts[i].kind = "call" /\ parts[i].id = id /\ id # NoId /\ id \in Nat

\* A content that answers no calls: the calls it made so far are pending.
CallsInStep(w, u, parts, k) ==
    /\ ChatState(u)
    /\ ~u.failed =>
         /\ u.messages = w.messages
         /\ u.results = <<>>
         /\ Len(u.calls) = Len(u.tracker.pending)
         /\ \A i \in 1..Len(u.calls) : u.calls[i].id = u.tracker.pending[i]
         /\ IsFiniteSet(ToSet(u.tracker.pending))
         /\ Cardinality(ToSet(u.tracker.pending)) = Len(u.tracker.pending)
         /\ \A i \in 1..Len(u.tracker.pending) : Known(u.tracker.pending[i], u, parts, k)

\* What the walk over history knows.
ChatSettled(w) ==
    /\ ChatState(w)
    /\ ~w.failed => Settled(w.messages, w.tracker.pending)

WalksHistory(f, history, n) ==
    f = [k \in 0..n |-> IF k = 0 THEN ChatStart ELSE ChatContent(f[k - 1], history[k])]

\* A history in which the calls of every content have ids of their own.
CallsApartIn(history) ==
    IsSeq(history) /\ \A i \in DOMAIN history : CallsApart(history[i].parts)

\* What the chat conversion relies on: a content is never empty, its calls
\* have ids of their own, and its parts are numbered.
HistoryHolds ==
    /\ CallsApartIn(contents)
    /\ \A i \in DOMAIN contents :
         /\ contents[i].parts # <<>>
         /\ \A j \in DOMAIN contents[i].parts : contents[i].parts[j].n \in Nat

\* A turn's parts, before they are numbered.
Sayable(parts) ==
    /\ IsSeq(parts) /\ parts # <<>>
    /\ \A i \in DOMAIN parts : /\ "kind" \in DOMAIN parts[i]
                               /\ parts[i].kind = "call" => "id" \in DOMAIN parts[i]
    /\ CallsApart(parts)

------------------------------------------------------------------------------
(* Anthropic: blocks and messages *)

\* f is the function that BlocksUpTo defines.
WalksBlocks(f, content, n) ==
    f = [k \in 0..n |->
            IF k = 0 THEN <<>>
            ELSE IF Sendable(content, content.parts[k])
                 THEN Append(f[k - 1], Block(content.parts[k])) ELSE f[k - 1]]

\* f is the function that NormalizeConsecutiveMessages defines.
NextMessages(w, history, k) ==
    IF Blocks(history[k]) = <<>> THEN w ELSE AddMessage(w, MessageOf(history, k))

NoMessages == [failed |-> FALSE, messages |-> <<>>]

WalksMessages(f, history, n) ==
    f = [k \in 0..n |-> IF k = 0 THEN NoMessages ELSE NextMessages(f[k - 1], history, k)]

------------------------------------------------------------------------------
(* Anthropic: what the walk over the messages keeps *)

\* A message made of the contents `from`: it is theirs, or the adapter's own,
\* and if it holds signed thinking it is one content untouched.
MessageOfContents(h, k, x) ==
    /\ x = [role |-> x.role, content |-> x.content, from |-> x.from]
    /\ x.role \in {"user", "assistant"} /\ IsSeq(x.content) /\ x.from \subseteq 1..k
    /\ \A c \in x.from : MessageRole(h[c]) = x.role
    /\ x.from = {} => x = ContinuationPrompt
    /\ x.from # {} => \A q \in DOMAIN x.content :
                        \E c \in x.from : x.content[q] \in ToSet(Blocks(h[c]))
    /\ HasBlock(x, "thinking") => \E c \in x.from : x.from = {c} /\ x.content = Blocks(h[c])

\* The messages of the first k contents: roles alternate, contents keep their
\* order and none with a block is lost, and what follows a tool use is not the
\* adapter's own.
TurnsKept(h, k, m) ==
    /\ IsSeq(m)
    /\ \A i \in 1..Len(m) : MessageOfContents(h, k, m[i])
    /\ \A i, j \in 1..Len(m) : j = i + 1 =>
         /\ m[i].role # m[j].role
         /\ HasBlock(m[i], "tool_use") => m[j].from # {}
    /\ \A i, j \in 1..Len(m) : i < j =>
         \A c \in m[i].from, d \in m[j].from : c < d
    /\ m # <<>> => m[Len(m)].from # {}
    /\ \A c \in 1..k : Blocks(h[c]) # <<>> => \E i \in 1..Len(m) : c \in m[i].from

\* The walk, after k contents: unless it failed, their turns are kept.
Turns(h, k, w) ==
    /\ w = [failed |-> w.failed, messages |-> w.messages]
    /\ w.failed \in BOOLEAN
    /\ ~w.failed => TurnsKept(h, k, w.messages)

Readable(content) ==
    /\ IsSeq(content.parts)
    /\ \A q \in DOMAIN content.parts : content.parts[q].kind \in
         {"text", "media", "thought", "signed", "call", "result"}

------------------------------------------------------------------------------
(* Anthropic: the history a request is made from *)

\* Who can have said the parts of a content: calls are the model's, results the
\* user's, and a user's turn has something to send.
SaidBy(role, parts) ==
    /\ \A i \in DOMAIN parts :
         /\ parts[i].kind \in {"text", "media", "thought", "signed", "call", "result"}
         /\ parts[i].kind = "call" => role = "model"
         /\ parts[i].kind = "result" => role = "user"
    /\ role = "user" => \E i \in DOMAIN parts :
         \/ parts[i].kind \in {"media", "result"}
         \/ parts[i].kind = "text" /\ parts[i].words # "empty"

\* A content all of whose numbers are at most the last; a call has one.
Ordered(content, last) ==
    /\ content.role \in {"user", "model"}
    /\ IsSeq(content.parts) /\ content.parts # <<>>
    /\ SaidBy(content.role, content.parts)
    /\ \A j \in DOMAIN content.parts :
         /\ content.parts[j].n \in 0..last
         /\ content.parts[j].kind = "call" => content.parts[j].n # 0

\* No part of another content has the number of a call.
CallsNumbered(history) ==
    \A c, d \in DOMAIN history : \A p \in DOMAIN history[c].parts, q \in DOMAIN history[d].parts :
        history[c].parts[p].kind = "call" /\ history[c].parts[p].n = history[d].parts[q].n
            => c = d

InOrder(history, last) ==
    /\ IsSeq(history)
    /\ \A i \in DOMAIN history : Ordered(history[i], last)
    /\ CallsNumbered(history)

\* In every reachable history each part is in a role that can have said it.
HistoryInOrder == LastNumber \in Nat /\ InOrder(contents, LastNumber)

\* The adapter's own turn.
OwnTurn == [role |-> "user", parts |-> <<AdaptersText>>]

AllReadable(h, k) == \A c \in 1..k : Readable(h[c])
MadeOf(h, x, b) == \E c \in x.from : \E q \in DOMAIN h[c].parts : b = Block(h[c].parts[q])

------------------------------------------------------------------------------
(* Anthropic: the history stays in order *)

\* What the converter needs of a user: a turn is not made of empty text alone,
\* which would leave the request to end with the assistant.
UsersSaySomething ==
    \A turn \in UserTurns : \E i \in DOMAIN turn :
        turn[i].kind = "media" \/ (turn[i].kind = "text" /\ turn[i].words # "empty")

\* A turn before it is numbered.
Speakable(role, parts) ==
    /\ role \in {"user", "model"}
    /\ IsSeq(parts) /\ parts # <<>>
    /\ \A i \in DOMAIN parts : /\ "kind" \in DOMAIN parts[i]
                               /\ parts[i].kind = "text" => "words" \in DOMAIN parts[i]
    /\ SaidBy(role, parts)

------------------------------------------------------------------------------
(* The history: every result answers one open call *)

Kinds == {"text", "media", "thought", "signed", "call", "result"}

\* A call said after `said` has a number of its own, later than every number
\* before it, and an id no open call has.
GoodCall(said, p) ==
    /\ p.id \in Nat /\ p.n \in Nat
    /\ \A x \in said : /\ x.kind = "call" => x.n < p.n
                       /\ x.kind = "result" => x.answers < p.n
    /\ p.id # NoId => \A c \in OpenIn(said) : c.id # p.id

\* A result said after `said` is that of an open call and has its id; without
\* id it is that of the oldest.
GoodResult(said, p) ==
    \E c \in OpenIn(said) :
        /\ c.n = p.answers /\ c.id = p.id
        /\ p.id = NoId => \A d \in OpenIn(said) : c.n <= d.n

GoodNext(said, p) ==
    /\ p.kind \in Kinds
    /\ p.kind = "call" => GoodCall(said, p)
    /\ p.kind = "result" => GoodResult(said, p)

\* What was said before part q of these parts.
Heard(said, parts, q) == said \cup {parts[j] : j \in 1..(q - 1)}

Fits(said, parts) == \A q \in DOMAIN parts : GoodNext(Heard(said, parts, q), parts[q])

\* What the first k contents say.
Past(history, k) == UNION {ToSet(history[i].parts) : i \in 1..k}

Follows(history) ==
    /\ IsSeq(history)
    /\ \A k \in DOMAIN history : /\ IsSeq(history[k].parts) /\ history[k].parts # <<>>
                                 /\ Fits(Past(history, k - 1), history[k].parts)

NumberedUpTo(history, last) ==
    \A p \in AllParts(history) : /\ p.n \in 0..last
                                 /\ p.kind = "result" => p.answers \in 0..last

\* In every reachable history a result answers one open call.
Answerable == /\ LastNumber \in Nat
              /\ Follows(contents) /\ NumberedUpTo(contents, LastNumber)

\* The place of part q of content k, before that of part r of content l.
Earlier(k, q, l, r) == k < l \/ (k = l /\ q < r)

\* A turn before it is numbered.
Told(parts) ==
    /\ IsSeq(parts) /\ parts # <<>>
    /\ \A i \in DOMAIN parts :
         /\ "kind" \in DOMAIN parts[i]
         /\ parts[i].kind = "call" => "id" \in DOMAIN parts[i]
         /\ parts[i].kind = "result" => {"id", "answers"} \subseteq DOMAIN parts[i]

\* A choice of open calls to answer, and the results that answer them.
Picks(count, pick) ==
    /\ count \in Nat \ {0} /\ pick \in [1..count -> Open]
    /\ \A i, j \in 1..count : i # j => pick[i] # pick[j]
    /\ Unnamed(Open) => \A i \in 1..count : \A c \in Open :
         c.n < pick[i].n => \E j \in 1..(i - 1) : pick[j] = c

AnswersOf(parts, count, pick) ==
    /\ IsSeq(parts) /\ Len(parts) = count
    /\ \A i \in 1..count : \E name, found :
         parts[i] = Result(pick[i].id, name, pick[i].n, found)

------------------------------------------------------------------------------
(* Pairing results with calls on a wire *)

Bare(x) == "id" \notin DOMAIN x /\ "answers" \notin DOMAIN x

\* The last piece with this id is the call of this number.
Linked(pieces, id, n) ==
    \E j \in 1..Len(pieces) :
        /\ IsCall(pieces[j]) /\ pieces[j].id = id /\ pieces[j].of = <<n>>
        /\ \A k \in (j + 1)..Len(pieces) : "id" \in DOMAIN pieces[k] => pieces[k].id # id

AllReach(pieces) ==
    /\ IsSeq(pieces)
    /\ \A i \in 1..Len(pieces) : IsResult(pieces[i]) => ReachesItsCall(pieces, i)

\* Pieces without ids may be replaced by others: nothing is linked to them.
SameShape(s, t) ==
    /\ IsSeq(s) /\ IsSeq(t) /\ Len(s) = Len(t)
    /\ \A i \in 1..Len(s) : t[i] = s[i] \/ (Bare(s[i]) /\ Bare(t[i]))

\* The open calls of `said` in the order they were said, each with the id it
\* has on the wire.
Waiting(o, pending, pieces, said) ==
    /\ IsSeq(o) /\ Len(o) = Len(pending) /\ ToSet(o) = OpenIn(said)
    /\ \A i \in 1..Len(o) :
         /\ o[i].id \in Nat /\ o[i].n \in Nat
         /\ o[i].id # NoId => pending[i] = o[i].id
         /\ Linked(pieces, pending[i], o[i].n)
    /\ \A i, j \in 1..Len(o) : i < j => o[i].n < o[j].n /\ pending[i] # pending[j]
    /\ \A i \in 1..Len(o) : o[i].id = NoId => pending[i] \in Int /\ pending[i] < 0

\* The tracker knows the open calls, what is on the wire is paired, and no id
\* there will be made up again.
Tracks(t, pieces, said) ==
    /\ t = [nextID |-> t.nextID, pending |-> t.pending]
    /\ t.nextID \in Nat /\ IsSeq(t.pending)
    /\ AllReach(pieces)
    /\ \A i \in 1..Len(pieces) : "id" \in DOMAIN pieces[i] =>
         pieces[i].id \in Int /\ pieces[i].id >= -t.nextID
    /\ \E o : Waiting(o, t.pending, pieces, said)

------------------------------------------------------------------------------
(* Sequences laid end to end *)

SeqOfSeqs(ss) == IsSeq(ss) /\ \A i \in 1..Len(ss) : IsSeq(ss[i])

\* f is the function that FlattenSeq defines.
Joins(f, ss, n) == f = [i \in 1..n |-> IF i = 1 THEN ss[i] ELSE f[i - 1] \o ss[i]]

\* Messages of the AI SDK.
HaveParts(messages) == IsSeq(messages) /\ \A i \in 1..Len(messages) : IsSeq(messages[i].parts)

\* Anthropic's messages.
HaveBlocks(messages) == IsSeq(messages) /\ \A i \in 1..Len(messages) : IsSeq(messages[i].content)

\* Messages of Chat Completions: a result is one, calls are in one.
ChatPiece(m) == IF m.role = "tool" THEN <<m>> ELSE m.calls

HaveCalls(messages) ==
    IsSeq(messages) /\ \A i \in 1..Len(messages) : IsSeq(ChatPiece(messages[i]))

------------------------------------------------------------------------------
(* The input of the Responses API *)

ItemsState(w) ==
    /\ w = [failed |-> w.failed, items |-> w.items, open |-> w.open, item |-> w.item,
            tracker |-> w.tracker]
    /\ w.failed \in BOOLEAN

ItemsTrack(w, said) == ItemsState(w) /\ (~w.failed => Tracks(w.tracker, w.items, said))

\* v differs from w in the text it has open, at most.
SameItems(v, w) ==
    ItemsState(v) /\ v.failed = w.failed /\ v.items = w.items /\ v.tracker = w.tracker

\* v is w with one more item, and tracker t.
OneMoreItem(v, w, x, t) ==
    /\ ItemsState(v) /\ v.failed = w.failed /\ v.items = Append(w.items, x)
    /\ v.open = w.open /\ v.tracker = t

\* f is the function that ItemsWalk defines.
WalksItems(f, w, role, parts, n) ==
    f = [k \in 0..n |-> IF k = 0 THEN w ELSE ItemsPart(f[k - 1], role, parts[k])]

\* f is the function that ItemsHistory defines.
WalksItemsHistory(f, history, n) ==
    f = [k \in 0..n |-> IF k = 0 THEN ItemsStart ELSE ItemsContent(f[k - 1], history[k])]

------------------------------------------------------------------------------
(* The prompt of the AI SDK *)

TextIsBare(parts) == \A i \in 1..Len(parts) : parts[i].type = "text" => Bare(parts[i])

VercelState(w) ==
    /\ w = [failed |-> w.failed, messages |-> w.messages, parts |-> w.parts, item |-> w.item,
            tracker |-> w.tracker]
    /\ w.failed \in BOOLEAN
    /\ HaveParts(w.messages) /\ IsSeq(w.parts) /\ TextIsBare(w.parts)

\* What is on the wire so far, with what the open message will add.
VercelSaid(w) == MessageParts(w.messages) \o w.parts

VercelTrack(w, said) == VercelState(w) /\ (~w.failed => Tracks(w.tracker, VercelSaid(w), said))

\* v is w with one more piece, and tracker t.
OneMorePart(v, w, x, t) ==
    /\ VercelState(v) /\ v.failed = w.failed /\ v.tracker = t
    /\ VercelSaid(v) = Append(VercelSaid(w), x)

\* Text that joins the last fragment.
Widened(x, n) == [x EXCEPT !.of = Append(x.of, n)]

Widens(v, w, item, n) ==
    /\ w.parts # <<>> /\ Last(w.parts).type = "text"
    /\ v = [w EXCEPT !.item = item, !.parts[Len(w.parts)].of = Append(@, n)]

\* f is the function that VercelWalk defines.
WalksVercel(f, w, role, parts, n) ==
    f = [k \in 0..n |-> IF k = 0 THEN w ELSE VercelPart(f[k - 1], role, parts[k])]

\* f is the function that VercelHistory defines.
WalksVercelHistory(f, history, n) ==
    f = [k \in 0..n |-> IF k = 0 THEN VercelStart ELSE VercelContent(f[k - 1], history[k])]

------------------------------------------------------------------------------
(* The messages of Chat Completions *)

\* A content has calls or results, by its role.
OneSided(w, role) == IF role = "model" THEN w.results = <<>> ELSE w.calls = <<>>

ChatSaid(w) == ChatPieces(w.messages \o w.results) \o w.calls

ChatReading(w, role, said) ==
    /\ ChatState(w)
    /\ ~w.failed => /\ OneSided(w, role)
                    /\ HaveCalls(w.messages \o w.results)
                    /\ Tracks(w.tracker, ChatSaid(w), said)

\* Between two contents.
ChatTrack(w, said) ==
    /\ ChatState(w)
    /\ ~w.failed => /\ HaveCalls(w.messages)
                    /\ Tracks(w.tracker, ChatPieces(w.messages), said)

\* v is w but for these, and is in a good state.
Became(v, w, parts, calls, results, tracker) ==
    /\ ChatState(v) /\ v.failed = w.failed /\ v.messages = w.messages
    /\ v.parts = parts /\ v.calls = calls /\ v.results = results /\ v.tracker = tracker

------------------------------------------------------------------------------
(* Anthropic, which makes no ids up: the ids of the history are the wire's *)

\* What is on the wire is paired, and every open call with an id can be
\* reached by it.
Links(pieces, said) ==
    /\ AllReach(pieces)
    /\ \A c \in OpenIn(said) : c.id # NoId => Linked(pieces, c.id, c.n)
    /\ \A c, d \in OpenIn(said) : c.id # NoId /\ c.id = d.id => c = d

\* The walk over the contents: as long as it has not failed, its blocks are
\* linked.
Blocked(messages) ==
    HaveBlocks(messages) /\ \A i \in 1..Len(messages) : "content" \in DOMAIN messages[i]

AnthropicTrack(w, said) ==
    /\ w = [failed |-> w.failed, messages |-> w.messages] /\ w.failed \in BOOLEAN
    /\ ~w.failed => Blocked(w.messages) /\ Links(MessageBlocks(w.messages), said)

\* What the adapter adds to its messages for a content: the content's blocks,
\* behind words of its own if it has to keep two messages apart.
PromptBlock == [type |-> "text", of |-> <<>>]

Adds(v, w, blocks) ==
    /\ v = [failed |-> v.failed, messages |-> v.messages] /\ v.failed \in BOOLEAN
    /\ ~v.failed => /\ ~w.failed /\ Blocked(v.messages)
                    /\ \/ MessageBlocks(v.messages) = MessageBlocks(w.messages) \o blocks
                       \/ MessageBlocks(v.messages) =
                            Append(MessageBlocks(w.messages), PromptBlock) \o blocks

------------------------------------------------------------------------------
(* What a request carries: the elements of a sequence at some places, their  *)
(* numbers, and the parts pieces were made of                                *)

\* f is the function that KeptUpTo defines.
Keeps(f, s, places, n) ==
    f = [k \in 0..n |-> IF k = 0 THEN <<>>
                        ELSE IF k \in places THEN Append(f[k - 1], s[k]) ELSE f[k - 1]]

\* Pieces that say which parts they were made of.
Made(x) == "of" \in DOMAIN x /\ IsSeq(x.of)

HaveOf(pieces) == IsSeq(pieces) /\ \A i \in 1..Len(pieces) : Made(pieces[i])

\* The numbers of what a content has at some places, after what was told before
\* it, one part at a time.
Counts(c, told, parts, places) ==
    /\ c[0] = told
    /\ \A k \in 1..Len(parts) :
         c[k] = IF k \in places THEN Append(c[k - 1], parts[k].n) ELSE c[k - 1]
    /\ \A k \in 0..Len(parts) : IsSeq(c[k])
    /\ c[Len(parts)] = told \o Numbers(Kept(parts, places))

------------------------------------------------------------------------------
(* The history as a conversation of two: what a request is made from         *)

\* A content whose calls are the model's and whose results are the user's.
Attributed(content) ==
    /\ content.role \in {"user", "model"}
    /\ IsSeq(content.parts)
    /\ \A k \in 1..Len(content.parts) :
         /\ content.parts[k].kind \in Kinds
         /\ content.parts[k].kind = "call" => content.role = "model"
         /\ content.parts[k].kind = "result" => content.role = "user"

RolesKept(history) == IsSeq(history) /\ \A i \in 1..Len(history) : Attributed(history[i])

------------------------------------------------------------------------------
(* The prompt of the AI SDK carries what was said *)

\* A piece made of one part.
Carries(x, n) == "of" \in DOMAIN x /\ x.of = <<n>>

\* The parts on the wire, and those that wait, carry what was told so far.
VercelTold(w, told) ==
    /\ VercelState(w)
    /\ ~w.failed => HaveOf(VercelSaid(w)) /\ Carried(VercelSaid(w)) = told

Audible(content) == {k \in DOMAIN content.parts : NotHidden(content.role, content.parts[k])}

\* Between contents no message is open.
VercelClosed(w) == ~w.failed => w.parts = <<>>

------------------------------------------------------------------------------
(* The input of the Responses API carries what was said                      *)

\* What the open message will carry.
Queued(w, role) == IF role = "assistant" THEN Worded(w.open, w.item) ELSE w.open

ItemsTold(w, role, told) ==
    /\ ItemsState(w)
    /\ ~w.failed => /\ IsSeq(w.open) /\ HaveOf(w.items)
                    /\ Carried(w.items) \o Numbers(Queued(w, role)) = told

\* Between contents no message is open.
ItemsClosed(w) == ~w.failed => w.open = <<>>

\* What of a part the Responses API is told, by who said it.
ToldOf(told, role, p) == IF Worthwhile(role, p) THEN Append(told, p.n) ELSE told

\* A fragment goes behind the open ones, which have its identity.
Opens(u, v, role, p) ==
    /\ u = [v EXCEPT !.open = Append(v.open, p),
                     !.item = IF role = "assistant" THEN p.item ELSE v.item]
    /\ p.kind \in {"text", "media"}
    /\ p.kind = "media" => role # "assistant"
    /\ role = "assistant" => v.open = <<>> \/ p.item = v.item

Telling(content) == {k \in DOMAIN content.parts : Worthwhile(content.role, content.parts[k])}

\* Between contents no message is open, whoever speaks next.
ItemsClean(w, told) ==
    /\ ItemsState(w)
    /\ ~w.failed => w.open = <<>> /\ HaveOf(w.items) /\ Carried(w.items) = told

------------------------------------------------------------------------------
(* The messages of Chat Completions carry what was said                      *)

\* What one message carries; messages that each say what they carry.
ChatOf(m) == IF m.role = "tool" THEN m.of ELSE m.of \o Carried(m.calls)

Spoken(messages) == IsSeq(messages) /\ \A i \in 1..Len(messages) : IsSeq(ChatOf(messages[i]))

\* Within a content: `told` before it, then `said` by its parts but its calls,
\* which are `called`. A content is answered by what it only has: parts and
\* calls become one message, results become messages of their own.
ChatTold(w, told, said, called) ==
    /\ ChatState(w)
    /\ IsSeq(told) /\ IsSeq(said) /\ IsSeq(called)
    /\ ~w.failed =>
         /\ HaveOf(w.calls) /\ Carried(w.calls) = called
         /\ Spoken(w.messages) /\ Spoken(w.messages \o w.results)
         /\ w.parts = <<>> => ChatCarried(w.messages \o w.results) = told \o said
         /\ w.results = <<>> => Numbers(w.parts) = said /\ ChatCarried(w.messages) = told

\* Between contents.
ChatClean(w, told) ==
    /\ ChatState(w)
    /\ ~w.failed => Spoken(w.messages) /\ ChatCarried(w.messages) = told

CallPlaces(content) == {k \in DOMAIN content.parts : content.parts[k].kind = "call"}

ChatSays(content) ==
    Numbers(Kept(content.parts, DOMAIN content.parts \ CallPlaces(content)))
      \o Numbers(Kept(content.parts, CallPlaces(content)))

Presented(content) == {k \in DOMAIN content.parts : Presentable(content.role, content.parts[k])}

\* Between contents.
MessagesTold(w, told) ==
    /\ w = [failed |-> w.failed, messages |-> w.messages] /\ w.failed \in BOOLEAN
    /\ ~w.failed => /\ Blocked(w.messages) /\ HaveOf(MessageBlocks(w.messages))
                    /\ Carried(MessageBlocks(w.messages)) = told

\* What a role may say: calls are the model's, results the user's.
Voiced(role, parts) ==
    /\ Told(parts) /\ role \in {"user", "model"}
    /\ \A i \in DOMAIN parts :
         /\ parts[i].kind \in Kinds
         /\ parts[i].kind = "call" => role = "model"
         /\ parts[i].kind = "result" => role = "user"

\* Whoever speaks, the history stays a conversation of the two.
RolesStay == RolesKept(contents)
==============================================================================
