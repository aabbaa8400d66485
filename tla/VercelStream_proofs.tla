------------------------- MODULE VercelStream_proofs -------------------------
(***************************************************************************)
(* What the Vercel adapter assembles, for any ids, any number of parts and *)
(* any order of stream parts: signatures are whole, the complete response  *)
(* is what was shown, shared parts are stable and calls executable.        *)
(***************************************************************************)
EXTENDS VercelStream, SequenceTheorems, TLAPS

Part == [kind : {"text", "thought", "call"}, text : Nat, signature : Int, args : Forms]
Entry == [received : Nat, shown : Nat, ends : Nat, handed : Part]

CallForms == {"plain", "padded", "normalised"}

\* What a part of the content and its history say of each other.  A thought
\* sealed once is whole; one the caller may see was shown in full.
Faithful(part, entry) ==
    /\ part.kind = "text" =>
         /\ part.args = "none" /\ part.signature = Unsigned
         /\ part.text = entry.shown /\ entry.ends = 0
    /\ part.kind = "thought" =>
         /\ part.args = "none"
         /\ entry.ends <= 1 => part.text = entry.shown
         /\ req.thoughts => entry.shown = entry.received
         /\ entry.ends = 0 => part.signature = Unsigned
         /\ entry.ends = 1 => part.signature = entry.received
    /\ part.kind = "call" =>
         part.args \in CallForms /\ part.signature = Unsigned /\ part = entry.handed

Assembled ==
    /\ content \in Seq(Part)
    /\ history \in Seq(Entry)
    /\ Len(history) = Len(content)
    /\ \A i \in 1..Len(content) : Faithful(content[i], history[i])

\* Which part an id's text goes to.
TextBlock(id) == textParts[id] # 0 => content[textParts[id]].kind = "text"

\* Which part an id's reasoning goes to.  Its builder, if it has one, holds all
\* that part received, and the part has not ended; without one it has.
ReasoningBlock(id) ==
    LET i == reasoningParts[id]
    IN /\ i # 0 => content[i].kind = "thought"
       /\ reasoning[id] # -1 => i # 0 /\ history[i].received = reasoning[id] /\ history[i].ends = 0
       /\ reasoning[id] = -1 /\ i # 0 => history[i].ends >= 1

\* No two ids share a thought, or the end of one block would sign the other's.
Blocks ==
    /\ textParts \in [Ids -> 0..Len(content)]
    /\ reasoningParts \in [Ids -> 0..Len(content)]
    /\ reasoning \in [Ids -> Nat \cup {-1}]
    /\ \A id \in Ids : TextBlock(id) /\ ReasoningBlock(id)
    /\ \A id, other \in Ids :
         reasoningParts[id] # 0 /\ reasoningParts[id] = reasoningParts[other] => id = other

\* A complete response is the content, restored, and nothing is read after it.
Resulting ==
    result.kind = "final" =>
        /\ it \in {"final", "stop", "returned"}
        /\ req.streaming => result.parts = Restored(content)
        /\ CallsAreExecutable

IInv ==
    /\ req \in [streaming : BOOLEAN, thoughts : BOOLEAN]
    /\ result.kind # "final" => result.parts = <<>>
    /\ Assembled
    /\ Blocks
    /\ Resulting

------------------------------------------------------------------------------
(* One part changes or is added *)

\* Part i of the new content and history is p and h, the others are as before.
Only(i, p, h) ==
    /\ content' \in Seq(Part) /\ history' \in Seq(Entry)
    /\ Len(history') = Len(content')
    /\ Len(content') \in {Len(content), Len(content) + 1}
    /\ i \in 1..Len(content')
    /\ Len(content') # Len(content) => i = Len(content')
    /\ content'[i] = p /\ history'[i] = h
    /\ \A j \in 1..Len(content') : j # i =>
         j \in 1..Len(content) /\ content'[j] = content[j] /\ history'[j] = history[j]

\* The content and history in which a step finds its part i: one of the old
\* ones, or a new one, first.
Opened(i, first, all, entries) ==
    \/ i \in 1..Len(content) /\ all = content /\ entries = history
    \/ /\ i = Len(content) + 1
       /\ all = Append(content, first) /\ entries = Append(history, FreshHistory)

\* A new part is faithful to its empty history.
LEMMA FreshIsFaithful ==
    ASSUME NEW first \in {Text, Thought}
    PROVE  /\ first \in Part /\ FreshHistory \in Entry /\ Faithful(first, FreshHistory)
           /\ first = Text => first.kind = "text"
           /\ first = Thought => first.kind = "thought"
           /\ FreshHistory.received = 0 /\ FreshHistory.ends = 0
<1>1. /\ Text \in Part /\ Text.kind = "text" /\ Text.text = 0
      /\ Text.args = "none" /\ Text.signature = Unsigned
    BY DEF Text, Part, Forms, Unsigned
<1>2. /\ Thought \in Part /\ Thought.kind = "thought" /\ Thought.text = 0
      /\ Thought.args = "none" /\ Thought.signature = Unsigned
    BY <1>1 DEF Thought, Part
<1>3. /\ FreshHistory \in Entry
      /\ FreshHistory.received = 0 /\ FreshHistory.shown = 0 /\ FreshHistory.ends = 0
    BY <1>1 DEF FreshHistory, Entry
<1>4. QED
    BY <1>1, <1>2, <1>3 DEF Faithful

\* Either way the part is faithful before the step changes it.
LEMMA OpenedIsFaithful ==
    ASSUME Assembled, NEW first \in {Text, Thought}, NEW i, NEW all, NEW entries,
           Opened(i, first, all, entries)
    PROVE  /\ all \in Seq(Part) /\ entries \in Seq(Entry) /\ Len(entries) = Len(all)
           /\ i \in 1..Len(all) /\ all[i] \in Part /\ entries[i] \in Entry
           /\ Faithful(all[i], entries[i])
           /\ i = Len(content) + 1 => all[i] = first /\ entries[i] = FreshHistory
           /\ i # Len(content) + 1 => all[i] = content[i] /\ entries[i] = history[i]
<1>1. content \in Seq(Part) /\ history \in Seq(Entry) /\ Len(history) = Len(content)
      /\ Len(content) \in Nat
    BY DEF Assembled
<1>2. CASE i \in 1..Len(content) /\ all = content /\ entries = history
    BY <1>1, <1>2, ElementOfSeq DEF Assembled
<1>3. CASE /\ i = Len(content) + 1
           /\ all = Append(content, first) /\ entries = Append(history, FreshHistory)
    BY <1>1, <1>3, FreshIsFaithful, AppendProperties
<1>4. QED
    BY <1>2, <1>3 DEF Opened

\* History is extended with the content.
LEMMA HistoryFollows ==
    ASSUME Assembled, NEW first \in {Text, Thought}, NEW i, NEW all, NEW entries,
           Opened(i, first, all, entries), NEW parts, Len(parts) = Len(all)
    PROVE  HistoryWith(parts) = entries
<1>1. content \in Seq(Part) /\ history \in Seq(Entry) /\ Len(history) = Len(content)
      /\ Len(content) \in Nat
    BY DEF Assembled
<1>2. first \in Part
    BY FreshIsFaithful
<1>3. CASE all = content /\ entries = history
    BY <1>1, <1>3 DEF HistoryWith
<1>4. CASE all = Append(content, first) /\ entries = Append(history, FreshHistory)
  <2>1. Len(all) = Len(content) + 1
      BY <1>1, <1>2, <1>4, AppendProperties
  <2>2. QED
      BY <1>1, <1>4, <2>1 DEF HistoryWith
<1>5. QED
    BY <1>3, <1>4 DEF Opened

\* Setting the part changes nothing else.
LEMMA SetsOnly ==
    ASSUME Assembled, NEW first \in {Text, Thought}, NEW i, NEW all, NEW entries,
           Opened(i, first, all, entries), NEW p \in Part, NEW h \in Entry,
           content' = [all EXCEPT ![i] = p], history' = [entries EXCEPT ![i] = h]
    PROVE  Only(i, p, h)
<1>1. /\ all \in Seq(Part) /\ entries \in Seq(Entry) /\ Len(entries) = Len(all)
      /\ i \in 1..Len(all) /\ first \in Part /\ FreshHistory \in Entry
    BY OpenedIsFaithful, FreshIsFaithful
<1>2. /\ content' \in Seq(Part) /\ Len(content') = Len(all)
      /\ \A j \in 1..Len(all) : content'[j] = IF j = i THEN p ELSE all[j]
    BY <1>1, ExceptSeq
<1>3. /\ history' \in Seq(Entry) /\ Len(history') = Len(all)
      /\ \A j \in 1..Len(all) : history'[j] = IF j = i THEN h ELSE entries[j]
    BY <1>1, ExceptSeq
<1>4. content \in Seq(Part) /\ history \in Seq(Entry) /\ Len(history) = Len(content)
      /\ Len(content) \in Nat
    BY DEF Assembled
<1>5. /\ Len(all) \in {Len(content), Len(content) + 1}
      /\ Len(all) # Len(content) => i = Len(all)
      /\ \A j \in 1..Len(all) : j # i =>
           j \in 1..Len(content) /\ all[j] = content[j] /\ entries[j] = history[j]
    BY <1>1, <1>4, AppendProperties DEF Opened
<1>6. QED
    BY <1>1, <1>2, <1>3, <1>5 DEF Only

\* If the one part is faithful, the content is.
LEMMA StaysAssembled ==
    ASSUME Assembled, req' = req, NEW i, NEW p, NEW h, Only(i, p, h), Faithful(p, h)
    PROVE  Assembled'
<1>1. ASSUME NEW j \in 1..Len(content') PROVE Faithful(content[j], history[j])'
  <2>1. CASE j = i
      BY <2>1 DEF Only, Faithful
  <2>2. ASSUME j # i PROVE Faithful(content[j], history[j])
      BY <1>1, <2>2 DEF Only, Assembled
  <2>3. ASSUME j # i PROVE Faithful(content[j], history[j])'
      BY <1>1, <2>2, <2>3 DEF Only, Faithful
  <2>4. QED
      BY <2>1, <2>3
<1>2. QED
    BY <1>1 DEF Assembled, Only

------------------------------------------------------------------------------
(* Ids and their parts *)

\* What the types say of an id.
LEMMA IdTypes ==
    ASSUME Assembled, Blocks, NEW id \in Ids
    PROVE  /\ Len(content) \in Nat
           /\ textParts[id] \in 0..Len(content)
           /\ reasoningParts[id] \in 0..Len(content)
           /\ reasoning[id] \in Nat \cup {-1}
           /\ TextBlock(id) /\ ReasoningBlock(id)
BY DEF Assembled, Blocks

\* An id keeps its text part if the part that changed keeps its kind.
LEMMA TextKept ==
    ASSUME Assembled, Blocks, NEW i, NEW p, NEW h, Only(i, p, h), NEW id \in Ids,
           textParts'[id] = textParts[id],
           i \in 1..Len(content) => p.kind = content[i].kind
    PROVE  TextBlock(id)'
BY IdTypes DEF TextBlock, Only

\* An id's reasoning is as before if another part changed.
LEMMA ReasoningKept ==
    ASSUME Assembled, Blocks, NEW i, NEW p, NEW h, Only(i, p, h), NEW id \in Ids,
           reasoning'[id] = reasoning[id], reasoningParts'[id] = reasoningParts[id],
           reasoningParts[id] # i
    PROVE  ReasoningBlock(id)'
BY IdTypes DEF ReasoningBlock, Only

\* A step of a text block.
LEMMA TextStep ==
    ASSUME Assembled, Blocks, req' = req, NEW id \in Ids, NEW i, NEW p, NEW h,
           Only(i, p, h), Faithful(p, h), p.kind = "text",
           (i = textParts[id] /\ i # 0) \/ i = Len(content) + 1,
           textParts' = [textParts EXCEPT ![id] = i],
           reasoning' = reasoning, reasoningParts' = reasoningParts
    PROVE  Assembled' /\ Blocks'
<1>1. Assembled'
    BY StaysAssembled
<1>2. /\ Len(content) \in Nat /\ Len(content') \in Nat /\ Len(content) <= Len(content')
      /\ i \in 1..Len(content') /\ content'[i].kind = "text"
      /\ i \in 1..Len(content) => content[i].kind = "text"
    BY IdTypes DEF Only, TextBlock, Assembled
<1>3. ASSUME NEW other \in Ids
      PROVE  /\ textParts'[other] \in 0..Len(content') /\ TextBlock(other)'
             /\ reasoningParts'[other] \in 0..Len(content') /\ ReasoningBlock(other)'
  <2>1. textParts'[other] = IF other = id THEN i ELSE textParts[other]
      BY DEF Blocks
  <2>2. TextBlock(other)'
      BY <1>2, <2>1, TextKept DEF TextBlock
  <2>3. reasoningParts[other] # i
      BY <1>2, IdTypes DEF ReasoningBlock
  <2>4. ReasoningBlock(other)'
      BY <2>3, ReasoningKept
  <2>5. QED
      BY <1>2, <2>1, <2>2, <2>4, IdTypes
<1>4. textParts' \in [Ids -> 0..Len(content')] /\ reasoningParts' \in [Ids -> 0..Len(content')]
    BY <1>3 DEF Blocks
<1>5. QED
    BY <1>1, <1>3, <1>4 DEF Blocks

\* A step of a reasoning block, after which the id has part r and builder b.
LEMMA ReasoningStep ==
    ASSUME Assembled, Blocks, req' = req, NEW id \in Ids, NEW i, NEW p, NEW h,
           Only(i, p, h), Faithful(p, h), p.kind = "thought",
           (i = reasoningParts[id] /\ i # 0) \/ i = Len(content) + 1,
           NEW r, r = i \/ (r = 0 /\ reasoningParts[id] = 0), NEW b \in Nat \cup {-1},
           b # -1 => r = i /\ h.received = b /\ h.ends = 0,
           b = -1 /\ r = i => h.ends >= 1,
           textParts' = textParts,
           reasoning' = [reasoning EXCEPT ![id] = b],
           reasoningParts' = [reasoningParts EXCEPT ![id] = r]
    PROVE  Assembled' /\ Blocks'
<1>1. Assembled'
    BY StaysAssembled
<1>2. /\ Len(content) \in Nat /\ Len(content') \in Nat /\ Len(content) <= Len(content')
      /\ i \in 1..Len(content') /\ content'[i] = p /\ history'[i] = h
      /\ i \in 1..Len(content) => content[i].kind = "thought"
    BY IdTypes DEF Only, ReasoningBlock, Assembled
<1>3. ASSUME NEW other \in Ids
      PROVE  /\ reasoningParts'[other] = IF other = id THEN r ELSE reasoningParts[other]
             /\ reasoning'[other] = IF other = id THEN b ELSE reasoning[other]
    BY DEF Blocks
<1>4. ASSUME NEW other \in Ids, other # id
      PROVE  reasoningParts[other] # i
    BY <1>2, <1>4, IdTypes DEF Blocks
<1>5. ASSUME NEW other \in Ids
      PROVE  /\ textParts'[other] \in 0..Len(content') /\ TextBlock(other)'
             /\ reasoningParts'[other] \in 0..Len(content') /\ ReasoningBlock(other)'
  <2>1. TextBlock(other)'
      BY <1>2, TextKept
  <2>2. ASSUME other # id PROVE ReasoningBlock(other)'
      BY <1>3, <1>4, <2>2, ReasoningKept
  <2>3. ASSUME other = id PROVE ReasoningBlock(other)'
      BY <1>2, <1>3, <2>3 DEF ReasoningBlock
  <2>4. ReasoningBlock(other)'
      BY <2>2, <2>3
  <2>5. QED
      BY <1>2, <1>3, <2>1, <2>4, IdTypes
<1>6. /\ textParts' \in [Ids -> 0..Len(content')] /\ reasoningParts' \in [Ids -> 0..Len(content')]
      /\ reasoning' \in [Ids -> Nat \cup {-1}]
    BY <1>5 DEF Blocks
<1>7. ASSUME NEW one \in Ids, NEW other \in Ids,
             reasoningParts'[one] # 0, reasoningParts'[one] = reasoningParts'[other]
      PROVE  one = other
    BY <1>2, <1>3, <1>4, <1>7 DEF Blocks
<1>8. QED
    BY <1>1, <1>5, <1>6, <1>7 DEF Blocks

------------------------------------------------------------------------------
(* The steps of streamState.convert *)

\* The part a text delta or a text start finds.
LEMMA TextOpened ==
    ASSUME Assembled, Blocks, NEW id \in Ids
    PROVE  /\ Opened(TextIndex(id), Text, WithText(id),
                     IF textParts[id] # 0 THEN history ELSE Append(history, FreshHistory))
           /\ \/ TextIndex(id) = textParts[id] /\ textParts[id] # 0
              \/ TextIndex(id) = Len(content) + 1
           /\ textParts[id] # 0 => content[textParts[id]].kind = "text"
BY IdTypes DEF Opened, TextIndex, WithText, Next1, TextBlock

\* A text start adds an empty part, or does nothing.
LEMMA TextStartKept ==
    ASSUME Assembled, Blocks, NEW id \in Ids, TextStart(id)
    PROVE  Assembled' /\ Blocks'
<1>1. PICK i, all, entries : i = TextIndex(id) /\ all = WithText(id) /\ Opened(i, Text, all, entries)
    BY TextOpened
<1>2. /\ all \in Seq(Part) /\ entries \in Seq(Entry) /\ Len(entries) = Len(all)
      /\ i \in 1..Len(all) /\ all[i] \in Part /\ entries[i] \in Entry
      /\ Faithful(all[i], entries[i])
    BY <1>1, OpenedIsFaithful
<1>kind. all[i].kind = "text"
    BY <1>1, OpenedIsFaithful, FreshIsFaithful, TextOpened DEF Opened
<1>3. content' = all /\ history' = entries
    BY <1>1, HistoryFollows DEF TextStart
<1>4. content' = [all EXCEPT ![i] = all[i]] /\ history' = [entries EXCEPT ![i] = entries[i]]
    BY <1>2, <1>3
<1>5. Only(i, all[i], entries[i])
    BY <1>1, <1>2, <1>4, SetsOnly
<1>6. QED
    BY <1>1, <1>2, <1>kind, <1>5, TextOpened, TextStep DEF TextStart

\* What a delta does to a part and its history.
LEMMA Growth ==
    ASSUME NEW a \in Part, NEW e \in Entry, Faithful(a, e), NEW n \in {0, 1},
           \/ a.kind = "text" /\ n = 1
           \/ a.kind = "thought" /\ e.ends = 0 /\ (req.thoughts => n = 1),
           NEW p, p = Longer(a, n), NEW h, h = Grown(e, n)
    PROVE  /\ p \in Part /\ h \in Entry /\ Faithful(p, h) /\ p.kind = a.kind
           /\ h.received = e.received + 1 /\ h.ends = e.ends
<1>1. /\ p \in Part /\ p.kind = a.kind /\ p.text = a.text + n
      /\ p.signature = a.signature /\ p.args = a.args /\ a.text \in Nat
    BY DEF Longer, Part
<1>2. PICK received : received = [e EXCEPT !.received = @ + 1]
    OBVIOUS
<1>3. /\ received \in Entry /\ received.received = e.received + 1
      /\ received.shown = e.shown /\ received.ends = e.ends
      /\ e.received \in Nat /\ e.shown \in Nat /\ e.ends \in Nat
    BY <1>2 DEF Entry
<1>4. h = [received EXCEPT !.shown = @ + n]
    BY <1>2, <1>3 DEF Grown, Entry
<1>5. /\ h \in Entry /\ h.received = e.received + 1 /\ h.shown = e.shown + n
      /\ h.ends = e.ends
    BY <1>3, <1>4 DEF Entry
<1>6. QED
    BY <1>1, <1>3, <1>5 DEF Faithful

\* A text delta adds to its part what it shows.
LEMMA TextDeltaKept ==
    ASSUME Assembled, Blocks, NEW id \in Ids, TextDelta(id)
    PROVE  Assembled' /\ Blocks'
<1>1. PICK i, all, entries : i = TextIndex(id) /\ all = WithText(id) /\ Opened(i, Text, all, entries)
    BY TextOpened
<1>2. /\ all \in Seq(Part) /\ entries \in Seq(Entry) /\ Len(entries) = Len(all)
      /\ i \in 1..Len(all) /\ all[i] \in Part /\ entries[i] \in Entry
      /\ Faithful(all[i], entries[i])
    BY <1>1, OpenedIsFaithful
<1>kind. all[i].kind = "text"
    BY <1>1, OpenedIsFaithful, FreshIsFaithful, TextOpened DEF Opened
<1>3. PICK p, h : p = Longer(all[i], 1) /\ h = Grown(entries[i], 1)
    OBVIOUS
<1>4. p \in Part /\ h \in Entry /\ p.kind = "text" /\ Faithful(p, h)
  <2>1. 1 \in {0, 1}
      OBVIOUS
  <2>2. QED
      BY <1>2, <1>kind, <1>3, <2>1, Growth
<1>5. content' = [all EXCEPT ![i] = p]
    BY <1>1, <1>3 DEF TextDelta
<1>6. Len(content') = Len(all)
    BY <1>2, <1>4, <1>5, ExceptSeq
<1>7. history' = [entries EXCEPT ![i] = h]
    BY <1>1, <1>3, <1>6, HistoryFollows DEF TextDelta
<1>8. Only(i, p, h)
    BY <1>1, <1>4, <1>5, <1>7, SetsOnly
<1>9. QED
    BY <1>1, <1>4, <1>8, TextOpened, TextStep DEF TextDelta

\* A text end only forgets the id's part.
LEMMA TextEndKept ==
    ASSUME Assembled, Blocks, req' = req, NEW id \in Ids, TextEnd(id)
    PROVE  Assembled' /\ Blocks'
<1>1. UNCHANGED <<req, content, history, reasoning, reasoningParts>>
    BY DEF TextEnd
<1>2. Assembled'
    BY <1>1 DEF Assembled, Faithful
<1>3. textParts' \in [Ids -> 0..Len(content)]
    BY IdTypes DEF TextEnd, Blocks
<1>4. ASSUME NEW other \in Ids PROVE TextBlock(other)' /\ ReasoningBlock(other)'
    BY <1>1, IdTypes DEF TextEnd, TextBlock, ReasoningBlock, Blocks
<1>5. QED
    BY <1>1, <1>2, <1>3, <1>4 DEF Blocks

\* A reasoning start always adds a part, which the id now has.
LEMMA ReasoningStartKept ==
    ASSUME Assembled, Blocks, NEW id \in Ids, ReasoningStart(id)
    PROVE  Assembled' /\ Blocks'
<1>1. PICK i, all, entries :
         /\ i = Len(content) + 1 /\ all = Append(content, Thought)
         /\ entries = Append(history, FreshHistory) /\ Opened(i, Thought, all, entries)
    BY DEF Opened
<1>2. /\ all \in Seq(Part) /\ entries \in Seq(Entry) /\ Len(entries) = Len(all)
      /\ i \in 1..Len(all) /\ (i = Len(content) + 1 => all[i] = Thought /\ entries[i] = FreshHistory)
  <2>1. Opened(i, Thought, all, entries) /\ Thought \in {Text, Thought}
      BY <1>1
  <2>2. QED
      BY <2>1, OpenedIsFaithful
<1>3. content' = all /\ history' = entries
    BY <1>1, HistoryFollows DEF ReasoningStart
<1>4. content' = [all EXCEPT ![i] = Thought] /\ history' = [entries EXCEPT ![i] = FreshHistory]
  <2>1. all[i] = Thought /\ entries[i] = FreshHistory
      BY <1>1, <1>2
  <2>2. QED
      BY <1>2, <1>3, <2>1
<1>5. Only(i, Thought, FreshHistory)
    BY <1>1, <1>4, SetsOnly, FreshIsFaithful
<1>6. reasoning' = [reasoning EXCEPT ![id] = 0] /\ reasoningParts' = [reasoningParts EXCEPT ![id] = i]
    BY <1>1 DEF ReasoningStart, Next1
<1>7. textParts' = textParts /\ req' = req
    BY DEF ReasoningStart
<1>8. /\ Faithful(Thought, FreshHistory) /\ Thought.kind = "thought"
      /\ FreshHistory.received = 0 /\ FreshHistory.ends = 0
    BY FreshIsFaithful
<1>9. PICK b : b = 0 /\ b \in Nat \cup {-1} /\ b # -1
    OBVIOUS
<1>10. (i = reasoningParts[id] /\ i # 0) \/ i = Len(content) + 1
    BY <1>1
<1>11. QED
  <2>1. reasoning' = [reasoning EXCEPT ![id] = b]
      BY <1>6, <1>9
  <2>2. reasoningParts' = [reasoningParts EXCEPT ![id] = i]
      BY <1>6
  <2>3. /\ b \in Nat \cup {-1} /\ b # -1
        /\ Faithful(Thought, FreshHistory) /\ Thought.kind = "thought"
        /\ FreshHistory.received = b /\ FreshHistory.ends = 0
      BY <1>8, <1>9
  <2>4. QED
      BY <1>5, <1>7, <1>10, <2>1, <2>2, <2>3, ReasoningStep

\* The part a reasoning delta finds has not ended, and the builder is level
\* with it.
LEMMA ReasoningOpened ==
    ASSUME Assembled, Blocks, NEW id \in Ids
    PROVE  /\ Opened(ReasoningIndex(id), Thought, WithReasoning(id),
                     IF reasoning[id] # -1 THEN history ELSE Append(history, FreshHistory))
           /\ \/ /\ ReasoningIndex(id) = reasoningParts[id] /\ reasoningParts[id] # 0
                 /\ reasoning[id] \in Nat /\ reasoning[id] # -1
                 /\ content[reasoningParts[id]].kind = "thought"
                 /\ history[reasoningParts[id]].received = reasoning[id]
                 /\ history[reasoningParts[id]].ends = 0
                 /\ reasoningParts[id] # Len(content) + 1
              \/ ReasoningIndex(id) = Len(content) + 1 /\ reasoning[id] = -1
BY IdTypes DEF Opened, ReasoningIndex, WithReasoning, Next1, ReasoningBlock

\* A reasoning delta goes to the builder, the part and what is shown alike.
LEMMA ReasoningDeltaKept ==
    ASSUME Assembled, Blocks, req \in [streaming : BOOLEAN, thoughts : BOOLEAN],
           NEW id \in Ids, ReasoningDelta(id)
    PROVE  Assembled' /\ Blocks'
<1>1. PICK i, all, entries :
         i = ReasoningIndex(id) /\ all = WithReasoning(id) /\ Opened(i, Thought, all, entries)
    BY ReasoningOpened
<1>2. /\ all \in Seq(Part) /\ entries \in Seq(Entry) /\ Len(entries) = Len(all)
      /\ i \in 1..Len(all) /\ all[i] \in Part /\ entries[i] \in Entry
      /\ Faithful(all[i], entries[i])
    BY <1>1, OpenedIsFaithful
<1>3. PICK b : b = IF reasoning[id] = -1 THEN 1 ELSE reasoning[id] + 1
    OBVIOUS
<1>4. /\ all[i].kind = "thought" /\ entries[i].ends = 0 /\ entries[i].received + 1 = b
      /\ b \in Nat
      /\ (i = reasoningParts[id] /\ i # 0) \/ i = Len(content) + 1
    BY <1>1, <1>3, OpenedIsFaithful, FreshIsFaithful, ReasoningOpened
<1>5. PICK n : n = IF req.thoughts THEN 1 ELSE 0
    OBVIOUS
<1>6. PICK p, h : p = Longer(all[i], n) /\ h = Grown(entries[i], n)
    OBVIOUS
<1>7. n \in {0, 1} /\ (req.thoughts => n = 1)
    BY <1>5
<1>8. /\ p \in Part /\ h \in Entry /\ p.kind = "thought" /\ Faithful(p, h)
      /\ h.received = b /\ h.ends = 0
    BY <1>2, <1>4, <1>6, <1>7, Growth
<1>9. content' = [all EXCEPT ![i] = p]
    BY <1>1, <1>5, <1>6 DEF ReasoningDelta
<1>10. Len(content') = Len(all)
    BY <1>2, <1>8, <1>9, ExceptSeq
<1>11. history' = [entries EXCEPT ![i] = h]
    BY <1>1, <1>5, <1>6, <1>10, HistoryFollows DEF ReasoningDelta
<1>12. Only(i, p, h)
    BY <1>1, <1>8, <1>9, <1>11, SetsOnly
<1>13. /\ reasoning' = [reasoning EXCEPT ![id] = b]
       /\ reasoningParts' = [reasoningParts EXCEPT ![id] = i]
       /\ textParts' = textParts /\ req' = req
    BY <1>1, <1>3 DEF ReasoningDelta
<1>14. b # -1 /\ b \in Nat \cup {-1}
    BY <1>4
<1>15. (i = reasoningParts[id] /\ i # 0) \/ i = Len(content) + 1
    BY <1>4
<1>16. QED
    BY <1>8, <1>12, <1>13, <1>14, <1>15, ReasoningStep

\* What the end of a block does to its part.
LEMMA Sealing ==
    ASSUME NEW a \in Part, NEW e \in Entry, Faithful(a, e), a.kind = "thought",
           NEW held \in Nat, e.ends = 0 => e.received = held,
           NEW p, p = Sealed(a, held), NEW h, h = Ended(e)
    PROVE  /\ p \in Part /\ h \in Entry /\ Faithful(p, h) /\ p.kind = "thought" /\ h.ends >= 1
<1>1. /\ a.text \in Nat /\ a.args = "none" /\ e.ends \in Nat /\ e.shown \in Nat /\ e.received \in Nat
    BY DEF Part, Entry, Faithful
<1>2. PICK text : text = IF req.thoughts THEN held ELSE a.text
    OBVIOUS
<1>3. PICK signed : signed = [a EXCEPT !.signature = held]
    OBVIOUS
<1>4. /\ signed \in Part /\ signed.kind = a.kind /\ signed.signature = held /\ signed.args = a.args
      /\ text \in Nat
    BY <1>1, <1>2, <1>3 DEF Part
<1>5. p = [signed EXCEPT !.text = text]
    BY <1>2, <1>3 DEF Sealed, Part
<1>6. /\ p \in Part /\ p.kind = "thought" /\ p.signature = held /\ p.args = "none" /\ p.text = text
    BY <1>1, <1>4, <1>5 DEF Part
<1>7. /\ h \in Entry /\ h.ends = e.ends + 1 /\ h.shown = e.shown /\ h.received = e.received
    BY <1>1 DEF Entry, Ended
<1>8. Faithful(p, h)
    BY <1>1, <1>2, <1>6, <1>7 DEF Faithful
<1>9. QED
    BY <1>1, <1>6, <1>7, <1>8

\* A reasoning end seals its part with what the builder held.
LEMMA ReasoningEndKept ==
    ASSUME Assembled, Blocks, req \in [streaming : BOOLEAN, thoughts : BOOLEAN],
           NEW id \in Ids, ReasoningEnd(id)
    PROVE  Assembled' /\ Blocks'
<1>1. PICK held, i, all, entries :
         /\ held = IF reasoning[id] = -1 THEN 0 ELSE reasoning[id]
         /\ i = IF reasoningParts[id] # 0 THEN reasoningParts[id] ELSE Len(content) + 1
         /\ all = IF reasoningParts[id] # 0 THEN content ELSE Append(content, Thought)
         /\ entries = IF reasoningParts[id] # 0 THEN history ELSE Append(history, FreshHistory)
    OBVIOUS
<1>2. /\ content' = [all EXCEPT ![i] = Sealed(@, held)]
      /\ history' = [HistoryWith(content') EXCEPT ![i] = Ended(@)]
      /\ reasoning' = [reasoning EXCEPT ![id] = -1]
      /\ UNCHANGED <<req, textParts, reasoningParts>>
    BY <1>1 DEF ReasoningEnd, Next1
<1>3. /\ held \in Nat /\ Opened(i, Thought, all, entries)
      /\ \/ /\ i = reasoningParts[id] /\ i # 0 /\ i # Len(content) + 1
            /\ content[i].kind = "thought"
            /\ history[i].ends = 0 => history[i].received = held
         \/ i = Len(content) + 1 /\ reasoningParts[id] = 0 /\ held = 0
    BY <1>1, IdTypes DEF Opened, ReasoningBlock
<1>4. /\ all \in Seq(Part) /\ entries \in Seq(Entry) /\ Len(entries) = Len(all)
      /\ i \in 1..Len(all) /\ all[i] \in Part /\ entries[i] \in Entry
      /\ Faithful(all[i], entries[i])
    BY <1>3, OpenedIsFaithful
<1>5. all[i].kind = "thought" /\ (entries[i].ends = 0 => entries[i].received = held)
    BY <1>3, OpenedIsFaithful, FreshIsFaithful
<1>6. PICK p, h : p = Sealed(all[i], held) /\ h = Ended(entries[i])
    OBVIOUS
<1>7. p \in Part /\ h \in Entry /\ Faithful(p, h) /\ p.kind = "thought" /\ h.ends >= 1
    BY <1>3, <1>4, <1>5, <1>6, Sealing
<1>8. content' = [all EXCEPT ![i] = p]
    BY <1>2, <1>6
<1>9. Len(content') = Len(all)
    BY <1>4, <1>7, <1>8, ExceptSeq
<1>10. HistoryWith(content') = entries
    BY <1>3, <1>9, HistoryFollows
<1>11. history' = [entries EXCEPT ![i] = h]
    BY <1>2, <1>6, <1>10
<1>12. Only(i, p, h)
    BY <1>3, <1>7, <1>8, <1>11, SetsOnly
<1>13. reasoningParts' = [reasoningParts EXCEPT ![id] = reasoningParts[id]]
    BY <1>2 DEF Blocks
<1>14. PICK r, b : r = reasoningParts[id] /\ b = -1
    OBVIOUS
<1>15. /\ (i = reasoningParts[id] /\ i # 0) \/ i = Len(content) + 1
       /\ r = i \/ (r = 0 /\ reasoningParts[id] = 0)
       /\ b \in Nat \cup {-1} /\ (b = -1 /\ r = i => h.ends >= 1)
       /\ b # -1 => r = i /\ h.received = b /\ h.ends = 0
    BY <1>3, <1>7, <1>14
<1>16. /\ reasoning' = [reasoning EXCEPT ![id] = b] /\ reasoningParts' = [reasoningParts EXCEPT ![id] = r]
       /\ textParts' = textParts /\ req' = req
    BY <1>2, <1>13, <1>14
<1>17. QED
    BY <1>7, <1>12, <1>15, <1>16, ReasoningStep

------------------------------------------------------------------------------
(* Calls and the pipeline *)

\* What the pipeline leaves of a part.
LEMMA Pipeline ==
    ASSUME NEW part \in Part
    PROVE  /\ Annotate(part) \in Part /\ Annotate(part).kind = part.kind
           /\ Annotate(part).args = IF part.args = "wrapped" THEN "normalised" ELSE part.args
           /\ part.args # "wrapped" => Annotate(part) = part
           /\ Restore(part).kind = part.kind /\ Restore(part).text = part.text
           /\ Restore(part).args = IF part.args = "padded" THEN "restored" ELSE part.args
BY DEF Annotate, Restore, Part, Forms

\* What a call is.
LEMMA NewCall ==
    ASSUME NEW form \in {"plain", "padded", "wrapped"}
    PROVE  /\ Call(form) \in Part /\ Call(form).kind = "call" /\ Call(form).args = form
           /\ Call(form).signature = Unsigned
<1>1. Text \in Part /\ Text.signature = Unsigned
    BY DEF Text, Part, Forms, Unsigned
<1>2. PICK call : call = [Text EXCEPT !.kind = "call"]
    OBVIOUS
<1>3. call \in Part /\ call.kind = "call" /\ call.signature = Unsigned
    BY <1>1, <1>2 DEF Part
<1>4. Call(form) = [call EXCEPT !.args = form]
    BY <1>1, <1>2 DEF Call, Part
<1>5. QED
    BY <1>3, <1>4 DEF Part, Forms

\* A call is added with the value the caller gets.
LEMMA ToolPartKept ==
    ASSUME Assembled, Blocks, NEW form \in {"plain", "padded", "wrapped"}, ToolPart(form)
    PROVE  Assembled' /\ Blocks'
<1>1. PICK i, p, h : /\ i = Len(content) + 1 /\ p = Annotate(Call(form))
                     /\ h = [FreshHistory EXCEPT !.handed = p]
    OBVIOUS
<1>2. /\ p \in Part /\ p.kind = "call" /\ p.args \in CallForms /\ p.signature = Unsigned
  <2>1. p.args \in CallForms
      BY <1>1, NewCall, Pipeline DEF CallForms
  <2>2. p.signature = Unsigned
      BY <1>1, NewCall DEF Annotate, Part
  <2>3. QED
      BY <1>1, <2>1, <2>2, NewCall, Pipeline
<1>3. h \in Entry /\ h.handed = p
    BY <1>1, <1>2, FreshIsFaithful DEF Entry
<1>4. Faithful(p, h)
    BY <1>2, <1>3 DEF Faithful
<1>5. content \in Seq(Part) /\ history \in Seq(Entry) /\ Len(history) = Len(content)
      /\ Len(content) \in Nat
    BY DEF Assembled
<1>6. content' = Append(content, p) /\ history' = Append(history, h)
    BY <1>1 DEF ToolPart
<1>7. Only(i, p, h)
    BY <1>1, <1>2, <1>3, <1>5, <1>6, AppendProperties DEF Only
<1>8. /\ UNCHANGED <<req, textParts, reasoning, reasoningParts>>
    BY DEF ToolPart
<1>9. ASSUME NEW id \in Ids
      PROVE  TextBlock(id)' /\ ReasoningBlock(id)'
  <2>1. i \notin 1..Len(content) /\ reasoningParts[id] # i
      BY <1>1, IdTypes
  <2>2. QED
      BY <1>7, <1>8, <2>1, TextKept, ReasoningKept
<1>10. Len(content') = Len(content) + 1
    BY <1>2, <1>5, <1>6, AppendProperties
<1>11. /\ textParts' \in [Ids -> 0..Len(content')]
       /\ reasoningParts' \in [Ids -> 0..Len(content')]
    BY <1>5, <1>8, <1>10 DEF Blocks
<1>12. Assembled'
    BY <1>4, <1>7, <1>8, StaysAssembled
<1>13. QED
    BY <1>8, <1>9, <1>11, <1>12 DEF Blocks

\* The pipeline has nothing left to do on the content.
LEMMA NothingToAnnotate ==
    ASSUME Assembled
    PROVE  Annotated(content) = content
<1>1. ASSUME NEW i \in 1..Len(content)
      PROVE  Annotate(content[i]) = content[i]
  <2>1. content[i] \in Part /\ Faithful(content[i], history[i])
      BY ElementOfSeq DEF Assembled
  <2>2. content[i].args # "wrapped"
      BY <2>1 DEF Faithful, CallForms, Part
  <2>3. QED
      BY <2>1, <2>2, Pipeline
<1>2. QED
    BY <1>1 DEF Assembled, Annotated

\* A complete response has only calls that can be executed.
LEMMA FinalCalls ==
    ASSUME Assembled, NEW i \in 1..Len(content), Restore(content[i]).kind = "call"
    PROVE  Restore(content[i]).args \in {"plain", "normalised", "restored"}
<1>1. content[i] \in Part /\ Faithful(content[i], history[i])
    BY ElementOfSeq DEF Assembled
<1>2. QED
    BY <1>1, Pipeline DEF Faithful, CallForms

\* So does an answer that came as a whole.
LEMMA WholeCalls ==
    ASSUME NEW part \in CompleteParts, Restore(Annotate(part)).kind = "call"
    PROVE  Restore(Annotate(part)).args \in {"plain", "normalised", "restored"}
<1>1. CASE part = Text
    BY <1>1, FreshIsFaithful, Pipeline
<1>2. CASE part = [Thought EXCEPT !.signature = 0]
  <2>1. part \in Part /\ part.kind = "thought"
      BY <1>2, FreshIsFaithful DEF Part
  <2>2. QED
      BY <2>1, Pipeline
<1>3. CASE part \in {Call(form) : form \in {"plain", "padded", "wrapped"}}
  <2>1. PICK form \in {"plain", "padded", "wrapped"} : part = Call(form)
      BY <1>3
  <2>2. part \in Part /\ part.args \in {"plain", "padded", "wrapped"}
      BY <2>1, NewCall
  <2>3. QED
      BY <2>2, Pipeline
<1>4. QED
    BY <1>1, <1>2, <1>3 DEF CompleteParts

------------------------------------------------------------------------------
(* The invariant *)

\* Where content and ids stay, what they say of each other does.
LEMMA StreamKept ==
    ASSUME Assembled, Blocks, UNCHANGED <<req, content, history>>,
           UNCHANGED <<textParts, reasoning, reasoningParts>>
    PROVE  Assembled' /\ Blocks'
<1>1. Assembled'
    BY DEF Assembled, Faithful
<1>2. ASSUME NEW id \in Ids PROVE TextBlock(id)' /\ ReasoningBlock(id)'
    BY IdTypes DEF TextBlock, ReasoningBlock
<1>3. QED
    BY <1>1, <1>2 DEF Blocks

\* An outcome that is not a complete response promises nothing.
LEMMA NoResponse ==
    ASSUME IInv, req' = req, Assembled' /\ Blocks',
           result' = Failed \/ (result' = result /\ result.kind # "final")
    PROVE  IInv'
<1>1. result'.kind # "final" /\ result'.parts = <<>>
    BY DEF IInv, Failed
<1>2. QED
    BY <1>1 DEF IInv, Resulting

\* While the adapter runs or the caller holds a partial there is no complete
\* response yet.
LEMMA NotYet ==
    ASSUME IInv, it \notin {"final", "stop", "returned"}
    PROVE  result.kind # "final"
BY DEF IInv, Resulting

\* Nothing has been received yet.
LEMMA InvInit == Init => IInv
<1> SUFFICES ASSUME Init PROVE IInv
    OBVIOUS
<1>1. /\ req \in [streaming : BOOLEAN, thoughts : BOOLEAN]
      /\ content = <<>> /\ history = <<>> /\ result.kind = "none" /\ result.parts = <<>>
    BY DEF Init, AdapterInit, NoResult
<1>2. Assembled
    BY <1>1 DEF Assembled
<1>3. /\ textParts = [id \in Ids |-> 0] /\ reasoningParts = [id \in Ids |-> 0]
      /\ reasoning = [id \in Ids |-> -1] /\ Len(content) = 0
    BY <1>1 DEF Init, AdapterInit
<1>4. Blocks
    BY <1>3 DEF Blocks, TextBlock, ReasoningBlock
<1>5. QED
    BY <1>1, <1>2, <1>4 DEF IInv, Resulting

\* The complete response of a stream is the content.
LEMMA FinishKept ==
    ASSUME IInv, Finish
    PROVE  IInv'
<1>1. content' = content
    BY NothingToAnnotate DEF Finish, IInv
<1>2. /\ UNCHANGED <<req, history, textParts, reasoning, reasoningParts>>
      /\ it' = "final" /\ result' = [kind |-> "final", parts |-> Restored(content)]
    BY <1>1 DEF Finish
<1>3. Assembled' /\ Blocks'
    BY <1>1, <1>2, StreamKept DEF IInv
<1>4. ASSUME NEW i \in DOMAIN Restored(content), Restored(content)[i].kind = "call"
      PROVE  Restored(content)[i].args \in {"plain", "normalised", "restored"}
  <2>1. i \in 1..Len(content) /\ Restored(content)[i] = Restore(content[i])
      BY <1>4 DEF Restored, IInv, Assembled
  <2>2. QED
      BY <1>4, <2>1, FinalCalls DEF IInv
<1>5. CallsAreExecutable'
    BY <1>2, <1>4 DEF CallsAreExecutable
<1>6. Resulting'
  <2>1. result'.parts = Restored(content') /\ it' = "final"
      BY <1>1, <1>2
  <2>2. QED
      BY <1>5, <2>1 DEF Resulting, Restored, Restore
<1>7. result'.kind = "final" /\ req' = req
    BY <1>2
<1>8. QED
    BY <1>3, <1>6, <1>7 DEF IInv

\* So is an answer that came as a whole.
LEMMA GenerateKept ==
    ASSUME IInv, Generate
    PROVE  IInv'
<1>1. PICK n \in 0..MaxParts : \E parts \in [1..n -> CompleteParts] :
         YieldLast("final", [kind |-> "final", parts |-> Restored(Annotated(parts))])
    BY DEF Generate
<1>2. PICK parts \in [1..n -> CompleteParts] :
         YieldLast("final", [kind |-> "final", parts |-> Restored(Annotated(parts))])
    BY <1>1
<1>3. /\ UNCHANGED <<req, content, history, textParts, reasoning, reasoningParts>>
      /\ ~req.streaming /\ it' = "final"
      /\ result' = [kind |-> "final", parts |-> Restored(Annotated(parts))]
    BY <1>2 DEF Generate, YieldLast, stream
<1>4. Assembled' /\ Blocks'
    BY <1>3, StreamKept DEF IInv
<1>5. ASSUME NEW i \in DOMAIN Restored(Annotated(parts)),
             Restored(Annotated(parts))[i].kind = "call"
      PROVE  Restored(Annotated(parts))[i].args \in {"plain", "normalised", "restored"}
  <2>1. /\ i \in 1..n /\ parts[i] \in CompleteParts
        /\ Restored(Annotated(parts))[i] = Restore(Annotate(parts[i]))
      BY <1>5 DEF Restored, Annotated
  <2>2. QED
      BY <1>5, <2>1, WholeCalls
<1>6. CallsAreExecutable'
    BY <1>3, <1>5 DEF CallsAreExecutable
<1>7. Resulting'
    BY <1>3, <1>6 DEF Resulting
<1>8. result'.kind = "final" /\ req' = req
    BY <1>3
<1>9. QED
    BY <1>4, <1>7, <1>8 DEF IInv

\* A step that leaves the stream and the outcome alone.
LEMMA ControlKept ==
    ASSUME IInv, UNCHANGED <<req, content, history, textParts, reasoning, reasoningParts, result>>,
           it' \in {"final", "stop", "returned"} \/ result.kind # "final"
    PROVE  IInv'
<1>1. Assembled' /\ Blocks'
    BY StreamKept DEF IInv
<1>2. Resulting'
    BY DEF IInv, Resulting, CallsAreExecutable, Restored, Restore
<1>3. QED
    BY <1>1, <1>2 DEF IInv

\* Every stream part and every other step keeps the invariant.
LEMMA InvNext == IInv /\ [Next]_vars => IInv'
<1> SUFFICES ASSUME IInv, [Next]_vars PROVE IInv'
    OBVIOUS
<1> USE DEF local, stream
<1>1. /\ Assembled /\ Blocks /\ req \in [streaming : BOOLEAN, thoughts : BOOLEAN]
      /\ it = "running" => result.kind # "final"
    BY NotYet DEF IInv
<1>2. CASE PrepareFails \/ PostFails \/ GenerateFails \/ StreamFails \/ EndOfStream
  <2>1. UNCHANGED <<req, content, history, textParts, reasoning, reasoningParts>>
        /\ result' = Failed
      BY <1>2 DEF PrepareFails, PostFails, GenerateFails, StreamFails, EndOfStream, YieldLast
  <2>2. QED
      BY <1>1, <2>1, StreamKept, NoResponse
<1>3. CASE Prepare \/ PostSucceeds \/ OtherPart
  <2>1. /\ UNCHANGED <<req, content, history, textParts, reasoning, reasoningParts, result>>
        /\ it = "running"
      BY <1>3 DEF Prepare, PostSucceeds, OtherPart, Receive, Running
  <2>2. QED
      BY <1>1, <2>1, ControlKept
<1>4. ASSUME NEW id \in Ids,
             \/ TextStart(id) \/ TextDelta(id) \/ TextEnd(id)
             \/ ReasoningStart(id) \/ ReasoningDelta(id) \/ ReasoningEnd(id)
      PROVE  IInv'
  <2>1. req' = req /\ result' = result /\ it = "running"
      BY <1>4 DEF TextStart, TextDelta, TextEnd, ReasoningStart, ReasoningDelta, ReasoningEnd,
                  Receive, Running
  <2>2. CASE TextStart(id)
      BY <1>1, <2>1, <2>2, TextStartKept, NoResponse
  <2>3. CASE TextDelta(id)
      BY <1>1, <2>1, <2>3, TextDeltaKept, NoResponse
  <2>4. CASE TextEnd(id)
      BY <1>1, <2>1, <2>4, TextEndKept, NoResponse
  <2>5. CASE ReasoningStart(id)
      BY <1>1, <2>1, <2>5, ReasoningStartKept, NoResponse
  <2>6. CASE ReasoningDelta(id)
      BY <1>1, <2>1, <2>6, ReasoningDeltaKept, NoResponse
  <2>7. CASE ReasoningEnd(id)
      BY <1>1, <2>1, <2>7, ReasoningEndKept, NoResponse
  <2>8. QED
      BY <1>4, <2>2, <2>3, <2>4, <2>5, <2>6, <2>7
<1>5. ASSUME NEW form \in {"plain", "padded", "wrapped"}, ToolPart(form)
      PROVE  IInv'
  <2>1. req' = req /\ result' = result /\ it = "running"
      BY <1>5 DEF ToolPart, Receive, Running
  <2>2. QED
      BY <1>1, <1>5, <2>1, ToolPartKept, NoResponse
<1>6. CASE Finish
    BY <1>6, FinishKept
<1>7. CASE Generate
    BY <1>7, GenerateKept
<1>8. CASE Return \/ Stop
  <2>1. /\ UNCHANGED <<req, content, history, textParts, reasoning, reasoningParts, result>>
        /\ it' \in {"final", "stop", "returned"}
      BY <1>8 DEF Return, Stop
  <2>2. QED
      BY <2>1, ControlKept
<1>9. CASE Start \/ Continue
  <2>1. /\ UNCHANGED <<req, content, history, textParts, reasoning, reasoningParts, result>>
        /\ it \notin {"final", "stop", "returned"}
      BY <1>9 DEF Start, Continue
  <2>2. QED
      BY <2>1, NotYet, ControlKept
<1>10. CASE ContextDies \/ Done \/ UNCHANGED vars
  <2>1. UNCHANGED <<req, content, history, textParts, reasoning, reasoningParts, result, it>>
      BY <1>10 DEF ContextDies, Done, vars
  <2>2. QED
      BY <2>1, NotYet, ControlKept
<1>11. QED
    BY <1>2, <1>3, <1>4, <1>5, <1>6, <1>7, <1>8, <1>9, <1>10
    DEF Next, Adapter, Post, Convert

\* The content stays faithful to what was received and shown, and every id to its
\* parts.
THEOREM Invariant == Spec => []IInv
BY InvInit, InvNext, PTL DEF Spec

------------------------------------------------------------------------------
(* What follows *)

\* A faithful content is what was shown.
LEMMA ShownFollows == IInv => FinalIsWhatWasShown
<1> SUFFICES ASSUME IInv, result.kind = "final", req.streaming,
                    NEW i \in DOMAIN result.parts,
                    result.parts[i].kind # "call", ~EndedTwice(i)
             PROVE  result.parts[i].text = history[i].shown
    BY DEF FinalIsWhatWasShown
<1>1. result.parts = Restored(content)
    BY DEF IInv, Resulting
<1>2. i \in 1..Len(content) /\ result.parts[i] = Restore(content[i])
    BY <1>1 DEF Restored, IInv, Assembled
<1>3. /\ content[i] \in Part /\ history[i] \in Entry /\ Faithful(content[i], history[i])
    BY <1>2, ElementOfSeq DEF IInv, Assembled
<1>4. result.parts[i].text = content[i].text /\ content[i].kind \in {"text", "thought"}
    BY <1>2, <1>3, Pipeline DEF Part
<1>5. history[i].ends <= 1
    BY <1>3 DEF EndedTwice, Entry
<1>6. QED
    BY <1>3, <1>4, <1>5 DEF Faithful

\* A complete response repeats, part for part, exactly what its partials said
\* (stream.go:130, 145, 206).
THEOREM FinalShown == Spec => []FinalIsWhatWasShown
BY Invariant, ShownFollows, PTL

\* A thought sealed once is signed with all it received.
LEMMA SignaturesFollow == IInv => SignaturesAreWhole
<1> SUFFICES ASSUME IInv, NEW i \in DOMAIN content,
                    content[i].signature # Unsigned, ~EndedTwice(i)
             PROVE  content[i].signature = history[i].received
    BY DEF SignaturesAreWhole
<1>1. /\ content[i] \in Part /\ history[i] \in Entry /\ Faithful(content[i], history[i])
    BY ElementOfSeq DEF IInv, Assembled
<1>2. history[i].ends \in {0, 1}
    BY <1>1 DEF EndedTwice, Entry
<1>3. QED
    BY <1>1, <1>2 DEF Faithful, Part

\* The reasoning state sent back on the next turn covers the whole block it was
\* sealed for (stream.go:162).
THEOREM Signatures == Spec => []SignaturesAreWhole
BY Invariant, SignaturesFollow, PTL

\* A faithful call is the one handed over.
LEMMA PartialsFollow == IInv => PartialsAreStable
<1> SUFFICES ASSUME IInv, NEW i \in DOMAIN content, content[i].kind = "call"
             PROVE  content[i] = history[i].handed
    BY DEF PartialsAreStable
<1>1. QED
    BY DEF IInv, Assembled, Faithful

\* A call the caller holds stays what it was handed, though the assembled
\* content shares it (stream.go:185, discovery/plan.go:211).
THEOREM Partials == Spec => []PartialsAreStable
BY Invariant, PartialsFollow, PTL

\* Only a complete response has parts, and its calls are executable.
LEMMA ExecutableFollows == IInv => CallsAreExecutable
<1> SUFFICES ASSUME IInv PROVE CallsAreExecutable
    OBVIOUS
<1>1. CASE result.kind = "final"
    BY <1>1 DEF IInv, Resulting
<1>2. CASE result.kind # "final"
    BY <1>2 DEF IInv, CallsAreExecutable
<1>3. QED
    BY <1>1, <1>2

\* The calls of a complete response can be executed as they are: normalised
\* once and without placeholders (stream.go:206, toolschema/optional.go:196).
THEOREM Executable == Spec => []CallsAreExecutable
BY Invariant, ExecutableFollows, PTL

=============================================================================
