-------------------------- MODULE OpenAIAdapter_proofs --------------------------
(***************************************************************************)
(* Proofs about one call of an OpenAI model, for any number of items,      *)
(* events, calls and chunks: the calls handed over in a Responses stream   *)
(* are their own, as long as the provider names its items (the run         *)
(* openai_buffer shows that the condition is needed); either API keeps to  *)
(* the contract with the caller; what is kept is what was shown, except    *)
(* that Responses never shows a refusal; and no call cut short in its      *)
(* arguments is handed over.                                               *)
(***************************************************************************)
EXTENDS OpenAIAdapter, TLAPS, SequenceTheorems

\* The provider gives every output item an id.
ItemsAreNamed == "" \notin ItemIds

\* Output items, without the bound on their deltas.
AnyItem == [kind : Kinds, id : ItemIds, deltas : Nat, refusal : Nat, status : Statuses]

\* What the proof needs of the types.
Shape ==
    /\ output \in Seq(AnyItem)
    /\ functionArgs \in [Slots -> Seq(Nat)]
    /\ identity \in [Slots -> Nat]
    /\ pc \in {"prepare", "request", "reading", "exit"}

\* Nothing is known before the stream is read.
NothingYet ==
    pc \in {"prepare", "request"} =>
        /\ output = <<>> /\ calls = {}
        /\ \A id \in ItemIds : functionArgs[id] = <<>>

\* While it is read an id names one item, the builder of an id no item has is
\* empty, and a call in progress is known by its id with what was sent for it.
BooksAgree ==
    pc = "reading" =>
        /\ \A i, j \in DOMAIN output : output[i].id = output[j].id => i = j
        /\ \A id \in ItemIds :
              (\A i \in DOMAIN output : output[i].id # id) => functionArgs[id] = <<>>
        /\ \A i \in DOMAIN output :
              InProgress(i, "call") =>
                  functionArgs[output[i].id] = Sent(i) /\ identity[output[i].id] = i

\* A call that was handed over is finished: nothing more is sent for it.
CallsAreFinished ==
    \A c \in calls :
        /\ c.item \in DOMAIN output
        /\ output[c.item].status = "completed"
        /\ c.args = Sent(c.item)
        /\ c.named = c.item

IInv == Shape /\ NothingYet /\ BooksAgree /\ CallsAreFinished

\* A builder that holds what was sent for an item still does after one more
\* delta.
LEMMA OneMore ==
    ASSUME NEW n \in Nat, NEW i
    PROVE  Append([k \in 1..n |-> i], i) = [k \in 1..(n + 1) |-> i]
OBVIOUS

\* Nothing but one item changes, and that one keeps its kind and id.
Updated(out, i, new) ==
    /\ new \in Seq(AnyItem)
    /\ DOMAIN new = DOMAIN out
    /\ \A j \in DOMAIN out : j # i => new[j] = out[j]
    /\ new[i].kind = out[i].kind
    /\ new[i].id = out[i].id

\* An item is an index of a sequence with the fields it should have.
LEMMA ItemFields ==
    ASSUME NEW out \in Seq(AnyItem), NEW i \in DOMAIN out
    PROVE  /\ i \in Nat
           /\ out[i] \in AnyItem
           /\ out[i].kind \in Kinds /\ out[i].id \in ItemIds
           /\ out[i].deltas \in Nat /\ out[i].refusal \in Nat /\ out[i].status \in Statuses
<1>1. out[i] \in AnyItem /\ i \in Nat
    OBVIOUS
<1>2. QED
    BY <1>1 DEF AnyItem

\* A sequence with one element replaced.
LEMMA ReplaceItem ==
    ASSUME NEW out \in Seq(AnyItem), NEW i \in DOMAIN out, NEW e \in AnyItem
    PROVE  /\ [out EXCEPT ![i] = e] \in Seq(AnyItem)
           /\ DOMAIN [out EXCEPT ![i] = e] = DOMAIN out
           /\ [out EXCEPT ![i] = e][i] = e
           /\ \A j \in DOMAIN out : j # i => [out EXCEPT ![i] = e][j] = out[j]
OBVIOUS

\* Items stay items when a field gets a new value of its kind.
LEMMA ChangedItem ==
    ASSUME NEW x \in AnyItem, NEW n \in Nat
    PROVE  /\ [x EXCEPT !.deltas = n] \in AnyItem
           /\ [x EXCEPT !.deltas = n].deltas = n
           /\ [x EXCEPT !.deltas = n].kind = x.kind
           /\ [x EXCEPT !.deltas = n].id = x.id
           /\ [x EXCEPT !.deltas = n].status = x.status
           /\ [x EXCEPT !.refusal = n] \in AnyItem
           /\ [x EXCEPT !.refusal = n].deltas = x.deltas
           /\ [x EXCEPT !.refusal = n].kind = x.kind
           /\ [x EXCEPT !.refusal = n].id = x.id
           /\ [x EXCEPT !.refusal = n].status = x.status
           /\ [x EXCEPT !.status = "completed"] \in AnyItem
           /\ [x EXCEPT !.status = "completed"].status = "completed"
           /\ [x EXCEPT !.status = "completed"].kind = x.kind
           /\ [x EXCEPT !.status = "completed"].id = x.id
           /\ [x EXCEPT !.status = "completed"].deltas = x.deltas
BY DEF AnyItem, Statuses

\* A sequence with one element added.
LEMMA AddItem ==
    ASSUME NEW out \in Seq(AnyItem), NEW e \in AnyItem
    PROVE  /\ Append(out, e) \in Seq(AnyItem)
           /\ Len(Append(out, e)) = Len(out) + 1 /\ Len(out) + 1 \in Nat
           /\ DOMAIN Append(out, e) = 1..(Len(out) + 1)
           /\ DOMAIN out = 1..Len(out)
           /\ Append(out, e)[Len(out) + 1] = e
           /\ \A i \in DOMAIN out : Append(out, e)[i] = out[i]
OBVIOUS

\* One more delta.
LEMMA DeltaUpdates ==
    ASSUME NEW out \in Seq(AnyItem), NEW i \in DOMAIN out,
           NEW new, new = [out EXCEPT ![i].deltas = @ + 1]
    PROVE  /\ Updated(out, i, new)
           /\ new[i].deltas = out[i].deltas + 1
           /\ new[i].status = out[i].status
<1> DEFINE e == [out[i] EXCEPT !.deltas = out[i].deltas + 1]
<1>1. out[i] \in AnyItem /\ out[i].deltas \in Nat /\ out[i].deltas + 1 \in Nat
    BY ItemFields
<1>2. /\ e \in AnyItem /\ e.kind = out[i].kind /\ e.id = out[i].id
      /\ e.deltas = out[i].deltas + 1 /\ e.status = out[i].status
    BY <1>1, ChangedItem
<1>3. new = [out EXCEPT ![i] = e]
    OBVIOUS
<1> HIDE DEF e
<1>4. QED
    BY <1>2, <1>3, ReplaceItem DEF Updated

\* One more delta of a refusal.
LEMMA RefusalUpdates ==
    ASSUME NEW out \in Seq(AnyItem), NEW i \in DOMAIN out,
           NEW new, new = [out EXCEPT ![i].refusal = @ + 1]
    PROVE  /\ Updated(out, i, new)
           /\ new[i].deltas = out[i].deltas
           /\ new[i].status = out[i].status
<1> DEFINE e == [out[i] EXCEPT !.refusal = out[i].refusal + 1]
<1>1. out[i] \in AnyItem /\ out[i].refusal \in Nat /\ out[i].refusal + 1 \in Nat
    BY ItemFields
<1>2. /\ e \in AnyItem /\ e.kind = out[i].kind /\ e.id = out[i].id
      /\ e.deltas = out[i].deltas /\ e.status = out[i].status
    BY <1>1, ChangedItem
<1>3. new = [out EXCEPT ![i] = e]
    OBVIOUS
<1> HIDE DEF e
<1>4. /\ new \in Seq(AnyItem) /\ DOMAIN new = DOMAIN out /\ new[i] = e
      /\ \A j \in DOMAIN out : j # i => new[j] = out[j]
    BY <1>2, <1>3, ReplaceItem
<1>5. QED
    BY <1>2, <1>4 DEF Updated

\* The end of an item.
LEMMA DoneUpdates ==
    ASSUME NEW out \in Seq(AnyItem), NEW i \in DOMAIN out,
           NEW new, new = [out EXCEPT ![i].status = "completed"]
    PROVE  /\ Updated(out, i, new)
           /\ new[i].deltas = out[i].deltas
           /\ new[i].status = "completed"
<1> DEFINE e == [out[i] EXCEPT !.status = "completed"]
<1>1. out[i] \in AnyItem
    BY ItemFields
<1>2. /\ e \in AnyItem /\ e.kind = out[i].kind /\ e.id = out[i].id
      /\ e.deltas = out[i].deltas /\ e.status = "completed"
    BY <1>1, ChangedItem
<1>3. new = [out EXCEPT ![i] = e]
    OBVIOUS
<1> HIDE DEF e
<1>4. /\ new \in Seq(AnyItem) /\ DOMAIN new = DOMAIN out /\ new[i] = e
      /\ \A j \in DOMAIN out : j # i => new[j] = out[j]
    BY <1>2, <1>3, ReplaceItem
<1>5. QED
    BY <1>2, <1>4 DEF Updated

\* The adapter starts with empty books.
LEMMA InitIInv == Init => IInv
<1> SUFFICES ASSUME Init PROVE IInv
    OBVIOUS
<1>1. Shape
    BY DEF Init, Shape, AnyItem
<1>2. QED
    BY <1>1 DEF Init, IInv, NothingYet, BooksAgree, CallsAreFinished, Slots

\* A delta for an item that is not a call: neither builders nor what was sent
\* for calls change.
LEMMA OtherDeltaIInv ==
    ASSUME IInv, pc = "reading", NEW i \in DOMAIN output, output[i].status = "in_progress",
           output[i].kind # "call", Updated(output, i, output'),
           UNCHANGED <<pc, translator, calls>>
    PROVE  IInv'
<1> USE DEF IInv
<1>1. /\ DOMAIN output' = DOMAIN output
      /\ output' \in Seq(AnyItem)
      /\ \A j \in DOMAIN output : /\ output'[j].id = output[j].id
                                  /\ output'[j].kind = output[j].kind
                                  /\ j # i => output'[j] = output[j]
    BY DEF Updated
<1>2. UNCHANGED <<functionArgs, identity, calls, pc>>
    BY DEF translator
<1>3. Shape' /\ NothingYet'
    BY <1>1, <1>2 DEF Shape, NothingYet
<1>4. \A j \in DOMAIN output : j # i => Sent(j)' = Sent(j)
    BY <1>1 DEF Sent
<1>5. \A j \in DOMAIN output : InProgress(j, "call")' => j # i /\ InProgress(j, "call")
    BY <1>1 DEF InProgress
<1>6. BooksAgree'
    BY <1>1, <1>2, <1>4, <1>5 DEF BooksAgree
<1>7. CallsAreFinished'
    <2>1. \A c \in calls : c.item # i
        BY DEF CallsAreFinished
    <2>2. QED
        BY <1>1, <1>2, <1>4, <2>1 DEF CallsAreFinished
<1>8. QED
    BY <1>3, <1>6, <1>7

\* One more delta of a call's arguments goes to the builder of its id.
LEMMA ArgumentsDeltaIInv ==
    ASSUME IInv, ItemsAreNamed, NEW i \in DOMAIN output, ArgumentsDelta(i)
    PROVE  IInv'
<1> USE DEF IInv
<1> DEFINE id == output[i].id
<1>1. /\ pc = "reading" /\ pc' = pc /\ InProgress(i, "call")
      /\ output' = [output EXCEPT ![i].deltas = @ + 1]
      /\ functionArgs' = [functionArgs EXCEPT ![Slot(id)] = Append(@, i)]
      /\ UNCHANGED <<identity, calls>>
    BY DEF ArgumentsDelta, Receive, Running, history
<1>2. output \in Seq(AnyItem) /\ functionArgs \in [Slots -> Seq(Nat)]
    BY DEF Shape
<1>3. id \in ItemIds /\ i \in Nat /\ output[i].deltas \in Nat
    BY <1>2, ItemFields
<1>4. id \in Slots /\ Slot(id) = id
    BY <1>3 DEF Slot, Slots, ItemsAreNamed
<1>5. /\ DOMAIN output' = DOMAIN output
      /\ output' \in Seq(AnyItem)
      /\ output'[i].deltas = output[i].deltas + 1
      /\ \A j \in DOMAIN output : /\ output'[j].id = output[j].id
                                  /\ output'[j].kind = output[j].kind
                                  /\ output'[j].status = output[j].status
                                  /\ j # i => output'[j] = output[j]
    <2>1. /\ Updated(output, i, output')
          /\ output'[i].deltas = output[i].deltas + 1
          /\ output'[i].status = output[i].status
        BY <1>1, <1>2, DeltaUpdates
    <2>2. QED
        BY <2>1 DEF Updated
<1> HIDE DEF id
<1>6. /\ functionArgs' \in [Slots -> Seq(Nat)]
      /\ functionArgs'[id] = Append(functionArgs[id], i)
      /\ \A x \in Slots : x # id => functionArgs'[x] = functionArgs[x]
    BY <1>1, <1>2, <1>3, <1>4
<1>7. Shape' /\ NothingYet'
    BY <1>1, <1>5, <1>6 DEF Shape, NothingYet
<1>8. functionArgs'[id] = Sent(i)'
    <2>1. functionArgs[id] = Sent(i)
        BY <1>1 DEF BooksAgree, id
    <2>2. Append(Sent(i), i) = Sent(i)'
        BY <1>3, <1>5, OneMore DEF Sent
    <2>3. QED
        BY <1>6, <2>1, <2>2
<1>9. \A j \in DOMAIN output : j # i => output[j].id # id /\ Sent(j)' = Sent(j)
    BY <1>1, <1>5 DEF BooksAgree, Sent, id
<1>10. \A j \in DOMAIN output : output[j].id \in Slots
    BY <1>2, ItemFields DEF Slots
<1>11. BooksAgree'
    <2>1. \A j, k \in DOMAIN output' : output'[j].id = output'[k].id => j = k
        BY <1>1, <1>5 DEF BooksAgree
    <2>2. ASSUME NEW x \in ItemIds, \A j \in DOMAIN output' : output'[j].id # x
          PROVE  functionArgs'[x] = <<>>
        <3>1. x # id /\ x \in Slots /\ \A j \in DOMAIN output : output[j].id # x
            BY <1>5, <2>2 DEF Slots, id
        <3>2. QED
            BY <1>1, <1>6, <3>1 DEF BooksAgree
    <2>3. ASSUME NEW j \in DOMAIN output, InProgress(j, "call")'
          PROVE  functionArgs'[output'[j].id] = Sent(j)' /\ identity'[output'[j].id] = j
        <3>1. InProgress(j, "call") /\ output'[j].id = output[j].id
            BY <1>5, <2>3 DEF InProgress
        <3>2. functionArgs[output[j].id] = Sent(j) /\ identity[output[j].id] = j
            BY <1>1, <3>1 DEF BooksAgree
        <3>3. CASE j = i
            BY <1>1, <1>8, <3>1, <3>2, <3>3 DEF id
        <3>4. CASE j # i
            BY <1>1, <1>6, <1>9, <1>10, <3>1, <3>2, <3>4
        <3>5. QED
            BY <3>3, <3>4
    <2>4. QED
        BY <1>5, <2>1, <2>2, <2>3 DEF BooksAgree
<1>12. CallsAreFinished'
    <2>1. \A c \in calls : c.item # i
        BY <1>1 DEF CallsAreFinished, InProgress
    <2>2. QED
        BY <1>1, <1>5, <1>9, <2>1 DEF CallsAreFinished
<1>13. QED
    BY <1>7, <1>11, <1>12

\* A finished call is handed over with what its builder holds, under its own
\* identity.
LEMMA ArgumentsDoneIInv ==
    ASSUME IInv, ItemsAreNamed, NEW i \in DOMAIN output, NEW repeated \in BOOLEAN,
           ArgumentsDone(i, repeated)
    PROVE  IInv'
<1> USE DEF IInv
<1> DEFINE id == output[i].id
           call == [item |-> i, named |-> identity[id],
                    args |-> IF repeated THEN Sent(i) ELSE Buffered(id)]
<1>1. output \in Seq(AnyItem) /\ functionArgs \in [Slots -> Seq(Nat)] /\ identity \in [Slots -> Nat]
    BY DEF Shape
<1>2. id \in ItemIds /\ id \in Slots /\ id # "" /\ i \in Nat
    BY <1>1, ItemFields DEF Slots, ItemsAreNamed
<1>3. /\ pc = "reading" /\ pc' = pc /\ InProgress(i, "call")
      /\ output' = [output EXCEPT ![i].status = "completed"]
      /\ functionArgs' = [functionArgs EXCEPT ![id] = <<>>]
      /\ identity' = [identity EXCEPT ![id] = 0]
      /\ calls' = calls \cup {call}
    BY <1>2 DEF ArgumentsDone, Receive, Running, Dropped
<1>4. call.item = i /\ call.named = i /\ call.args = Sent(i)
    BY <1>2, <1>3 DEF BooksAgree, Buffered
<1> HIDE DEF call
<1>5. /\ DOMAIN output' = DOMAIN output
      /\ output' \in Seq(AnyItem)
      /\ output'[i].status = "completed"
      /\ \A j \in DOMAIN output : /\ output'[j].id = output[j].id
                                  /\ output'[j].deltas = output[j].deltas
                                  /\ j # i => output'[j] = output[j]
    <2>1. /\ Updated(output, i, output')
          /\ output'[i].deltas = output[i].deltas
          /\ output'[i].status = "completed"
        BY <1>1, <1>3, DoneUpdates
    <2>2. QED
        BY <2>1 DEF Updated
<1> HIDE DEF id
<1>6. /\ functionArgs' \in [Slots -> Seq(Nat)] /\ identity' \in [Slots -> Nat]
      /\ functionArgs'[id] = <<>>
      /\ \A x \in Slots : x # id => /\ functionArgs'[x] = functionArgs[x]
                                    /\ identity'[x] = identity[x]
    <2>1. 0 \in Nat /\ <<>> \in Seq(Nat)
        OBVIOUS
    <2>2. QED
        BY <1>1, <1>2, <1>3, <2>1
<1>7. Shape' /\ NothingYet'
    BY <1>3, <1>5, <1>6 DEF Shape, NothingYet
<1>8. \A j \in DOMAIN output : /\ j # i => output[j].id # id /\ output[j].id \in Slots
                              /\ Sent(j)' = Sent(j)
    BY <1>1, <1>3, <1>5, ItemFields DEF BooksAgree, Slots, Sent, id
<1>9. BooksAgree'
    <2>1. \A j, k \in DOMAIN output' : output'[j].id = output'[k].id => j = k
        BY <1>3, <1>5 DEF BooksAgree
    <2>2. ASSUME NEW x \in ItemIds, \A j \in DOMAIN output' : output'[j].id # x
          PROVE  functionArgs'[x] = <<>>
        <3>1. x \in Slots /\ \A j \in DOMAIN output : output[j].id # x
            BY <1>5, <2>2 DEF Slots
        <3>2. QED
            BY <1>3, <1>6, <3>1 DEF BooksAgree
    <2>3. ASSUME NEW j \in DOMAIN output, InProgress(j, "call")'
          PROVE  functionArgs'[output'[j].id] = Sent(j)' /\ identity'[output'[j].id] = j
        <3>1. j # i
            BY <1>5, <2>3 DEF InProgress
        <3>2. InProgress(j, "call") /\ output'[j] = output[j]
            BY <1>5, <2>3, <3>1 DEF InProgress
        <3>3. functionArgs[output[j].id] = Sent(j) /\ identity[output[j].id] = j
            BY <1>3, <3>2 DEF BooksAgree
        <3>4. QED
            BY <1>6, <1>8, <3>1, <3>2, <3>3
    <2>4. QED
        BY <1>5, <2>1, <2>2, <2>3 DEF BooksAgree
<1>10. CallsAreFinished'
    <2>1. ASSUME NEW c \in calls
          PROVE  c.item \in DOMAIN output /\ output'[c.item].status = "completed"
                 /\ c.args = Sent(c.item)' /\ c.named = c.item
        <3>1. /\ c.item \in DOMAIN output /\ output[c.item].status = "completed"
              /\ c.args = Sent(c.item) /\ c.named = c.item
            BY DEF CallsAreFinished
        <3>2. Sent(c.item)' = Sent(c.item)
            BY <1>8, <3>1
        <3>3. output'[c.item].status = "completed"
            BY <1>5, <3>1
        <3>4. QED
            BY <3>1, <3>2, <3>3
    <2>2. Sent(i)' = Sent(i)
        BY <1>8
    <2>3. /\ call.item = i /\ call.args = Sent(i)' /\ call.named = i
          /\ i \in DOMAIN output' /\ output'[i].status = "completed"
        BY <1>4, <1>5, <2>2
    <2>4. SUFFICES ASSUME NEW c \in calls'
                   PROVE  /\ c.item \in DOMAIN output'
                          /\ output'[c.item].status = "completed"
                          /\ c.args = Sent(c.item)'
                          /\ c.named = c.item
        BY DEF CallsAreFinished
    <2>5. CASE c \in calls
        BY <1>5, <2>1, <2>5
    <2>6. CASE c = call
        <3>1. Sent(c.item)' = Sent(i)'
            BY <2>3, <2>6 DEF Sent
        <3>2. QED
            BY <2>3, <2>6, <3>1
    <2>7. QED
        BY <1>3, <2>5, <2>6
<1>11. QED
    BY <1>7, <1>9, <1>10

\* A new item's id is nobody else's, and nothing is buffered for it.
LEMMA ItemAddedIInv ==
    ASSUME IInv, ItemsAreNamed, NEW kind \in Kinds, NEW id \in ItemIds, ItemAdded(kind, id)
    PROVE  IInv'
<1> USE DEF IInv
<1> DEFINE n == Len(output) + 1
<1>1. /\ pc = "reading" /\ pc' = pc
      /\ id # "" /\ id \in Slots
      /\ \A i \in DOMAIN output : output[i].id # id
      /\ output' = Append(output, NewItem(kind, id))
      /\ identity' = IF kind \in {"call", "search"} THEN [identity EXCEPT ![id] = Len(output')]
                     ELSE identity
      /\ UNCHANGED <<functionArgs, calls>>
    BY DEF ItemAdded, Receive, Running, ItemsAreNamed, Slots
<1>2. /\ NewItem(kind, id) \in AnyItem
      /\ NewItem(kind, id).id = id /\ NewItem(kind, id).kind = kind
      /\ NewItem(kind, id).deltas = 0
    BY DEF NewItem, AnyItem, Statuses
<1>3. /\ output' \in Seq(AnyItem)
      /\ Len(output') = n /\ n \in Nat /\ n \in DOMAIN output'
      /\ output'[n].id = id /\ output'[n].kind = kind /\ output'[n].deltas = 0
      /\ \A i \in DOMAIN output : i \in DOMAIN output' /\ i # n /\ output'[i] = output[i]
      /\ \A i \in DOMAIN output' : i = n \/ i \in DOMAIN output
    <2>1. output \in Seq(AnyItem)
        BY DEF Shape
    <2>2. /\ output' \in Seq(AnyItem)
          /\ Len(output') = n /\ n \in Nat
          /\ DOMAIN output' = 1..n /\ DOMAIN output = 1..Len(output)
          /\ output'[n] = NewItem(kind, id)
          /\ \A i \in DOMAIN output : output'[i] = output[i]
        BY <1>1, <1>2, <2>1, AddItem
    <2>3. Len(output) \in Nat
        BY <2>1
    <2>4. /\ n \in DOMAIN output'
          /\ \A i \in DOMAIN output : i \in DOMAIN output' /\ i # n
          /\ \A i \in DOMAIN output' : i = n \/ i \in DOMAIN output
        BY <2>2, <2>3
    <2>5. QED
        BY <1>2, <2>2, <2>4
<1> HIDE DEF n
<1>4. \A i \in DOMAIN output : output[i].id \in Slots
    BY ItemFields DEF Shape, Slots
<1>5. Shape' /\ NothingYet'
    BY <1>1, <1>3 DEF Shape, NothingYet
<1>6. BooksAgree'
    <2>1. ASSUME NEW j \in DOMAIN output', NEW k \in DOMAIN output',
                 output'[j].id = output'[k].id
          PROVE  j = k
        <3>1. CASE j \in DOMAIN output /\ k \in DOMAIN output
            BY <1>1, <1>3, <2>1, <3>1 DEF BooksAgree
        <3>2. CASE j = n
            BY <1>1, <1>3, <2>1, <3>2
        <3>3. CASE k = n
            BY <1>1, <1>3, <2>1, <3>3
        <3>4. QED
            BY <1>3, <3>1, <3>2, <3>3
    <2>2. ASSUME NEW x \in ItemIds, \A j \in DOMAIN output' : output'[j].id # x
          PROVE  functionArgs'[x] = <<>>
        <3>1. \A j \in DOMAIN output : output[j].id # x
            BY <1>3, <2>2
        <3>2. QED
            BY <1>1, <3>1 DEF BooksAgree
    <2>3. ASSUME NEW j \in DOMAIN output', InProgress(j, "call")'
          PROVE  functionArgs'[output'[j].id] = Sent(j)' /\ identity'[output'[j].id] = j
        <3>1. CASE j = n
            <4>1. functionArgs[id] = <<>>
                BY <1>1 DEF BooksAgree
            <4>2. output'[j].id = id /\ output'[j].deltas = 0 /\ output'[j].kind = kind
                BY <1>3, <3>1
            <4>3. kind = "call"
                BY <2>3, <4>2 DEF InProgress
            <4>4. Sent(j)' = <<>>
                BY <4>2 DEF Sent
            <4>5. identity'[id] = n
                BY <1>1, <1>3, <4>3 DEF Shape
            <4>6. QED
                BY <1>1, <3>1, <4>1, <4>2, <4>4, <4>5
        <3>2. CASE j # n
            <4>1. j \in DOMAIN output /\ output'[j] = output[j] /\ output[j].id # id
                BY <1>1, <1>3, <3>2
            <4>2. InProgress(j, "call")
                BY <2>3, <4>1 DEF InProgress
            <4>3. functionArgs[output[j].id] = Sent(j) /\ identity[output[j].id] = j
                BY <1>1, <4>1, <4>2 DEF BooksAgree
            <4>4. identity'[output[j].id] = identity[output[j].id]
                BY <1>1, <1>4, <4>1 DEF Shape
            <4>5. QED
                BY <1>1, <4>1, <4>3, <4>4 DEF Sent
        <3>3. QED
            BY <3>1, <3>2
    <2>4. QED
        BY <2>1, <2>2, <2>3 DEF BooksAgree
<1>7. CallsAreFinished'
    <2>1. \A i \in DOMAIN output : Sent(i)' = Sent(i)
        BY <1>3 DEF Sent
    <2>2. QED
        BY <1>1, <1>3, <2>1 DEF CallsAreFinished
<1>8. QED
    BY <1>5, <1>6, <1>7

\* A step that leaves the books alone and does not go back to an earlier stage.
LEMMA IdleIInv ==
    ASSUME IInv, UNCHANGED <<output, translator, calls>>,
           pc' = pc \/ pc' = "exit" \/ (pc = "prepare" /\ pc' = "request")
               \/ (pc = "request" /\ pc' = "reading")
    PROVE  IInv'
<1> USE DEF IInv, translator
<1>1. Shape' /\ NothingYet' /\ CallsAreFinished'
    BY DEF Shape, NothingYet, CallsAreFinished, Sent
<1>2. CASE pc = "request" /\ pc' = "reading"
    BY <1>1, <1>2 DEF NothingYet, BooksAgree
<1>3. CASE ~(pc = "request" /\ pc' = "reading")
    BY <1>1, <1>3 DEF BooksAgree, InProgress, Sent
<1>4. QED
    BY <1>1, <1>2, <1>3

\* Every step keeps the books.
LEMMA StepIInv == ASSUME ItemsAreNamed, IInv, [Next]_vars PROVE IInv'
<1> USE DEF Running, Receive, YieldLast, translator, history
<1>1. ASSUME NEW kind \in Kinds, NEW id \in ItemIds, ItemAdded(kind, id) PROVE IInv'
    BY <1>1, ItemAddedIInv
<1>2. ASSUME NEW i \in DOMAIN output,
             TextDelta(i) \/ RefusalDelta(i) \/ ReasoningDelta(i) \/ ItemDone(i)
      PROVE  IInv'
    <2>1. /\ pc = "reading" /\ UNCHANGED <<pc, functionArgs, identity, calls>>
          /\ output[i].status = "in_progress" /\ output[i].kind # "call"
          /\ \/ output' = [output EXCEPT ![i].deltas = @ + 1]
             \/ output' = [output EXCEPT ![i].refusal = @ + 1]
             \/ output' = [output EXCEPT ![i].status = "completed"]
        BY <1>2 DEF TextDelta, RefusalDelta, ReasoningDelta, ItemDone, InProgress
    <2>2. Updated(output, i, output')
        BY <2>1, DeltaUpdates, RefusalUpdates, DoneUpdates DEF IInv, Shape
    <2>3. QED
        BY <2>1, <2>2, OtherDeltaIInv
<1>4. ASSUME NEW i \in DOMAIN output, ArgumentsDelta(i) PROVE IInv'
    BY <1>4, ArgumentsDeltaIInv
<1>5. ASSUME NEW i \in DOMAIN output, NEW repeated \in BOOLEAN, ArgumentsDone(i, repeated)
      PROVE  IInv'
    BY <1>5, ArgumentsDoneIInv
<1>6. CASE Generate
    <2>1. /\ pc' = "exit" /\ UNCHANGED <<functionArgs, identity, calls>>
          /\ calls = {}
        BY <1>6 DEF Generate, IInv, NothingYet
    <2>2. PICK n \in 0..MaxItems : output' \in [1..n -> WholeItems]
        BY <1>6 DEF Generate
    <2>3. WholeItems \subseteq AnyItem
        BY DEF WholeItems, AnyItem
    <2>4. output' \in Seq(AnyItem)
        BY <2>2, <2>3, BoundsAssumption
    <2>5. QED
        BY <2>1, <2>4 DEF IInv, Shape, NothingYet, BooksAgree, CallsAreFinished
<1>7. CASE PrepareFails \/ Prepare \/ RequestFails \/ Connect \/ TerminalEvent \/ OtherEvent
    BY <1>7, IdleIInv DEF PrepareFails, Prepare, RequestFails, Connect, TerminalEvent, OtherEvent
<1>8. CASE StreamFails \/ TerminalMissing \/ Complete \/ Return
    BY <1>8, IdleIInv DEF StreamFails, TerminalMissing, Complete, Return
<1>9. CASE Start \/ Continue \/ Stop \/ Done \/ UNCHANGED vars
    BY <1>9, IdleIInv DEF Start, Continue, Stop, Done, rest, vars
<1>10. QED
    BY <1>1, <1>2, <1>4, <1>5, <1>6, <1>7, <1>8, <1>9 DEF Next, Adapter, Process

\* A provider that names its items never sees a call mixed up: every call handed
\* over in the stream has its own name and id and all of its own arguments
\* (streamTranslator.emitFunctionCall), whatever the interleaving.
THEOREM CallsAreTheirOwn ==
    ASSUME ItemsAreNamed PROVE Spec => []StreamedCallsAreTheirOwn
<1>1. IInv => StreamedCallsAreTheirOwn
    BY DEF IInv, CallsAreFinished, StreamedCallsAreTheirOwn, ArgumentsAreRetrieved
<1>2. IInv /\ [Next]_vars => IInv'
    BY StepIInv
<1>3. QED
    BY InitIInv, <1>1, <1>2, PTL DEF Spec

------------------------------------------------------------------------------
(* The contract with the caller, over either API *)

\* Where iterator, functions and result stand to one another, over either API.
Control ==
    /\ api \in {"responses", "chat_completions"}
    /\ it \in Items \cup {"idle", "running", "stop", "returned"}
    /\ pc \in {"prepare", "request", "reading", "exit"}
    /\ it = "idle" => pc = "prepare"
    /\ it = "partial" => pc = "reading"
    /\ it \in {"final", "error"} => pc = "exit" /\ result.kind # "none"
    /\ it \in {"idle", "partial"} => result.kind = "none"
    /\ it = "running" => (pc = "exit" <=> result.kind # "none")

\* What one step may do to them.
Moves ==
    \/ UNCHANGED <<it, pc, result>>
    \/ /\ it = "running" /\ pc = "reading" /\ it' = "partial"
       /\ UNCHANGED <<pc, result>>
    \/ /\ it = "running" /\ pc # "exit" /\ it' \in {"final", "error"}
       /\ pc' = "exit" /\ result'.kind # "none"
    \/ /\ it = "running" /\ pc # "exit" /\ it' = "running"
       /\ pc' \in {"request", "reading"} /\ UNCHANGED result
    \/ /\ it = "stop" \/ (it = "running" /\ pc = "exit")
       /\ it' = "returned" /\ pc' = "exit" /\ UNCHANGED result
    \/ it = "idle" /\ it' = "running" /\ UNCHANGED <<pc, result>>
    \/ it \in Items /\ it' \in {"running", "stop"} /\ UNCHANGED <<pc, result>>

\* Neither converter yields the absence of a result.
LEMMA OutcomesAreNamed ==
    /\ Failed.kind # "none" /\ Chat!Failed.kind # "none"
    /\ \A items : \A outcome \in Outcome(items) : outcome.kind # "none"
    /\ \A r : \A outcome \in Chat!Outcome(r) : outcome.kind # "none"
BY DEF Failed, Chat!Failed, Outcome, Chat!Outcome

\* The steps of a call over the Responses API.
LEMMA ResponsesMoves == ASSUME Control, Next PROVE Moves /\ UNCHANGED req
<1> USE OutcomesAreNamed DEF Moves, Running, Receive, YieldLast
<1>1. CASE PrepareFails \/ Prepare \/ RequestFails \/ Generate \/ Connect
    BY <1>1 DEF PrepareFails, Prepare, RequestFails, Generate, Connect
<1>2. CASE Process
    <2>1. ASSUME NEW kind, NEW id, ItemAdded(kind, id)
          PROVE  Moves /\ UNCHANGED req
        BY <2>1 DEF ItemAdded
    <2>2. ASSUME NEW i, \/ TextDelta(i) \/ RefusalDelta(i) \/ ReasoningDelta(i)
                        \/ ArgumentsDelta(i) \/ ItemDone(i)
          PROVE  Moves /\ UNCHANGED req
        BY <2>2 DEF TextDelta, RefusalDelta, ReasoningDelta, ArgumentsDelta, ItemDone, Shown
    <2>3. ASSUME NEW i, NEW repeated, ArgumentsDone(i, repeated)
          PROVE  Moves /\ UNCHANGED req
        BY <2>3 DEF ArgumentsDone
    <2>4. CASE TerminalEvent \/ OtherEvent
        BY <2>4 DEF TerminalEvent, OtherEvent
    <2>5. QED
        BY <1>2, <2>1, <2>2, <2>3, <2>4 DEF Process
<1>3. CASE StreamFails \/ TerminalMissing \/ Complete
    BY <1>3 DEF StreamFails, TerminalMissing, Complete
<1>4. CASE Return
    BY <1>4 DEF Return
<1>5. CASE Start \/ Continue \/ Stop \/ Done
    BY <1>5 DEF Start, Continue, Stop, Done, rest, vars
<1>6. QED
    BY <1>1, <1>2, <1>3, <1>4, <1>5 DEF Next, Adapter

\* The steps of a call over the Chat Completions API.
LEMMA ChatMoves == ASSUME Control, Chat!Next PROVE Moves /\ UNCHANGED req
<1> USE OutcomesAreNamed DEF Moves, Chat!Running, Chat!Receive, Chat!YieldLast
<1>1. CASE Chat!PrepareFails \/ Chat!Prepare \/ Chat!RequestFails \/ Chat!Generate \/ Chat!Connect
    BY <1>1 DEF Chat!PrepareFails, Chat!Prepare, Chat!RequestFails, Chat!Generate, Chat!Connect
<1>2. CASE Chat!Chunk
    <2>1. ASSUME NEW text, NEW refusal, Chat!Words(text, refusal)
          PROVE  Moves /\ UNCHANGED req
        BY <2>1 DEF Chat!Words, Chat!Choice
    <2>2. ASSUME NEW i, NEW x, Chat!CallBegins \/ Chat!CallContinues(i, x) \/ Chat!FinishChunk(x)
          PROVE  Moves /\ UNCHANGED req
        BY <2>2 DEF Chat!CallBegins, Chat!CallContinues, Chat!FinishChunk, Chat!Choice
    <2>3. CASE Chat!OtherChunk
        BY <2>3 DEF Chat!OtherChunk
    <2>4. QED
        BY <1>2, <2>1, <2>2, <2>3 DEF Chat!Chunk
<1>3. CASE Chat!StreamFails \/ Chat!Complete
    BY <1>3 DEF Chat!StreamFails, Chat!Complete
<1>4. CASE Chat!Return
    BY <1>4 DEF Chat!Return
<1>5. CASE Chat!Start \/ Chat!Continue \/ Chat!Stop \/ Chat!Done
    BY <1>5 DEF Chat!Start, Chat!Continue, Chat!Stop, Chat!Done, Chat!rest, Chat!vars,
                Chat!Items, Items
<1>6. QED
    BY <1>1, <1>2, <1>3, <1>4, <1>5 DEF Chat!Next, Chat!Adapter

\* A step of the adapter is one of these, and the request stays what it is.
LEMMA AdapterMoves ==
    ASSUME Control, [AdapterNext]_adapterVars
    PROVE  Moves /\ UNCHANGED <<api, req>>
<1>1. CASE ResponsesStep
    BY <1>1, ResponsesMoves DEF ResponsesStep
<1>2. CASE ChatStep
    BY <1>2, ChatMoves DEF ChatStep
<1>3. CASE UNCHANGED adapterVars
    BY <1>3 DEF adapterVars, vars, Moves
<1>4. QED
    BY <1>1, <1>2, <1>3 DEF AdapterNext

\* The call has not begun.
LEMMA InitControl == AdapterInit => Control
BY DEF AdapterInit, Init, Control, NoResult

\* Whatever the step, iterator, functions and result stand as they should.
LEMMA StepControl == Control /\ [AdapterNext]_adapterVars => Control'
<1> SUFFICES ASSUME Control, Moves, UNCHANGED api
             PROVE  Control'
    BY AdapterMoves
<1> USE DEF Control, Items
<1>1. CASE UNCHANGED <<it, pc, result>>
    BY <1>1
<1>2. CASE ~UNCHANGED <<it, pc, result>>
    BY <1>2 DEF Moves
<1>3. QED
    BY <1>1, <1>2

\* Every step is a step of the response stream or invisible to the caller.
LEMMA StepRefines == Control /\ Control' /\ [AdapterNext]_adapterVars => [Contract!Next]_View
<1> SUFFICES ASSUME Control, Control', Moves
             PROVE  Contract!Next \/ View' = View
    BY AdapterMoves
<1> USE DEF View, Control, Items, Contract!Next, Contract!Items
<1>1. CASE UNCHANGED <<it, pc, result>>
    BY <1>1
<1>2. CASE it = "running" /\ pc # "exit" /\ it' \in Items
    BY <1>2 DEF Contract!Yield
<1>3. CASE it = "running" /\ pc # "exit" /\ it' = "running" /\ UNCHANGED result
    BY <1>3
<1>4. CASE /\ it = "stop" \/ (it = "running" /\ pc = "exit")
           /\ it' = "returned" /\ UNCHANGED result
    BY <1>4 DEF Contract!Return
<1>5. CASE it = "idle" /\ it' = "running" /\ UNCHANGED <<pc, result>>
    BY <1>5 DEF Contract!Begin
<1>6. CASE it \in Items /\ it' \in {"running", "stop"} /\ UNCHANGED <<pc, result>>
    BY <1>6 DEF Contract!More, Contract!Stop
<1>7. QED
    BY <1>1, <1>2, <1>3, <1>4, <1>5, <1>6 DEF Moves

\* Whichever API the model is configured for, a caller of GenerateContent sees
\* partial responses and then exactly one terminal item, unless it stops first: a
\* stream that just ends becomes an error (openai.go:generateStream,
\* chat.go:stream). Every step is a step of ResponseStream or invisible.
THEOREM AdapterImplementsContract == AdapterSpec => ContractHolds
<1>1. AdapterInit => Contract!Init
    BY DEF AdapterInit, Init, Contract!Init, View
<1>2. QED
    BY <1>1, InitControl, StepControl, StepRefines, PTL
       DEF AdapterSpec, ContractHolds, Contract!Spec

------------------------------------------------------------------------------
(* Calls, over either API *)

\* The books of the calls agree over either API; the chat adapter has none.
LEMMA StepBooks == ASSUME ItemsAreNamed PROVE IInv /\ [AdapterNext]_adapterVars => IInv'
<1> SUFFICES ASSUME IInv, [AdapterNext]_adapterVars
             PROVE  IInv'
    OBVIOUS
<1>1. CASE ResponsesStep
    BY <1>1, StepIInv DEF ResponsesStep
<1>2. CASE ChatStep
    <2>1. UNCHANGED <<output, translator, calls>>
        BY <1>2 DEF ChatStep, responsesVars, history
    <2>2. \/ pc' = pc \/ pc' = "exit" \/ (pc = "prepare" /\ pc' = "request")
          \/ (pc = "request" /\ pc' = "reading")
        <3> USE DEF Chat!Running, Chat!Receive, Chat!YieldLast
        <3>1. CASE Chat!PrepareFails \/ Chat!Prepare \/ Chat!RequestFails \/ Chat!Generate
                   \/ Chat!Connect
            BY <3>1 DEF Chat!PrepareFails, Chat!Prepare, Chat!RequestFails, Chat!Generate,
                        Chat!Connect
        <3>2. CASE Chat!Chunk
            BY <3>2 DEF Chat!Chunk, Chat!Words, Chat!CallBegins, Chat!CallContinues,
                        Chat!FinishChunk, Chat!OtherChunk
        <3>3. CASE Chat!StreamFails \/ Chat!Complete \/ Chat!Return
            BY <3>3 DEF Chat!StreamFails, Chat!Complete, Chat!Return
        <3>4. CASE Chat!Start \/ Chat!Continue \/ Chat!Stop \/ Chat!Done
            BY <3>4 DEF Chat!Start, Chat!Continue, Chat!Stop, Chat!Done, Chat!rest, Chat!vars
        <3>5. QED
            BY <1>2, <3>1, <3>2, <3>3, <3>4 DEF ChatStep, Chat!Next, Chat!Adapter
    <2>3. QED
        BY <2>1, <2>2, IdleIInv
<1>3. CASE UNCHANGED adapterVars
    BY <1>3, IdleIInv DEF adapterVars, vars, history
<1>4. QED
    BY <1>1, <1>2, <1>3 DEF AdapterNext

\* The same over the whole adapter: every call handed over in a stream has its
\* own name and id and all of its own arguments, whatever the interleaving
\* (openaiconvert/stream.go:emitFunctionCall).
THEOREM AdapterCallsAreTheirOwn ==
    ASSUME ItemsAreNamed PROVE AdapterSpec => []StreamedCallsAreTheirOwn
<1>1. AdapterInit => IInv
    BY InitIInv DEF AdapterInit
<1>2. IInv => StreamedCallsAreTheirOwn
    BY DEF IInv, CallsAreFinished, StreamedCallsAreTheirOwn, ArgumentsAreRetrieved
<1>3. IInv /\ [AdapterNext]_adapterVars => IInv'
    BY StepBooks
<1>4. QED
    BY <1>1, <1>2, <1>3, PTL DEF AdapterSpec

------------------------------------------------------------------------------
(* The Responses API: the complete response is what was shown *)

\* Of every message and every thought the caller may see, it has seen what there is.
ShownAgrees ==
    /\ shown \in Seq(Nat) /\ DOMAIN shown = DOMAIN output
    /\ \A i \in DOMAIN output :
          output[i].kind \in {"message", "reasoning"} => shown[i] = PartOf(output[i]).deltas

\* Items and request have their types.
OutputTyped == output \in Seq(AnyItem) /\ req \in [streaming : BOOLEAN, thoughts : BOOLEAN]

\* Output, what was shown and the result agree at every stage of the call.
ResponsesInStep ==
    /\ OutputTyped
    /\ pc \in {"prepare", "request"} => output = <<>> /\ ~ended
    /\ req.streaming => ShownAgrees
    /\ pc = "reading" => req.streaming
    /\ ended => terminal = output
    /\ result.kind = "final" => Convertible(output) /\ result.parts = Parts(output)
    /\ result.kind # "final" => result.parts = <<>>
    /\ result.kind = "final" /\ req.streaming => ended

\* The converter completes what can be converted, or fails without parts.
LEMMA OutcomeFacts ==
    ASSUME NEW items, NEW outcome \in Outcome(items)
    PROVE  /\ outcome.kind = "final" => Convertible(items) /\ outcome.parts = Parts(items)
           /\ outcome.kind # "final" => outcome.parts = <<>>
BY DEF Outcome, Failed

\* So does an error.
LEMMA FailedFacts == Failed.kind # "final" /\ Failed.parts = <<>>
BY DEF Failed

\* Nothing has been received, shown or kept.
LEMMA InitResponses == AdapterInit => ResponsesInStep
<1> SUFFICES ASSUME AdapterInit PROVE ResponsesInStep
    OBVIOUS
<1>1. /\ output = <<>> /\ pc = "prepare" /\ shown = <<>> /\ ~ended /\ terminal = <<>>
      /\ result.kind = "none" /\ result.parts = <<>>
      /\ req \in [streaming : BOOLEAN, thoughts : BOOLEAN]
    BY DEF AdapterInit, Init, NoResult
<1>2. QED
    BY <1>1 DEF ResponsesInStep, OutputTyped, ShownAgrees

\* Handing over a terminal item.
LEMMA YieldLastResponses ==
    ASSUME ResponsesInStep, NEW outcome, YieldLast(outcome),
           UNCHANGED <<req, output, shown, terminal, ended>>,
           outcome.kind = "final" => Convertible(output) /\ outcome.parts = Parts(output),
           outcome.kind # "final" => outcome.parts = <<>>,
           outcome.kind = "final" /\ req.streaming => ended
    PROVE  ResponsesInStep'
BY DEF ResponsesInStep, OutputTyped, ShownAgrees, YieldLast, Convertible, Cut, Parts, PartOf

\* One item goes on, and is shown as far as the caller may see it.
LEMMA UpdateResponses ==
    ASSUME ResponsesInStep, Control, it = "running", pc = "reading", ~ended,
           NEW i \in DOMAIN output, Updated(output, i, output'),
           UNCHANGED <<req, pc, terminal, ended, result>>,
           \/ shown' = shown /\ PartOf(output[i])'.deltas = PartOf(output[i]).deltas
           \/ shown' = shown /\ output[i].kind \notin {"message", "reasoning"}
           \/ /\ shown' = [shown EXCEPT ![i] = @ + 1]
              /\ PartOf(output[i])'.deltas = PartOf(output[i]).deltas + 1
    PROVE  ResponsesInStep'
<1>1. /\ output' \in Seq(AnyItem) /\ DOMAIN output' = DOMAIN output
      /\ output'[i].kind = output[i].kind
      /\ \A j \in DOMAIN output : j # i => output'[j] = output[j]
    BY DEF Updated
<1>2. result.kind = "none" /\ req.streaming
    BY DEF Control, ResponsesInStep
<1>3. shown \in Seq(Nat) /\ DOMAIN shown = DOMAIN output
    BY <1>2 DEF ResponsesInStep, ShownAgrees
<1>4. /\ shown' \in Seq(Nat) /\ DOMAIN shown' = DOMAIN shown
      /\ \A j \in DOMAIN output : j # i => shown'[j] = shown[j]
      /\ shown'[i] = shown[i] \/ shown'[i] = shown[i] + 1
    BY <1>3
<1>5. ASSUME NEW j \in DOMAIN output, output'[j].kind \in {"message", "reasoning"}
      PROVE  shown'[j] = PartOf(output[j])'.deltas
    <2>1. output[j].kind \in {"message", "reasoning"} /\ shown[j] = PartOf(output[j]).deltas
        BY <1>1, <1>2, <1>5 DEF ResponsesInStep, ShownAgrees
    <2>2. CASE j # i
        BY <1>1, <1>4, <2>1, <2>2 DEF PartOf
    <2>3. CASE j = i
        BY <1>3, <2>1, <2>3
    <2>4. QED
        BY <2>2, <2>3
<1>6. ShownAgrees'
    BY <1>1, <1>3, <1>4, <1>5 DEF ShownAgrees, PartOf
<1>7. QED
    BY <1>1, <1>2, <1>6 DEF ResponsesInStep, OutputTyped

\* Steps that neither receive anything nor hand over a result.
LEMMA IdleResponses ==
    ASSUME ResponsesInStep,
           UNCHANGED <<req, output, shown, terminal, ended, result>>,
           pc' \in {pc, "exit", "request"} \/ (pc' = "reading" /\ req.streaming),
           pc' = "request" => pc \in {"prepare", "request"}
    PROVE  ResponsesInStep'
BY DEF ResponsesInStep, OutputTyped, ShownAgrees, Convertible, Cut, Parts, PartOf

\* A new item has no deltas yet, and none of it has been shown.
LEMMA ItemAddedResponses ==
    ASSUME ResponsesInStep, Control, NEW kind \in Kinds, NEW id \in ItemIds,
           ItemAdded(kind, id)
    PROVE  ResponsesInStep'
<1> DEFINE e == NewItem(kind, id)
<1>1. /\ it = "running" /\ pc = "reading" /\ pc' = "reading" /\ ~ended /\ ~ended'
      /\ output' = Append(output, e) /\ shown' = Append(shown, 0)
      /\ UNCHANGED <<req, terminal, result>>
    BY DEF ItemAdded, Receive, Running
<1>2. e \in AnyItem /\ e.deltas = 0
    BY DEF NewItem, AnyItem, Statuses
<1> HIDE DEF e
<1>3. output \in Seq(AnyItem) /\ req.streaming /\ result.kind = "none"
      /\ shown \in Seq(Nat) /\ DOMAIN shown = DOMAIN output
    BY <1>1 DEF ResponsesInStep, OutputTyped, ShownAgrees, Control
<1> DEFINE n == Len(output) + 1
<1>4. /\ output' \in Seq(AnyItem)
      /\ DOMAIN output' = 1..n /\ output'[n] = e
      /\ \A i \in DOMAIN output : output'[i] = output[i]
      /\ DOMAIN output = 1..Len(output) /\ Len(output) \in Nat
    BY <1>1, <1>2, <1>3, AddItem
<1>5. Len(shown) = Len(output)
    BY <1>3
<1>6. /\ shown' \in Seq(Nat) /\ DOMAIN shown' = 1..n /\ shown'[n] = 0
      /\ \A i \in DOMAIN output : shown'[i] = shown[i]
    BY <1>1, <1>3, <1>5
<1>7. ASSUME NEW i \in DOMAIN output', output'[i].kind \in {"message", "reasoning"}
      PROVE  shown'[i] = PartOf(output[i])'.deltas
    <2>1. CASE i = n
        BY <1>2, <1>4, <1>6, <2>1 DEF PartOf
    <2>2. CASE i # n
        <3>1. i \in DOMAIN output
            BY <1>4, <2>2
        <3>2. output[i].kind \in {"message", "reasoning"} /\ output'[i] = output[i]
            BY <1>4, <1>7, <3>1
        <3>3. shown[i] = PartOf(output[i]).deltas
            BY <1>3, <3>1, <3>2 DEF ResponsesInStep, ShownAgrees
        <3>4. QED
            BY <1>1, <1>6, <3>1, <3>2, <3>3 DEF PartOf
    <2>3. QED
        BY <2>1, <2>2
<1>8. ShownAgrees'
    BY <1>4, <1>6, <1>7 DEF ShownAgrees, PartOf
<1>9. result'.kind = "none" /\ result'.parts = <<>>
    BY <1>1, <1>3 DEF ResponsesInStep
<1>10. QED
    BY <1>1, <1>3, <1>4, <1>8, <1>9 DEF ResponsesInStep, OutputTyped

\* One more delta of an item, or its end.
LEMMA ItemGoesOnResponses ==
    ASSUME ResponsesInStep, Control, NEW i \in DOMAIN output,
           \/ TextDelta(i) \/ RefusalDelta(i) \/ ReasoningDelta(i)
           \/ ArgumentsDelta(i) \/ ItemDone(i)
           \/ \E repeated \in BOOLEAN : ArgumentsDone(i, repeated)
    PROVE  ResponsesInStep'
<1>1. /\ it = "running" /\ pc = "reading" /\ ~ended
      /\ UNCHANGED <<req, pc, terminal, ended, result>>
    BY DEF TextDelta, RefusalDelta, ReasoningDelta, ArgumentsDelta, ItemDone, ArgumentsDone,
           Receive, Running, Shown, translator
<1>2. output \in Seq(AnyItem) /\ output[i] \in AnyItem
    BY ItemFields DEF ResponsesInStep, OutputTyped
<1>3. CASE TextDelta(i) \/ ReasoningDelta(i) \/ ArgumentsDelta(i)
    <2>1. output' = [output EXCEPT ![i].deltas = @ + 1]
        BY <1>3 DEF TextDelta, ReasoningDelta, ArgumentsDelta
    <2>2. Updated(output, i, output') /\ output'[i].deltas = output[i].deltas + 1
        BY <1>2, <2>1, DeltaUpdates
    <2>3. output'[i].kind = output[i].kind
        BY <2>2 DEF Updated
    <2>4. CASE TextDelta(i)
        <3>1. output[i].kind = "message" /\ shown' = [shown EXCEPT ![i] = @ + 1]
            BY <2>4 DEF TextDelta, InProgress, Shown
        <3>2. PartOf(output[i])'.deltas = PartOf(output[i]).deltas + 1
            BY <2>2, <2>3, <3>1 DEF PartOf
        <3>3. QED
            BY <1>1, <2>2, <3>1, <3>2, UpdateResponses
    <2>5. CASE ReasoningDelta(i)
        <3>1. output[i].kind = "reasoning" /\ req' = req
              /\ shown' = IF req.thoughts THEN [shown EXCEPT ![i] = @ + 1] ELSE shown
            BY <2>5 DEF ReasoningDelta, InProgress, Shown
        <3>2. CASE req.thoughts
            <4>1. PartOf(output[i])'.deltas = PartOf(output[i]).deltas + 1
                BY <2>2, <2>3, <3>1, <3>2 DEF PartOf
            <4>2. QED
                BY <1>1, <2>2, <3>1, <3>2, <4>1, UpdateResponses
        <3>3. CASE ~req.thoughts
            <4>1. PartOf(output[i])'.deltas = PartOf(output[i]).deltas
                BY <2>2, <2>3, <3>1, <3>3 DEF PartOf
            <4>2. QED
                BY <1>1, <2>2, <3>1, <3>3, <4>1, UpdateResponses
        <3>4. QED
            BY <3>2, <3>3
    <2>6. CASE ArgumentsDelta(i)
        <3>1. output[i].kind = "call" /\ shown' = shown
            BY <2>6 DEF ArgumentsDelta, InProgress, history
        <3>2. QED
            BY <1>1, <2>2, <3>1, UpdateResponses
    <2>7. QED
        BY <1>3, <2>4, <2>5, <2>6
<1>4. CASE ItemDone(i) \/ \E repeated \in BOOLEAN : ArgumentsDone(i, repeated)
    <2>1. output' = [output EXCEPT ![i].status = "completed"] /\ shown' = shown /\ req' = req
        BY <1>4 DEF ItemDone, ArgumentsDone, history
    <2>2. Updated(output, i, output') /\ output'[i].deltas = output[i].deltas
        BY <1>2, <2>1, DoneUpdates
    <2>3. output'[i].kind = output[i].kind
        BY <2>2 DEF Updated
    <2>4. PartOf(output[i])'.deltas = PartOf(output[i]).deltas
        BY <2>1, <2>2, <2>3 DEF PartOf
    <2>5. QED
        BY <1>1, <2>1, <2>2, <2>4, UpdateResponses
<1>5. CASE RefusalDelta(i)
    <2>1. output' = [output EXCEPT ![i].refusal = @ + 1] /\ shown' = shown /\ req' = req
        BY <1>5 DEF RefusalDelta, history
    <2>2. Updated(output, i, output') /\ output'[i].deltas = output[i].deltas
        BY <1>2, <2>1, RefusalUpdates
    <2>3. output'[i].kind = output[i].kind
        BY <2>2 DEF Updated
    <2>4. PartOf(output[i])'.deltas = PartOf(output[i]).deltas
        BY <2>1, <2>2, <2>3 DEF PartOf
    <2>5. QED
        BY <1>1, <2>1, <2>2, <2>4, UpdateResponses
<1>6. QED
    BY <1>3, <1>4, <1>5

\* Without streaming the whole response arrives at once.
LEMMA GenerateResponses ==
    ASSUME ResponsesInStep, Generate
    PROVE  ResponsesInStep'
<1>1. /\ pc = "request" /\ ~req.streaming
      /\ UNCHANGED <<req, terminal, ended, shown>>
    BY DEF Generate, Running, history
<1>2. PICK n \in 0..MaxItems : output' \in [1..n -> WholeItems]
    BY DEF Generate
<1>3. PICK outcome \in Outcome(output') : YieldLast(outcome)
    BY DEF Generate
<1>4. output' \in Seq(AnyItem)
    <2>1. WholeItems \subseteq AnyItem
        BY DEF WholeItems, AnyItem
    <2>2. QED
        BY <1>2, <2>1, BoundsAssumption
<1>5. /\ outcome.kind = "final" => Convertible(output)' /\ outcome.parts = Parts(output)'
      /\ outcome.kind # "final" => outcome.parts = <<>>
    <2>1. /\ outcome.kind = "final" => Convertible(output') /\ outcome.parts = Parts(output')
          /\ outcome.kind # "final" => outcome.parts = <<>>
        BY OutcomeFacts
    <2>2. Convertible(output') = Convertible(output)' /\ Parts(output') = Parts(output)'
        BY <1>1 DEF Convertible, Cut, Parts, PartOf
    <2>3. QED
        BY <2>1, <2>2
<1>6. pc' = "exit" /\ result' = outcome
    BY <1>3 DEF YieldLast
<1>7. ~ended' /\ ~req'.streaming /\ req' \in [streaming : BOOLEAN, thoughts : BOOLEAN]
    BY <1>1 DEF ResponsesInStep, OutputTyped
<1>8. QED
    BY <1>4, <1>5, <1>6, <1>7 DEF ResponsesInStep, OutputTyped

\* Every step over the Responses API.
LEMMA StepResponses ==
    ASSUME ResponsesInStep, Control, Next
    PROVE  ResponsesInStep'
<1> USE DEF Running, Receive, history
<1>1. CASE Generate
    BY <1>1, GenerateResponses
<1>2. CASE PrepareFails \/ RequestFails \/ StreamFails \/ TerminalMissing
    <2>1. YieldLast(Failed) /\ UNCHANGED <<req, output, shown, terminal, ended>>
        BY <1>2 DEF PrepareFails, RequestFails, StreamFails, TerminalMissing
    <2>2. QED
        BY <2>1, FailedFacts, YieldLastResponses
<1>3. CASE Complete
    <2>1. PICK outcome \in Outcome(terminal) : YieldLast(outcome)
        BY <1>3 DEF Complete
    <2>2. UNCHANGED <<req, output, shown, terminal, ended>> /\ terminal = output /\ ended
        BY <1>3 DEF Complete, ResponsesInStep
    <2>3. /\ outcome.kind = "final" => Convertible(output) /\ outcome.parts = Parts(output)
          /\ outcome.kind # "final" => outcome.parts = <<>>
        BY <2>1, <2>2, OutcomeFacts
    <2>4. QED
        BY <2>1, <2>2, <2>3, YieldLastResponses
<1>4. CASE Process
    <2>1. ASSUME NEW kind \in Kinds, NEW id \in ItemIds, ItemAdded(kind, id)
          PROVE  ResponsesInStep'
        BY <2>1, ItemAddedResponses
    <2>2. ASSUME NEW i \in DOMAIN output,
                 \/ TextDelta(i) \/ RefusalDelta(i) \/ ReasoningDelta(i)
                 \/ ArgumentsDelta(i) \/ ItemDone(i)
                 \/ \E repeated \in BOOLEAN : ArgumentsDone(i, repeated)
          PROVE  ResponsesInStep'
        BY <2>2, ItemGoesOnResponses
    <2>3. CASE TerminalEvent
        <3>1. /\ pc = "reading" /\ terminal' = output /\ ended'
              /\ UNCHANGED <<req, pc, output, shown, result>>
            BY <2>3 DEF TerminalEvent
        <3>2. Convertible(output)' = Convertible(output) /\ Parts(output)' = Parts(output)
            BY <3>1 DEF Convertible, Cut, Parts, PartOf
        <3>3. ShownAgrees' = ShownAgrees
            BY <3>1 DEF ShownAgrees, PartOf
        <3>4. QED
            BY <3>1, <3>2, <3>3 DEF ResponsesInStep, OutputTyped
    <2>4. CASE OtherEvent
        BY <2>4, IdleResponses DEF OtherEvent
    <2>5. QED
        BY <1>4, <2>1, <2>2, <2>3, <2>4 DEF Process
<1>5. CASE Prepare \/ Connect
    BY <1>5, IdleResponses DEF Prepare, Connect
<1>6. CASE Return
    BY <1>6, IdleResponses DEF Return
<1>7. CASE Start \/ Continue \/ Stop \/ Done
    BY <1>7, IdleResponses DEF Start, Continue, Stop, Done, rest, vars
<1>8. QED
    BY <1>1, <1>2, <1>3, <1>4, <1>5, <1>6, <1>7 DEF Next, Adapter

\* What the invariant is for.
LEMMA ResponsesAgree ==
    ASSUME ResponsesInStep PROVE FinalIsWhatWasShown /\ CutCallNeverExecutes
<1>1. FinalIsWhatWasShown
    <2>1. SUFFICES ASSUME result.kind = "final", req.streaming, NEW i \in DOMAIN result.parts
                   PROVE  /\ result.parts[i].kind \in {"message", "reasoning"} =>
                                result.parts[i].deltas = shown[i]
                          /\ result.parts[i].refusal = output[i].refusal
        BY DEF FinalIsWhatWasShown
    <2>2. result.parts = Parts(output)
        BY <2>1 DEF ResponsesInStep
    <2>3. i \in DOMAIN output /\ result.parts[i] = PartOf(output[i])
        BY <2>1, <2>2 DEF Parts
    <2>4. result.parts[i].kind = output[i].kind /\ result.parts[i].refusal = output[i].refusal
        BY <2>3 DEF PartOf
    <2>5. QED
        BY <2>1, <2>3, <2>4 DEF ResponsesInStep, ShownAgrees
<1>2. CutCallNeverExecutes
    <2>1. SUFFICES ASSUME NEW i \in DOMAIN result.parts
                   PROVE  ~Cut(result.parts[i])
        BY DEF CutCallNeverExecutes, ResponsesInStep
    <2>2. CASE result.kind = "final"
        <3>1. result.parts = Parts(output) /\ Convertible(output)
            BY <2>2 DEF ResponsesInStep
        <3>2. i \in DOMAIN output /\ result.parts[i] = PartOf(output[i]) /\ ~Cut(output[i])
            BY <2>1, <3>1 DEF Parts, Convertible
        <3>3. QED
            BY <3>2 DEF PartOf, Cut
    <2>3. CASE result.kind # "final"
        BY <2>3 DEF ResponsesInStep
    <2>4. QED
        BY <2>2, <2>3
<1>3. QED
    BY <1>1, <1>2

------------------------------------------------------------------------------
(* The Chat Completions API: the complete response is what was shown *)

\* Replies without the bounds on them.
AnyReply ==
    [text : Nat, refusal : Nat, calls : Seq(Chat!Arguments), choices : Nat,
     finish : Chat!FinishReasons \cup {""}]

\* The parts of a chat response.
AnyPart ==
    [kind : {"text", "refusal"}, deltas : Nat] \cup [kind : {"tool"}, arguments : Chat!Arguments]

\* The accumulator holds what the caller has seen, and a complete response is a
\* finished reply.
ChatInStep ==
    /\ reply \in AnyReply
    /\ seen \in [text : Nat, refusal : Nat]
    /\ req.streaming => seen.text = reply.text /\ seen.refusal = reply.refusal
    /\ result.kind = "final" =>
          Chat!Finished(reply) /\ Chat!CallsParse(reply) /\ result.parts = Chat!Parts(reply)

\* c holds what a and b hold, and nothing else.
Joins(a, b, c) ==
    /\ \A i \in DOMAIN c : \/ \E j \in DOMAIN a : c[i] = a[j]
                           \/ \E j \in DOMAIN b : c[i] = b[j]
    /\ \A j \in DOMAIN a : \E i \in DOMAIN c : c[i] = a[j]
    /\ \A j \in DOMAIN b : \E i \in DOMAIN c : c[i] = b[j]

\* What a concatenation is for.
LEMMA InEither ==
    ASSUME NEW S, NEW a \in Seq(S), NEW b \in Seq(S)
    PROVE  a \o b \in Seq(S) /\ Joins(a, b, a \o b)
<1> DEFINE c == a \o b
<1>1. /\ c \in Seq(S) /\ Len(c) = Len(a) + Len(b)
      /\ \A i \in 1..(Len(a) + Len(b)) : c[i] = IF i <= Len(a) THEN a[i] ELSE b[i - Len(a)]
    BY ConcatProperties
<1>2. /\ DOMAIN a = 1..Len(a) /\ DOMAIN b = 1..Len(b) /\ DOMAIN c = 1..(Len(a) + Len(b))
      /\ Len(a) \in Nat /\ Len(b) \in Nat
    BY <1>1
<1> HIDE DEF c
<1>3. ASSUME NEW i \in DOMAIN c
      PROVE  (\E j \in DOMAIN a : c[i] = a[j]) \/ (\E j \in DOMAIN b : c[i] = b[j])
    <2>1. CASE i <= Len(a)
        <3>1. i \in DOMAIN a /\ c[i] = a[i]
            BY <1>1, <1>2, <1>3, <2>1
        <3>2. QED
            BY <3>1
    <2>2. CASE ~(i <= Len(a))
        <3>1. i - Len(a) \in DOMAIN b /\ c[i] = b[i - Len(a)]
            BY <1>1, <1>2, <1>3, <2>2
        <3>2. QED
            BY <3>1
    <2>3. QED
        BY <2>1, <2>2
<1>4. ASSUME NEW j \in DOMAIN a PROVE \E i \in DOMAIN c : c[i] = a[j]
    <2>1. j \in DOMAIN c /\ c[j] = a[j]
        BY <1>1, <1>2, <1>4
    <2>2. QED
        BY <2>1
<1>5. ASSUME NEW j \in DOMAIN b PROVE \E i \in DOMAIN c : c[i] = b[j]
    <2>1. j + Len(a) \in DOMAIN c /\ c[j + Len(a)] = b[j]
        BY <1>1, <1>2, <1>5
    <2>2. QED
        BY <2>1
<1>6. QED
    BY <1>1, <1>3, <1>4, <1>5 DEF c, Joins

\* The parts p tell the text and the refusal of r, if it has any, and its calls.
Tells(p, r) ==
    /\ \A i \in DOMAIN p :
          \/ r.text > 0 /\ p[i] = [kind |-> "text", deltas |-> r.text]
          \/ r.refusal > 0 /\ p[i] = [kind |-> "refusal", deltas |-> r.refusal]
          \/ \E j \in DOMAIN r.calls : p[i] = [kind |-> "tool", arguments |-> r.calls[j]]
    /\ r.text > 0 => \E i \in DOMAIN p : p[i] = [kind |-> "text", deltas |-> r.text]
    /\ r.refusal > 0 => \E i \in DOMAIN p : p[i] = [kind |-> "refusal", deltas |-> r.refusal]

\* The converted parts tell the whole reply.
LEMMA PartsOfReply == ASSUME NEW r \in AnyReply PROVE Tells(Chat!Parts(r), r)
<1> DEFINE text    == [kind |-> "text", deltas |-> r.text]
           refusal == [kind |-> "refusal", deltas |-> r.refusal]
<1>1. PICK a : a = IF r.text > 0 THEN <<text>> ELSE <<>>
    OBVIOUS
<1>2. PICK b : b = IF r.refusal > 0 THEN <<refusal>> ELSE <<>>
    OBVIOUS
<1>3. PICK c : c = [i \in DOMAIN r.calls |-> [kind |-> "tool", arguments |-> r.calls[i]]]
    OBVIOUS
<1>4. Chat!Parts(r) = (a \o b) \o c
    BY <1>1, <1>2, <1>3 DEF Chat!Parts
<1>5. r.text \in Nat /\ r.refusal \in Nat /\ r.calls \in Seq(Chat!Arguments)
    BY DEF AnyReply
<1>6. text \in AnyPart /\ refusal \in AnyPart
    BY <1>5 DEF AnyPart
<1> HIDE DEF text, refusal
<1>7. a \in Seq(AnyPart) /\ b \in Seq(AnyPart)
    BY <1>1, <1>2, <1>6
<1>8. c \in Seq(AnyPart)
    <2>1. \A i \in DOMAIN r.calls : [kind |-> "tool", arguments |-> r.calls[i]] \in AnyPart
        BY <1>5 DEF AnyPart
    <2>2. PICK n \in Nat : DOMAIN r.calls = 1..n
        BY <1>5
    <2>3. c \in [1..n -> AnyPart]
        BY <1>3, <2>1, <2>2
    <2>4. QED
        BY <2>3
<1>9. PICK ab : ab = a \o b
    OBVIOUS
<1>10. PICK p : p = ab \o c
    OBVIOUS
<1>11. ab \in Seq(AnyPart) /\ Joins(a, b, ab)
    BY <1>7, <1>9, InEither
<1>12. Joins(ab, c, p)
    BY <1>8, <1>10, <1>11, InEither
<1>13. /\ \A i \in DOMAIN a : a[i] = text /\ r.text > 0
       /\ r.text > 0 => \E i \in DOMAIN a : a[i] = text
    <2>1. CASE r.text > 0
        <3>1. a = <<text>>
            BY <1>1, <2>1
        <3>2. DOMAIN a = {1} /\ a[1] = text
            BY <3>1
        <3>3. QED
            BY <2>1, <3>2
    <2>2. CASE ~(r.text > 0)
        BY <1>1, <2>2
    <2>3. QED
        BY <2>1, <2>2
<1>14. /\ \A i \in DOMAIN b : b[i] = refusal /\ r.refusal > 0
       /\ r.refusal > 0 => \E i \in DOMAIN b : b[i] = refusal
    <2>1. CASE r.refusal > 0
        <3>1. b = <<refusal>>
            BY <1>2, <2>1
        <3>2. DOMAIN b = {1} /\ b[1] = refusal
            BY <3>1
        <3>3. QED
            BY <2>1, <3>2
    <2>2. CASE ~(r.refusal > 0)
        BY <1>2, <2>2
    <2>3. QED
        BY <2>1, <2>2
<1>15. \A j \in DOMAIN c : \E k \in DOMAIN r.calls :
            c[j] = [kind |-> "tool", arguments |-> r.calls[k]]
    BY <1>3
<1>16. /\ \A i \in DOMAIN ab : (r.text > 0 /\ ab[i] = text) \/ (r.refusal > 0 /\ ab[i] = refusal)
       /\ r.text > 0 => \E i \in DOMAIN ab : ab[i] = text
       /\ r.refusal > 0 => \E i \in DOMAIN ab : ab[i] = refusal
    BY <1>11, <1>13, <1>14 DEF Joins
<1>17. ASSUME NEW i \in DOMAIN p
       PROVE  \/ r.text > 0 /\ p[i] = text
              \/ r.refusal > 0 /\ p[i] = refusal
              \/ \E k \in DOMAIN r.calls : p[i] = [kind |-> "tool", arguments |-> r.calls[k]]
    BY <1>12, <1>15, <1>16 DEF Joins
<1>18. /\ r.text > 0 => \E i \in DOMAIN p : p[i] = text
       /\ r.refusal > 0 => \E i \in DOMAIN p : p[i] = refusal
    BY <1>12, <1>16 DEF Joins
<1>19. Tells(p, r)
    BY <1>17, <1>18, Zenon DEF Tells, text, refusal
<1>20. p = Chat!Parts(r)
    BY <1>4, <1>9, <1>10
<1>21. QED
    BY <1>19, <1>20

\* What the invariant is for.
LEMMA ChatAgrees ==
    ASSUME ChatInStep PROVE Chat!ReplyIsWhatWasShown /\ Chat!OnlyFinishedRepliesComplete
<1> SUFFICES ASSUME result.kind = "final"
             PROVE  Chat!ReplyIsWhatWasShown /\ Chat!OnlyFinishedRepliesComplete
    BY DEF Chat!ReplyIsWhatWasShown, Chat!OnlyFinishedRepliesComplete
<1>1. PICK p : p = result.parts
    OBVIOUS
<1>2. reply \in AnyReply /\ p = Chat!Parts(reply) /\ Chat!CallsParse(reply)
      /\ reply.finish # "" /\ reply.text \in Nat /\ reply.refusal \in Nat
    BY <1>1 DEF ChatInStep, Chat!Finished, AnyReply
<1>3. Tells(p, reply)
    BY <1>2, PartsOfReply
<1>4. ASSUME NEW i \in DOMAIN p
      PROVE  /\ p[i].kind = "text" => reply.text > 0
             /\ p[i].kind = "refusal" => reply.refusal > 0
             /\ p[i].kind = "tool" => p[i].arguments = "whole"
    <2>1. CASE reply.text > 0 /\ p[i] = [kind |-> "text", deltas |-> reply.text]
        BY <2>1
    <2>2. CASE reply.refusal > 0 /\ p[i] = [kind |-> "refusal", deltas |-> reply.refusal]
        BY <2>2
    <2>3. CASE \E j \in DOMAIN reply.calls : p[i] = [kind |-> "tool", arguments |-> reply.calls[j]]
        <3>1. PICK j \in DOMAIN reply.calls : p[i] = [kind |-> "tool", arguments |-> reply.calls[j]]
            BY <2>3
        <3>2. reply.calls[j] = "whole"
            BY <1>2 DEF Chat!CallsParse
        <3>3. QED
            BY <3>1, <3>2
    <2>4. QED
        BY <1>3, <2>1, <2>2, <2>3 DEF Tells
<1>5. Chat!OnlyFinishedRepliesComplete
    BY <1>1, <1>2, <1>4 DEF Chat!OnlyFinishedRepliesComplete, Chat!Told
<1>6. Chat!ReplyIsWhatWasShown
    <2>1. SUFFICES ASSUME req.streaming, NEW kind \in {"text", "refusal"}
                   PROVE  IF seen[kind] = 0 THEN Chat!Told(kind) = {}
                          ELSE \E i \in Chat!Told(kind) : result.parts[i].deltas = seen[kind]
        BY DEF Chat!ReplyIsWhatWasShown
    <2>2. PICK n : n = seen[kind]
        OBVIOUS
    <2>3. /\ n \in Nat
          /\ \A i \in DOMAIN p : p[i].kind = kind => n > 0
          /\ n > 0 => \E i \in DOMAIN p : p[i] = [kind |-> kind, deltas |-> n]
        <3>1. seen.text = reply.text /\ seen.refusal = reply.refusal
            BY <2>1 DEF ChatInStep
        <3>2. CASE kind = "text"
            BY <1>2, <1>3, <1>4, <2>2, <3>1, <3>2 DEF Tells
        <3>3. CASE kind = "refusal"
            BY <1>2, <1>3, <1>4, <2>2, <3>1, <3>3 DEF Tells
        <3>4. QED
            BY <2>1, <3>2, <3>3
    <2>4. CASE n = 0
        BY <1>1, <2>2, <2>3, <2>4 DEF Chat!Told
    <2>5. CASE n # 0
        <3>1. PICK i \in DOMAIN p : p[i] = [kind |-> kind, deltas |-> n]
            BY <2>3, <2>5
        <3>2. i \in Chat!Told(kind) /\ result.parts[i].deltas = n
            BY <1>1, <3>1 DEF Chat!Told
        <3>3. QED
            BY <2>2, <2>5, <3>2
    <2>6. QED
        BY <2>4, <2>5
<1>7. QED
    BY <1>5, <1>6

\* The converter completes a finished reply, or fails.
LEMMA ChatOutcomeFacts ==
    ASSUME NEW r, NEW outcome \in Chat!Outcome(r)
    PROVE  outcome.kind = "final" =>
               Chat!Finished(r) /\ Chat!CallsParse(r) /\ outcome.parts = Chat!Parts(r)
BY DEF Chat!Outcome, Chat!Failed

\* The first state.
LEMMA InitChat == AdapterInit => ChatInStep
<1> SUFFICES ASSUME AdapterInit PROVE ChatInStep
    OBVIOUS
<1>1. reply = [text |-> 0, refusal |-> 0, calls |-> <<>>, choices |-> 0, finish |-> ""]
      /\ seen = [text |-> 0, refusal |-> 0] /\ result.kind = "none"
    BY DEF AdapterInit, Init, NoResult, Chat!EmptyReply
<1>2. <<>> \in Seq(Chat!Arguments)
    OBVIOUS
<1>3. QED
    BY <1>1, <1>2 DEF ChatInStep, AnyReply

\* A chunk of the choice.
LEMMA ChunkChat ==
    ASSUME ChatInStep, Control, it = "running", pc = "reading", UNCHANGED <<req, result>>,
           reply' \in AnyReply, seen' \in [text : Nat, refusal : Nat],
           req.streaming => seen'.text = reply'.text /\ seen'.refusal = reply'.refusal
    PROVE  ChatInStep'
BY DEF ChatInStep, Control

\* Replies stay replies when a number in them gets a new value.
LEMMA ChangedNumber ==
    ASSUME NEW r \in AnyReply, NEW n \in Nat
    PROVE  /\ [r EXCEPT !.text = n] \in AnyReply
           /\ [r EXCEPT !.text = n].text = n
           /\ [r EXCEPT !.text = n].refusal = r.refusal
           /\ [r EXCEPT !.refusal = n] \in AnyReply
           /\ [r EXCEPT !.refusal = n].refusal = n
           /\ [r EXCEPT !.refusal = n].text = r.text
           /\ [r EXCEPT !.choices = n] \in AnyReply
           /\ [r EXCEPT !.choices = n].text = r.text
           /\ [r EXCEPT !.choices = n].refusal = r.refusal
BY DEF AnyReply

\* So do they when the calls change,
LEMMA ChangedCalls ==
    ASSUME NEW r \in AnyReply, NEW c \in Seq(Chat!Arguments)
    PROVE  /\ [r EXCEPT !.calls = c] \in AnyReply
           /\ [r EXCEPT !.calls = c].text = r.text
           /\ [r EXCEPT !.calls = c].refusal = r.refusal
BY DEF AnyReply

\* and when the reply is finished.
LEMMA ChangedFinish ==
    ASSUME NEW r \in AnyReply, NEW f \in Chat!FinishReasons
    PROVE  /\ [r EXCEPT !.finish = f] \in AnyReply
           /\ [r EXCEPT !.finish = f].text = r.text
           /\ [r EXCEPT !.finish = f].refusal = r.refusal
BY DEF AnyReply

\* Each kind of chunk.
LEMMA ReceivedChat ==
    ASSUME ChatInStep, Control, Chat!Chunk
    PROVE  ChatInStep'
<1> USE DEF Chat!Receive, Chat!Running
<1>1. reply \in AnyReply /\ seen \in [text : Nat, refusal : Nat]
      /\ reply.text \in Nat /\ reply.refusal \in Nat /\ reply.calls \in Seq(Chat!Arguments)
    BY DEF ChatInStep, AnyReply
<1>2. ASSUME NEW text \in 0..1, NEW refusal \in 0..1, Chat!Words(text, refusal)
      PROVE  ChatInStep'
    <2>1. PICK a : a = [reply EXCEPT !.text = reply.text + text]
        OBVIOUS
    <2>2. reply.text + text \in Nat /\ reply.refusal + refusal \in Nat
        BY <1>1, <1>2
    <2>3. a \in AnyReply /\ a.text = reply.text + text /\ a.refusal = reply.refusal
        BY <1>1, <2>1, <2>2, ChangedNumber
    <2>4. PICK b : b = [a EXCEPT !.refusal = reply.refusal + refusal]
        OBVIOUS
    <2>5. b \in AnyReply /\ b.text = a.text /\ b.refusal = reply.refusal + refusal
        BY <2>2, <2>3, <2>4, ChangedNumber
    <2>6. reply' = [b EXCEPT !.choices = 1]
        BY <1>2, <2>1, <2>4 DEF Chat!Words, Chat!Choice, Chat!Spoken
    <2>7. reply' \in AnyReply /\ reply'.text = b.text /\ reply'.refusal = b.refusal
        BY <2>5, <2>6, ChangedNumber
    <2>8. /\ it = "running" /\ pc = "reading" /\ UNCHANGED <<req, result>>
          /\ seen' = [text |-> seen.text + text, refusal |-> seen.refusal + refusal]
        BY <1>2 DEF Chat!Words, Chat!Choice
    <2>9. /\ seen' \in [text : Nat, refusal : Nat]
          /\ seen'.text = seen.text + text /\ seen'.refusal = seen.refusal + refusal
        BY <1>1, <1>2, <2>8
    <2>10. req.streaming => seen.text = reply.text /\ seen.refusal = reply.refusal
        BY DEF ChatInStep
    <2>11. QED
        BY <2>3, <2>5, <2>7, <2>8, <2>9, <2>10, ChunkChat
<1>3. ASSUME Chat!CallBegins \/ (\E i \in DOMAIN reply.calls, arguments \in {"cut", "whole"} :
                 Chat!CallContinues(i, arguments))
             \/ (\E reason \in Chat!FinishReasons : Chat!FinishChunk(reason))
      PROVE  ChatInStep'
    <2>1. \E a \in AnyReply : /\ a.text = reply.text /\ a.refusal = reply.refusal
                              /\ reply' = [a EXCEPT !.choices = 1]
        <3>1. CASE Chat!CallBegins
            <4>1. Append(reply.calls, "none") \in Seq(Chat!Arguments)
                BY <1>1 DEF Chat!Arguments
            <4>2. reply' = [[reply EXCEPT !.calls = Append(reply.calls, "none")]
                                EXCEPT !.choices = 1]
                BY <3>1 DEF Chat!CallBegins, Chat!Choice
            <4>3. QED
                BY <1>1, <4>1, <4>2, ChangedCalls
        <3>2. ASSUME NEW i \in DOMAIN reply.calls, NEW arguments \in {"cut", "whole"},
                     Chat!CallContinues(i, arguments)
              PROVE  \E a \in AnyReply : /\ a.text = reply.text /\ a.refusal = reply.refusal
                                         /\ reply' = [a EXCEPT !.choices = 1]
            <4>1. [reply.calls EXCEPT ![i] = arguments] \in Seq(Chat!Arguments)
                BY <1>1 DEF Chat!Arguments
            <4>2. reply' = [[reply EXCEPT !.calls = [reply.calls EXCEPT ![i] = arguments]]
                                EXCEPT !.choices = 1]
                BY <3>2 DEF Chat!CallContinues, Chat!Choice
            <4>3. QED
                BY <1>1, <4>1, <4>2, ChangedCalls
        <3>3. ASSUME NEW reason \in Chat!FinishReasons, Chat!FinishChunk(reason)
              PROVE  \E a \in AnyReply : /\ a.text = reply.text /\ a.refusal = reply.refusal
                                         /\ reply' = [a EXCEPT !.choices = 1]
            <4>1. reply' = [[reply EXCEPT !.finish = reason] EXCEPT !.choices = 1]
                BY <3>3 DEF Chat!FinishChunk, Chat!Choice
            <4>2. QED
                BY <1>1, <3>3, <4>1, ChangedFinish
        <3>4. QED
            BY <1>3, <3>1, <3>2, <3>3
    <2>2. reply' \in AnyReply /\ reply'.text = reply.text /\ reply'.refusal = reply.refusal
        <3>1. PICK a \in AnyReply : /\ a.text = reply.text /\ a.refusal = reply.refusal
                                    /\ reply' = [a EXCEPT !.choices = 1]
            BY <2>1
        <3>2. QED
            BY <3>1, ChangedNumber
    <2>3. it = "running" /\ pc = "reading" /\ UNCHANGED <<req, result, seen>>
        BY <1>3 DEF Chat!CallBegins, Chat!CallContinues, Chat!FinishChunk, Chat!Choice
    <2>4. QED
        BY <1>1, <2>2, <2>3, ChunkChat DEF ChatInStep
<1>4. CASE Chat!OtherChunk
    BY <1>4 DEF Chat!OtherChunk, ChatInStep
<1>5. QED
    BY <1>2, <1>3, <1>4 DEF Chat!Chunk

\* Every step over the Chat Completions API.
LEMMA StepChat ==
    ASSUME ChatInStep, Control, Chat!Next
    PROVE  ChatInStep'
<1> USE DEF Chat!Running, Chat!YieldLast
<1>1. CASE Chat!PrepareFails \/ Chat!RequestFails \/ Chat!StreamFails
    BY <1>1 DEF Chat!PrepareFails, Chat!RequestFails, Chat!StreamFails, Chat!Failed, ChatInStep
<1>2. CASE Chat!Generate
    <2>1. PICK outcome \in Chat!Outcome(reply') : result' = outcome
        BY <1>2 DEF Chat!Generate
    <2>2. reply' \in AnyReply
        <3>1. ASSUME NEW n \in 0..MaxCalls, NEW c \in [1..n -> Chat!Arguments]
              PROVE  c \in Seq(Chat!Arguments)
            <4>1. n \in Nat
                BY ChatBoundsAssumption
            <4>2. QED
                BY <4>1
        <3>2. UNION {[1..n -> Chat!Arguments] : n \in 0..MaxCalls} \subseteq Seq(Chat!Arguments)
            BY <3>1
        <3>3. reply' \in Chat!WholeReplies
            BY <1>2 DEF Chat!Generate
        <3>4. QED
            <4>1. PICK C : C = UNION {[1..n -> Chat!Arguments] : n \in 0..MaxCalls}
                OBVIOUS
            <4>2. reply' \in [text : 0..1, refusal : 0..1, choices : 0..2,
                              finish : Chat!FinishReasons \cup {""}, calls : C]
                BY <3>3, <4>1 DEF Chat!WholeReplies
            <4>3. C \subseteq Seq(Chat!Arguments)
                BY <3>2, <4>1
            <4>4. \A x \in 0..2 : x \in Nat
                OBVIOUS
            <4>5. \A x \in 0..1 : x \in Nat
                OBVIOUS
            <4>6. QED
                BY <4>2, <4>3, <4>4, <4>5 DEF AnyReply
    <2>3. ~req.streaming /\ UNCHANGED <<req, seen>>
        BY <1>2 DEF Chat!Generate
    <2>4. result'.kind = "final" =>
              /\ Chat!Finished(reply') /\ Chat!CallsParse(reply')
              /\ result'.parts = Chat!Parts(reply')
        BY <2>1, ChatOutcomeFacts
    <2>5. seen \in [text : Nat, refusal : Nat]
        BY DEF ChatInStep
    <2>6. /\ Chat!Finished(reply)' = Chat!Finished(reply')
          /\ Chat!CallsParse(reply)' = Chat!CallsParse(reply')
          /\ Chat!Parts(reply)' = Chat!Parts(reply')
        BY DEF Chat!Finished, Chat!CallsParse, Chat!Parts
    <2>7. QED
        BY <2>2, <2>3, <2>4, <2>5, <2>6 DEF ChatInStep
<1>3. CASE Chat!Complete
    <2>1. PICK outcome \in Chat!Outcome(reply) : result' = outcome
        BY <1>3 DEF Chat!Complete
    <2>2. UNCHANGED <<req, reply, seen>>
        BY <1>3 DEF Chat!Complete
    <2>3. result'.kind = "final" =>
              Chat!Finished(reply) /\ Chat!CallsParse(reply) /\ result'.parts = Chat!Parts(reply)
        BY <2>1, ChatOutcomeFacts
    <2>4. QED
        BY <2>2, <2>3 DEF ChatInStep
<1>4. CASE Chat!Chunk
    BY <1>4, ReceivedChat
<1>5. CASE \/ Chat!Prepare \/ Chat!Connect \/ Chat!Return
           \/ Chat!Start \/ Chat!Continue \/ Chat!Stop \/ Chat!Done
    <2>1. UNCHANGED <<req, reply, seen, result>>
        BY <1>5 DEF Chat!Prepare, Chat!Connect, Chat!Return, Chat!Start, Chat!Continue, Chat!Stop,
                    Chat!Done, Chat!rest, Chat!vars
    <2>2. QED
        BY <2>1 DEF ChatInStep
<1>6. QED
    BY <1>1, <1>2, <1>3, <1>4, <1>5 DEF Chat!Next, Chat!Adapter

------------------------------------------------------------------------------
(* Either API *)

\* Control, and whichever accumulator is in use.
InStep ==
    /\ Control
    /\ api = "responses" => ResponsesInStep
    /\ api = "chat_completions" => ChatInStep

\* A step of either API keeps its own accumulator in step.
LEMMA StepInStep == InStep /\ [AdapterNext]_adapterVars => InStep'
<1> SUFFICES ASSUME InStep, [AdapterNext]_adapterVars
             PROVE  InStep'
    OBVIOUS
<1>1. Control' /\ api' = api
    BY StepControl, AdapterMoves DEF InStep
<1>2. CASE ResponsesStep
    BY <1>1, <1>2, StepResponses DEF ResponsesStep, InStep
<1>3. CASE ChatStep
    BY <1>1, <1>3, StepChat DEF ChatStep, InStep
<1>4. CASE UNCHANGED adapterVars
    <2>1. UNCHANGED <<req, pc, output, terminal, ended, result, shown, reply, seen>>
        BY <1>4 DEF adapterVars, vars, history
    <2>2. ResponsesInStep => ResponsesInStep'
        BY <2>1, IdleResponses DEF Control, InStep
    <2>3. ChatInStep => ChatInStep'
        BY <2>1 DEF ChatInStep
    <2>4. QED
        BY <1>1, <2>2, <2>3 DEF InStep
<1>5. QED
    BY <1>2, <1>3, <1>4 DEF AdapterNext

\* So what either API accumulates is always in step with what it showed.
LEMMA InStepInvariant == AdapterSpec => []InStep
<1>1. AdapterInit => InStep
    BY InitControl, InitResponses, InitChat DEF InStep
<1>2. QED
    BY <1>1, StepInStep, PTL DEF AdapterSpec

\* The complete response holds exactly the text and the reasoning the caller was
\* shown on the way, and no reasoning it had hidden, however many items, chunks
\* and deltas there were. A refusal is in it whole: shown before over Chat
\* Completions, not shown over Responses (openai.go:279, openai/stream.go:133,
\* chat.go:219).
THEOREM WhatIsKeptWasShown == AdapterSpec => []KeptIsWhatWasShown
<1>1. InStep => KeptIsWhatWasShown
    BY ResponsesAgree, ChatAgrees DEF InStep, KeptIsWhatWasShown
<1>2. QED
    BY <1>1, InStepInvariant, PTL

\* Wherever the stream ends: over Chat Completions only a reply with a finish
\* reason and whole calls completes; over Responses only a stream that reached its
\* terminal event does, and an incomplete response - which may complete - hands
\* over no call whose arguments were begun and not finished (openai.go:301,
\* openaiconvert/response.go:214, chat.go:258).
THEOREM UnfinishedStaysOut == AdapterSpec => []UnfinishedNeverExecutes
<1>1. InStep => UnfinishedNeverExecutes
    BY ResponsesAgree, ChatAgrees DEF InStep, UnfinishedNeverExecutes
<1>2. QED
    BY <1>1, InStepInvariant, PTL
==============================================================================
