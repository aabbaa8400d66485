---------------------------- MODULE Session_proofs ----------------------------
EXTENDS SessionWalks, SequenceTheorems, FiniteSetTheorems, WellFoundedInduction, TLAPS

LEMMA AnySeq == \A S : \A s \in Seq(S) : IsSeq(s)
<1> SUFFICES ASSUME NEW S, NEW s \in Seq(S) PROVE IsSeq(s)
  OBVIOUS
<1>1. ToSet(s) = Range(s)
  BY DEF ToSet, Range
<1> QED BY <1>1, SeqOfRange DEF IsSeq

LEMMA SeqFacts ==
    ASSUME NEW s, IsSeq(s)
    PROVE  /\ Len(s) \in Nat
           /\ DOMAIN s = 1..Len(s)
           /\ s = <<>> <=> Len(s) = 0
BY LenProperties, EmptySeq DEF IsSeq

LEMMA NoSeq == IsSeq(<<>>) /\ Len(<<>>) = 0 /\ ToSet(<<>>) = {}
<1>1. <<>> \in Seq({}) /\ Len(<<>>) = 0
  BY EmptySeq
<1>2. IsSeq(<<>>)
  BY <1>1, AnySeq
<1> QED BY <1>1, <1>2, SeqFacts DEF ToSet

LEMMA AppendFacts ==
    ASSUME NEW s, IsSeq(s), NEW e
    PROVE  /\ IsSeq(Append(s, e))
           /\ Append(s, e) # <<>>
           /\ Len(Append(s, e)) = Len(s) + 1
           /\ \A i \in 1..Len(s) : Append(s, e)[i] = s[i]
           /\ Append(s, e)[Len(s) + 1] = e
<1> DEFINE S == ToSet(s) \cup {e}
<1>1. s \in Seq(S) /\ e \in S
  BY SeqMonotonic DEF IsSeq
<1> HIDE DEF S
<1>2. /\ Append(s, e) \in Seq(S)
      /\ Append(s, e) # <<>>
      /\ Len(Append(s, e)) = Len(s) + 1
      /\ \A i \in 1..Len(s) : Append(s, e)[i] = s[i]
      /\ Append(s, e)[Len(s) + 1] = e
  BY <1>1, AppendProperties
<1>3. IsSeq(Append(s, e))
  BY <1>2, AnySeq
<1> QED BY <1>2, <1>3

LEMMA ConcatFacts ==
    ASSUME NEW s, IsSeq(s), NEW t, IsSeq(t)
    PROVE  /\ IsSeq(s \o t)
           /\ Len(s \o t) = Len(s) + Len(t)
           /\ \A i \in 1..Len(s) : (s \o t)[i] = s[i]
           /\ \A i \in 1..Len(t) : (s \o t)[Len(s) + i] = t[i]
<1> DEFINE S == ToSet(s) \cup ToSet(t)
<1>1. s \in Seq(S) /\ t \in Seq(S)
  BY SeqMonotonic DEF IsSeq
<1> HIDE DEF S
<1>2. /\ s \o t \in Seq(S)
      /\ Len(s \o t) = Len(s) + Len(t)
      /\ \A i \in 1 .. Len(s) + Len(t) : (s \o t)[i] =
                     IF i <= Len(s) THEN s[i] ELSE t[i - Len(s)]
  BY <1>1, ConcatProperties
<1>3. IsSeq(s \o t)
  BY <1>2, AnySeq
<1>4. Len(s) \in Nat /\ Len(t) \in Nat
  BY SeqFacts
<1> QED BY <1>2, <1>3, <1>4

LEMMA SameSeq ==
    ASSUME NEW s, IsSeq(s), NEW t, IsSeq(t), Len(s) = Len(t),
           \A i \in 1..Len(s) : s[i] = t[i]
    PROVE  s = t
<1> DEFINE S == ToSet(s) \cup ToSet(t)
<1>1. s \in Seq(S) /\ t \in Seq(S)
  BY SeqMonotonic DEF IsSeq
<1> HIDE DEF S
<1> QED BY <1>1, SeqEqual

LEMMA SingleFacts ==
    ASSUME NEW e
    PROVE  IsSeq(<<e>>) /\ Len(<<e>>) = 1 /\ <<e>>[1] = e
<1>1. <<e>> \in Seq({e})
  OBVIOUS
<1> QED BY <1>1, AnySeq

LEMMA ConcatAppend ==
    ASSUME NEW s, IsSeq(s), NEW t, IsSeq(t), NEW e
    PROVE  s \o Append(t, e) = Append(s \o t, e)
<1>1. IsSeq(s \o t) /\ IsSeq(Append(t, e)) /\ Len(s) \in Nat /\ Len(t) \in Nat
  BY ConcatFacts, AppendFacts, SeqFacts
<1>2. IsSeq(s \o Append(t, e)) /\ IsSeq(Append(s \o t, e))
  BY <1>1, ConcatFacts, AppendFacts
<1>3. /\ Len(s \o Append(t, e)) = Len(s) + Len(t) + 1
      /\ Len(Append(s \o t, e)) = Len(s) + Len(t) + 1
  BY <1>1, ConcatFacts, AppendFacts
<1>4. ASSUME NEW i \in 1..(Len(s) + Len(t) + 1)
      PROVE  (s \o Append(t, e))[i] = Append(s \o t, e)[i]
  <2>1. CASE i <= Len(s)
    BY <1>1, <2>1, ConcatFacts, AppendFacts
  <2>2. CASE i > Len(s) /\ i <= Len(s) + Len(t)
    <3>1. i - Len(s) \in 1..Len(t) /\ i = Len(s) + (i - Len(s)) /\ i \in 1..Len(s \o t)
      BY <1>1, <2>2, ConcatFacts
    <3> DEFINE k == i - Len(s)
    <3> HIDE DEF k
    <3>2. k \in 1..Len(t) /\ i = Len(s) + k /\ k \in 1..Len(Append(t, e))
      BY <1>1, <3>1, AppendFacts DEF k
    <3>3. (s \o Append(t, e))[Len(s) + k] = Append(t, e)[k] /\ Append(t, e)[k] = t[k]
      BY <1>1, <3>2, ConcatFacts, AppendFacts
    <3>4. Append(s \o t, e)[i] = (s \o t)[i] /\ (s \o t)[Len(s) + k] = t[k]
      BY <1>1, <3>1, <3>2, ConcatFacts, AppendFacts
    <3> QED BY <3>2, <3>3, <3>4
  <2>3. CASE i = Len(s) + Len(t) + 1
    <3>1. Append(s \o t, e)[i] = e
      BY <1>1, <2>3, ConcatFacts, AppendFacts
    <3>2. (s \o Append(t, e))[Len(s) + (Len(t) + 1)] = Append(t, e)[Len(t) + 1]
      BY <1>1, ConcatFacts, AppendFacts
    <3> QED BY <1>1, <2>3, <3>1, <3>2, AppendFacts
  <2> QED BY <1>1, <2>1, <2>2, <2>3
<1> QED BY <1>2, <1>3, <1>4, SameSeq

LEMMA LeastOf ==
    ASSUME NEW T, T \subseteq Nat, T # {}
    PROVE  \E x \in T : \A y \in T : x <= y
<1>1. IsWellFoundedOn(Below, Nat)
  BY NatLessThanWellFounded DEF OpToRel, Below
<1>2. PICK n \in T : \A m \in T : ~(<<m, n>> \in Below)
  BY <1>1, WFMin
<1>3. ASSUME NEW m \in T PROVE n <= m
  <2>1. m \in Nat /\ n \in Nat /\ <<m, n>> \in Nat \X Nat /\ ~(<<m, n>> \in Below)
    BY <1>2
  <2>2. <<m, n>>[1] = m /\ <<m, n>>[2] = n
    OBVIOUS
  <2>3. ~(m < n)
    BY <2>1, <2>2 DEF Below
  <2> QED BY <2>1, <2>3
<1> QED BY <1>3

\* A set with zero and, of each of its numbers, the next holds all numbers.
LEMMA SetInduction ==
    ASSUME NEW T, 0 \in T, \A n \in Nat : n \in T => n + 1 \in T
    PROVE  Nat \subseteq T
<1>1. IsWellFoundedOn(Below, Nat)
  BY NatLessThanWellFounded DEF OpToRel, Below
<1>2. SUFFICES ASSUME Nat \ T # {} PROVE FALSE
  OBVIOUS
<1>3. PICK n \in Nat \ T : \A m \in Nat \ T : ~(<<m, n>> \in Below)
  BY <1>1, <1>2, WFMin
<1>4. n # 0 /\ n - 1 \in Nat /\ <<n - 1, n>> \in Below
  BY <1>3 DEF Below
<1>5. n - 1 \in T
  BY <1>3, <1>4
<1> QED BY <1>3, <1>4, <1>5

LEMMA TailFacts ==
    ASSUME NEW s, IsSeq(s), s # <<>>
    PROVE  Without(s, Tail(s), 1)
<1>1. /\ Tail(s) \in Seq(ToSet(s))
      /\ Len(Tail(s)) = Len(s)-1
      /\ \A i \in 1 .. Len(Tail(s)) : Tail(s)[i] = s[i+1]
  BY HeadTailProperties DEF IsSeq
<1>2. Len(s) \in Nat /\ Len(s) # 0
  BY SeqFacts
<1>3. IsSeq(Tail(s))
  BY <1>1, AnySeq
<1>4. 1 \in 1..Len(s) /\ \A i \in 1..Len(Tail(s)) : ~(i < 1)
  BY <1>1, <1>2
<1> QED BY <1>1, <1>3, <1>4 DEF Without

LEMMA RemoveFacts ==
    ASSUME NEW s, IsSeq(s), NEW e, Contains(s, e)
    PROVE  \E k \in 1..Len(s) : s[k] = e /\ Without(s, RemoveFirst(s, e), k)
<1> DEFINE I == {i \in 1..Len(s) : s[i] = e}
           k == Min(I)
<1>1. Len(s) \in Nat /\ DOMAIN s = 1..Len(s)
  BY SeqFacts
<1>2. I # {} /\ I \subseteq Nat
  BY <1>1 DEF Contains
<1>3. k \in I
  <2>1. \E x \in I : \A y \in I : x <= y
    BY <1>2, LeastOf
  <2> QED BY <2>1 DEF Min
<1>4. RemoveFirst(s, e) = SubSeq(s, 1, k - 1) \o SubSeq(s, k + 1, Len(s))
  <2>1. SelectInSeq(s, LAMBDA v : v = e) = k
    BY <1>2 DEF SelectInSeq
  <2> QED BY <2>1, <1>2 DEF RemoveFirst, RemoveAt
<1> HIDE DEF k
<1>5. k \in 1..Len(s) /\ s[k] = e
  BY <1>3
<1> HIDE DEF I
<1> DEFINE a == SubSeq(s, 1, k - 1)
           b == SubSeq(s, k + 1, Len(s))
<1>6. /\ a \in Seq(ToSet(s)) /\ Len(a) = k - 1
      /\ \A i \in 1..(k - 1) : a[i] = s[i]
  <2>1. \A i \in 1..(k - 1) : s[i] \in ToSet(s)
    BY <1>1, <1>5 DEF ToSet
  <2>2. k - 1 \in Int /\ 1 \in Int
    BY <1>1, <1>5
  <2>3. /\ a \in Seq(ToSet(s))
        /\ Len(a) = IF 1 <= k - 1 THEN (k - 1) - 1 + 1 ELSE 0
        /\ \A i \in 1..((k - 1) - 1 + 1) : a[i] = s[1 + i - 1]
    BY <2>1, <2>2, SubSeqProperties
  <2>4. \A i \in 1..(k - 1) : i \in 1..((k - 1) - 1 + 1) /\ 1 + i - 1 = i
    BY <1>1, <1>5
  <2> QED BY <1>1, <1>5, <2>3, <2>4
<1>7. /\ b \in Seq(ToSet(s)) /\ Len(b) = Len(s) - k
      /\ \A i \in 1..(Len(s) - k) : b[i] = s[k + i]
  <2>1. \A i \in (k + 1)..Len(s) : s[i] \in ToSet(s)
    BY <1>1, <1>5 DEF ToSet
  <2>2. k + 1 \in Int /\ Len(s) \in Int
    BY <1>1, <1>5
  <2>3. /\ b \in Seq(ToSet(s))
        /\ Len(b) = IF k + 1 <= Len(s) THEN Len(s) - (k + 1) + 1 ELSE 0
        /\ \A i \in 1..(Len(s) - (k + 1) + 1) : b[i] = s[(k + 1) + i - 1]
    BY <2>1, <2>2, SubSeqProperties
  <2>4. \A i \in 1..(Len(s) - k) : i \in 1..(Len(s) - (k + 1) + 1) /\ (k + 1) + i - 1 = k + i
    BY <1>1, <1>5
  <2>5. Len(b) = Len(s) - k
    <3> HIDE DEF a, b
    <3>1. CASE k = Len(s)
      BY <1>1, <2>3, <3>1
    <3>2. CASE k # Len(s)
      <4>1. k + 1 <= Len(s) /\ Len(s) - (k + 1) + 1 = Len(s) - k
        <5>1. Len(s) \in Nat /\ k \in 1..Len(s) /\ k # Len(s)
          BY <1>1, <1>5, <3>2
        <5> QED BY ONLY <5>1
      <4>2. Len(b) = IF k + 1 <= Len(s) THEN Len(s) - (k + 1) + 1 ELSE 0
        BY <2>3
      <4> QED BY <4>1, <4>2
    <3> QED BY <3>1, <3>2
  <2>6. \A i \in 1..(Len(s) - k) : b[i] = s[k + i]
    BY <2>3, <2>4
  <2> QED BY <2>3, <2>5, <2>6
<1> HIDE DEF a, b
<1>8. IsSeq(a) /\ IsSeq(b)
  BY <1>6, <1>7, AnySeq
<1>9. \A i \in 1..(Len(s) - 1) : (a \o b)[i] = IF i < k THEN s[i] ELSE s[i + 1]
  <2> SUFFICES ASSUME NEW i \in 1..(Len(s) - 1)
               PROVE  (a \o b)[i] = IF i < k THEN s[i] ELSE s[i + 1]
    OBVIOUS
  <2>1. CASE i < k
    BY <1>1, <1>5, <1>6, <1>8, <2>1, ConcatFacts
  <2>2. CASE ~(i < k)
    <3> DEFINE j == i - Len(a)
    <3>1. j \in 1..Len(b) /\ Len(a) + j = i /\ k + j = i + 1 /\ j \in 1..(Len(s) - k)
      BY <1>1, <1>5, <1>6, <1>7, <2>2
    <3> HIDE DEF j
    <3>2. (a \o b)[Len(a) + j] = b[j] /\ b[j] = s[k + j]
      BY <1>7, <1>8, <3>1, ConcatFacts
    <3> QED BY <2>2, <3>1, <3>2
  <2> QED BY <2>1, <2>2
<1>10. IsSeq(a \o b) /\ Len(a \o b) = Len(s) - 1
  <2>1. IsSeq(a \o b) /\ Len(a \o b) = Len(a) + Len(b)
    BY <1>8, ConcatFacts
  <2> QED BY <1>1, <1>5, <1>6, <1>7, <2>1
<1> QED BY <1>4, <1>5, <1>9, <1>10 DEF Without, a, b

------------------------------------------------------------------------------

LEMMA ChatPartReads ==
    ASSUME NEW w, ChatState(w), NEW p
    PROVE  Reads(w, ChatPart(w, p), p)
<1> DEFINE v == ChatPart(w, p)
<1> USE DEF ChatState
<1>1. CASE w.failed
  <2>1. v = w
    BY <1>1 DEF ChatPart
  <2> HIDE DEF v
  <2>2. ChatState(v) /\ v.failed
    BY <1>1, <2>1
  <2> QED BY <2>2 DEF Reads, v
<1>2. CASE ~w.failed /\ p.kind = "call"
  <2> DEFINE c == [id |-> CallID(w.tracker, p), of |-> <<p.n>>]
             t == TrackCall(w.tracker, p)
  <2>1. v = [[w EXCEPT !.calls = Append(w.calls, c)] EXCEPT !.tracker = t]
    BY <1>2 DEF ChatPart
  <2>2. IsSeq(Append(w.calls, c)) /\ IsSeq(Append(w.tracker.pending, CallID(w.tracker, p)))
    BY AppendFacts
  <2>3. /\ t = [nextID |-> t.nextID, pending |-> t.pending] /\ t.nextID \in Nat
        /\ t.pending = Append(w.tracker.pending, CallID(w.tracker, p))
        /\ t.nextID = IF p.id = NoId THEN w.tracker.nextID + 1 ELSE w.tracker.nextID
    BY DEF TrackCall
  <2> HIDE DEF c, t
  <2>4. v = [failed |-> w.failed, messages |-> w.messages, parts |-> w.parts,
             calls |-> Append(w.calls, c), results |-> w.results, tracker |-> t]
    BY <2>1
  <2> HIDE DEF v
  <2>5. ChatState(v)
    BY <2>2, <2>3, <2>4
  <2>6. ReadsCall(w, v, p) /\ v.messages = w.messages
    BY <2>3, <2>4 DEF ReadsCall, c
  <2> QED BY <1>2, <2>5, <2>6 DEF Reads, v
<1>3. CASE ~w.failed /\ p.kind = "result" /\ Unpaired(w.tracker, p)
  <2>1. v = [w EXCEPT !.failed = TRUE]
    BY <1>3 DEF ChatPart
  <2>2. v = [failed |-> TRUE, messages |-> w.messages, parts |-> w.parts,
             calls |-> w.calls, results |-> w.results, tracker |-> w.tracker]
    BY <2>1
  <2> HIDE DEF v
  <2> QED BY <2>2 DEF Reads, v
<1>4. CASE ~w.failed /\ p.kind = "result" /\ ~Unpaired(w.tracker, p)
  <2> DEFINE id == ResultID(w.tracker, p)
             r == [role |-> "tool", id |-> id, answers |-> p.answers, of |-> <<p.n>>]
             t == TrackResult(w.tracker, p)
             P == w.tracker.pending
  <2>1. v = [[w EXCEPT !.results = Append(w.results, r)] EXCEPT !.tracker = t]
    BY <1>4 DEF ChatPart
  <2>2. IsSeq(Append(w.results, r))
    BY AppendFacts
  <2>3. t = [nextID |-> w.tracker.nextID,
             pending |-> IF p.id = NoId THEN Tail(P) ELSE RemoveFirst(P, p.id)]
    <3> DEFINE rest == IF p.id = NoId THEN Tail(P) ELSE RemoveFirst(P, p.id)
    <3>1. t = [w.tracker EXCEPT !.pending = rest]
      BY DEF TrackResult
    <3> HIDE DEF rest, t
    <3>2. t = [nextID |-> w.tracker.nextID, pending |-> rest]
      BY <3>1
    <3> QED BY <3>2 DEF rest
  <2>4. \E k : Without(P, t.pending, k) /\ P[k] = id
    <3>1. CASE p.id = NoId
      <4>1. P # <<>>
        BY <1>4, <3>1 DEF Unpaired
      <4>2. Without(P, Tail(P), 1) /\ P[1] = Head(P)
        BY <4>1, TailFacts
      <4> QED BY <2>3, <3>1, <4>2 DEF ResultID
    <3>2. CASE p.id # NoId
      <4>1. Contains(P, p.id)
        BY <1>4, <3>2 DEF Unpaired
      <4>2. PICK k \in 1..Len(P) : P[k] = p.id /\ Without(P, RemoveFirst(P, p.id), k)
        BY <4>1, RemoveFacts
      <4> QED BY <2>3, <3>2, <4>2 DEF ResultID
    <3> QED BY <3>1, <3>2
  <2>5. IsSeq(t.pending) /\ t.nextID \in Nat /\ t = [nextID |-> t.nextID, pending |-> t.pending]
    BY <2>3, <2>4 DEF Without
  <2> HIDE DEF id, r, t
  <2>6. v = [failed |-> w.failed, messages |-> w.messages, parts |-> w.parts,
             calls |-> w.calls, results |-> Append(w.results, r), tracker |-> t]
    BY <2>1
  <2> HIDE DEF v
  <2>7. ChatState(v)
    BY <2>2, <2>5, <2>6
  <2>8. ReadsResult(w, v, p) /\ v.messages = w.messages
    BY <2>4, <2>6 DEF ReadsResult, r
  <2> QED BY <1>4, <2>7, <2>8 DEF Reads, v
<1>5. CASE ~w.failed /\ p.kind \notin {"call", "result"}
  <2>1. v = [w EXCEPT !.parts = Append(w.parts, p)]
    BY <1>5 DEF ChatPart
  <2>2. IsSeq(Append(w.parts, p))
    BY AppendFacts
  <2>3. v = [failed |-> w.failed, messages |-> w.messages, parts |-> Append(w.parts, p),
             calls |-> w.calls, results |-> w.results, tracker |-> w.tracker]
    BY <2>1
  <2> HIDE DEF v
  <2> QED BY <1>5, <2>2, <2>3 DEF Reads, ReadsOther, v
<1> QED BY <1>1, <1>2, <1>3, <1>4, <1>5

------------------------------------------------------------------------------

\* One more message changes nothing about the runs of those before it.
LEMMA RunsStay ==
    ASSUME NEW m, IsSeq(m), NEW x
    PROVE  \A i \in 1..Len(m) :
             /\ CallsOf(Append(m, x)[i]) = CallsOf(m[i])
             /\ Run(Append(m, x), i) = Run(m, i)
             /\ AllAnswered(m, i) => AllAnswered(Append(m, x), i)
<1> DEFINE n == Append(m, x)
<1>1. /\ Len(m) \in Nat /\ DOMAIN m = 1..Len(m)
      /\ DOMAIN n = 1..(Len(m) + 1) /\ \A i \in 1..Len(m) : n[i] = m[i]
  BY AppendFacts, SeqFacts
<1> HIDE DEF n
<1> SUFFICES ASSUME NEW i \in 1..Len(m)
             PROVE  /\ CallsOf(n[i]) = CallsOf(m[i])
                    /\ Run(n, i) = Run(m, i)
                    /\ AllAnswered(m, i) => AllAnswered(n, i)
  BY DEF n
<1>2. CallsOf(n[i]) = CallsOf(m[i]) /\ Run(n, i) = Run(m, i)
  BY <1>1 DEF Run
<1>3. ASSUME AllAnswered(m, i) PROVE AllAnswered(n, i)
  <2> SUFFICES ASSUME CallsOf(n[i]) # {}
               PROVE  /\ Run(n, i) \subseteq DOMAIN n
                      /\ \A j \in Run(n, i) : n[j].role = "tool"
                      /\ {n[j].id : j \in Run(n, i)} = CallsOf(n[i])
    BY DEF AllAnswered
  <2>1. /\ Run(m, i) \subseteq DOMAIN m
        /\ \A j \in Run(m, i) : m[j].role = "tool"
        /\ {m[j].id : j \in Run(m, i)} = CallsOf(m[i])
    BY <1>2, <1>3 DEF AllAnswered
  <2>2. \A j \in Run(m, i) : n[j] = m[j]
    BY <1>1, <2>1
  <2>3. {n[j].id : j \in Run(m, i)} = {m[j].id : j \in Run(m, i)}
    BY <2>2
  <2>4. DOMAIN m \subseteq DOMAIN n
    BY <1>1
  <2> QED BY <1>2, <2>1, <2>2, <2>3, <2>4
<1> QED BY <1>2, <1>3

\* A message without calls, while nothing is missing.
LEMMA SettledByMessage ==
    ASSUME NEW m, Settled(m, <<>>), NEW x, CallsOf(x) = {}, x.role # "tool"
    PROVE  Settled(Append(m, x), <<>>)
<1> DEFINE n == Append(m, x)
<1>1. /\ IsSeq(m) /\ IsSeq(<<>>)
      /\ \A i \in 1..Len(m) : IsFiniteSet(CallsOf(m[i]))
      /\ \A j \in 1..Len(m) : m[j].role = "tool" => \E i \in 1..(j - 1) : j \in Run(m, i)
      /\ \A i \in 1..Len(m) : i # 0 => AllAnswered(m, i)
  BY DEF Settled
<1>2. /\ IsSeq(n) /\ Len(m) \in Nat /\ Len(n) = Len(m) + 1
      /\ n[Len(n)] = x /\ \A i \in 1..Len(m) : n[i] = m[i]
  BY <1>1, AppendFacts, SeqFacts
<1>3. \A i \in 1..Len(m) : /\ CallsOf(n[i]) = CallsOf(m[i])
                           /\ Run(n, i) = Run(m, i)
                           /\ AllAnswered(m, i) => AllAnswered(n, i)
  BY <1>1, RunsStay
<1> HIDE DEF n
<1>4. AllAnswered(n, Len(n)) /\ IsFiniteSet(CallsOf(n[Len(n)]))
  BY <1>2, FS_EmptySet DEF AllAnswered
<1>5. \A i \in 1..Len(n) : i # 0 => AllAnswered(n, i)
  BY <1>1, <1>2, <1>3, <1>4
<1>6. \A i \in 1..Len(n) : IsFiniteSet(CallsOf(n[i]))
  BY <1>1, <1>2, <1>3, <1>4
<1>7. ASSUME NEW j \in 1..Len(n), n[j].role = "tool"
      PROVE  \E i \in 1..(j - 1) : j \in Run(n, i)
  <2>1. j \in 1..Len(m) /\ m[j].role = "tool"
    BY <1>2, <1>7
  <2>2. PICK i \in 1..(j - 1) : j \in Run(m, i)
    BY <1>1, <2>1
  <2> QED BY <1>2, <1>3, <2>1, <2>2
<1>8. \E a \in 0..Len(n) : /\ \A i \in 1..Len(n) : i # a => AllAnswered(n, i)
                           /\ a = 0
  BY <1>2, <1>5
<1> QED BY <1>1, <1>2, <1>6, <1>7, <1>8 DEF Settled, n

\* A message with calls, while nothing is missing: now all of them are.
LEMMA SettledByCalls ==
    ASSUME NEW m, Settled(m, <<>>), NEW P, IsSeq(P), P # <<>>,
           IsFiniteSet(ToSet(P)), Cardinality(ToSet(P)) = Len(P),
           NEW x, CallsOf(x) = ToSet(P), x.role # "tool"
    PROVE  Settled(Append(m, x), P)
<1> DEFINE n == Append(m, x)
<1>1. /\ IsSeq(m)
      /\ \A i \in 1..Len(m) : IsFiniteSet(CallsOf(m[i]))
      /\ \A j \in 1..Len(m) : m[j].role = "tool" => \E i \in 1..(j - 1) : j \in Run(m, i)
      /\ \A i \in 1..Len(m) : i # 0 => AllAnswered(m, i)
  BY DEF Settled
<1>2. /\ IsSeq(n) /\ Len(m) \in Nat /\ Len(n) = Len(m) + 1
      /\ n[Len(n)] = x /\ \A i \in 1..Len(m) : n[i] = m[i]
  BY <1>1, AppendFacts, SeqFacts
<1>3. \A i \in 1..Len(m) : /\ CallsOf(n[i]) = CallsOf(m[i])
                           /\ Run(n, i) = Run(m, i)
                           /\ AllAnswered(m, i) => AllAnswered(n, i)
  BY <1>1, RunsStay
<1>4. Len(P) \in Nat \ {0} /\ DOMAIN P = 1..Len(P)
  BY SeqFacts
<1> HIDE DEF n
<1>5. \A i \in 1..Len(n) : i # Len(n) => AllAnswered(n, i)
  BY <1>1, <1>2, <1>3
<1>6. \A i \in 1..Len(n) : IsFiniteSet(CallsOf(n[i]))
  BY <1>1, <1>2, <1>3
<1>7. ASSUME NEW j \in 1..Len(n), n[j].role = "tool"
      PROVE  \E i \in 1..(j - 1) : j \in Run(n, i)
  <2>1. j \in 1..Len(m) /\ m[j].role = "tool"
    BY <1>2, <1>7
  <2>2. PICK i \in 1..(j - 1) : j \in Run(m, i)
    BY <1>1, <2>1
  <2> QED BY <1>2, <1>3, <2>1, <2>2
<1>8. Answering(n, P, Len(n))
  <2>1. ToSet(P) # {}
    <3>1. 1 \in DOMAIN P
      BY <1>4
    <3> QED BY <3>1 DEF ToSet
  <2>2. (Len(n) + 1)..Len(n) = {}
    BY <1>2
  <2>3. {n[j].id : j \in (Len(n) + 1)..Len(n)} = {}
    BY <2>2
  <2>4. Cardinality(CallsOf(n[Len(n)])) = Len(n) - Len(n) + Len(P)
    BY <1>2, <1>4
  <2> QED BY <1>2, <2>1, <2>2, <2>3, <2>4 DEF Answering
<1>9. \E a \in 0..Len(n) : /\ \A i \in 1..Len(n) : i # a => AllAnswered(n, i)
                           /\ a # 0 /\ Answering(n, P, a)
  BY <1>2, <1>5, <1>8
<1> QED BY <1>2, <1>6, <1>7, <1>9 DEF Settled, n

\* What is left without one element, and that element, are all there was.
LEMMA WithoutSet ==
    ASSUME NEW s, IsSeq(s), NEW t, NEW k, Without(s, t, k)
    PROVE  {s[k]} \cup ToSet(t) = ToSet(s)
<1>1. /\ Len(s) \in Nat /\ DOMAIN s = 1..Len(s) /\ DOMAIN t = 1..Len(t) /\ k \in 1..Len(s)
      /\ Len(t) = Len(s) - 1
      /\ \A i \in 1..Len(t) : t[i] = IF i < k THEN s[i] ELSE s[i + 1]
  BY SeqFacts DEF Without
<1>2. ASSUME NEW e \in ToSet(t) PROVE e \in ToSet(s)
  <2>1. PICK i \in 1..Len(t) : e = t[i]
    BY <1>1 DEF ToSet
  <2>2. e = s[i] \/ e = s[i + 1]
    BY <1>1, <2>1
  <2>3. i \in DOMAIN s /\ i + 1 \in DOMAIN s
    BY <1>1, <2>1
  <2> QED BY <2>2, <2>3 DEF ToSet
<1>3. ASSUME NEW e \in ToSet(s) PROVE e \in {s[k]} \cup ToSet(t)
  <2>1. PICK i \in 1..Len(s) : e = s[i]
    BY <1>1 DEF ToSet
  <2>2. CASE i = k
    BY <2>1, <2>2
  <2>3. CASE i < k
    <3>1. i \in DOMAIN t /\ t[i] = e
      BY <1>1, <2>1, <2>3
    <3> QED BY <3>1 DEF ToSet
  <2>4. CASE i > k
    <3>1. i - 1 \in DOMAIN t /\ t[i - 1] = s[(i - 1) + 1]
      BY <1>1, <2>1, <2>4
    <3>2. (i - 1) + 1 = i
      BY <2>1
    <3> QED BY <2>1, <3>1, <3>2 DEF ToSet
  <2> QED BY <1>1, <2>1, <2>2, <2>3, <2>4
<1>4. s[k] \in ToSet(s)
  BY <1>1 DEF ToSet
<1> QED BY <1>2, <1>3, <1>4

\* An answer to one of the missing calls.
LEMMA SettledByResult ==
    ASSUME NEW m, NEW P, Settled(m, P), NEW Q, NEW k, Without(P, Q, k),
           NEW x, x.role = "tool", x.id = P[k]
    PROVE  Settled(Append(m, x), Q)
<1> DEFINE n == Append(m, x)
<1>1. /\ IsSeq(m) /\ IsSeq(P) /\ IsSeq(Q) /\ Len(Q) = Len(P) - 1 /\ k \in 1..Len(P)
      /\ \A i \in 1..Len(m) : IsFiniteSet(CallsOf(m[i]))
      /\ \A j \in 1..Len(m) : m[j].role = "tool" => \E i \in 1..(j - 1) : j \in Run(m, i)
  BY DEF Settled, Without
<1>2. /\ Len(P) \in Nat \ {0} /\ P # <<>> /\ (Q = <<>> <=> Len(Q) = 0)
      /\ DOMAIN P = 1..Len(P)
  BY <1>1, SeqFacts
<1>3. PICK a \in 1..Len(m) : /\ \A i \in 1..Len(m) : i # a => AllAnswered(m, i)
                             /\ Answering(m, P, a)
  <2>1. PICK a \in 0..Len(m) : /\ \A i \in 1..Len(m) : i # a => AllAnswered(m, i)
                               /\ IF P = <<>> THEN a = 0 ELSE a # 0 /\ Answering(m, P, a)
    BY DEF Settled
  <2>2. a # 0 /\ Answering(m, P, a)
    BY <1>2, <2>1
  <2>3. a \in 1..Len(m)
    BY <2>1, <2>2
  <2> QED BY <2>1, <2>2, <2>3
<1>4. /\ IsSeq(n) /\ Len(m) \in Nat /\ Len(n) = Len(m) + 1 /\ DOMAIN n = 1..Len(n)
      /\ n[Len(n)] = x /\ \A i \in 1..Len(m) : n[i] = m[i]
  BY <1>1, AppendFacts, SeqFacts
<1>5. \A i \in 1..Len(m) : /\ CallsOf(n[i]) = CallsOf(m[i])
                           /\ Run(n, i) = Run(m, i)
                           /\ AllAnswered(m, i) => AllAnswered(n, i)
  BY <1>1, RunsStay
<1> HIDE DEF n
<1>6. CallsOf(x) = {} /\ CallsOf(n[Len(n)]) = {}
  BY <1>4 DEF CallsOf
<1>7. \A i \in 1..Len(n) : i # a => AllAnswered(n, i)
  <2>1. AllAnswered(n, Len(n))
    BY <1>6 DEF AllAnswered
  <2> QED BY <1>3, <1>4, <1>5, <2>1
<1>8. ASSUME NEW i \in 1..Len(n) PROVE IsFiniteSet(CallsOf(n[i]))
  <2>1. i = Len(n) \/ i \in 1..Len(m)
    BY <1>4
  <2>2. i \in 1..Len(m) => IsFiniteSet(CallsOf(n[i]))
    BY <1>1, <1>5
  <2>3. IsFiniteSet(CallsOf(n[Len(n)]))
    BY <1>6, FS_EmptySet
  <2> QED BY <2>1, <2>2, <2>3
<1>9. /\ CallsOf(n[a]) # {}
      /\ Cardinality(CallsOf(n[a])) = Len(n) - a + Len(Q)
      /\ \A j \in (a + 1)..Len(n) : n[j].role = "tool"
      /\ {n[j].id : j \in (a + 1)..Len(n)} \cup ToSet(Q) = CallsOf(n[a])
  <2>1. /\ CallsOf(m[a]) # {}
        /\ Cardinality(CallsOf(m[a])) = Len(m) - a + Len(P)
        /\ \A j \in (a + 1)..Len(m) : m[j].role = "tool"
        /\ {m[j].id : j \in (a + 1)..Len(m)} \cup ToSet(P) = CallsOf(m[a])
    BY <1>3 DEF Answering
  <2>2. Len(n) - a + Len(Q) = Len(m) - a + Len(P)
    BY <1>1, <1>2, <1>3, <1>4
  <2>3. ASSUME NEW j \in (a + 1)..Len(n) PROVE n[j].role = "tool"
    <3>1. j = Len(n) \/ (j \in (a + 1)..Len(m) /\ j \in 1..Len(m))
      BY <1>3, <1>4
    <3> QED BY <1>4, <2>1, <3>1
  <2>4. {n[j].id : j \in (a + 1)..Len(n)} = {m[j].id : j \in (a + 1)..Len(m)} \cup {P[k]}
    <3>1. ASSUME NEW j \in (a + 1)..Len(n)
          PROVE  n[j].id \in {m[i].id : i \in (a + 1)..Len(m)} \cup {P[k]}
      <4>1. j = Len(n) \/ (j \in (a + 1)..Len(m) /\ j \in 1..Len(m))
        BY <1>3, <1>4
      <4> QED BY <1>4, <4>1
    <3>2. ASSUME NEW j \in (a + 1)..Len(m)
          PROVE  m[j].id \in {n[i].id : i \in (a + 1)..Len(n)}
      <4>1. j \in (a + 1)..Len(n) /\ j \in 1..Len(m)
        BY <1>3, <1>4
      <4> QED BY <1>4, <4>1
    <3>3. P[k] \in {n[i].id : i \in (a + 1)..Len(n)}
      <4>1. Len(n) \in (a + 1)..Len(n) /\ n[Len(n)].id = P[k]
        BY <1>3, <1>4
      <4> QED BY <4>1
    <3> QED BY <3>1, <3>2, <3>3
  <2>5. {P[k]} \cup ToSet(Q) = ToSet(P)
    BY <1>1, WithoutSet
  <2> QED BY <1>3, <1>5, <2>1, <2>2, <2>3, <2>4, <2>5
<1>10. ASSUME NEW j \in 1..Len(n), n[j].role = "tool"
       PROVE  \E i \in 1..(j - 1) : j \in Run(n, i)
  <2>1. CASE j \in 1..Len(m)
    <3>1. PICK i \in 1..(j - 1) : j \in Run(m, i)
      BY <1>1, <1>4, <1>10, <2>1
    <3>2. i \in 1..Len(m) /\ Run(n, i) = Run(m, i)
      BY <1>4, <1>5, <2>1, <3>1
    <3> QED BY <3>1, <3>2
  <2>2. CASE j = Len(n)
    <3>1. Len(Q) \in Nat
      BY <1>1, <1>2
    <3>2. Len(n) \in (a + 1)..(a + Cardinality(CallsOf(n[a])))
      BY <1>3, <1>4, <1>9, <3>1
    <3>3. Len(n) \in Run(n, a) /\ a \in 1..(j - 1)
      BY <1>3, <1>4, <2>2, <3>2 DEF Run
    <3> QED BY <2>2, <3>3
  <2> QED BY <1>4, <2>1, <2>2
<1>11. CASE Q = <<>>
  <2>1. Len(Q) = 0
    BY <1>2, <1>11
  <2>2. Run(n, a) = (a + 1)..Len(n) /\ ToSet(Q) = {}
    BY <1>3, <1>4, <1>9, <1>11, <2>1, NoSeq DEF Run
  <2>3. (a + 1)..Len(n) \subseteq DOMAIN n
    BY <1>3, <1>4
  <2>4. AllAnswered(n, a)
    BY <1>9, <2>2, <2>3 DEF AllAnswered
  <2>5. \A i \in 1..Len(n) : i # 0 => AllAnswered(n, i)
    BY <1>7, <2>4
  <2>6. \E b \in 0..Len(n) : /\ \A i \in 1..Len(n) : i # b => AllAnswered(n, i)
                             /\ b = 0
    BY <1>4, <2>5
  <2> QED BY <1>1, <1>4, <1>8, <1>10, <1>11, <2>6 DEF Settled, n
<1>12. CASE Q # <<>>
  <2>1. a \in 0..Len(n) /\ a # 0 /\ Answering(n, Q, a)
    BY <1>3, <1>4, <1>9 DEF Answering
  <2>2. \E b \in 0..Len(n) : /\ \A i \in 1..Len(n) : i # b => AllAnswered(n, i)
                             /\ b # 0 /\ Answering(n, Q, b)
    BY <1>7, <2>1
  <2> QED BY <1>1, <1>4, <1>8, <1>10, <1>12, <2>2 DEF Settled, n
<1> QED BY <1>11, <1>12

------------------------------------------------------------------------------

LEMMA PartsWalkExists ==
    ASSUME NEW w, NEW parts
    PROVE  \A n \in Nat : \E f : WalksParts(f, w, parts, n)
<1> DEFINE T == {n \in Nat : \E f : WalksParts(f, w, parts, n)}
<1>1. 0 \in T
  <2> DEFINE g == [k \in 0..0 |-> w]
  <2>1. WalksParts(g, w, parts, 0)
    BY DEF WalksParts
  <2> QED BY <2>1
<1>2. ASSUME NEW n \in Nat, n \in T PROVE n + 1 \in T
  <2>1. PICK f : WalksParts(f, w, parts, n)
    BY <1>2
  <2> DEFINE g == [k \in 0..(n + 1) |-> IF k # n + 1 THEN f[k] ELSE ChatPart(f[n], parts[k])]
  <2>2. \A k \in 0..n : f[k] = IF k = 0 THEN w ELSE ChatPart(f[k - 1], parts[k])
    BY <2>1 DEF WalksParts
  <2>3. \A k \in 0..(n + 1) : k = n + 1 \/ k \in 0..n
    OBVIOUS
  <2>4. \A k \in 0..n : g[k] = f[k]
    OBVIOUS
  <2>5. \A k \in 1..(n + 1) : g[k - 1] = f[k - 1]
    BY <2>4
  <2>6. \A k \in 0..(n + 1) : g[k] = IF k = 0 THEN w ELSE ChatPart(g[k - 1], parts[k])
    BY <2>2, <2>3, <2>4, <2>5
  <2>7. g = [k \in 0..(n + 1) |-> g[k]]
    OBVIOUS
  <2> HIDE DEF g
  <2>8. WalksParts(g, w, parts, n + 1)
    BY <2>6, <2>7 DEF WalksParts
  <2> QED BY <2>8
<1> HIDE DEF T
<1>3. Nat \subseteq T
  BY <1>1, <1>2, SetInduction
<1> QED BY <1>3 DEF T

LEMMA ChatWalkFacts ==
    ASSUME NEW w, NEW parts, IsSeq(parts)
    PROVE  /\ ChatWalk(w, parts)[0] = w
           /\ \A k \in 1..Len(parts) :
                ChatWalk(w, parts)[k] = ChatPart(ChatWalk(w, parts)[k - 1], parts[k])
<1> DEFINE f == CHOOSE g : WalksParts(g, w, parts, Len(parts))
<1>1. Len(parts) \in Nat
  BY SeqFacts
<1>2. WalksParts(f, w, parts, Len(parts))
  BY <1>1, PartsWalkExists
<1>3. ChatWalk(w, parts) = f
  BY DEF ChatWalk, WalksParts
<1>4. \A k \in 0..Len(parts) : f[k] = IF k = 0 THEN w ELSE ChatPart(f[k - 1], parts[k])
  BY <1>2 DEF WalksParts
<1> HIDE DEF f
<1> QED BY <1>1, <1>3, <1>4

LEMMA ResultsWalk ==
    ASSUME NEW w, ChatState(w), w.calls = <<>>, w.results = <<>>,
           Settled(w.messages, w.tracker.pending),
           NEW parts, IsSeq(parts), \A i \in 1..Len(parts) : parts[i].kind # "call"
    PROVE  ResultsInStep(w, ChatWalk(w, parts)[Len(parts)])
<1> DEFINE T == {k \in Nat : k <= Len(parts) => ResultsInStep(w, ChatWalk(w, parts)[k])}
<1>0. Len(parts) \in Nat /\ IsSeq(w.messages)
  BY SeqFacts DEF ChatState
<1>1. 0 \in T
  <2>1. w.messages \o w.results = w.messages
    BY <1>0, ConcatEmptySeq DEF IsSeq
  <2>2. ResultsInStep(w, w)
    BY <2>1 DEF ResultsInStep
  <2> QED BY <2>2, ChatWalkFacts
<1>2. ASSUME NEW k \in Nat, k \in T PROVE k + 1 \in T
  <2> SUFFICES ASSUME k + 1 <= Len(parts)
               PROVE  ResultsInStep(w, ChatWalk(w, parts)[k + 1])
    OBVIOUS
  <2> DEFINE u == ChatWalk(w, parts)[k]
             p == parts[k + 1]
             v == ChatPart(u, p)
  <2>1. k + 1 \in 1..Len(parts) /\ (k + 1) - 1 = k /\ k <= Len(parts)
    BY <1>0
  <2>2. ChatWalk(w, parts)[k + 1] = v /\ p.kind # "call"
    BY <2>1, ChatWalkFacts
  <2>3. ResultsInStep(w, u)
    BY <1>2, <2>1
  <2>4. Reads(u, v, p)
    BY <2>3, ChatPartReads DEF ResultsInStep
  <2> HIDE DEF u, v, p
  <2>5. ASSUME ~v.failed
        PROVE  /\ v.messages = w.messages
               /\ v.calls = <<>>
               /\ Settled(w.messages \o v.results, v.tracker.pending)
    <3>1. /\ ~u.failed /\ v.messages = u.messages /\ u.messages = w.messages /\ u.calls = <<>>
          /\ Settled(w.messages \o u.results, u.tracker.pending)
          /\ p.kind = "result" => ReadsResult(u, v, p)
          /\ p.kind # "result" => ReadsOther(u, v)
          /\ IsSeq(u.results)
      BY <2>2, <2>3, <2>4, <2>5 DEF Reads, ResultsInStep, ChatState
    <3>2. CASE p.kind = "result"
      <4>1. PICK id, n : /\ v.results = Append(u.results, [role |-> "tool", id |-> id,
                                                    answers |-> p.answers, of |-> <<p.n>>])
                         /\ Without(u.tracker.pending, v.tracker.pending, n)
                         /\ u.tracker.pending[n] = id
        BY <3>1, <3>2 DEF ReadsResult
      <4> DEFINE x == [role |-> "tool", id |-> id, answers |-> p.answers, of |-> <<p.n>>]
      <4>2. x.role = "tool" /\ x.id = u.tracker.pending[n]
        BY <4>1
      <4>3. v.results = Append(u.results, x)
        BY <4>1
      <4> HIDE DEF x
      <4>4. Settled(Append(w.messages \o u.results, x), v.tracker.pending)
        BY <3>1, <4>1, <4>2, SettledByResult
      <4>5. w.messages \o Append(u.results, x) = Append(w.messages \o u.results, x)
        <5> HIDE DEF T
        <5>1. \A s, t : IsSeq(s) /\ IsSeq(t) => s \o Append(t, x) = Append(s \o t, x)
          BY ConcatAppend
        <5>2. IsSeq(w.messages) /\ IsSeq(u.results)
          BY <1>0, <3>1
        <5> QED BY ONLY <5>1, <5>2
      <4> QED BY <3>1, <3>2, <4>3, <4>4, <4>5 DEF ReadsResult
    <3>3. CASE p.kind # "result"
      BY <3>1, <3>3 DEF ReadsOther
    <3> QED BY <3>2, <3>3
  <2>6. ChatState(v)
    BY <2>4 DEF Reads
  <2> QED BY <2>2, <2>5, <2>6 DEF ResultsInStep
<1> HIDE DEF T
<1>3. Nat \subseteq T
  BY <1>1, <1>2, SetInduction
<1>4. Len(parts) \in T
  BY <1>0, <1>3
<1> QED BY <1>0, <1>4 DEF T

\* The id of one more call is new.
LEMMA CallIdIsNew ==
    ASSUME NEW u, ChatState(u), NEW parts, CallsApart(parts), NEW k \in Nat,
           k + 1 <= Len(parts), parts[k + 1].kind = "call",
           \A i \in 1..Len(u.tracker.pending) : Known(u.tracker.pending[i], u, parts, k)
    PROVE  /\ CallID(u.tracker, parts[k + 1]) \notin ToSet(u.tracker.pending)
           /\ \A v : /\ v.tracker.nextID = IF parts[k + 1].id = NoId
                                           THEN u.tracker.nextID + 1 ELSE u.tracker.nextID
                     => /\ Known(CallID(u.tracker, parts[k + 1]), v, parts, k + 1)
                        /\ \A id : Known(id, u, parts, k) => Known(id, v, parts, k + 1)
<1> DEFINE P == u.tracker.pending
           N == u.tracker.nextID
           p == parts[k + 1]
           id == CallID(u.tracker, p)
<1>1. Len(parts) \in Nat /\ DOMAIN parts = 1..Len(parts) /\ IsSeq(P) /\ N \in Nat
  BY SeqFacts DEF ChatState, CallsApart
<1>2. k + 1 \in DOMAIN parts /\ p.id \in Nat /\ \A i \in 1..k : i \in DOMAIN parts /\ i # k + 1
  BY <1>1 DEF CallsApart
<1>3. id = IF p.id = NoId THEN -(N + 1) ELSE p.id
  BY DEF CallID, MadeUp
<1>4. DOMAIN P = 1..Len(P)
  BY <1>1, SeqFacts
<1> HIDE DEF P, N, p, id
<1>5. ASSUME NEW i \in 1..Len(P), P[i] = id PROVE FALSE
  <2>1. Known(id, u, parts, k)
    BY <1>5 DEF P
  <2>2. CASE id \in Int /\ id < 0 /\ id >= -N
    BY <1>1, <1>2, <1>3, <2>2 DEF NoId
  <2>3. CASE \E j \in 1..k : parts[j].kind = "call" /\ parts[j].id = id /\ id # NoId /\ id \in Nat
    <3>1. PICK j \in 1..k : parts[j].kind = "call" /\ parts[j].id = id /\ id # NoId /\ id \in Nat
      BY <2>3
    <3>2. id = p.id /\ p.id # NoId
      BY <1>1, <1>3, <3>1 DEF NoId
    <3>3. j = k + 1
      BY <1>2, <3>1, <3>2 DEF CallsApart, p
    <3> QED BY <1>2, <3>3
  <2> QED BY <2>1, <2>2, <2>3 DEF Known, N
<1>6. id \notin ToSet(P)
  BY <1>4, <1>5 DEF ToSet
<1>7. ASSUME NEW v, v.tracker.nextID = IF p.id = NoId THEN N + 1 ELSE N
      PROVE  /\ Known(id, v, parts, k + 1)
             /\ \A x : Known(x, u, parts, k) => Known(x, v, parts, k + 1)
  <2>1. v.tracker.nextID \in Nat /\ v.tracker.nextID >= N
    BY <1>1, <1>7
  <2>2. Known(id, v, parts, k + 1)
    <3>1. CASE p.id = NoId
      BY <1>1, <1>3, <1>7, <3>1 DEF Known
    <3>2. CASE p.id # NoId
      <4>1. k + 1 \in 1..(k + 1) /\ parts[k + 1].kind = "call" /\ parts[k + 1].id = id
            /\ id # NoId /\ id \in Nat
        BY <1>2, <1>3, <3>2 DEF p
      <4> QED BY <4>1 DEF Known
    <3> QED BY <3>1, <3>2
  <2>3. ASSUME NEW x, Known(x, u, parts, k) PROVE Known(x, v, parts, k + 1)
    <3>1. CASE x \in Int /\ x < 0 /\ x >= -N
      BY <1>1, <2>1, <3>1 DEF Known
    <3>2. CASE \E i \in 1..k : parts[i].kind = "call" /\ parts[i].id = x /\ x # NoId /\ x \in Nat
      <4>1. PICK i \in 1..k : parts[i].kind = "call" /\ parts[i].id = x /\ x # NoId /\ x \in Nat
        BY <3>2
      <4>2. i \in 1..(k + 1)
        OBVIOUS
      <4> QED BY <4>1, <4>2 DEF Known
    <3> QED BY <2>3, <3>1, <3>2 DEF Known, N
  <2> QED BY <2>2, <2>3
<1> QED BY <1>6, <1>7 DEF P, N, p, id

LEMMA CallsWalk ==
    ASSUME NEW w, ChatState(w), w.calls = <<>>, w.results = <<>>, w.tracker.pending = <<>>,
           NEW parts, CallsApart(parts), \A i \in 1..Len(parts) : parts[i].kind # "result"
    PROVE  CallsInStep(w, ChatWalk(w, parts)[Len(parts)], parts, Len(parts))
<1> DEFINE T == {k \in Nat : k <= Len(parts) => CallsInStep(w, ChatWalk(w, parts)[k], parts, k)}
<1>0. IsSeq(parts) /\ Len(parts) \in Nat
  BY SeqFacts DEF CallsApart
<1>1. 0 \in T
  <2>1. CallsInStep(w, w, parts, 0)
    BY NoSeq, FS_EmptySet DEF CallsInStep
  <2> QED BY <1>0, <2>1, ChatWalkFacts
<1>2. ASSUME NEW k \in Nat, k \in T PROVE k + 1 \in T
  <2> SUFFICES ASSUME k + 1 <= Len(parts)
               PROVE  CallsInStep(w, ChatWalk(w, parts)[k + 1], parts, k + 1)
    OBVIOUS
  <2> DEFINE u == ChatWalk(w, parts)[k]
             p == parts[k + 1]
             v == ChatPart(u, p)
  <2>1. k + 1 \in 1..Len(parts) /\ (k + 1) - 1 = k /\ k <= Len(parts)
    BY <1>0
  <2>2. ChatWalk(w, parts)[k + 1] = v /\ p.kind # "result"
    BY <1>0, <2>1, ChatWalkFacts
  <2>3. CallsInStep(w, u, parts, k)
    BY <1>2, <2>1
  <2>4. Reads(u, v, p)
    BY <2>3, ChatPartReads DEF CallsInStep
  <2> HIDE DEF u, v
  <2>5. ASSUME ~v.failed
        PROVE  /\ v.messages = w.messages
               /\ v.results = <<>>
               /\ Len(v.calls) = Len(v.tracker.pending)
               /\ \A i \in 1..Len(v.calls) : v.calls[i].id = v.tracker.pending[i]
               /\ IsFiniteSet(ToSet(v.tracker.pending))
               /\ Cardinality(ToSet(v.tracker.pending)) = Len(v.tracker.pending)
               /\ \A i \in 1..Len(v.tracker.pending) :
                    Known(v.tracker.pending[i], v, parts, k + 1)
    <3> DEFINE P == u.tracker.pending
               Q == v.tracker.pending
               id == CallID(u.tracker, p)
    <3>1. /\ ~u.failed /\ v.messages = u.messages
          /\ p.kind = "call" => ReadsCall(u, v, p)
          /\ p.kind # "call" => ReadsOther(u, v)
      BY <2>2, <2>4, <2>5 DEF Reads
    <3>2. /\ u.messages = w.messages /\ u.results = <<>>
          /\ Len(u.calls) = Len(P) /\ \A i \in 1..Len(u.calls) : u.calls[i].id = P[i]
          /\ IsFiniteSet(ToSet(P)) /\ Cardinality(ToSet(P)) = Len(P)
          /\ \A i \in 1..Len(P) : Known(P[i], u, parts, k)
          /\ ChatState(u)
      BY <2>3, <3>1 DEF CallsInStep
    <3>3. IsSeq(P) /\ IsSeq(u.calls) /\ u.tracker.nextID \in Nat
      BY <3>2 DEF ChatState
    <3>4. CASE p.kind = "call"
      <4> DEFINE c == [id |-> id, of |-> <<p.n>>]
      <4>1. /\ v.calls = Append(u.calls, c) /\ Q = Append(P, id) /\ v.results = <<>>
            /\ v.tracker.nextID = IF p.id = NoId THEN u.tracker.nextID + 1 ELSE u.tracker.nextID
        BY <3>1, <3>2, <3>4 DEF ReadsCall
      <4>2. c.id = id
        OBVIOUS
      <4>3. /\ id \notin ToSet(P)
            /\ Known(id, v, parts, k + 1)
            /\ \A x : Known(x, u, parts, k) => Known(x, v, parts, k + 1)
        BY <3>2, <3>4, <4>1, CallIdIsNew
      <4> HIDE DEF P, Q, id, c
      <4>4. /\ Len(Q) = Len(P) + 1 /\ Q[Len(P) + 1] = id /\ \A i \in 1..Len(P) : Q[i] = P[i]
            /\ Len(P) \in Nat /\ DOMAIN P = 1..Len(P) /\ DOMAIN Q = 1..(Len(P) + 1)
        BY <3>3, <4>1, AppendFacts, SeqFacts DEF P
      <4>5. /\ Len(v.calls) = Len(P) + 1 /\ v.calls[Len(P) + 1] = c
            /\ \A i \in 1..Len(P) : v.calls[i] = u.calls[i]
        BY <3>2, <3>3, <4>1, AppendFacts DEF P
      <4>6. ToSet(Q) = ToSet(P) \cup {id}
        <5>1. ASSUME NEW x \in ToSet(Q) PROVE x \in ToSet(P) \cup {id}
          <6>1. PICK i \in 1..(Len(P) + 1) : x = Q[i]
            BY <4>4 DEF ToSet
          <6>2. i = Len(P) + 1 \/ i \in 1..Len(P)
            BY <4>4, <6>1
          <6> QED BY <4>4, <6>1, <6>2 DEF ToSet
        <5>2. ASSUME NEW x \in ToSet(P) PROVE x \in ToSet(Q)
          <6>1. PICK i \in 1..Len(P) : x = P[i]
            BY <4>4 DEF ToSet
          <6>2. i \in DOMAIN Q /\ Q[i] = x
            BY <4>4, <6>1
          <6> QED BY <6>2 DEF ToSet
        <5>3. id \in ToSet(Q)
          <6>1. Len(P) + 1 \in DOMAIN Q
            BY <4>4
          <6> QED BY <4>4, <6>1 DEF ToSet
        <5> QED BY <5>1, <5>2, <5>3
      <4>7. IsFiniteSet(ToSet(Q)) /\ Cardinality(ToSet(Q)) = Len(Q)
        <5>1. Cardinality(ToSet(Q)) = Cardinality(ToSet(P)) + 1 /\ IsFiniteSet(ToSet(Q))
          BY <3>2, <4>3, <4>6, FS_AddElement DEF P
        <5> QED BY <3>2, <4>4, <5>1 DEF P
      <4>8. ASSUME NEW i \in 1..Len(v.calls) PROVE v.calls[i].id = Q[i]
        <5>1. i = Len(P) + 1 \/ i \in 1..Len(P)
          BY <4>4, <4>5
        <5>2. i \in 1..Len(P) => v.calls[i].id = Q[i]
          BY <3>2, <4>4, <4>5 DEF P
        <5>3. v.calls[Len(P) + 1].id = Q[Len(P) + 1]
          BY <4>2, <4>4, <4>5
        <5> QED BY <5>1, <5>2, <5>3
      <4>9. ASSUME NEW i \in 1..Len(Q) PROVE Known(Q[i], v, parts, k + 1)
        <5>1. i = Len(P) + 1 \/ i \in 1..Len(P)
          BY <4>4
        <5>2. i \in 1..Len(P) => Known(Q[i], v, parts, k + 1)
          BY <3>2, <4>3, <4>4 DEF P
        <5> QED BY <4>3, <4>4, <5>1, <5>2
      <4> QED BY <3>1, <3>2, <4>1, <4>4, <4>5, <4>7, <4>8, <4>9 DEF P, Q
    <3>5. CASE p.kind # "call"
      <4>1. v.calls = u.calls /\ v.results = u.results /\ v.tracker = u.tracker
        BY <3>1, <3>5 DEF ReadsOther
      <4>2. \A i \in 1..Len(P) : Known(P[i], v, parts, k + 1)
        <5> SUFFICES ASSUME NEW i \in 1..Len(P) PROVE Known(P[i], v, parts, k + 1)
          OBVIOUS
        <5>1. Known(P[i], u, parts, k)
          BY <3>2
        <5>2. \A j \in 1..k : j \in 1..(k + 1)
          OBVIOUS
        <5> HIDE DEF P
        <5> QED BY <4>1, <5>1, <5>2 DEF Known
      <4> QED BY <3>1, <3>2, <4>1, <4>2
    <3> QED BY <3>4, <3>5
  <2>6. ChatState(v)
    BY <2>4 DEF Reads
  <2> QED BY <2>2, <2>5, <2>6 DEF CallsInStep
<1> HIDE DEF T
<1>3. Nat \subseteq T
  BY <1>1, <1>2, SetInduction
<1>4. Len(parts) \in T
  BY <1>0, <1>3
<1> QED BY <1>0, <1>4 DEF T

------------------------------------------------------------------------------

\* A message without calls, after a content that made none and had no results.
LEMMA ChatMessageSettles ==
    ASSUME NEW m, IsSeq(m), NEW w, ChatState(w), ~w.failed, w.messages = m, NEW role,
           \/ w.calls = <<>> /\ Settled(m \o w.results, w.tracker.pending)
           \/ /\ w.results = <<>> /\ role = "model" /\ Settled(m, <<>>)
              /\ Len(w.calls) = Len(w.tracker.pending)
              /\ \A i \in 1..Len(w.calls) : w.calls[i].id = w.tracker.pending[i]
              /\ IsFiniteSet(ToSet(w.tracker.pending))
              /\ Cardinality(ToSet(w.tracker.pending)) = Len(w.tracker.pending)
    PROVE  ChatSettled(ChatMessage(w, role))
<1> DEFINE u == ChatMessage(w, role)
           P == w.tracker.pending
           x == [role |-> IF role = "model" THEN "assistant" ELSE "user",
                 calls |-> w.calls, media |-> OfKind(w.parts, "media") # <<>>,
                 of |-> Numbers(w.parts)]
<1>1. /\ w = [failed |-> w.failed, messages |-> w.messages, parts |-> w.parts,
              calls |-> w.calls, results |-> w.results, tracker |-> w.tracker]
      /\ w.failed = FALSE
      /\ IsSeq(w.messages) /\ IsSeq(w.parts) /\ IsSeq(w.calls) /\ IsSeq(w.results)
      /\ w.tracker = [nextID |-> w.tracker.nextID, pending |-> w.tracker.pending]
      /\ w.tracker.nextID \in Nat /\ IsSeq(P)
  BY DEF ChatState
<1>2. CASE u = [w EXCEPT !.failed = TRUE]
  <2>1. u = [failed |-> TRUE, messages |-> w.messages, parts |-> w.parts,
             calls |-> w.calls, results |-> w.results, tracker |-> w.tracker]
    BY <1>1, <1>2
  <2> HIDE DEF u, P, x
  <2>2. ChatState(u) /\ u.failed
    BY <1>1, <2>1 DEF ChatState, P
  <2> QED BY <2>2 DEF ChatSettled, u
<1>3. CASE w.results # <<>> /\ u = [w EXCEPT !.messages = @ \o w.results]
  <2>1. u = [failed |-> w.failed, messages |-> m \o w.results, parts |-> w.parts,
             calls |-> w.calls, results |-> w.results, tracker |-> w.tracker]
    BY <1>1, <1>3
  <2>2. IsSeq(m \o w.results)
    BY <1>1, ConcatFacts
  <2> HIDE DEF u, P, x
  <2>3. ChatState(u)
    BY <1>1, <2>1, <2>2 DEF ChatState, P
  <2>4. Settled(u.messages, u.tracker.pending)
    BY <1>3, <2>1
  <2> QED BY <2>3, <2>4 DEF ChatSettled, u
<1>4. CASE w.results = <<>> /\ w.calls = <<>> /\ u = w
  <2>1. m \o <<>> = m
    BY ConcatEmptySeq DEF IsSeq
  <2>2. Len(P) = 0 => P = <<>>
    BY <1>1, SeqFacts
  <2>3. Len(w.calls) = 0
    BY <1>4, NoSeq
  <2> HIDE DEF u, P, x
  <2>4. Settled(m, P)
    BY <1>4, <2>1, <2>2, <2>3 DEF P
  <2> QED BY <1>4, <2>4 DEF ChatSettled, u, P
<1>5. CASE /\ w.results = <<>> /\ ~(P # <<>> /\ w.calls = <<>>)
           /\ u = [w EXCEPT !.messages = Append(@, x)]
  <2>1. x.role # "tool" /\ CallsOf(x) = IF role = "model" THEN {c.id : c \in ToSet(w.calls)} ELSE {}
    BY DEF CallsOf
  <2>2. m \o <<>> = m
    BY ConcatEmptySeq DEF IsSeq
  <2>3. ToSet(<<>>) = {} /\ Len(<<>>) = 0
    BY NoSeq
  <2>4. /\ DOMAIN w.calls = 1..Len(w.calls) /\ DOMAIN P = 1..Len(P)
        /\ P = <<>> <=> Len(P) = 0
        /\ w.calls = <<>> <=> Len(w.calls) = 0
    BY <1>1, SeqFacts
  <2> HIDE DEF x
  <2>5. u = [failed |-> w.failed, messages |-> Append(m, x), parts |-> w.parts,
             calls |-> w.calls, results |-> w.results, tracker |-> w.tracker]
    BY <1>1, <1>5
  <2>6. IsSeq(Append(m, x))
    BY AppendFacts
  <2> HIDE DEF u
  <2>7. ChatState(u)
    BY <1>1, <2>5, <2>6 DEF ChatState, P
  <2>8. Settled(Append(m, x), P)
    <3>1. CASE w.calls = <<>>
      <4>1. P = <<>>
        BY <1>5, <3>1
      <4>2. CallsOf(x) = {}
        BY <2>1, <2>3, <3>1
      <4>3. Settled(m, <<>>)
        BY <1>5, <2>2, <4>1 DEF P
      <4> QED BY <2>1, <4>1, <4>2, <4>3, SettledByMessage
    <3>2. CASE w.calls # <<>>
      <4>1. /\ role = "model" /\ Settled(m, <<>>)
            /\ Len(w.calls) = Len(P)
            /\ \A i \in 1..Len(w.calls) : w.calls[i].id = P[i]
            /\ IsFiniteSet(ToSet(P)) /\ Cardinality(ToSet(P)) = Len(P)
        BY <3>2 DEF P
      <4> HIDE DEF P
      <4>2. {c.id : c \in ToSet(w.calls)} = ToSet(P)
        <5>1. ASSUME NEW c \in ToSet(w.calls) PROVE c.id \in ToSet(P)
          <6>1. PICK i \in 1..Len(w.calls) : c = w.calls[i]
            BY <2>4 DEF ToSet
          <6>2. i \in DOMAIN P /\ P[i] = c.id
            BY <2>4, <4>1, <6>1
          <6> QED BY <6>2 DEF ToSet
        <5>2. ASSUME NEW id \in ToSet(P) PROVE \E c \in ToSet(w.calls) : id = c.id
          <6>1. PICK i \in 1..Len(P) : id = P[i]
            BY <2>4 DEF ToSet
          <6>2. w.calls[i] \in ToSet(w.calls) /\ w.calls[i].id = id
            BY <2>4, <4>1, <6>1 DEF ToSet
          <6> QED BY <6>2
        <5> QED BY <5>1, <5>2
      <4>3. CallsOf(x) = ToSet(P)
        BY <2>1, <4>1, <4>2
      <4>4. P # <<>> /\ IsSeq(P)
        BY <1>1, <2>4, <3>2, <4>1
      <4> QED BY <2>1, <4>1, <4>3, <4>4, SettledByCalls
    <3> QED BY <3>1, <3>2
  <2> QED BY <2>5, <2>7, <2>8 DEF ChatSettled, u, P
<1>6. CASE w.results # <<>>
  <2>1. \/ u = [w EXCEPT !.failed = TRUE]
        \/ u = [w EXCEPT !.messages = @ \o w.results]
    BY <1>6 DEF ChatMessage
  <2> QED BY <1>2, <1>3, <1>6, <2>1
<1>7. CASE w.results = <<>> /\ w.parts = <<>> /\ w.calls = <<>>
  <2>1. u = w
    BY <1>7 DEF ChatMessage
  <2> QED BY <1>4, <1>7, <2>1
<1>8. CASE w.results = <<>> /\ ~(w.parts = <<>> /\ w.calls = <<>>)
  <2>1. u = IF P # <<>> /\ w.calls = <<>> THEN [w EXCEPT !.failed = TRUE]
            ELSE [w EXCEPT !.messages = Append(@, x)]
    BY <1>8 DEF ChatMessage
  <2> HIDE DEF u, x, P
  <2> QED BY <1>2, <1>5, <1>8, <2>1 DEF u
<1> QED BY <1>6, <1>7, <1>8

LEMMA ChatContentSettles ==
    ASSUME NEW w, ChatSettled(w), NEW content, CallsApart(content.parts)
    PROVE  ChatSettled(ChatContent(w, content))
<1> DEFINE u == ChatContent(w, content)
           parts == content.parts
           o == [w EXCEPT !.parts = <<>>, !.calls = <<>>, !.results = <<>>]
           v == ChatWalk(o, parts)[Len(parts)]
           P == w.tracker.pending
<1>1. /\ w = [failed |-> w.failed, messages |-> w.messages, parts |-> w.parts,
              calls |-> w.calls, results |-> w.results, tracker |-> w.tracker]
      /\ w.failed \in BOOLEAN
      /\ IsSeq(w.messages) /\ IsSeq(w.parts) /\ IsSeq(w.calls) /\ IsSeq(w.results)
      /\ w.tracker = [nextID |-> w.tracker.nextID, pending |-> w.tracker.pending]
      /\ w.tracker.nextID \in Nat /\ IsSeq(P)
  BY DEF ChatSettled, ChatState
<1>2. CASE u = [w EXCEPT !.failed = TRUE]
  <2>1. u = [failed |-> TRUE, messages |-> w.messages, parts |-> w.parts,
             calls |-> w.calls, results |-> w.results, tracker |-> w.tracker]
    BY <1>1, <1>2
  <2> HIDE DEF u, P
  <2>2. ChatState(u) /\ u.failed
    BY <1>1, <2>1 DEF ChatState, P
  <2> QED BY <2>2 DEF ChatSettled, u
<1>3. CASE /\ ~w.failed /\ ~(content.role = "model" /\ P # <<>>)
           /\ ~\E i \in DOMAIN parts : ChatRejects(content.role, parts[i])
  <2>1. u = IF v.failed THEN v ELSE ChatMessage(v, content.role)
    BY <1>3 DEF ChatContent
  <2>2. o = [failed |-> w.failed, messages |-> w.messages, parts |-> <<>>,
             calls |-> <<>>, results |-> <<>>, tracker |-> w.tracker]
    <3>1. o = [[[w EXCEPT !.parts = <<>>] EXCEPT !.calls = <<>>] EXCEPT !.results = <<>>]
      OBVIOUS
    <3>2. /\ w = [failed |-> w.failed, messages |-> w.messages, parts |-> w.parts,
                  calls |-> w.calls, results |-> w.results, tracker |-> w.tracker]
      BY <1>1
    <3> HIDE DEF o
    <3> QED BY ONLY <3>1, <3>2
  <2>3. IsSeq(parts) /\ DOMAIN parts = 1..Len(parts)
    BY SeqFacts DEF CallsApart
  <2> HIDE DEF u, o, v, P
  <2>4. /\ ChatState(o) /\ o.calls = <<>> /\ o.results = <<>>
        /\ o.messages = w.messages /\ o.tracker.pending = P
    BY <1>1, <2>2, NoSeq DEF ChatState, P
  <2>5. Settled(o.messages, o.tracker.pending)
    BY <1>3, <2>4 DEF ChatSettled, P
  <2>6. CASE content.role = "model"
    <3>1. P = <<>> /\ \A i \in 1..Len(parts) : parts[i].kind # "result"
      BY <1>3, <2>3, <2>6 DEF ChatRejects
    <3>2. CallsInStep(o, v, parts, Len(parts))
      BY <2>4, <3>1, CallsWalk DEF v
    <3>3. ChatState(v)
      BY <3>2 DEF CallsInStep
    <3>4. CASE v.failed
      BY <2>1, <3>3, <3>4 DEF ChatSettled, u
    <3>5. CASE ~v.failed
      <4>1. /\ v.messages = w.messages /\ v.results = <<>>
            /\ Len(v.calls) = Len(v.tracker.pending)
            /\ \A i \in 1..Len(v.calls) : v.calls[i].id = v.tracker.pending[i]
            /\ IsFiniteSet(ToSet(v.tracker.pending))
            /\ Cardinality(ToSet(v.tracker.pending)) = Len(v.tracker.pending)
        BY <2>4, <3>2, <3>5 DEF CallsInStep
      <4>2. Settled(w.messages, <<>>)
        BY <2>4, <2>5, <3>1
      <4>3. ChatSettled(ChatMessage(v, content.role))
        BY <1>1, <2>6, <3>3, <3>5, <4>1, <4>2, ChatMessageSettles
      <4> QED BY <2>1, <3>5, <4>3 DEF u
    <3> QED BY <3>4, <3>5
  <2>7. CASE content.role # "model"
    <3>1. \A i \in 1..Len(parts) : parts[i].kind # "call"
      BY <1>3, <2>3, <2>7 DEF ChatRejects
    <3>2. ResultsInStep(o, v)
      BY <2>3, <2>4, <2>5, <3>1, ResultsWalk DEF v
    <3>3. ChatState(v)
      BY <3>2 DEF ResultsInStep
    <3>4. CASE v.failed
      BY <2>1, <3>3, <3>4 DEF ChatSettled, u
    <3>5. CASE ~v.failed
      <4>1. /\ v.messages = w.messages /\ v.calls = <<>>
            /\ Settled(w.messages \o v.results, v.tracker.pending)
        BY <2>4, <3>2, <3>5 DEF ResultsInStep
      <4>2. ChatSettled(ChatMessage(v, content.role))
        BY <1>1, <3>3, <3>5, <4>1, ChatMessageSettles
      <4> QED BY <2>1, <3>5, <4>2 DEF u
    <3> QED BY <3>4, <3>5
  <2> QED BY <2>6, <2>7
<1>4. CASE \/ w.failed \/ (content.role = "model" /\ P # <<>>)
           \/ \E i \in DOMAIN parts : ChatRejects(content.role, parts[i])
  BY <1>2, <1>4 DEF ChatContent
<1> QED BY <1>1, <1>3, <1>4

LEMMA HistoryExists ==
    ASSUME NEW history
    PROVE  \A n \in Nat : \E f : WalksHistory(f, history, n)
<1> DEFINE T == {n \in Nat : \E f : WalksHistory(f, history, n)}
<1>1. 0 \in T
  <2> DEFINE g == [k \in 0..0 |-> ChatStart]
  <2>1. WalksHistory(g, history, 0)
    BY DEF WalksHistory
  <2> QED BY <2>1
<1>2. ASSUME NEW n \in Nat, n \in T PROVE n + 1 \in T
  <2>1. PICK f : WalksHistory(f, history, n)
    BY <1>2
  <2> DEFINE g == [k \in 0..(n + 1) |-> IF k # n + 1 THEN f[k] ELSE ChatContent(f[n], history[k])]
  <2>2. \A k \in 0..n : f[k] = IF k = 0 THEN ChatStart ELSE ChatContent(f[k - 1], history[k])
    BY <2>1 DEF WalksHistory
  <2>3. \A k \in 0..(n + 1) : k = n + 1 \/ k \in 0..n
    OBVIOUS
  <2>4. \A k \in 0..n : g[k] = f[k]
    OBVIOUS
  <2>5. \A k \in 1..(n + 1) : g[k - 1] = f[k - 1]
    BY <2>4
  <2>6. \A k \in 0..(n + 1) : g[k] = IF k = 0 THEN ChatStart ELSE ChatContent(g[k - 1], history[k])
    BY <2>2, <2>3, <2>4, <2>5
  <2>7. g = [k \in 0..(n + 1) |-> g[k]]
    OBVIOUS
  <2> HIDE DEF g
  <2>8. WalksHistory(g, history, n + 1)
    BY <2>6, <2>7 DEF WalksHistory
  <2> QED BY <2>8
<1> HIDE DEF T
<1>3. Nat \subseteq T
  BY <1>1, <1>2, SetInduction
<1> QED BY <1>3 DEF T

LEMMA ChatHistoryFacts ==
    ASSUME NEW history, IsSeq(history)
    PROVE  /\ ChatHistory(history)[0] = ChatStart
           /\ \A k \in 1..Len(history) :
                ChatHistory(history)[k] = ChatContent(ChatHistory(history)[k - 1], history[k])
<1> DEFINE f == CHOOSE g : WalksHistory(g, history, Len(history))
<1>1. Len(history) \in Nat
  BY SeqFacts
<1>2. WalksHistory(f, history, Len(history))
  BY <1>1, HistoryExists
<1>3. ChatHistory(history) = f
  BY DEF ChatHistory, WalksHistory
<1>4. \A k \in 0..Len(history) : f[k] = IF k = 0 THEN ChatStart ELSE ChatContent(f[k - 1], history[k])
  BY <1>2 DEF WalksHistory
<1> HIDE DEF f
<1> QED BY <1>1, <1>3, <1>4

LEMMA ChatHistorySettles ==
    ASSUME NEW history, CallsApartIn(history)
    PROVE  ChatSettled(ChatHistory(history)[Len(history)])
<1> DEFINE H == ChatHistory(history)
           T == {k \in Nat : k <= Len(history) => ChatSettled(H[k])}
<1>0. IsSeq(history) /\ Len(history) \in Nat /\ DOMAIN history = 1..Len(history)
  BY SeqFacts DEF CallsApartIn
<1>1. 0 \in T
  <2>1. ChatState(ChatStart) /\ ~ChatStart.failed
        /\ ChatStart.messages = <<>> /\ ChatStart.tracker.pending = <<>>
    BY NoSeq DEF ChatStart, ChatState, NewTracker
  <2>2. 1..Len(<<>>) = {} /\ 0 \in 0..Len(<<>>)
    BY NoSeq
  <2>3. Settled(<<>>, <<>>)
    BY <2>2, NoSeq DEF Settled
  <2>4. ChatSettled(ChatStart)
    BY <2>1, <2>3 DEF ChatSettled
  <2> QED BY <1>0, <2>4, ChatHistoryFacts
<1>2. ASSUME NEW k \in Nat, k \in T PROVE k + 1 \in T
  <2> SUFFICES ASSUME k + 1 <= Len(history) PROVE ChatSettled(H[k + 1])
    OBVIOUS
  <2>1. k + 1 \in 1..Len(history) /\ (k + 1) - 1 = k /\ k <= Len(history)
    BY <1>0
  <2>2. H[k + 1] = ChatContent(H[k], history[k + 1])
    BY <1>0, <2>1, ChatHistoryFacts
  <2>3. ChatSettled(H[k]) /\ CallsApart(history[k + 1].parts)
    BY <1>0, <1>2, <2>1 DEF CallsApartIn
  <2> QED BY <2>2, <2>3, ChatContentSettles
<1> HIDE DEF T
<1>3. Nat \subseteq T
  BY <1>1, <1>2, SetInduction
<1>4. Len(history) \in T
  BY <1>0, <1>3
<1> QED BY <1>0, <1>4 DEF T

------------------------------------------------------------------------------

LEMMA LastNumberIsNat == HistoryHolds => LastNumber \in Nat
<1> SUFFICES ASSUME HistoryHolds PROVE LastNumber \in Nat
  OBVIOUS
<1>1. IsSeq(contents)
  BY DEF HistoryHolds, CallsApartIn
<1>2. CASE contents = <<>>
  BY <1>2 DEF LastNumber
<1>3. CASE contents # <<>>
  <2>1. Len(contents) \in Nat \ {0} /\ DOMAIN contents = 1..Len(contents)
    BY <1>1, <1>3, SeqFacts
  <2> DEFINE parts == contents[Len(contents)].parts
  <2>2. IsSeq(parts) /\ parts # <<>> /\ \A j \in DOMAIN parts : parts[j].n \in Nat
    BY <2>1 DEF HistoryHolds, CallsApartIn, CallsApart
  <2>3. Len(parts) \in DOMAIN parts
    BY <2>2, SeqFacts
  <2>4. LastNumber = parts[Len(parts)].n
    BY <1>3 DEF LastNumber, Last
  <2> QED BY <2>2, <2>3, <2>4
<1> QED BY <1>2, <1>3

\* Numbering the parts of a turn changes nothing else about them.
LEMMA NumberedFacts ==
    ASSUME LastNumber \in Nat, NEW parts, Sayable(parts)
    PROVE  /\ CallsApart(Numbered(parts))
           /\ Numbered(parts) # <<>>
           /\ \A i \in DOMAIN Numbered(parts) : Numbered(parts)[i].n \in Nat
<1> DEFINE P == Numbered(parts)
<1>1. /\ IsSeq(parts) /\ parts # <<>> /\ Len(parts) \in Nat \ {0}
      /\ DOMAIN parts = 1..Len(parts) /\ CallsApart(parts)
  BY SeqFacts DEF Sayable
<1>2. P = [i \in 1..Len(parts) |-> Number(parts[i], LastNumber + i)]
  BY <1>1 DEF Numbered
<1>3. ASSUME NEW i \in 1..Len(parts)
      PROVE  /\ P[i].n = LastNumber + i
             /\ P[i].kind = parts[i].kind
             /\ parts[i].kind = "call" => P[i].id = parts[i].id
  <2>1. P[i] = Number(parts[i], LastNumber + i)
    BY <1>2
  <2>2. "kind" \in DOMAIN parts[i] /\ (parts[i].kind = "call" => "id" \in DOMAIN parts[i])
    BY <1>1 DEF Sayable
  <2> HIDE DEF P
  <2> QED BY <2>1, <2>2 DEF Number
<1>4. P \in Seq({P[i] : i \in 1..Len(parts)}) /\ Len(P) = Len(parts)
  BY <1>1, <1>2
<1>5. IsSeq(P) /\ DOMAIN P = 1..Len(parts)
  BY <1>4, AnySeq, SeqFacts
<1> HIDE DEF P
<1>6. CallsApart(P)
  BY <1>1, <1>3, <1>5 DEF CallsApart
<1>7. P # <<>>
  BY <1>1, <1>4, <1>5, SeqFacts
<1>8. \A i \in DOMAIN P : P[i].n \in Nat
  BY <1>1, <1>3, <1>5
<1> QED BY <1>6, <1>7, <1>8 DEF P

\* One more content.
LEMMA SayHolds ==
    ASSUME HistoryHolds, NEW role, NEW parts, Sayable(parts), Say(role, parts)
    PROVE  HistoryHolds'
<1> DEFINE c == [role |-> role, parts |-> Numbered(parts)]
<1>1. LastNumber \in Nat
  BY LastNumberIsNat
<1>2. CallsApart(c.parts) /\ c.parts # <<>> /\ \A i \in DOMAIN c.parts : c.parts[i].n \in Nat
  BY <1>1, NumberedFacts
<1>3. contents' = Append(contents, c) /\ IsSeq(contents)
  BY DEF Say, HistoryHolds, CallsApartIn
<1> HIDE DEF c
<1>4. /\ IsSeq(contents') /\ Len(contents) \in Nat /\ DOMAIN contents = 1..Len(contents)
      /\ DOMAIN contents' = 1..(Len(contents) + 1)
      /\ \A i \in 1..Len(contents) : contents'[i] = contents[i]
      /\ contents'[Len(contents) + 1] = c
  BY <1>3, AppendFacts, SeqFacts
<1>5. ASSUME NEW i \in DOMAIN contents'
      PROVE  /\ CallsApart(contents'[i].parts)
             /\ contents'[i].parts # <<>>
             /\ \A j \in DOMAIN contents'[i].parts : contents'[i].parts[j].n \in Nat
  <2>1. i \in 1..Len(contents) \/ i = Len(contents) + 1
    BY <1>4
  <2>2. CASE i = Len(contents) + 1
    BY <1>2, <1>4, <2>2
  <2>3. CASE i \in 1..Len(contents)
    BY <1>4, <2>3 DEF HistoryHolds, CallsApartIn
  <2> QED BY <2>1, <2>2, <2>3
<1> QED BY <1>4, <1>5 DEF HistoryHolds, CallsApartIn

\* A turn of user or model, the one call of a turn, and results.
LEMMA SpokenIsSayable ==
    ASSUME NEW turn \in UserTurns \cup ModelTurns
    PROVE  Sayable(turn)
<1>1. turn \in Seq(Answer) /\ turn # <<>>
  <2>1. Said \subseteq Answer
    BY DEF Answer
  <2> QED BY <2>1, TurnsAssumption, SeqMonotonic
<1>2. IsSeq(turn) /\ DOMAIN turn = 1..Len(turn) /\ \A i \in 1..Len(turn) : turn[i] \in Answer
  BY <1>1, AnySeq, SeqFacts, ElementOfSeq
<1>3. \A p \in Answer : "kind" \in DOMAIN p /\ (p.kind = "call" => "id" \in DOMAIN p /\ p.id \in Nat)
  BY DEF Answer, Said
<1>4. turn \in UserTurns => \A i \in DOMAIN turn : turn[i].kind # "call"
  <2>1. turn \in UserTurns => \A i \in 1..Len(turn) : turn[i] \in Said
    BY TurnsAssumption, ElementOfSeq
  <2>2. \A p \in Said : p.kind # "call"
    BY DEF Said
  <2> QED BY <1>2, <2>1, <2>2
<1>5. \A i, j \in DOMAIN turn :
        /\ turn[i].kind = "call" /\ turn[j].kind = "call"
        /\ turn[i].id = turn[j].id /\ turn[i].id # NoId
        => i = j
  BY <1>4, TurnsAssumption
<1> QED BY <1>1, <1>2, <1>3, <1>5 DEF Sayable, CallsApart

LEMMA WordsAreSayable == Sayable(<<Text("some", NoItem)>>)
<1> DEFINE p == Text("some", NoItem)
<1>1. "kind" \in DOMAIN p /\ p.kind # "call"
  BY DEF Text
<1> HIDE DEF p
<1>2. IsSeq(<<p>>) /\ <<p>> # <<>> /\ DOMAIN <<p>> = {1} /\ <<p>>[1] = p
  BY SingleFacts
<1>3. Sayable(<<p>>)
  BY <1>1, <1>2 DEF Sayable, CallsApart
<1> QED BY <1>3 DEF p

LEMMA CallIsSayable ==
    ASSUME NEW id \in Nat, NEW name, NEW native
    PROVE  Sayable(<<Call(id, name, native)>>)
<1> DEFINE p == Call(id, name, native)
<1>1. "kind" \in DOMAIN p /\ "id" \in DOMAIN p /\ p.id \in Nat
  BY DEF Call
<1> HIDE DEF p
<1>2. IsSeq(<<p>>) /\ <<p>> # <<>> /\ DOMAIN <<p>> = {1} /\ <<p>>[1] = p
  BY SingleFacts
<1>3. Sayable(<<p>>)
  BY <1>1, <1>2 DEF Sayable, CallsApart
<1> QED BY <1>3 DEF p

LEMMA ResultsAreSayable ==
    ASSUME NEW s, IsSeq(s), s # <<>>,
           \A i \in DOMAIN s : \E id, name, answers, found :
               s[i] = Result(id, name, answers, found)
    PROVE  Sayable(s)
<1>1. \A i \in DOMAIN s : "kind" \in DOMAIN s[i] /\ s[i].kind # "call"
  BY DEF Result
<1> QED BY <1>1 DEF Sayable, CallsApart

LEMMA CompactHolds ==
    ASSUME HistoryHolds, Compact
    PROVE  HistoryHolds'
<1> DEFINE c == [role |-> "user", parts |-> <<AdaptersText>>]
<1>1. PICK k \in 2..(Len(contents) - 1) :
        contents' = <<c>> \o SubSeq(contents, k + 1, Len(contents))
  BY DEF Compact
<1> DEFINE rest == SubSeq(contents, k + 1, Len(contents))
<1>2. IsSeq(contents) /\ Len(contents) \in Nat /\ DOMAIN contents = 1..Len(contents)
  BY SeqFacts DEF HistoryHolds, CallsApartIn
<1>3. CallsApart(c.parts) /\ c.parts # <<>> /\ \A i \in DOMAIN c.parts : c.parts[i].n \in Nat
  <2> DEFINE p == AdaptersText
  <2>1. p.n = 0 /\ p.kind = "text"
    <3> DEFINE t == Text("some", NoItem)
    <3>1. "kind" \in DOMAIN t /\ t.kind = "text"
      BY DEF Text
    <3>2. p = Number(t, 0)
      BY DEF AdaptersText
    <3> HIDE DEF t, p
    <3> QED BY <3>1, <3>2 DEF Number
  <2> HIDE DEF p
  <2>2. IsSeq(<<p>>) /\ <<p>> # <<>> /\ DOMAIN <<p>> = {1} /\ <<p>>[1] = p
    BY SingleFacts
  <2>3. c.parts = <<p>>
    BY DEF p
  <2> HIDE DEF c
  <2> QED BY <2>1, <2>2, <2>3 DEF CallsApart
<1>4. IsSeq(rest) /\ \A i \in 1..Len(rest) : i + k \in 1..Len(contents) /\ rest[i] = contents[i + k]
  <2>1. contents \in Seq(ToSet(contents)) /\ k + 1 \in 1..Len(contents)
    BY <1>2 DEF IsSeq
  <2>2. /\ rest \in Seq(ToSet(contents))
        /\ Len(rest) = Len(contents) - k
        /\ \A i \in 1..Len(rest) : rest[i] = contents[i + k]
    BY <1>2, <2>1
  <2>3. k \in Nat
    BY <1>2
  <2> HIDE DEF rest, c
  <2>4. \A i \in 1..Len(rest) : i + k \in 1..Len(contents)
    BY <1>2, <2>2, <2>3
  <2>5. IsSeq(rest)
    BY <2>2, AnySeq
  <2> QED BY <2>2, <2>4, <2>5
<1> HIDE DEF c, rest
<1>5. IsSeq(<<c>>) /\ Len(<<c>>) = 1 /\ <<c>>[1] = c
  BY SingleFacts
<1>6. contents' = <<c>> \o rest
  BY <1>1 DEF rest
<1>7. /\ IsSeq(contents') /\ Len(rest) \in Nat /\ DOMAIN contents' = 1..(Len(rest) + 1)
      /\ contents'[1] = c
      /\ \A i \in 1..Len(rest) : contents'[1 + i] = rest[i]
  BY <1>4, <1>5, <1>6, ConcatFacts, SeqFacts
<1>8. ASSUME NEW i \in DOMAIN contents'
      PROVE  /\ CallsApart(contents'[i].parts)
             /\ contents'[i].parts # <<>>
             /\ \A j \in DOMAIN contents'[i].parts : contents'[i].parts[j].n \in Nat
  <2>1. CASE i = 1
    BY <1>3, <1>7, <2>1
  <2>2. CASE i # 1
    <3> DEFINE j == i - 1
    <3>1. j \in 1..Len(rest) /\ 1 + j = i
      BY <1>7, <2>2
    <3> HIDE DEF j
    <3>2. contents'[i] = contents[j + k] /\ j + k \in DOMAIN contents
      BY <1>2, <1>4, <1>7, <3>1
    <3> QED BY <3>2 DEF HistoryHolds, CallsApartIn
  <2> QED BY <2>1, <2>2
<1> QED BY <1>7, <1>8 DEF HistoryHolds, CallsApartIn

\* The empty history holds, and every step keeps it so.
LEMMA InitHolds == Init => HistoryHolds
<1>1. IsSeq(<<>>) /\ DOMAIN <<>> = {}
  BY NoSeq
<1> QED BY <1>1 DEF Init, HistoryHolds, CallsApartIn

LEMMA StepHolds == HistoryHolds /\ [Next]_vars => HistoryHolds'
<1> SUFFICES ASSUME HistoryHolds, [Next]_vars PROVE HistoryHolds'
  OBVIOUS
<1>1. ASSUME UNCHANGED contents PROVE HistoryHolds'
  BY <1>1 DEF HistoryHolds
<1>2. CASE UserSpeaks
  <2>1. PICK turn \in UserTurns \cup {<<Text("some", NoItem)>>} : Say("user", turn)
    BY <1>2 DEF UserSpeaks
  <2>2. Sayable(turn)
    BY SpokenIsSayable, WordsAreSayable
  <2> QED BY <2>1, <2>2, SayHolds
<1>3. CASE ModelSpeaks
  <2>1. PICK turn \in ModelTurns : Say("model", turn)
    BY <1>3 DEF ModelSpeaks
  <2> QED BY <2>1, SpokenIsSayable, SayHolds
<1>4. CASE ToolsAnswer
  <2>1. PICK count \in 1..Cardinality(Open) : \E pick \in [1..count -> Open] :
          Say("user", [i \in 1..count |-> Result(pick[i].id, pick[i].name, pick[i].n, <<>>)])
    BY <1>4 DEF ToolsAnswer
  <2>7. PICK pick \in [1..count -> Open] :
          Say("user", [i \in 1..count |-> Result(pick[i].id, pick[i].name, pick[i].n, <<>>)])
    BY <2>1
  <2> DEFINE s == [i \in 1..count |-> Result(pick[i].id, pick[i].name, pick[i].n, <<>>)]
  <2>2. count \in Nat \ {0}
    OBVIOUS
  <2>3. s \in Seq({s[i] : i \in 1..count}) /\ Len(s) = count
    BY <2>2
  <2>4. IsSeq(s) /\ s # <<>> /\ DOMAIN s = 1..count
    BY <2>2, <2>3, AnySeq, SeqFacts
  <2>5. \A i \in 1..count : s[i] = Result(pick[i].id, pick[i].name, pick[i].n, <<>>)
    OBVIOUS
  <2> HIDE DEF s
  <2>6. Sayable(s)
    BY <2>4, <2>5, ResultsAreSayable
  <2> QED BY <2>6, <2>7, SayHolds DEF s
<1>5. CASE ModelSearches
  <2>1. Say("model", <<Call(LastNumber + 1, SearchTool, NoId)>>) /\ LastNumber + 1 \in Nat
    BY <1>5, LastNumberIsNat DEF ModelSearches
  <2> QED BY <2>1, CallIsSayable, SayHolds
<1>6. CASE SearchAnswers
  <2>1. PICK call, found : Say("user", <<Result(call.id, SearchTool, call.n, found)>>)
    BY <1>6 DEF SearchAnswers
  <2> DEFINE r == Result(call.id, SearchTool, call.n, found)
  <2>2. IsSeq(<<r>>) /\ <<r>> # <<>> /\ DOMAIN <<r>> = {1} /\ <<r>>[1] = r
    BY SingleFacts
  <2>3. Sayable(<<r>>)
    BY <2>2, ResultsAreSayable
  <2> QED BY <2>1, <2>3, SayHolds
<1>7. CASE ModelCalls
  <2>1. PICK t, namespace : Say("model", <<Call(LastNumber + 1, t, namespace)>>)
    BY <1>7 DEF ModelCalls
  <2>2. LastNumber + 1 \in Nat
    BY LastNumberIsNat
  <2> QED BY <2>1, <2>2, CallIsSayable, SayHolds
<1>8. CASE Revoke \/ Grant \/ ApplicationLoads \/ UNCHANGED vars
  BY <1>1, <1>8 DEF Revoke, Grant, ApplicationLoads, vars
<1>9. CASE Compact
  BY <1>9, CompactHolds
<1> QED BY <1>2, <1>3, <1>4, <1>5, <1>6, <1>7, <1>8, <1>9 DEF Next

\* The history the requests are made from is one the conversion can settle.
THEOREM HistoryInvariant == Spec => []HistoryHolds
<1> QED BY InitHolds, StepHolds, PTL DEF Spec

LEMMA HistoryIsSettled == HistoryHolds => ChatIsSettled
<1> SUFFICES ASSUME HistoryHolds PROVE ChatIsSettled
  OBVIOUS
<1> DEFINE w == ChatHistory(contents)[Len(contents)]
<1>1. ChatSettled(w)
  BY ChatHistorySettles DEF HistoryHolds
<1>2. Chat.messages = w.messages
      /\ Chat.ok = (~w.failed /\ w.tracker.pending = <<>> /\ w.messages # <<>>)
  BY DEF Chat, ChatMessages
<1> SUFFICES ASSUME Chat.ok, NEW sent \in {Chat.messages}
             PROVE  /\ \A i \in DOMAIN sent : CallsOf(sent[i]) # {} =>
                         /\ Run(sent, i) \subseteq DOMAIN sent
                         /\ \A j \in Run(sent, i) : sent[j].role = "tool"
                         /\ {sent[j].id : j \in Run(sent, i)} = CallsOf(sent[i])
                    /\ \A j \in DOMAIN sent : sent[j].role = "tool" =>
                         \E i \in 1..(j - 1) : j \in Run(sent, i)
  BY ZenonT(60) DEF ChatIsSettled, CallsOf, Run
<1> DEFINE m == Chat.messages
<1>m. sent = m
  OBVIOUS
<1> HIDE DEF w, m
<1>3. Settled(m, <<>>)
  BY <1>1, <1>2 DEF ChatSettled, m
<1>4. /\ IsSeq(m)
      /\ \A j \in 1..Len(m) : m[j].role = "tool" => \E i \in 1..(j - 1) : j \in Run(m, i)
      /\ \A i \in 1..Len(m) : i # 0 => AllAnswered(m, i)
  BY <1>3 DEF Settled
<1>5. DOMAIN m = 1..Len(m) /\ 0 \notin 1..Len(m)
  BY <1>4, SeqFacts
<1> QED BY <1>m, <1>4, <1>5 DEF AllAnswered

\* A Chat Completions request answers all the calls of an assistant message,
\* each once, before anything else is said (chat.go:59, 110, 130).
THEOREM ChatRequestsAreSettled == Spec => []ChatIsSettled
<1> QED BY HistoryInvariant, HistoryIsSettled, PTL

------------------------------------------------------------------------------
(* Anthropic: blocks and messages *)

LEMMA BlocksWalkExists ==
    ASSUME NEW content
    PROVE  \A n \in Nat : \E f : WalksBlocks(f, content, n)
<1> DEFINE T == {n \in Nat : \E f : WalksBlocks(f, content, n)}
           After(before, k) == IF Sendable(content, content.parts[k])
                               THEN Append(before, Block(content.parts[k])) ELSE before
<1>1. 0 \in T
  <2> DEFINE g == [k \in 0..0 |-> <<>>]
  <2>1. WalksBlocks(g, content, 0)
    BY DEF WalksBlocks
  <2> QED BY <2>1
<1>2. ASSUME NEW n \in Nat, n \in T PROVE n + 1 \in T
  <2>1. PICK f : WalksBlocks(f, content, n)
    BY <1>2
  <2> DEFINE g == [k \in 0..(n + 1) |-> IF k # n + 1 THEN f[k] ELSE After(f[n], k)]
  <2>2. \A k \in 0..n : f[k] = IF k = 0 THEN <<>> ELSE After(f[k - 1], k)
    BY <2>1 DEF WalksBlocks
  <2> HIDE DEF After
  <2>3. \A k \in 0..(n + 1) : k = n + 1 \/ k \in 0..n
    OBVIOUS
  <2>4. \A k \in 0..n : g[k] = f[k]
    OBVIOUS
  <2>5. \A k \in 1..(n + 1) : g[k - 1] = f[k - 1]
    BY <2>4
  <2>6. \A k \in 0..(n + 1) : g[k] = IF k = 0 THEN <<>> ELSE After(g[k - 1], k)
    BY <2>2, <2>3, <2>4, <2>5
  <2>7. g = [k \in 0..(n + 1) |-> g[k]]
    OBVIOUS
  <2> HIDE DEF g
  <2>8. g = [k \in 0..(n + 1) |-> IF k = 0 THEN <<>> ELSE After(g[k - 1], k)]
    BY <2>6, <2>7
  <2>9. WalksBlocks(g, content, n + 1)
    BY <2>8 DEF WalksBlocks, After
  <2> QED BY <2>9
<1> HIDE DEF T
<1>3. Nat \subseteq T
  BY <1>1, <1>2, SetInduction
<1> QED BY <1>3 DEF T

LEMMA BlocksUpToFacts ==
    ASSUME NEW content, IsSeq(content.parts)
    PROVE  /\ BlocksUpTo(content)[0] = <<>>
           /\ \A k \in 1..Len(content.parts) :
                BlocksUpTo(content)[k] =
                  IF Sendable(content, content.parts[k])
                  THEN Append(BlocksUpTo(content)[k - 1], Block(content.parts[k]))
                  ELSE BlocksUpTo(content)[k - 1]
<1> DEFINE n == Len(content.parts)
           f == CHOOSE g : WalksBlocks(g, content, n)
<1>1. n \in Nat
  BY SeqFacts
<1>2. WalksBlocks(f, content, n)
  BY <1>1, BlocksWalkExists
<1>3. BlocksUpTo(content) = f
  BY DEF BlocksUpTo, WalksBlocks
<1> HIDE DEF f, n
<1>4. \A k \in 0..n : f[k] = IF k = 0 THEN <<>> ELSE
          IF Sendable(content, content.parts[k])
          THEN Append(f[k - 1], Block(content.parts[k])) ELSE f[k - 1]
  BY <1>2 DEF WalksBlocks
<1> QED BY <1>1, <1>3, <1>4 DEF n

\* The blocks of a content are made of the parts that may be sent, and of each
\* of them something is sent.
LEMMA BlocksFacts ==
    ASSUME NEW content, IsSeq(content.parts)
    PROVE  /\ IsSeq(Blocks(content))
           /\ \A i \in 1..Len(Blocks(content)) : \E q \in DOMAIN content.parts :
                /\ Sendable(content, content.parts[q])
                /\ Blocks(content)[i] = Block(content.parts[q])
           /\ (\E q \in DOMAIN content.parts : Sendable(content, content.parts[q]))
                => Blocks(content) # <<>>
<1> DEFINE n == Len(content.parts)
           upTo == BlocksUpTo(content)
           Took(s, k) == /\ IsSeq(s)
                         /\ \A i \in 1..Len(s) : \E q \in 1..k :
                              /\ Sendable(content, content.parts[q])
                              /\ s[i] = Block(content.parts[q])
                         /\ (\E q \in 1..k : Sendable(content, content.parts[q])) => s # <<>>
           T == {k \in Nat : k <= n => Took(upTo[k], k)}
<1>1. n \in Nat /\ DOMAIN content.parts = 1..n
  BY SeqFacts
<1>2. upTo[0] = <<>> /\ \A k \in 1..n : upTo[k] =
          IF Sendable(content, content.parts[k])
          THEN Append(upTo[k - 1], Block(content.parts[k])) ELSE upTo[k - 1]
  BY BlocksUpToFacts
<1>3. Blocks(content) = upTo[n]
  BY DEF Blocks
<1> HIDE DEF n, upTo
<1>4. 0 \in T
  BY <1>2, NoSeq
<1>5. ASSUME NEW k \in Nat, k \in T PROVE k + 1 \in T
  <2> SUFFICES ASSUME k + 1 <= n PROVE Took(upTo[k + 1], k + 1)
    OBVIOUS
  <2>1. Took(upTo[k], k) /\ k + 1 \in 1..n /\ (k + 1) - 1 = k
    BY <1>1, <1>5
  <2> DEFINE p == content.parts[k + 1]
             s == upTo[k]
  <2>2. upTo[k + 1] = IF Sendable(content, p) THEN Append(s, Block(p)) ELSE s
    BY <1>2, <2>1
  <2>3. \A q \in 1..k : q \in 1..(k + 1)
    OBVIOUS
  <2>4. \A q \in 1..(k + 1) : q \in 1..k \/ q = k + 1
    OBVIOUS
  <2>5. CASE ~Sendable(content, p)
    BY <2>1, <2>2, <2>3, <2>4, <2>5
  <2>6. CASE Sendable(content, p)
    <3>1. upTo[k + 1] = Append(s, Block(p))
      BY <2>2, <2>6
    <3>2. /\ IsSeq(Append(s, Block(p))) /\ Append(s, Block(p)) # <<>>
          /\ Len(Append(s, Block(p))) = Len(s) + 1
          /\ \A i \in 1..Len(s) : Append(s, Block(p))[i] = s[i]
          /\ Append(s, Block(p))[Len(s) + 1] = Block(p)
      BY <2>1, AppendFacts
    <3>3. Len(s) \in Nat
      BY <2>1, SeqFacts
    <3>4. \A i \in 1..(Len(s) + 1) : i \in 1..Len(s) \/ i = Len(s) + 1
      BY <3>3
    <3>5. k + 1 \in 1..(k + 1)
      OBVIOUS
    <3>6. ASSUME NEW i \in 1..(Len(s) + 1)
          PROVE  \E q \in 1..(k + 1) : /\ Sendable(content, content.parts[q])
                                       /\ Append(s, Block(p))[i] = Block(content.parts[q])
      <4>1. CASE i \in 1..Len(s)
        <5>1. PICK q \in 1..k : Sendable(content, content.parts[q]) /\ s[i] = Block(content.parts[q])
          BY <2>1, <4>1
        <5> QED BY <2>3, <3>2, <4>1, <5>1
      <4>2. CASE i = Len(s) + 1
        BY <2>6, <3>2, <3>5, <4>2
      <4> QED BY <3>4, <4>1, <4>2
    <3> HIDE DEF p, s
    <3> QED BY <3>1, <3>2, <3>6
  <2> QED BY <2>5, <2>6
<1>6. Took(upTo[n], n)
  <2> HIDE DEF T
  <2>1. Nat \subseteq T
    BY <1>4, <1>5, SetInduction
  <2>2. n \in T
    BY <1>1, <2>1
  <2> QED BY <1>1, <2>2 DEF T
<1> QED BY <1>1, <1>3, <1>6

LEMMA MessagesWalkExists ==
    ASSUME NEW history
    PROVE  \A n \in Nat : \E f : WalksMessages(f, history, n)
<1> DEFINE T == {n \in Nat : \E f : WalksMessages(f, history, n)}
<1>1. 0 \in T
  <2> DEFINE g == [k \in 0..0 |-> NoMessages]
  <2>1. WalksMessages(g, history, 0)
    BY DEF WalksMessages
  <2> QED BY <2>1
<1>2. ASSUME NEW n \in Nat, n \in T PROVE n + 1 \in T
  <2>1. PICK f : WalksMessages(f, history, n)
    BY <1>2
  <2> DEFINE g == [k \in 0..(n + 1) |-> IF k # n + 1 THEN f[k] ELSE NextMessages(f[n], history, k)]
  <2>2. \A k \in 0..n : f[k] = IF k = 0 THEN NoMessages ELSE NextMessages(f[k - 1], history, k)
    BY <2>1 DEF WalksMessages
  <2>3. \A k \in 0..(n + 1) : k = n + 1 \/ k \in 0..n
    OBVIOUS
  <2>4. \A k \in 0..n : g[k] = f[k]
    OBVIOUS
  <2>5. \A k \in 1..(n + 1) : g[k - 1] = f[k - 1]
    BY <2>4
  <2>6. \A k \in 0..(n + 1) : g[k] = IF k = 0 THEN NoMessages ELSE NextMessages(g[k - 1], history, k)
    BY <2>2, <2>3, <2>4, <2>5
  <2>7. g = [k \in 0..(n + 1) |-> g[k]]
    OBVIOUS
  <2> HIDE DEF g
  <2>8. WalksMessages(g, history, n + 1)
    BY <2>6, <2>7 DEF WalksMessages
  <2> QED BY <2>8
<1> HIDE DEF T
<1>3. Nat \subseteq T
  BY <1>1, <1>2, SetInduction
<1> QED BY <1>3 DEF T

LEMMA MessagesWalkFacts ==
    ASSUME NEW history, IsSeq(history)
    PROVE  /\ NormalizeConsecutiveMessages(history)[0] = NoMessages
           /\ \A k \in 1..Len(history) : NormalizeConsecutiveMessages(history)[k] =
                NextMessages(NormalizeConsecutiveMessages(history)[k - 1], history, k)
<1> DEFINE f == CHOOSE g : WalksMessages(g, history, Len(history))
<1>1. Len(history) \in Nat
  BY SeqFacts
<1>2. WalksMessages(f, history, Len(history))
  BY <1>1, MessagesWalkExists
<1>3. NormalizeConsecutiveMessages(history) = f
  <2>1. \A k : MessageOf(history, k).content = Blocks(history[k])
    BY DEF MessageOf
  <2> QED BY <2>1 DEF NormalizeConsecutiveMessages, WalksMessages, NextMessages, NoMessages
<1>4. \A k \in 0..Len(history) :
        f[k] = IF k = 0 THEN NoMessages ELSE NextMessages(f[k - 1], history, k)
  BY <1>2 DEF WalksMessages
<1> HIDE DEF f
<1> QED BY <1>1, <1>3, <1>4

------------------------------------------------------------------------------
(* Anthropic: what the walk over the messages keeps *)

\* A content the user's role is given to shows no thinking.
LEMMA UsersDoNotThink ==
    ASSUME NEW content, IsSeq(content.parts), MessageRole(content) = "user",
           NEW b \in ToSet(Blocks(content)),
           \A q \in DOMAIN content.parts : content.parts[q].kind \in
                {"text", "media", "thought", "signed", "call", "result"}
    PROVE  b.type # "thinking"
<1>1. IsSeq(Blocks(content)) /\ DOMAIN Blocks(content) = 1..Len(Blocks(content))
  BY BlocksFacts, SeqFacts
<1>2. PICK i \in 1..Len(Blocks(content)) : b = Blocks(content)[i]
  BY <1>1 DEF ToSet
<1>3. PICK q \in DOMAIN content.parts :
        Sendable(content, content.parts[q]) /\ b = Block(content.parts[q])
  BY <1>2, BlocksFacts
<1>4. content.parts[q].kind \in {"text", "media", "call", "result"}
  BY <1>3 DEF Sendable
<1> QED BY <1>3, <1>4 DEF Block

\* A content that sends nothing changes nothing.
LEMMA TurnsSkip ==
    ASSUME NEW h, NEW k \in Nat, NEW m, TurnsKept(h, k, m), Blocks(h[k + 1]) = <<>>
    PROVE  TurnsKept(h, k + 1, m)
<1>1. \A c \in 1..(k + 1) : c \in 1..k \/ c = k + 1
  OBVIOUS
<1>2. 1..k \subseteq 1..(k + 1)
  OBVIOUS
<1>3. \A i \in 1..Len(m) : MessageOfContents(h, k + 1, m[i])
  BY <1>2 DEF TurnsKept, MessageOfContents
<1>4. \A c \in 1..(k + 1) : Blocks(h[c]) # <<>> => \E i \in 1..Len(m) : c \in m[i].from
  BY <1>1 DEF TurnsKept
<1> QED BY <1>3, <1>4 DEF TurnsKept

\* The message of the next content, by itself.
LEMMA OwnMessage ==
    ASSUME NEW h, NEW k \in Nat, IsSeq(h[k + 1].parts), Blocks(h[k + 1]) # <<>>,
           MessageRole(h[k + 1]) \in {"user", "assistant"}
    PROVE  /\ MessageOfContents(h, k + 1, MessageOf(h, k + 1))
           /\ MessageOf(h, k + 1).from = {k + 1}
           /\ MessageOf(h, k + 1).content = Blocks(h[k + 1])
           /\ MessageOf(h, k + 1).role = MessageRole(h[k + 1])
<1> DEFINE x == MessageOf(h, k + 1)
<1>1. /\ x = [role |-> MessageRole(h[k + 1]), content |-> Blocks(h[k + 1]), from |-> {k + 1}]
      /\ x.from = {k + 1} /\ x.content = Blocks(h[k + 1]) /\ x.role = MessageRole(h[k + 1])
  BY DEF MessageOf
<1>2. IsSeq(Blocks(h[k + 1]))
  BY BlocksFacts
<1>3. {k + 1} \subseteq 1..(k + 1) /\ {k + 1} # {}
  OBVIOUS
<1>4. \A q \in DOMAIN x.content : x.content[q] \in ToSet(Blocks(h[k + 1]))
  BY <1>1 DEF ToSet
<1> HIDE DEF x
<1>5. MessageOfContents(h, k + 1, x)
  BY <1>1, <1>2, <1>3, <1>4 DEF MessageOfContents
<1> QED BY <1>1, <1>5 DEF x

\* A message of another role, or the first, is appended.
LEMMA TurnsAppend ==
    ASSUME NEW h, NEW k \in Nat, NEW m, TurnsKept(h, k, m), NEW x,
           MessageOfContents(h, k + 1, x), x.from = {k + 1},
           m # <<>> => m[Len(m)].role # x.role
    PROVE  TurnsKept(h, k + 1, Append(m, x))
<1> DEFINE n == Append(m, x)
           L == Len(m)
<1>1. /\ IsSeq(m) /\ L \in Nat
      /\ \A i \in 1..L : MessageOfContents(h, k, m[i])
      /\ \A i, j \in 1..L : j = i + 1 =>
           /\ m[i].role # m[j].role
           /\ HasBlock(m[i], "tool_use") => m[j].from # {}
      /\ \A i, j \in 1..L : i < j => \A c \in m[i].from, d \in m[j].from : c < d
      /\ \A c \in 1..k : Blocks(h[c]) # <<>> => \E i \in 1..L : c \in m[i].from
      /\ m = <<>> <=> L = 0
  BY SeqFacts DEF TurnsKept
<1>2. /\ IsSeq(n) /\ n # <<>> /\ Len(n) = L + 1 /\ n[L + 1] = x
      /\ \A i \in 1..L : n[i] = m[i]
  BY <1>1, AppendFacts
<1> HIDE DEF n, L
<1>3. \A i \in 1..(L + 1) : i \in 1..L \/ i = L + 1
  BY <1>1
<1>4. \A i \in 1..L : MessageOfContents(h, k + 1, m[i]) /\ m[i].from \subseteq 1..k
  BY <1>1 DEF MessageOfContents
<1>5. \A i \in 1..(L + 1) : MessageOfContents(h, k + 1, n[i])
  BY <1>2, <1>3, <1>4
<1>6. ASSUME NEW i \in 1..(L + 1), NEW j \in 1..(L + 1), j = i + 1
      PROVE  /\ n[i].role # n[j].role
             /\ HasBlock(n[i], "tool_use") => n[j].from # {}
  <2>1. i \in 1..L
    BY <1>1, <1>6
  <2>2. CASE j \in 1..L
    <3>1. n[i] = m[i] /\ n[j] = m[j]
      BY <1>2, <2>1, <2>2
    <3>2. /\ m[i].role # m[j].role
          /\ HasBlock(m[i], "tool_use") => m[j].from # {}
      BY <1>1, <1>6, <2>1, <2>2
    <3> QED BY <3>1, <3>2
  <2>3. CASE j = L + 1
    <3>1. i = L /\ m # <<>>
      BY <1>1, <1>6, <2>1, <2>3
    <3> QED BY <1>2, <2>1, <2>3, <3>1 DEF L
  <2> QED BY <1>3, <2>2, <2>3
<1>7. ASSUME NEW i \in 1..(L + 1), NEW j \in 1..(L + 1), i < j,
             NEW c \in n[i].from, NEW d \in n[j].from
      PROVE  c < d
  <2>1. i \in 1..L
    BY <1>1, <1>7
  <2>2. CASE j \in 1..L
    <3>1. c \in m[i].from /\ d \in m[j].from
      BY <1>2, <1>7, <2>1, <2>2
    <3> QED BY <1>1, <1>7, <2>1, <2>2, <3>1
  <2>3. CASE j = L + 1
    <3>1. d = k + 1 /\ c \in 1..k
      BY <1>2, <1>4, <1>7, <2>1, <2>3
    <3> QED BY <3>1
  <2> QED BY <1>3, <2>2, <2>3
<1>8. n[Len(n)].from # {}
  <2>1. n[Len(n)] = x
    BY <1>2
  <2>2. n[Len(n)].from = {k + 1}
    BY ONLY <2>1, x.from = {k + 1}
  <2> QED BY <2>2
<1>9. ASSUME NEW c \in 1..(k + 1), Blocks(h[c]) # <<>>
      PROVE  \E i \in 1..(L + 1) : c \in n[i].from
  <2>1. c \in 1..k \/ c = k + 1
    OBVIOUS
  <2>2. CASE c = k + 1
    <3>1. L + 1 \in 1..(L + 1)
      BY <1>1
    <3> QED BY <1>2, <2>2, <3>1
  <2>3. CASE c \in 1..k
    <3>1. PICK i \in 1..L : c \in m[i].from
      BY <1>1, <1>9, <2>3
    <3>2. i \in 1..(L + 1)
      BY <1>1
    <3> QED BY <1>2, <3>1, <3>2
  <2> QED BY <2>1, <2>2, <2>3
<1>10. 1..Len(n) = 1..(L + 1)
  BY <1>2
<1>11. TurnsKept(h, k + 1, n)
  BY <1>2, <1>5, <1>6, <1>7, <1>8, <1>9, <1>10 DEF TurnsKept
<1> QED BY <1>11 DEF n

LEMMA TwoMore ==
    ASSUME NEW s, IsSeq(s), NEW a, NEW b
    PROVE  /\ IsSeq(s \o <<a, b>>)
           /\ Len(s \o <<a, b>>) = Len(s) + 2
           /\ \A i \in 1..Len(s) : (s \o <<a, b>>)[i] = s[i]
           /\ (s \o <<a, b>>)[Len(s) + 1] = a
           /\ (s \o <<a, b>>)[Len(s) + 2] = b
<1> DEFINE t == <<a, b>>
<1>1. t \in Seq({a, b}) /\ Len(t) = 2 /\ t[1] = a /\ t[2] = b
  OBVIOUS
<1> HIDE DEF t
<1>2. IsSeq(t) /\ 1 \in 1..2 /\ 2 \in 1..2
  BY <1>1, AnySeq
<1>3. /\ IsSeq(s \o t)
      /\ Len(s \o t) = Len(s) + Len(t)
      /\ \A i \in 1..Len(s) : (s \o t)[i] = s[i]
      /\ \A i \in 1..Len(t) : (s \o t)[Len(s) + i] = t[i]
  BY <1>2, ConcatFacts
<1>4. (s \o t)[Len(s) + 1] = a /\ (s \o t)[Len(s) + 2] = b
  BY <1>1, <1>2, <1>3
<1> QED BY <1>1, <1>3, <1>4 DEF t

\* The adapter's continuation keeps two turns of the assistant apart.
LEMMA TurnsContinue ==
    ASSUME NEW h, NEW k \in Nat, NEW m, TurnsKept(h, k, m), m # <<>>, NEW x,
           MessageOfContents(h, k + 1, x), x.from = {k + 1},
           x.role = "assistant", m[Len(m)].role = "assistant",
           ~HasBlock(m[Len(m)], "tool_use")
    PROVE  TurnsKept(h, k + 1, m \o <<ContinuationPrompt, x>>)
<1> DEFINE L == Len(m)
           n == m \o <<ContinuationPrompt, x>>
<1>1. /\ IsSeq(m) /\ L \in Nat /\ L # 0
      /\ \A i \in 1..L : MessageOfContents(h, k, m[i])
      /\ \A i, j \in 1..L : j = i + 1 =>
           /\ m[i].role # m[j].role
           /\ HasBlock(m[i], "tool_use") => m[j].from # {}
      /\ \A i, j \in 1..L : i < j => \A c \in m[i].from, d \in m[j].from : c < d
      /\ \A c \in 1..k : Blocks(h[c]) # <<>> => \E i \in 1..L : c \in m[i].from
  BY SeqFacts DEF TurnsKept
<1>2. /\ ContinuationPrompt.role = "user" /\ ContinuationPrompt.from = {}
      /\ ~HasBlock(ContinuationPrompt, "thinking") /\ ~HasBlock(ContinuationPrompt, "tool_use")
      /\ ContinuationPrompt = [role |-> ContinuationPrompt.role,
             content |-> ContinuationPrompt.content, from |-> ContinuationPrompt.from]
      /\ IsSeq(ContinuationPrompt.content)
  BY SingleFacts DEF ContinuationPrompt, HasBlock
<1> HIDE DEF L
<1>4. /\ IsSeq(n) /\ Len(n) = L + 2
      /\ \A i \in 1..L : n[i] = m[i]
      /\ n[L + 1] = ContinuationPrompt /\ n[L + 2] = x
  BY <1>1, TwoMore DEF L
<1>5. n # <<>>
  BY <1>1, <1>4, SeqFacts
<1> HIDE DEF n
<1>6. \A i \in 1..(L + 2) : i \in 1..L \/ i = L + 1 \/ i = L + 2
  BY <1>1
<1>7. \A i \in 1..L : MessageOfContents(h, k + 1, m[i]) /\ m[i].from \subseteq 1..k
  BY <1>1 DEF MessageOfContents
<1>8. MessageOfContents(h, k + 1, ContinuationPrompt)
  BY <1>2 DEF MessageOfContents
<1>9. \A i \in 1..(L + 2) : MessageOfContents(h, k + 1, n[i])
  BY <1>4, <1>6, <1>7, <1>8
<1>10. m[L].role = "assistant" /\ ~HasBlock(m[L], "tool_use")
  BY DEF L
<1>11. {k + 1} # {}
  OBVIOUS
<1>12. ASSUME NEW i \in 1..(L + 2), NEW j \in 1..(L + 2), j = i + 1
       PROVE  /\ n[i].role # n[j].role
              /\ HasBlock(n[i], "tool_use") => n[j].from # {}
  <2>1. CASE j \in 1..L
    <3>1. i \in 1..L
      BY <1>1, <1>12, <2>1
    <3>2. n[i] = m[i] /\ n[j] = m[j]
      BY <1>4, <2>1, <3>1
    <3>3. /\ m[i].role # m[j].role
          /\ HasBlock(m[i], "tool_use") => m[j].from # {}
      BY <1>1, <1>12, <2>1, <3>1
    <3> QED BY <3>2, <3>3
  <2>2. CASE j = L + 1
    <3>1. i = L /\ L \in 1..L
      BY <1>1, <1>12, <2>2
    <3> QED BY <1>2, <1>4, <1>10, <2>2, <3>1
  <2>3. CASE j = L + 2
    <3>1. i = L + 1
      BY <1>1, <1>12, <2>3
    <3> QED BY <1>2, <1>4, <1>11, <2>3, <3>1
  <2> QED BY <1>6, <2>1, <2>2, <2>3
<1>13. ASSUME NEW i \in 1..(L + 2), NEW j \in 1..(L + 2), i < j,
              NEW c \in n[i].from, NEW d \in n[j].from
       PROVE  c < d
  <2>1. i \in 1..L /\ j # L + 1
    BY <1>1, <1>2, <1>4, <1>6, <1>13
  <2>2. CASE j \in 1..L
    <3>1. c \in m[i].from /\ d \in m[j].from
      BY <1>4, <1>13, <2>1, <2>2
    <3> QED BY <1>1, <1>13, <2>1, <2>2, <3>1
  <2>3. CASE j = L + 2
    <3>1. d = k + 1 /\ c \in 1..k
      BY <1>4, <1>7, <1>13, <2>1, <2>3
    <3> QED BY <3>1
  <2> QED BY <1>6, <2>1, <2>2, <2>3
<1>14. n[Len(n)].from # {}
  <2>1. n[Len(n)] = x
    BY <1>4
  <2>2. n[Len(n)].from = {k + 1}
    BY ONLY <2>1, x.from = {k + 1}
  <2> QED BY <2>2
<1>15. ASSUME NEW c \in 1..(k + 1), Blocks(h[c]) # <<>>
       PROVE  \E i \in 1..(L + 2) : c \in n[i].from
  <2>1. c \in 1..k \/ c = k + 1
    OBVIOUS
  <2>2. CASE c = k + 1
    <3>1. L + 2 \in 1..(L + 2)
      BY <1>1
    <3> QED BY <1>4, <2>2, <3>1
  <2>3. CASE c \in 1..k
    <3>1. PICK i \in 1..L : c \in m[i].from
      BY <1>1, <1>15, <2>3
    <3>2. i \in 1..(L + 2)
      BY <1>1
    <3> QED BY <1>4, <3>1, <3>2
  <2> QED BY <2>1, <2>2, <2>3
<1>16. 1..Len(n) = 1..(L + 2)
  BY <1>4
<1>17. TurnsKept(h, k + 1, n)
  BY <1>4, <1>5, <1>9, <1>12, <1>13, <1>14, <1>15, <1>16 DEF TurnsKept
<1> QED BY <1>17 DEF n

\* A message of the same role joins the last one, unless one of them is the
\* assistant's thinking.
LEMMA TurnsJoin ==
    ASSUME NEW h, NEW k \in Nat, NEW m, TurnsKept(h, k, m), m # <<>>, NEW x,
           MessageOfContents(h, k + 1, x), x.from = {k + 1}, x.role = m[Len(m)].role,
           ~HasBlock(m[Len(m)], "thinking"), ~HasBlock(x, "thinking")
    PROVE  TurnsKept(h, k + 1, [m EXCEPT ![Len(m)] = Joined(@, x)])
<1> DEFINE L == Len(m)
           last == m[L]
           y == Joined(last, x)
           n == [m EXCEPT ![L] = y]
<1>1. /\ IsSeq(m) /\ L \in Nat /\ L # 0 /\ DOMAIN m = 1..L
      /\ \A i \in 1..L : MessageOfContents(h, k, m[i])
      /\ \A i, j \in 1..L : j = i + 1 =>
           /\ m[i].role # m[j].role
           /\ HasBlock(m[i], "tool_use") => m[j].from # {}
      /\ \A i, j \in 1..L : i < j => \A c \in m[i].from, d \in m[j].from : c < d
      /\ \A c \in 1..k : Blocks(h[c]) # <<>> => \E i \in 1..L : c \in m[i].from
  BY SeqFacts DEF TurnsKept
<1>2. L \in 1..L /\ last.from # {}
  BY <1>1 DEF TurnsKept
<1>3. /\ last = [role |-> last.role, content |-> last.content, from |-> last.from]
      /\ last.role \in {"user", "assistant"} /\ IsSeq(last.content) /\ last.from \subseteq 1..k
      /\ \A c \in last.from : MessageRole(h[c]) = last.role
      /\ \A q \in DOMAIN last.content : \E c \in last.from : last.content[q] \in ToSet(Blocks(h[c]))
      /\ DOMAIN last.content = 1..Len(last.content) /\ Len(last.content) \in Nat
  BY <1>1, <1>2, SeqFacts DEF MessageOfContents
<1>4. /\ IsSeq(x.content) /\ MessageRole(h[k + 1]) = x.role
      /\ \A q \in DOMAIN x.content : x.content[q] \in ToSet(Blocks(h[k + 1]))
      /\ DOMAIN x.content = 1..Len(x.content) /\ Len(x.content) \in Nat
  BY SeqFacts DEF MessageOfContents
<1>5. x.role = last.role /\ ~HasBlock(last, "thinking") /\ ~HasBlock(x, "thinking")
  OBVIOUS
<1>6. n = [m EXCEPT ![Len(m)] = Joined(@, x)]
  OBVIOUS
<1>7. /\ IsSeq(n) /\ Len(n) = L /\ DOMAIN n = 1..L /\ n[L] = y
      /\ \A i \in 1..L : i # L => n[i] = m[i]
  <2>1. m \in Seq(ToSet(m) \cup {y})
    BY <1>1, SeqMonotonic DEF IsSeq
  <2> HIDE DEF y
  <2>2. n \in Seq(ToSet(m) \cup {y}) /\ Len(n) = L
    BY <1>1, <1>2, <2>1
  <2>3. IsSeq(n)
    BY <2>2, AnySeq
  <2> QED BY <1>1, <1>2, <2>2, <2>3
<1>8. y = [role |-> last.role, content |-> last.content \o x.content, from |-> last.from \cup {k + 1}]
  <2> HIDE DEF last
  <2>1. y = [[last EXCEPT !.content = last.content \o x.content] EXCEPT !.from = last.from \cup {k + 1}]
    BY DEF Joined
  <2> HIDE DEF y
  <2> QED BY ONLY <1>3, <2>1
<1> HIDE DEF n, y, last, L
<1>9. /\ IsSeq(y.content) /\ DOMAIN y.content = 1..(Len(last.content) + Len(x.content))
      /\ \A q \in 1..Len(last.content) : y.content[q] = last.content[q]
      /\ \A q \in 1..Len(x.content) : y.content[Len(last.content) + q] = x.content[q]
  <2> DEFINE a == last.content
             b == x.content
             ab == a \o b
  <2>1. IsSeq(a) /\ IsSeq(b) /\ Len(a) \in Nat /\ Len(b) \in Nat
    BY <1>3, <1>4
  <2>2. y.content = ab
    BY <1>8
  <2> HIDE DEF a, b
  <2>3. /\ IsSeq(ab) /\ Len(ab) = Len(a) + Len(b)
        /\ \A q \in 1..Len(a) : ab[q] = a[q]
        /\ \A q \in 1..Len(b) : ab[Len(a) + q] = b[q]
    BY <2>1, ConcatFacts
  <2> HIDE DEF ab
  <2>4. DOMAIN ab = 1..(Len(a) + Len(b))
    BY <2>3, SeqFacts
  <2> QED BY <2>2, <2>3, <2>4 DEF a, b
<1>10. ASSUME NEW q \in DOMAIN y.content
       PROVE  \/ \E r \in DOMAIN last.content : y.content[q] = last.content[r]
              \/ \E r \in DOMAIN x.content : y.content[q] = x.content[r]
  <2>1. CASE q \in 1..Len(last.content)
    BY <1>3, <1>9, <2>1
  <2>2. CASE q \notin 1..Len(last.content)
    <3> DEFINE r == q - Len(last.content)
    <3>1. r \in 1..Len(x.content) /\ q = Len(last.content) + r
      <4> DEFINE a == Len(last.content)
                 b == Len(x.content)
      <4>1. a \in Nat /\ b \in Nat /\ q \in 1..(a + b) /\ q \notin 1..a
        BY <1>3, <1>4, <1>9, <2>2
      <4> HIDE DEF a, b
      <4>2. q - a \in 1..b /\ q = a + (q - a)
        BY ONLY <4>1
      <4> QED BY <4>2 DEF a, b
    <3> HIDE DEF r
    <3> QED BY <1>4, <1>9, <3>1
  <2> QED BY <2>1, <2>2
<1>11. ~HasBlock(y, "thinking")
  BY <1>5, <1>10 DEF HasBlock
<1>12. MessageOfContents(h, k + 1, y)
  <2>1. y.from = last.from \cup {k + 1} /\ y.role = last.role /\ y.from # {}
        /\ y = [role |-> y.role, content |-> y.content, from |-> y.from]
    BY <1>8
  <2>2. y.from \subseteq 1..(k + 1)
    BY <1>3, <2>1
  <2>3. \A c \in y.from : MessageRole(h[c]) = y.role
    BY <1>3, <1>4, <1>5, <2>1
  <2>4. \A q \in DOMAIN y.content : \E c \in y.from : y.content[q] \in ToSet(Blocks(h[c]))
    BY <1>3, <1>4, <1>10, <2>1
  <2> QED BY <1>3, <1>9, <1>11, <2>1, <2>2, <2>3, <2>4 DEF MessageOfContents
<1>13. \A i \in 1..L : MessageOfContents(h, k + 1, m[i]) /\ m[i].from \subseteq 1..k
  BY <1>1 DEF MessageOfContents
<1>14. \A i \in 1..L : MessageOfContents(h, k + 1, n[i])
  BY <1>7, <1>12, <1>13
<1>15. y.role = m[L].role /\ y.from = m[L].from \cup {k + 1} /\ y.from # {}
  BY <1>8 DEF last
<1>16. ASSUME NEW i \in 1..L, NEW j \in 1..L, j = i + 1
       PROVE  /\ n[i].role # n[j].role
              /\ HasBlock(n[i], "tool_use") => n[j].from # {}
  <2>1. n[i] = m[i]
    BY <1>1, <1>7, <1>16
  <2>a. /\ m[i].role # m[j].role
        /\ HasBlock(m[i], "tool_use") => m[j].from # {}
    BY <1>1, <1>16
  <2>2. CASE j = L
    <3>1. n[j] = y
      BY <1>7, <2>2
    <3> QED BY <1>15, <2>1, <2>2, <2>a, <3>1
  <2>3. CASE j # L
    <3>1. n[j] = m[j]
      BY <1>7, <1>16, <2>3
    <3> QED BY <2>1, <2>a, <3>1
  <2> QED BY <2>2, <2>3
<1>17. ASSUME NEW i \in 1..L, NEW j \in 1..L, i < j,
              NEW c \in n[i].from, NEW d \in n[j].from
       PROVE  c < d
  <2>1. n[i] = m[i]
    BY <1>1, <1>7, <1>17
  <2>2. CASE j = L /\ d = k + 1
    BY <1>13, <1>17, <2>1, <2>2
  <2>3. CASE j # L \/ d # k + 1
    <3>1. d \in m[j].from
      BY <1>7, <1>15, <1>17, <2>3
    <3> QED BY <1>1, <1>17, <2>1, <3>1
  <2> QED BY <2>2, <2>3
<1>18. n[Len(n)].from # {}
  BY <1>7, <1>15
<1>19. ASSUME NEW c \in 1..(k + 1), Blocks(h[c]) # <<>>
       PROVE  \E i \in 1..L : c \in n[i].from
  <2>1. c \in 1..k \/ c = k + 1
    OBVIOUS
  <2>2. CASE c = k + 1
    BY <1>2, <1>7, <1>15, <2>2
  <2>3. CASE c \in 1..k
    <3>1. PICK i \in 1..L : c \in m[i].from
      BY <1>1, <1>19, <2>3
    <3> QED BY <1>7, <1>15, <3>1
  <2> QED BY <2>1, <2>2, <2>3
<1>20. n # <<>>
  BY <1>1, <1>7, SeqFacts
<1>21. TurnsKept(h, k + 1, n)
  BY <1>7, <1>14, <1>16, <1>17, <1>18, <1>19, <1>20 DEF TurnsKept
<1> QED BY <1>6, <1>21

\* A user's message shows no thinking.
LEMMA UserMessage ==
    ASSUME NEW h, NEW k \in Nat, NEW x, MessageOfContents(h, k, x), x.role = "user",
           \A c \in 1..k : Readable(h[c])
    PROVE  ~HasBlock(x, "thinking")
<1> SUFFICES ASSUME HasBlock(x, "thinking") PROVE FALSE
  OBVIOUS
<1>1. PICK c \in x.from : x.from = {c} /\ x.content = Blocks(h[c])
  BY DEF MessageOfContents
<1>2. c \in 1..k /\ MessageRole(h[c]) = "user" /\ Readable(h[c])
  BY <1>1 DEF MessageOfContents
<1>3. PICK q \in DOMAIN x.content : x.content[q].type = "thinking"
  BY DEF HasBlock
<1>4. x.content[q] \in ToSet(Blocks(h[c]))
  BY <1>1, <1>3 DEF ToSet
<1> QED BY <1>2, <1>3, <1>4, UsersDoNotThink DEF Readable

LEMMA TurnsStep ==
    ASSUME NEW h, NEW k \in Nat, NEW w, Turns(h, k, w), \A c \in 1..(k + 1) : Readable(h[c])
    PROVE  Turns(h, k + 1, NextMessages(w, h, k + 1))
<1> DEFINE m == w.messages
           x == MessageOf(h, k + 1)
           last == m[Len(m)]
           v == AddMessage(w, x)
<1>0. /\ w = [failed |-> w.failed, messages |-> m] /\ w.failed \in BOOLEAN
      /\ ~w.failed => TurnsKept(h, k, m)
      /\ k + 1 \in 1..(k + 1) /\ \A c \in 1..k : c \in 1..(k + 1)
  BY DEF Turns
<1>1. CASE Blocks(h[k + 1]) = <<>>
  <2>1. NextMessages(w, h, k + 1) = w
    BY <1>1 DEF NextMessages
  <2>2. ~w.failed => TurnsKept(h, k + 1, m)
    BY <1>0, <1>1, TurnsSkip
  <2> QED BY <1>0, <2>1, <2>2 DEF Turns
<1>2. CASE Blocks(h[k + 1]) # <<>>
  <2>1. NextMessages(w, h, k + 1) = v
    BY <1>2 DEF NextMessages
  <2>2. IsSeq(h[k + 1].parts) /\ MessageRole(h[k + 1]) \in {"user", "assistant"}
    BY <1>0 DEF Readable, MessageRole
  <2>3. /\ MessageOfContents(h, k + 1, x) /\ x.from = {k + 1}
        /\ x.role \in {"user", "assistant"}
    BY <1>2, <2>2, OwnMessage DEF MessageOfContents
  <2>4. CASE w.failed
    <3>1. v = w
      BY <2>4 DEF AddMessage
    <3> QED BY <1>0, <2>1, <2>4, <3>1 DEF Turns
  <2>5. CASE ~w.failed
    <3>0. TurnsKept(h, k, m) /\ IsSeq(m) /\ last = Last(m)
      BY <1>0, <2>5 DEF TurnsKept, Last
    <3> HIDE DEF x, m, last
    <3>1. ASSUME NEW n, v = [w EXCEPT !.messages = n], TurnsKept(h, k + 1, n)
          PROVE  Turns(h, k + 1, v)
      <4>1. v = [failed |-> w.failed, messages |-> n]
        BY ONLY <1>0, v = [w EXCEPT !.messages = n]
      <4> HIDE DEF v
      <4> QED BY <1>0, <3>1, <4>1 DEF Turns
    <3>2. CASE m = <<>>
      <4>1. v = [w EXCEPT !.messages = <<x>>]
        BY <2>5, <3>2 DEF AddMessage, m
      <4>2. /\ IsSeq(<<x>>) /\ IsSeq(Append(m, x)) /\ Len(<<x>>) = 1 /\ Len(Append(m, x)) = 1
            /\ <<x>>[1] = x /\ Append(m, x)[1] = x
        BY <3>2, SingleFacts, NoSeq, AppendFacts
      <4>3. <<x>> = Append(m, x)
        BY <4>2, SameSeq
      <4>4. TurnsKept(h, k + 1, Append(m, x))
        BY <2>3, <3>0, <3>2, TurnsAppend
      <4> HIDE DEF v
      <4> QED BY <2>1, <3>1, <4>1, <4>3, <4>4
    <3>3. CASE m # <<>> /\ last.role # x.role
      <4>1. v = [w EXCEPT !.messages = Append(m, x)]
        BY <2>5, <3>0, <3>3 DEF AddMessage, m
      <4>2. TurnsKept(h, k + 1, Append(m, x))
        BY <2>3, <3>0, <3>3, TurnsAppend DEF last
      <4> HIDE DEF v
      <4> QED BY <2>1, <3>1, <4>1, <4>2
    <3>4. CASE /\ m # <<>> /\ last.role = x.role /\ x.role = "assistant"
               /\ HasBlock(last, "thinking") \/ HasBlock(x, "thinking")
      <4>1. CASE HasBlock(last, "tool_use")
        <5>1. v = [w EXCEPT !.failed = TRUE]
          BY <2>5, <3>0, <3>4, <4>1 DEF AddMessage, m
        <5> HIDE DEF v
        <5>4. w = [failed |-> w.failed, messages |-> m]
          BY <1>0
        <5>2. v = [failed |-> TRUE, messages |-> m]
          <6> DEFINE f == w.failed
          <6> HIDE DEF f
          <6>1. \A c : [[failed |-> f, messages |-> m] EXCEPT !.failed = c] = [failed |-> c, messages |-> m]
            OBVIOUS
          <6>2. v = [[failed |-> f, messages |-> m] EXCEPT !.failed = TRUE]
            BY <5>1, <5>4 DEF f
          <6> QED BY ONLY <6>1, <6>2, Zenon
        <5>3. v.failed = TRUE /\ v.messages = m
          BY <5>2
        <5> QED BY <2>1, <5>2, <5>3 DEF Turns
      <4>2. CASE ~HasBlock(last, "tool_use")
        <5>1. v = [w EXCEPT !.messages = m \o <<ContinuationPrompt, x>>]
          BY <2>5, <3>0, <3>4, <4>2 DEF AddMessage, m
        <5>2. TurnsKept(h, k + 1, m \o <<ContinuationPrompt, x>>)
          BY <2>3, <3>0, <3>4, <4>2, TurnsContinue DEF last
        <5> HIDE DEF v
        <5> QED BY <2>1, <3>1, <5>1, <5>2
      <4> QED BY <2>1, <4>1, <4>2
    <3>5. CASE /\ m # <<>> /\ last.role = x.role
               /\ ~(x.role = "assistant" /\ (HasBlock(last, "thinking") \/ HasBlock(x, "thinking")))
      <4> DEFINE n == [m EXCEPT ![Len(m)] = Joined(@, x)]
      <4>1. v = [w EXCEPT !.messages[Len(w.messages)] = Joined(@, x)]
        BY <2>5, <3>0, <3>5 DEF AddMessage, m
      <4>2. v = [w EXCEPT !.messages = n]
        BY <4>1 DEF m
      <4>3. ~HasBlock(last, "thinking") /\ ~HasBlock(x, "thinking")
        <5>1. Len(m) \in 1..Len(m)
          BY <3>0, <3>5, SeqFacts
        <5>2. MessageOfContents(h, k, last)
          BY <3>0, <5>1 DEF TurnsKept, last
        <5> QED BY <1>0, <2>3, <3>5, <5>2, UserMessage
      <4>4. TurnsKept(h, k + 1, n)
        BY <2>3, <3>0, <3>5, <4>3, TurnsJoin DEF last
      <4> HIDE DEF v, n
      <4> QED BY <2>1, <3>1, <4>2, <4>4
    <3> QED BY <2>1, <3>2, <3>3, <3>4, <3>5
  <2> QED BY <2>4, <2>5
<1> QED BY <1>1, <1>2

\* Of a history of such contents, the walk keeps the turns.
LEMMA TurnsWalk ==
    ASSUME NEW h, IsSeq(h), \A c \in DOMAIN h : Readable(h[c])
    PROVE  Turns(h, Len(h), NormalizeConsecutiveMessages(h)[Len(h)])
<1> DEFINE W == NormalizeConsecutiveMessages(h)
           T == {k \in Nat : k <= Len(h) => Turns(h, k, W[k])}
<1>0. Len(h) \in Nat /\ DOMAIN h = 1..Len(h)
  BY SeqFacts
<1>1. 0 \in T
  <2>1. NoMessages.failed = FALSE /\ NoMessages.messages = <<>>
        /\ NoMessages = [failed |-> FALSE, messages |-> <<>>]
    BY DEF NoMessages
  <2>2. TurnsKept(h, 0, <<>>)
    BY NoSeq DEF TurnsKept
  <2>3. Turns(h, 0, NoMessages)
    BY <2>1, <2>2 DEF Turns
  <2> QED BY <1>0, <2>3, MessagesWalkFacts
<1>2. ASSUME NEW k \in Nat, k \in T PROVE k + 1 \in T
  <2> SUFFICES ASSUME k + 1 <= Len(h) PROVE Turns(h, k + 1, W[k + 1])
    OBVIOUS
  <2>1. k + 1 \in 1..Len(h) /\ (k + 1) - 1 = k /\ k <= Len(h) /\ 1..(k + 1) \subseteq 1..Len(h)
    BY <1>0
  <2>2. W[k + 1] = NextMessages(W[k], h, k + 1)
    BY <1>0, <2>1, MessagesWalkFacts
  <2>3. Turns(h, k, W[k]) /\ \A c \in 1..(k + 1) : Readable(h[c])
    BY <1>0, <1>2, <2>1
  <2> HIDE DEF W, T
  <2> QED BY <2>2, <2>3, TurnsStep
<1> HIDE DEF T
<1>3. Nat \subseteq T
  BY <1>1, <1>2, SetInduction
<1>4. Len(h) \in T
  BY <1>0, <1>3
<1> QED BY <1>0, <1>4 DEF T

------------------------------------------------------------------------------
(* Anthropic: the history a request is made from *)

LEMMA OwnTurnFacts ==
    ASSUME NEW last \in Nat
    PROVE  /\ OwnTurn.role = "user" /\ Ordered(OwnTurn, last)
           /\ \A q \in DOMAIN OwnTurn.parts :
                OwnTurn.parts[q].n = 0 /\ OwnTurn.parts[q].kind # "call"
<1> DEFINE p == AdaptersText
<1>1. p.n = 0 /\ p.kind = "text" /\ p.words = "some"
  <2> DEFINE t == Text("some", NoItem)
  <2>1. {"kind", "words"} \subseteq DOMAIN t /\ t.kind = "text" /\ t.words = "some"
    BY DEF Text
  <2>2. p = Number(t, 0)
    BY DEF AdaptersText
  <2> HIDE DEF t, p
  <2> QED BY <2>1, <2>2 DEF Number
<1>2. OwnTurn.role = "user" /\ OwnTurn.parts = <<p>>
  BY DEF OwnTurn
<1> HIDE DEF p
<1>3. IsSeq(<<p>>) /\ <<p>> # <<>> /\ DOMAIN <<p>> = {1} /\ <<p>>[1] = p
  BY SingleFacts
<1>4. SaidBy("user", <<p>>)
  BY <1>1, <1>3 DEF SaidBy
<1> QED BY <1>1, <1>2, <1>3, <1>4 DEF Ordered

\* A content put at the end keeps the order, if its calls have new numbers and
\* its numbers are no earlier call's.
LEMMA InOrderAppend ==
    ASSUME NEW history, NEW last \in Nat, NEW later \in Nat, last <= later,
           InOrder(history, last), NEW c, Ordered(c, later),
           \A p \in DOMAIN c.parts : c.parts[p].kind = "call" => c.parts[p].n > last,
           \A p \in DOMAIN c.parts : c.parts[p].n = 0 \/ c.parts[p].n > last
    PROVE  InOrder(Append(history, c), later)
<1> DEFINE n == Append(history, c)
           L == Len(history)
<1>1. /\ IsSeq(n) /\ L \in Nat /\ DOMAIN history = 1..L /\ DOMAIN n = 1..(L + 1)
      /\ n[L + 1] = c /\ \A i \in 1..L : n[i] = history[i]
  BY AppendFacts, SeqFacts DEF InOrder
<1> HIDE DEF n, L
<1>2. \A i \in DOMAIN n : i \in 1..L \/ i = L + 1
  BY <1>1
<1>3. \A i \in 1..L : Ordered(history[i], last)
  BY <1>1 DEF InOrder
<1>4. \A i \in DOMAIN n : Ordered(n[i], later)
  <2>1. \A i \in 1..L : Ordered(n[i], later)
    <3>1. \A k \in 0..last : k \in 0..later
      OBVIOUS
    <3> QED BY <1>1, <1>3, <3>1 DEF Ordered
  <2> QED BY <1>1, <1>2, <2>1
<1>5. ASSUME NEW i \in DOMAIN n, NEW j \in DOMAIN n,
             NEW p \in DOMAIN n[i].parts, NEW q \in DOMAIN n[j].parts,
             n[i].parts[p].kind = "call", n[i].parts[p].n = n[j].parts[q].n
      PROVE  i = j
  <2>1. CASE i \in 1..L /\ j \in 1..L
    <3>1. n[i] = history[i] /\ n[j] = history[j] /\ i \in DOMAIN history /\ j \in DOMAIN history
      BY <1>1, <2>1
    <3> QED BY <1>5, <3>1 DEF InOrder, CallsNumbered
  <2>2. CASE i \in 1..L /\ j = L + 1
    <3>1. n[i] = history[i] /\ n[j] = c
      BY <1>1, <2>2
    <3>2. n[i].parts[p].n \in 0..last /\ n[i].parts[p].n # 0
      BY <1>3, <1>5, <2>2, <3>1 DEF Ordered
    <3>3. n[j].parts[q].n = 0 \/ n[j].parts[q].n > last
      BY <3>1
    <3> QED BY <1>5, <3>2, <3>3
  <2>3. CASE i = L + 1 /\ j \in 1..L
    <3>1. n[i] = c /\ n[j] = history[j]
      BY <1>1, <2>3
    <3>2. n[j].parts[q].n \in 0..last
      BY <1>3, <2>3, <3>1 DEF Ordered
    <3>3. n[i].parts[p].n > last
      BY <1>5, <3>1
    <3> QED BY <1>5, <3>2, <3>3
  <2> QED BY <1>2, <2>1, <2>2, <2>3
<1>6. InOrder(n, later)
  BY <1>1, <1>4, <1>5 DEF InOrder, CallsNumbered
<1> QED BY <1>6 DEF n

\* With the adapter's turn the history is in order, and ends with something
\* the user said.
LEMMA RequestHistory ==
    ASSUME HistoryInOrder
    PROVE  /\ InOrder(WithUserTurn(contents), LastNumber)
           /\ WithUserTurn(contents) # <<>>
           /\ WithUserTurn(contents)[Len(WithUserTurn(contents))].role = "user"
<1>1. LastNumber \in Nat /\ InOrder(contents, LastNumber)
  BY DEF HistoryInOrder
<1>2. CASE contents = <<>> \/ Last(contents).role # "user"
  <2>1. WithUserTurn(contents) = Append(contents, OwnTurn)
    BY <1>2 DEF WithUserTurn, OwnTurn
  <2>2. \A p \in DOMAIN OwnTurn.parts : OwnTurn.parts[p].kind # "call" /\ OwnTurn.parts[p].n = 0
    BY <1>1, OwnTurnFacts
  <2>3. InOrder(Append(contents, OwnTurn), LastNumber)
    BY <1>1, <2>2, OwnTurnFacts, InOrderAppend
  <2>4. /\ Append(contents, OwnTurn) # <<>>
        /\ Append(contents, OwnTurn)[Len(Append(contents, OwnTurn))] = OwnTurn
    BY <1>1, AppendFacts DEF InOrder
  <2> QED BY <1>1, <2>1, <2>3, <2>4, OwnTurnFacts
<1>3. CASE contents # <<>> /\ Last(contents).role = "user"
  BY <1>1, <1>3 DEF WithUserTurn, Last
<1> QED BY <1>2, <1>3

\* The role of a message is that of its content, and of what the user said
\* something is sent.
LEMMA RoleFacts ==
    ASSUME NEW content, NEW last, Ordered(content, last)
    PROVE  /\ Readable(content)
           /\ content.role = "model" => MessageRole(content) = "assistant"
           /\ content.role = "user" => MessageRole(content) = "user" /\ Blocks(content) # <<>>
<1>1. Readable(content)
  BY DEF Ordered, SaidBy, Readable
<1>2. ASSUME content.role = "model" PROVE MessageRole(content) = "assistant"
  <2>1. ~HasKind(content, "result")
    BY <1>2 DEF Ordered, SaidBy, HasKind
  <2> QED BY <1>2, <2>1 DEF MessageRole
<1>3. ASSUME content.role = "user" PROVE MessageRole(content) = "user" /\ Blocks(content) # <<>>
  <2>1. ~HasKind(content, "call")
    BY <1>3 DEF Ordered, SaidBy, HasKind
  <2>2. MessageRole(content) = "user"
    BY <1>3, <2>1 DEF MessageRole
  <2>3. PICK q \in DOMAIN content.parts :
          \/ content.parts[q].kind \in {"media", "result"}
          \/ content.parts[q].kind = "text" /\ content.parts[q].words # "empty"
    BY <1>3 DEF Ordered, SaidBy
  <2>4. Sendable(content, content.parts[q])
    BY <2>3 DEF Sendable
  <2> QED BY <2>2, <2>4, BlocksFacts DEF Ordered
<1> QED BY <1>1, <1>2, <1>3

\* The part a block of a message was made of.
LEMMA BlockOfMessage ==
    ASSUME NEW h, NEW k \in Nat, NEW x, MessageOfContents(h, k, x),
           AllReadable(h, k), NEW b \in ToSet(x.content), b.type # "text"
    PROVE  MadeOf(h, x, b)
<1>1. PICK r \in DOMAIN x.content : b = x.content[r]
  BY DEF ToSet
<1>2. x.from # {}
  <2> SUFFICES ASSUME x.from = {} PROVE FALSE
    OBVIOUS
  <2>1. x = ContinuationPrompt
    BY DEF MessageOfContents
  <2> DEFINE t == [type |-> "text", of |-> <<>>]
  <2>2. x.content = <<t>> /\ t.type = "text"
    BY <2>1 DEF ContinuationPrompt
  <2> HIDE DEF t
  <2> QED BY <1>1, <2>2
<1>3. PICK c \in x.from : b \in ToSet(Blocks(h[c]))
  BY <1>1, <1>2 DEF MessageOfContents
<1>4. Readable(h[c])
  BY DEF MessageOfContents, AllReadable
<1>5. IsSeq(Blocks(h[c])) /\ DOMAIN Blocks(h[c]) = 1..Len(Blocks(h[c]))
  BY <1>4, BlocksFacts, SeqFacts DEF Readable
<1>6. PICK i \in 1..Len(Blocks(h[c])) : b = Blocks(h[c])[i]
  BY <1>3, <1>5 DEF ToSet
<1>7. PICK q \in DOMAIN h[c].parts : b = Block(h[c].parts[q])
  BY <1>4, <1>6, BlocksFacts DEF Readable
<1> QED BY <1>7 DEF MadeOf

\* A call's results come with the next message, if they came in turn.
LEMMA ResultsComeNext ==
    ASSUME NEW h, NEW last, InOrder(h, last), NEW m, TurnsKept(h, Len(h), m), AnsweredInTurn(h),
           NEW i \in 1..Len(m), NEW j \in 1..Len(m),
           NEW x \in ToSet(m[i].content), NEW y \in ToSet(m[j].content),
           x.type = "tool_use", y.type = "tool_result", x.of = <<y.answers>>
    PROVE  j = i + 1
<1>0. /\ IsSeq(h) /\ Len(h) \in Nat /\ DOMAIN h = 1..Len(h) /\ Len(m) \in Nat
      /\ \A c \in 1..Len(h) : Ordered(h[c], last) /\ Readable(h[c])
  BY SeqFacts, RoleFacts DEF InOrder, TurnsKept
<1>1. /\ \A a \in 1..Len(m) : MessageOfContents(h, Len(h), m[a])
      /\ \A a, b \in 1..Len(m) : b = a + 1 => m[a].role # m[b].role
      /\ \A a, b \in 1..Len(m) : a < b => \A c \in m[a].from, d \in m[b].from : c < d
  BY DEF TurnsKept
<1>2. \A a \in 1..Len(m) :
        /\ m[a].role \in {"user", "assistant"} /\ m[a].from \subseteq 1..Len(h)
        /\ \A c \in m[a].from : MessageRole(h[c]) = m[a].role
        /\ m[a].role = "assistant" => m[a].from # {}
  <2>1. ContinuationPrompt.role = "user"
    BY DEF ContinuationPrompt
  <2> QED BY <1>1, <2>1 DEF MessageOfContents
<1>3. ASSUME NEW e \in 1..Len(m), NEW block \in ToSet(m[e].content), block.type # "text"
      PROVE  \E g \in m[e].from : \E r \in DOMAIN h[g].parts : block = Block(h[g].parts[r])
  <2> DEFINE message == m[e]
  <2>1. /\ MessageOfContents(h, Len(h), message) /\ block.type # "text"
        /\ block \in ToSet(message.content)
    BY <1>1, <1>3
  <2>2. Len(h) \in Nat /\ AllReadable(h, Len(h))
    BY <1>0 DEF AllReadable
  <2> HIDE DEF message
  <2>3. MadeOf(h, message, block)
    BY <2>1, <2>2, BlockOfMessage
  <2> QED BY <2>3 DEF message, MadeOf
<1>4. PICK c \in m[i].from : \E p \in DOMAIN h[c].parts : x = Block(h[c].parts[p])
  <2>1. x.type # "text"
    OBVIOUS
  <2> QED BY <2>1, <1>3
<1>4a. PICK p \in DOMAIN h[c].parts : x = Block(h[c].parts[p])
  BY <1>4
<1>5. PICK d \in m[j].from : \E q \in DOMAIN h[d].parts : y = Block(h[d].parts[q])
  <2>1. y.type # "text"
    OBVIOUS
  <2> QED BY <2>1, <1>3
<1>6. PICK q \in DOMAIN h[d].parts : y = Block(h[d].parts[q])
  BY <1>5
<1>7. c \in 1..Len(h) /\ d \in 1..Len(h)
  BY <1>2
<1> DEFINE call == h[c].parts[p]
           result == h[d].parts[q]
<1>8. call.kind = "call" /\ x.of = <<call.n>>
  <2>1. call.kind \in {"text", "media", "thought", "signed", "call", "result"}
    BY <1>0, <1>7 DEF Readable
  <2> HIDE DEF call
  <2> QED BY <1>4a, <2>1 DEF Block, call
<1>9. result.kind = "result" /\ y.answers = result.answers
  <2>1. result.kind \in {"text", "media", "thought", "signed", "call", "result"}
    BY <1>0, <1>7 DEF Readable
  <2> HIDE DEF result
  <2> QED BY <1>6, <2>1 DEF Block, result
<1>10. call.n = result.answers
  <2> HIDE DEF call, result
  <2> QED BY <1>8, <1>9
<1>11. result \in ToSet(h[d].parts)
  BY DEF ToSet
<1>12. PICK e \in 1..(d - 1) : /\ result.answers \in ToSet(Numbers(h[e].parts))
                               /\ \A k \in (e + 1)..d : h[k].role = "user"
  <2> HIDE DEF call, result
  <2> QED BY <1>0, <1>7, <1>9, <1>11 DEF AnsweredInTurn
<1>13. e \in DOMAIN h
  BY <1>0, <1>7
<1>14. PICK r \in DOMAIN h[e].parts : h[e].parts[r].n = result.answers
  <2> HIDE DEF call, result
  <2> QED BY <1>12 DEF Numbers, ToSet
<1>15. c = e
  <2>1. h[c].parts[p].kind = "call" /\ h[c].parts[p].n = h[e].parts[r].n
    BY <1>8, <1>10, <1>14
  <2> QED BY <1>0, <1>7, <1>13, <2>1 DEF InOrder, CallsNumbered
<1>16. c < d
  BY <1>7, <1>12, <1>15
<1>17. h[c].role = "model" /\ h[d].role = "user"
  BY <1>0, <1>7, <1>8, <1>9 DEF Ordered, SaidBy
<1>18. m[i].role = "assistant" /\ m[j].role = "user"
  BY <1>0, <1>2, <1>7, <1>17, RoleFacts
<1>19. i < j
  <2>1. i # j /\ ~(j < i)
    BY <1>1, <1>7, <1>16, <1>18
  <2> QED BY <2>1
<1> SUFFICES ASSUME i + 1 < j PROVE FALSE
  BY <1>19
<1> DEFINE a == i + 1
           b == i + 2
<1>20. a \in 1..Len(m) /\ b \in 1..Len(m) /\ a = i + 1 /\ b = a + 1 /\ i < b
  BY <1>0
<1> HIDE DEF a, b
<1>21. m[b].role = "assistant"
  <2>1. m[i].role # m[a].role /\ m[a].role # m[b].role
    BY <1>1, <1>20
  <2>2. m[a].role \in {"user", "assistant"} /\ m[b].role \in {"user", "assistant"}
    BY <1>2, <1>20
  <2> QED BY <1>18, <2>1, <2>2
<1>22. b < j
  <2>1. b # j
    BY <1>18, <1>21
  <2> QED BY <1>20, <2>1 DEF b
<1>23. PICK f \in m[b].from : TRUE
  BY <1>2, <1>20, <1>21
<1>24. c < f /\ f < d /\ f \in 1..Len(h)
  BY <1>1, <1>2, <1>20, <1>22
<1>25. h[f].role = "user"
  <2>1. f \in (e + 1)..d
    BY <1>7, <1>15, <1>24
  <2> QED BY <1>12, <2>1
<1>26. MessageRole(h[f]) = "assistant"
  BY <1>2, <1>20, <1>21
<1> QED BY <1>0, <1>24, <1>25, <1>26, RoleFacts

\* In order, a history's request keeps the turns Anthropic asks for.
LEMMA TurnsHold == HistoryInOrder => AnthropicTurnsHold
<1> SUFFICES ASSUME HistoryInOrder PROVE AnthropicTurnsHold
  OBVIOUS
<1> DEFINE h == WithUserTurn(contents)
           w == NormalizeConsecutiveMessages(h)[Len(h)]
           m == w.messages
<1>1. Anthropic.messages = m /\ (Anthropic.ok => ~w.failed)
  BY DEF Anthropic, AnthropicRequest, ContentsToMessages
<1>2. InOrder(h, LastNumber) /\ h # <<>> /\ h[Len(h)].role = "user"
  BY RequestHistory
<1> SUFFICES ASSUME Anthropic.ok
    PROVE  /\ \A i \in DOMAIN m : i > 1 => m[i].role # m[i - 1].role
           /\ m # <<>> => Last(m).role = "user"
           /\ \A i \in DOMAIN m : HasBlock(m[i], "thinking") =>
                \E c \in DOMAIN h : m[i].from = {c} /\ m[i].content = Blocks(h[c])
           /\ \A i \in DOMAIN m : HasBlock(m[i], "tool_use") /\ i < Len(m) => m[i + 1].from # {}
           /\ AnsweredInTurn(h) =>
                \A i, j \in DOMAIN m : \A x \in ToSet(m[i].content), y \in ToSet(m[j].content) :
                    x.type = "tool_use" /\ y.type = "tool_result" /\ x.of = <<y.answers>> => j = i + 1
  BY <1>1 DEF AnthropicTurnsHold
<1> HIDE DEF h
<1>3. IsSeq(h) /\ Len(h) \in Nat \ {0} /\ DOMAIN h = 1..Len(h)
      /\ \A c \in 1..Len(h) : Ordered(h[c], LastNumber) /\ Readable(h[c])
  BY <1>2, SeqFacts, RoleFacts DEF InOrder
<1>4. Turns(h, Len(h), w)
  BY <1>3, TurnsWalk
<1> HIDE DEF w
<1>5. TurnsKept(h, Len(h), m)
  BY <1>1, <1>4 DEF Turns
<1> HIDE DEF m
<1>6. /\ IsSeq(m) /\ Len(m) \in Nat /\ DOMAIN m = 1..Len(m) /\ (m # <<>> => Len(m) \in 1..Len(m))
      /\ \A a \in 1..Len(m) : MessageOfContents(h, Len(h), m[a])
      /\ \A a, b \in 1..Len(m) : b = a + 1 =>
           /\ m[a].role # m[b].role
           /\ HasBlock(m[a], "tool_use") => m[b].from # {}
      /\ \A a, b \in 1..Len(m) : a < b => \A c \in m[a].from, d \in m[b].from : c < d
      /\ m # <<>> => m[Len(m)].from # {}
      /\ \A c \in 1..Len(h) : Blocks(h[c]) # <<>> => \E i \in 1..Len(m) : c \in m[i].from
  BY <1>5, SeqFacts DEF TurnsKept
<1>7. ASSUME NEW i \in DOMAIN m, i > 1 PROVE m[i].role # m[i - 1].role
  <2>1. i - 1 \in 1..Len(m) /\ i = (i - 1) + 1 /\ i \in 1..Len(m)
    BY <1>6, <1>7
  <2> QED BY <1>6, <2>1
<1>8. ASSUME m # <<>> PROVE Last(m).role = "user"
  <2> DEFINE n == Len(h)
             L == Len(m)
  <2>1. n \in 1..Len(h) /\ MessageRole(h[n]) = "user" /\ Blocks(h[n]) # <<>>
    BY <1>2, <1>3, RoleFacts
  <2>2. PICK i \in 1..L : n \in m[i].from
    BY <1>6, <2>1
  <2>3. PICK d \in m[L].from : TRUE
    BY <1>6, <1>8
  <2>4. d \in 1..n
    BY <1>6, <1>8 DEF MessageOfContents
  <2>5. i = L
    <3>1. L \in 1..L /\ L \in Nat /\ n \in Nat
      BY <1>3, <1>6, <1>8
    <3>2. i < L => n < d
      BY <1>6, <2>2, <3>1
    <3> HIDE DEF L, n
    <3> QED BY <2>2, <2>4, <3>1, <3>2
  <2>6. m[L].role = "user"
    BY <1>6, <2>1, <2>2, <2>5 DEF MessageOfContents
  <2> QED BY <2>6 DEF Last
<1>9. ASSUME NEW i \in DOMAIN m, HasBlock(m[i], "thinking")
      PROVE  \E c \in DOMAIN h : m[i].from = {c} /\ m[i].content = Blocks(h[c])
  <2>1. MessageOfContents(h, Len(h), m[i])
    BY <1>6
  <2>2. PICK c \in m[i].from : m[i].from = {c} /\ m[i].content = Blocks(h[c])
    BY <1>9, <2>1 DEF MessageOfContents
  <2>3. c \in DOMAIN h
    BY <1>3, <2>1 DEF MessageOfContents
  <2> QED BY <2>2, <2>3
<1>10. ASSUME NEW i \in DOMAIN m, HasBlock(m[i], "tool_use"), i < Len(m)
       PROVE  m[i + 1].from # {}
  <2>1. i \in 1..Len(m) /\ i + 1 \in 1..Len(m)
    BY <1>6, <1>10
  <2> QED BY <1>6, <1>10, <2>1
<1>11. ASSUME AnsweredInTurn(h), NEW i \in DOMAIN m, NEW j \in DOMAIN m,
              NEW x \in ToSet(m[i].content), NEW y \in ToSet(m[j].content),
              x.type = "tool_use", y.type = "tool_result", x.of = <<y.answers>>
       PROVE  j = i + 1
  <2>1. i \in 1..Len(m) /\ j \in 1..Len(m)
    BY <1>6
  <2> HIDE DEF m
  <2> QED BY <1>2, <1>5, <1>11, <2>1, ResultsComeNext
<1> QED BY <1>7, <1>8, <1>9, <1>10, <1>11

------------------------------------------------------------------------------
(* Anthropic: the history stays in order *)

LEMMA NumberedInOrder ==
    ASSUME LastNumber \in Nat, NEW role, NEW parts, Speakable(role, parts)
    PROVE  /\ Ordered([role |-> role, parts |-> Numbered(parts)], LastNumber + Len(parts))
           /\ \A i \in DOMAIN Numbered(parts) : Numbered(parts)[i].n > LastNumber
           /\ Len(parts) \in Nat
           /\ Numbered(parts)[Len(Numbered(parts))].n = LastNumber + Len(parts)
<1> DEFINE P == Numbered(parts)
           L == Len(parts)
           c == [role |-> role, parts |-> P]
<1>1. /\ IsSeq(parts) /\ L \in Nat \ {0} /\ DOMAIN parts = 1..L /\ SaidBy(role, parts)
      /\ role \in {"user", "model"}
  BY SeqFacts DEF Speakable
<1>2. P = [i \in 1..L |-> Number(parts[i], LastNumber + i)]
  BY <1>1 DEF Numbered
<1>3. ASSUME NEW i \in 1..L
      PROVE  /\ P[i].n = LastNumber + i
             /\ P[i].kind = parts[i].kind
             /\ parts[i].kind = "text" => P[i].words = parts[i].words
  <2>1. P[i] = Number(parts[i], LastNumber + i)
    BY <1>2
  <2>2. "kind" \in DOMAIN parts[i] /\ (parts[i].kind = "text" => "words" \in DOMAIN parts[i])
    BY <1>1 DEF Speakable
  <2> HIDE DEF P
  <2> QED BY <2>1, <2>2 DEF Number
<1>4. P \in Seq({P[i] : i \in 1..L}) /\ Len(P) = L
  BY <1>1, <1>2
<1>5. IsSeq(P) /\ DOMAIN P = 1..L /\ P # <<>>
  BY <1>1, <1>4, AnySeq, SeqFacts
<1>6. c.role = role /\ c.parts = P
  OBVIOUS
<1> HIDE DEF P, c, L
<1>7. SaidBy(role, P)
  BY <1>1, <1>3, <1>5 DEF SaidBy
<1>8. \A i \in 1..L : /\ P[i].n \in 0..(LastNumber + L) /\ P[i].n # 0 /\ P[i].n > LastNumber
  <2>1. \A i \in 1..L : LastNumber + i \in 0..(LastNumber + L) /\ LastNumber + i > LastNumber
    BY <1>1
  <2> QED BY <1>3, <2>1
<1>9. Ordered(c, LastNumber + L)
  BY <1>1, <1>5, <1>6, <1>7, <1>8 DEF Ordered
<1>10. P[Len(P)].n = LastNumber + L
  BY <1>1, <1>3, <1>4
<1> QED BY <1>1, <1>5, <1>8, <1>9, <1>10 DEF P, c, L

LEMMA SayInOrder ==
    ASSUME HistoryInOrder, NEW role, NEW parts, Speakable(role, parts), Say(role, parts)
    PROVE  HistoryInOrder'
<1> DEFINE c == [role |-> role, parts |-> Numbered(parts)]
           later == LastNumber + Len(parts)
<1>1. LastNumber \in Nat /\ InOrder(contents, LastNumber)
  BY DEF HistoryInOrder
<1>2. /\ Ordered(c, later) /\ Len(parts) \in Nat
      /\ \A p \in DOMAIN c.parts : c.parts[p].n > LastNumber
      /\ c.parts[Len(c.parts)].n = later
  BY <1>1, NumberedInOrder
<1>3. contents' = Append(contents, c)
  BY DEF Say
<1> HIDE DEF c
<1>4. later \in Nat /\ LastNumber <= later
  BY <1>1, <1>2
<1> HIDE DEF later
<1>5. InOrder(contents', later)
  BY <1>1, <1>2, <1>3, <1>4, InOrderAppend
<1>6. contents' # <<>> /\ contents'[Len(contents')] = c
  BY <1>1, <1>3, AppendFacts DEF InOrder
<1>7. LastNumber' = later
  BY <1>2, <1>6 DEF LastNumber, Last
<1> QED BY <1>4, <1>5, <1>7 DEF HistoryInOrder

\* The settled start of the history is replaced by a summary.
LEMMA CompactInOrder ==
    ASSUME HistoryInOrder, Compact
    PROVE  HistoryInOrder'
<1>0. LastNumber \in Nat /\ InOrder(contents, LastNumber)
  BY DEF HistoryInOrder
<1>1. PICK k \in 2..(Len(contents) - 1) :
        contents' = <<OwnTurn>> \o SubSeq(contents, k + 1, Len(contents))
  BY DEF Compact, OwnTurn
<1> DEFINE rest == SubSeq(contents, k + 1, Len(contents))
           L == Len(contents)
<1>2. IsSeq(contents) /\ L \in Nat /\ DOMAIN contents = 1..L
  BY <1>0, SeqFacts DEF InOrder
<1>3. /\ IsSeq(rest) /\ Len(rest) = L - k
      /\ \A i \in 1..Len(rest) : i + k \in 1..L /\ rest[i] = contents[i + k]
  <2>1. contents \in Seq(ToSet(contents)) /\ k + 1 \in 1..L
    BY <1>2 DEF IsSeq
  <2>2. /\ rest \in Seq(ToSet(contents))
        /\ Len(rest) = L - k
        /\ \A i \in 1..Len(rest) : rest[i] = contents[i + k]
    BY <1>2, <2>1
  <2>3. k \in Nat
    BY <1>2
  <2> HIDE DEF rest
  <2>4. \A i \in 1..Len(rest) : i + k \in 1..L
    BY <1>2, <2>2, <2>3
  <2>5. IsSeq(rest)
    BY <2>2, AnySeq
  <2> QED BY <2>2, <2>4, <2>5
<1> HIDE DEF rest
<1>4. k \in Nat /\ L - k \in Nat \ {0}
  <2>1. k \in 2..(L - 1) /\ L \in Nat
    BY <1>1, <1>2
  <2> HIDE DEF L
  <2> QED BY ONLY <2>1
<1>5. contents' = <<OwnTurn>> \o rest
  BY <1>1 DEF rest
<1> HIDE DEF L
<1>6. /\ IsSeq(contents') /\ DOMAIN contents' = 1..(L - k + 1) /\ Len(contents') = L - k + 1
      /\ contents'[1] = OwnTurn
      /\ \A i \in 1..(L - k) : contents'[1 + i] = rest[i]
  <2>1. IsSeq(<<OwnTurn>>) /\ Len(<<OwnTurn>>) = 1 /\ <<OwnTurn>>[1] = OwnTurn
    BY SingleFacts
  <2>2. Len(contents') = 1 + (L - k) /\ 1 \in 1..1
    BY <1>3, <1>5, <2>1, ConcatFacts
  <2>3. IsSeq(contents') /\ contents'[1] = OwnTurn
        /\ \A i \in 1..(L - k) : contents'[1 + i] = rest[i]
    BY <1>3, <1>5, <2>1, <2>2, ConcatFacts
  <2> QED BY <1>4, <2>2, <2>3, SeqFacts
\* A content of the new history is the summary, or one of the old.
<1>7. ASSUME NEW i \in DOMAIN contents'
      PROVE  \/ i = 1 /\ contents'[i] = OwnTurn
             \/ i - 1 + k \in 1..L /\ contents'[i] = contents[i - 1 + k]
  <2>1. CASE i = 1
    BY <1>6, <2>1
  <2>2. CASE i # 1
    <3> DEFINE j == i - 1
    <3>1. j \in 1..(L - k) /\ 1 + j = i
      BY <1>4, <1>6, <2>2
    <3> HIDE DEF j
    <3>2. contents'[i] = contents[j + k] /\ j + k \in 1..L
      BY <1>3, <1>6, <3>1
    <3> QED BY <3>2 DEF j
  <2> QED BY <2>1, <2>2
<1>8. \A i \in DOMAIN contents' : Ordered(contents'[i], LastNumber)
  BY <1>0, <1>2, <1>7, OwnTurnFacts DEF InOrder
<1>9. ASSUME NEW i \in DOMAIN contents', NEW j \in DOMAIN contents',
             NEW p \in DOMAIN contents'[i].parts, NEW q \in DOMAIN contents'[j].parts,
             contents'[i].parts[p].kind = "call",
             contents'[i].parts[p].n = contents'[j].parts[q].n
      PROVE  i = j
  <2>1. \A r \in DOMAIN OwnTurn.parts : OwnTurn.parts[r].n = 0 /\ OwnTurn.parts[r].kind # "call"
    BY <1>0, OwnTurnFacts
  <2>2. contents'[i].parts[p].n # 0
    BY <1>8, <1>9 DEF Ordered
  <2>3. i - 1 + k \in DOMAIN contents /\ contents'[i] = contents[i - 1 + k]
    BY <1>2, <1>7, <1>9, <2>1
  <2>4. j - 1 + k \in DOMAIN contents /\ contents'[j] = contents[j - 1 + k]
    BY <1>2, <1>7, <1>9, <2>1, <2>2
  <2>5. i - 1 + k = j - 1 + k
    <3> DEFINE a == i - 1 + k
               b == j - 1 + k
    <3>1. /\ a \in DOMAIN contents /\ b \in DOMAIN contents
          /\ contents'[i] = contents[a] /\ contents'[j] = contents[b]
      BY <2>3, <2>4
    <3> HIDE DEF a, b
    <3>2. a = b
      BY <1>0, <1>9, <3>1 DEF InOrder, CallsNumbered
    <3> QED BY <3>2 DEF a, b
  <2> QED BY <1>4, <1>6, <2>5
<1>10. InOrder(contents', LastNumber)
  BY <1>6, <1>8, <1>9 DEF InOrder, CallsNumbered
<1>11. LastNumber' = LastNumber
  <2>1. contents # <<>> /\ contents' # <<>>
    <3>1. L # 0 /\ L - k + 1 # 0
      BY <1>2, <1>4
    <3> QED BY <1>2, <1>6, <3>1, SeqFacts DEF L
  <2>2. L - k + 1 \in DOMAIN contents' /\ L - k + 1 # 1 /\ (L - k + 1) - 1 + k = L
    <3>1. L \in Nat /\ k \in Nat /\ L - k + 1 # 1 /\ L - k + 1 \in 1..(L - k + 1)
      BY <1>2, <1>4
    <3>2. (L - k + 1) - 1 + k = L
      BY ONLY <3>1
    <3>3. L - k + 1 \in DOMAIN contents'
      BY <1>6, <3>1
    <3> QED BY ONLY <3>1, <3>2, <3>3
  <2>3. contents'[L - k + 1] = contents[L]
    BY <1>7, <2>2
  <2>4. Last(contents') = Last(contents)
    BY <1>6, <2>3 DEF Last, L
  <2> QED BY <2>1, <2>4 DEF LastNumber
<1> QED BY <1>0, <1>10, <1>11 DEF HistoryInOrder

\* The words, calls and results of a turn are Speakable.
LEMMA TurnIsSpeakable ==
    /\ UsersSaySomething => \A turn \in UserTurns : Speakable("user", turn)
    /\ \A turn \in ModelTurns : Speakable("model", turn)
<1>1. \A p \in Answer :
        /\ "kind" \in DOMAIN p /\ (p.kind = "text" => "words" \in DOMAIN p)
        /\ p.kind \in {"text", "media", "thought", "signed", "call"}
  BY DEF Answer, Said
<1>2. \A p \in Said : p \in Answer /\ p.kind \in {"text", "media"}
  BY DEF Answer, Said
<1>3. ASSUME UsersSaySomething, NEW turn \in UserTurns PROVE Speakable("user", turn)
  <2>1. turn \in Seq(Said) /\ turn # <<>>
    BY TurnsAssumption
  <2>2. IsSeq(turn) /\ DOMAIN turn = 1..Len(turn) /\ \A i \in 1..Len(turn) : turn[i] \in Said
    BY <2>1, AnySeq, SeqFacts, ElementOfSeq
  <2>3. \E i \in DOMAIN turn :
          turn[i].kind = "media" \/ (turn[i].kind = "text" /\ turn[i].words # "empty")
    BY <1>3 DEF UsersSaySomething
  <2> QED BY <1>1, <1>2, <2>1, <2>2, <2>3 DEF Speakable, SaidBy
<1>4. ASSUME NEW turn \in ModelTurns PROVE Speakable("model", turn)
  <2>1. turn \in Seq(Answer) /\ turn # <<>>
    BY TurnsAssumption
  <2>2. IsSeq(turn) /\ DOMAIN turn = 1..Len(turn) /\ \A i \in 1..Len(turn) : turn[i] \in Answer
    BY <2>1, AnySeq, SeqFacts, ElementOfSeq
  <2> QED BY <1>1, <2>1, <2>2 DEF Speakable, SaidBy
<1> QED BY <1>3, <1>4

LEMMA OnePartIsSpeakable ==
    /\ Speakable("user", <<Text("some", NoItem)>>)
    /\ \A id, name, native : Speakable("model", <<Call(id, name, native)>>)
    /\ \A s : /\ IsSeq(s) /\ s # <<>>
              /\ \A i \in DOMAIN s : \E id, name, answers, found :
                   s[i] = Result(id, name, answers, found)
              => Speakable("user", s)
<1>1. ASSUME NEW p PROVE IsSeq(<<p>>) /\ <<p>> # <<>> /\ DOMAIN <<p>> = {1} /\ <<p>>[1] = p
  BY SingleFacts
<1>2. Speakable("user", <<Text("some", NoItem)>>)
  <2> DEFINE p == Text("some", NoItem)
  <2>1. {"kind", "words"} \subseteq DOMAIN p /\ p.kind = "text" /\ p.words = "some"
    BY DEF Text
  <2> HIDE DEF p
  <2>2. Speakable("user", <<p>>)
    BY <1>1, <2>1 DEF Speakable, SaidBy
  <2> QED BY <2>2 DEF p
<1>3. ASSUME NEW id, NEW name, NEW native PROVE Speakable("model", <<Call(id, name, native)>>)
  <2> DEFINE p == Call(id, name, native)
  <2>1. "kind" \in DOMAIN p /\ p.kind = "call"
    BY DEF Call
  <2> HIDE DEF p
  <2>2. Speakable("model", <<p>>)
    BY <1>1, <2>1 DEF Speakable, SaidBy
  <2> QED BY <2>2 DEF p
<1>4. ASSUME NEW s, IsSeq(s), s # <<>>,
             \A i \in DOMAIN s : \E id, name, answers, found :
                 s[i] = Result(id, name, answers, found)
      PROVE  Speakable("user", s)
  <2>1. \A i \in DOMAIN s : "kind" \in DOMAIN s[i] /\ s[i].kind = "result"
    BY <1>4 DEF Result
  <2>2. 1 \in DOMAIN s
    BY <1>4, SeqFacts
  <2> QED BY <1>4, <2>1, <2>2 DEF Speakable, SaidBy
<1> QED BY <1>2, <1>3, <1>4

LEMMA InitInOrder == Init => HistoryInOrder
<1> SUFFICES ASSUME Init PROVE HistoryInOrder
  OBVIOUS
<1>1. contents = <<>> /\ IsSeq(<<>>) /\ DOMAIN <<>> = {} /\ LastNumber = 0
  BY NoSeq DEF Init, LastNumber
<1> QED BY <1>1 DEF HistoryInOrder, InOrder, CallsNumbered

LEMMA StepInOrder == UsersSaySomething /\ HistoryInOrder /\ [Next]_vars => HistoryInOrder'
<1> SUFFICES ASSUME UsersSaySomething, HistoryInOrder, [Next]_vars PROVE HistoryInOrder'
  OBVIOUS
<1>1. ASSUME UNCHANGED contents PROVE HistoryInOrder'
  BY <1>1 DEF HistoryInOrder, LastNumber
<1>2. CASE UserSpeaks
  <2>1. PICK turn \in UserTurns \cup {<<Text("some", NoItem)>>} : Say("user", turn)
    BY <1>2 DEF UserSpeaks
  <2>2. Speakable("user", turn)
    BY TurnIsSpeakable, OnePartIsSpeakable
  <2> QED BY <2>1, <2>2, SayInOrder
<1>3. CASE ModelSpeaks
  <2>1. PICK turn \in ModelTurns : Say("model", turn)
    BY <1>3 DEF ModelSpeaks
  <2> QED BY <2>1, TurnIsSpeakable, SayInOrder
<1>4. CASE ToolsAnswer
  <2>1. PICK count \in 1..Cardinality(Open) : \E pick \in [1..count -> Open] :
          Say("user", [i \in 1..count |-> Result(pick[i].id, pick[i].name, pick[i].n, <<>>)])
    BY <1>4 DEF ToolsAnswer
  <2>7. PICK pick \in [1..count -> Open] :
          Say("user", [i \in 1..count |-> Result(pick[i].id, pick[i].name, pick[i].n, <<>>)])
    BY <2>1
  <2> DEFINE s == [i \in 1..count |-> Result(pick[i].id, pick[i].name, pick[i].n, <<>>)]
  <2>2. count \in Nat \ {0}
    OBVIOUS
  <2>3. s \in Seq({s[i] : i \in 1..count}) /\ Len(s) = count
    BY <2>2
  <2>4. IsSeq(s) /\ s # <<>> /\ DOMAIN s = 1..count
    BY <2>2, <2>3, AnySeq, SeqFacts
  <2>5. \A i \in 1..count : s[i] = Result(pick[i].id, pick[i].name, pick[i].n, <<>>)
    OBVIOUS
  <2> HIDE DEF s
  <2>6. Speakable("user", s)
    BY <2>4, <2>5, OnePartIsSpeakable
  <2> QED BY <2>6, <2>7, SayInOrder DEF s
<1>5. CASE ModelSearches
  <2>1. Say("model", <<Call(LastNumber + 1, SearchTool, NoId)>>)
    BY <1>5 DEF ModelSearches
  <2> QED BY <2>1, OnePartIsSpeakable, SayInOrder
<1>6. CASE SearchAnswers
  <2>1. PICK call, found : Say("user", <<Result(call.id, SearchTool, call.n, found)>>)
    BY <1>6 DEF SearchAnswers
  <2> DEFINE r == Result(call.id, SearchTool, call.n, found)
  <2>2. IsSeq(<<r>>) /\ <<r>> # <<>> /\ DOMAIN <<r>> = {1} /\ <<r>>[1] = r
    BY SingleFacts
  <2>3. Speakable("user", <<r>>)
    BY <2>2, OnePartIsSpeakable
  <2> QED BY <2>1, <2>3, SayInOrder
<1>7. CASE ModelCalls
  <2>1. PICK t, namespace : Say("model", <<Call(LastNumber + 1, t, namespace)>>)
    BY <1>7 DEF ModelCalls
  <2> QED BY <2>1, OnePartIsSpeakable, SayInOrder
<1>8. CASE Revoke \/ Grant \/ ApplicationLoads \/ UNCHANGED vars
  BY <1>1, <1>8 DEF Revoke, Grant, ApplicationLoads, vars
<1>9. CASE Compact
  BY <1>9, CompactInOrder
<1> QED BY <1>2, <1>3, <1>4, <1>5, <1>6, <1>7, <1>8, <1>9 DEF Next

\* The history an Anthropic request is made from: calls are the model's and
\* results the user's, a call's number is its own, and what the user said can
\* be sent.
THEOREM HistoryStaysInOrder ==
    ASSUME UsersSaySomething PROVE Spec => []HistoryInOrder
<1>1. Init => HistoryInOrder
  BY InitInOrder
<1>2. HistoryInOrder /\ [Next]_vars => HistoryInOrder'
  BY StepInOrder
<1> QED BY <1>1, <1>2, PTL DEF Spec

\* An Anthropic request alternates roles and ends with the user; a message
\* with signed thinking is one content of the history, untouched; a tool use
\* is followed by its results if the history answered it in turn, and never by
\* the adapter's own words (anthropicconvert/request.go:433).
THEOREM AnthropicTurns ==
    ASSUME UsersSaySomething PROVE Spec => []AnthropicTurnsHold
<1>1. Spec => []HistoryInOrder
  BY HistoryStaysInOrder
<1>2. HistoryInOrder => AnthropicTurnsHold
  BY TurnsHold
<1> QED BY <1>1, <1>2, PTL

------------------------------------------------------------------------------
(* The history: every result answers one open call *)

LEMMA AllIsPast ==
    ASSUME NEW h, IsSeq(h)
    PROVE  AllParts(h) = Past(h, Len(h))
BY SeqFacts DEF AllParts, Past

LEMMA EarlierIsHeard ==
    ASSUME NEW h, Follows(h), NEW k \in DOMAIN h, NEW q \in DOMAIN h[k].parts,
           NEW l \in DOMAIN h, NEW r \in DOMAIN h[l].parts, Earlier(k, q, l, r)
    PROVE  h[k].parts[q] \in Heard(Past(h, l - 1), h[l].parts, r)
<1>1. /\ DOMAIN h = 1..Len(h) /\ Len(h) \in Nat
      /\ DOMAIN h[k].parts = 1..Len(h[k].parts) /\ Len(h[k].parts) \in Nat
      /\ DOMAIN h[l].parts = 1..Len(h[l].parts) /\ Len(h[l].parts) \in Nat
  BY SeqFacts DEF Follows
<1>2. CASE k < l
  <2>1. k \in 1..(l - 1) /\ h[k].parts[q] \in ToSet(h[k].parts)
    BY <1>1, <1>2 DEF ToSet
  <2> QED BY <2>1 DEF Heard, Past
<1>3. CASE k = l /\ q < r
  <2>1. q \in 1..(r - 1)
    BY <1>1, <1>3
  <2> QED BY <2>1, <1>3 DEF Heard
<1> QED BY <1>2, <1>3 DEF Earlier

LEMMA HeardIsEarlier ==
    ASSUME NEW h, Follows(h), NEW l \in DOMAIN h, NEW r \in DOMAIN h[l].parts,
           NEW x \in Heard(Past(h, l - 1), h[l].parts, r)
    PROVE  \E k \in DOMAIN h : \E q \in DOMAIN h[k].parts :
               Earlier(k, q, l, r) /\ x = h[k].parts[q]
<1>1. /\ DOMAIN h = 1..Len(h) /\ Len(h) \in Nat
      /\ DOMAIN h[l].parts = 1..Len(h[l].parts) /\ Len(h[l].parts) \in Nat
  BY SeqFacts DEF Follows
<1>2. CASE \E i \in 1..(l - 1) : x \in ToSet(h[i].parts)
  <2>1. PICK i \in 1..(l - 1) : x \in ToSet(h[i].parts)
    BY <1>2
  <2>2. i \in DOMAIN h /\ i < l
    BY <1>1
  <2>3. PICK q \in DOMAIN h[i].parts : x = h[i].parts[q]
    BY <2>1 DEF ToSet
  <2> QED BY <2>2, <2>3 DEF Earlier
<1>3. CASE \E j \in 1..(r - 1) : x = h[l].parts[j]
  <2>1. PICK j \in 1..(r - 1) : x = h[l].parts[j]
    BY <1>3
  <2>2. j \in DOMAIN h[l].parts /\ j < r
    BY <1>1
  <2> QED BY <2>1, <2>2 DEF Earlier
<1> QED BY <1>2, <1>3 DEF Heard, Past

\* Two calls with one number are one part.
LEMMA CallsDiffer ==
    ASSUME NEW h, Follows(h), NEW k \in DOMAIN h, NEW q \in DOMAIN h[k].parts,
           NEW l \in DOMAIN h, NEW r \in DOMAIN h[l].parts,
           h[k].parts[q].kind = "call", h[l].parts[r].kind = "call",
           h[k].parts[q].n = h[l].parts[r].n
    PROVE  k = l /\ q = r
<1>1. /\ DOMAIN h = 1..Len(h) /\ Len(h) \in Nat
      /\ DOMAIN h[k].parts = 1..Len(h[k].parts) /\ Len(h[k].parts) \in Nat
      /\ DOMAIN h[l].parts = 1..Len(h[l].parts) /\ Len(h[l].parts) \in Nat
  BY SeqFacts DEF Follows
<1>2. ASSUME NEW a \in DOMAIN h, NEW b \in DOMAIN h[a].parts,
             NEW c \in DOMAIN h, NEW d \in DOMAIN h[c].parts,
             h[a].parts[b].kind = "call", h[c].parts[d].kind = "call",
             Earlier(a, b, c, d)
      PROVE  /\ h[a].parts[b].n < h[c].parts[d].n
             /\ h[c].parts[d].n \in Nat /\ (h[a].parts[b].n \in Nat)
  <2>1. h[a].parts[b] \in Heard(Past(h, c - 1), h[c].parts, d)
    BY <1>2, EarlierIsHeard
  <2>2. GoodNext(Heard(Past(h, c - 1), h[c].parts, d), h[c].parts[d])
    BY DEF Follows, Fits
  <2>3. GoodNext(Heard(Past(h, a - 1), h[a].parts, b), h[a].parts[b])
    BY DEF Follows, Fits
  <2> QED BY <1>2, <2>1, <2>2, <2>3 DEF GoodNext, GoodCall
<1>3. ~Earlier(k, q, l, r)
  <2> SUFFICES ASSUME Earlier(k, q, l, r) PROVE FALSE
    OBVIOUS
  <2>1. h[k].parts[q].n < h[l].parts[r].n /\ h[l].parts[r].n \in Nat
    BY <1>2
  <2> QED BY <2>1
<1>4. ~Earlier(l, r, k, q)
  <2> SUFFICES ASSUME Earlier(l, r, k, q) PROVE FALSE
    OBVIOUS
  <2>1. h[l].parts[r].n < h[k].parts[q].n /\ h[k].parts[q].n \in Nat
    BY <1>2
  <2> QED BY <2>1
<1> QED BY <1>1, <1>3, <1>4 DEF Earlier

\* A part of the history and its place.
LEMMA PlaceOf ==
    ASSUME NEW h, NEW x \in AllParts(h)
    PROVE  \E k \in DOMAIN h : \E q \in DOMAIN h[k].parts : x = h[k].parts[q]
BY DEF AllParts, ToSet

LEMMA CallOfNumber ==
    ASSUME NEW h, Follows(h), NEW c \in AllParts(h), NEW d \in AllParts(h),
           c.kind = "call", d.kind = "call", c.n = d.n
    PROVE  c = d
<1>1. PICK k \in DOMAIN h : \E q \in DOMAIN h[k].parts : c = h[k].parts[q]
  BY PlaceOf
<1>2. PICK q \in DOMAIN h[k].parts : c = h[k].parts[q]
  BY <1>1
<1>3. PICK l \in DOMAIN h : \E r \in DOMAIN h[l].parts : d = h[l].parts[r]
  BY PlaceOf
<1>4. PICK r \in DOMAIN h[l].parts : d = h[l].parts[r]
  BY <1>3
<1> QED BY <1>2, <1>4, CallsDiffer

\* One more content.
LEMMA PastOfAppend ==
    ASSUME NEW h, IsSeq(h), NEW c, NEW k \in Nat, k <= Len(h)
    PROVE  Past(Append(h, c), k) = Past(h, k)
<1>1. Len(h) \in Nat /\ \A i \in 1..Len(h) : Append(h, c)[i] = h[i]
  BY AppendFacts, SeqFacts
<1>2. \A i \in 1..k : Append(h, c)[i] = h[i]
  BY <1>1
<1> QED BY <1>2 DEF Past

LEMMA PartsOfAppend ==
    ASSUME NEW h, IsSeq(h), NEW c
    PROVE  AllParts(Append(h, c)) = AllParts(h) \cup ToSet(c.parts)
<1> DEFINE n == Append(h, c)
<1>1. /\ Len(h) \in Nat /\ DOMAIN h = 1..Len(h) /\ DOMAIN n = 1..(Len(h) + 1)
      /\ n[Len(h) + 1] = c /\ \A i \in 1..Len(h) : n[i] = h[i]
  BY AppendFacts, SeqFacts
<1> HIDE DEF n
<1>2. \A i \in DOMAIN n : i \in DOMAIN h \/ i = Len(h) + 1
  BY <1>1
<1>3. DOMAIN h \subseteq DOMAIN n /\ Len(h) + 1 \in DOMAIN n
  BY <1>1
<1>4. AllParts(n) = AllParts(h) \cup ToSet(c.parts)
  BY <1>1, <1>2, <1>3 DEF AllParts
<1> QED BY <1>4 DEF n

LEMMA FollowsAppend ==
    ASSUME NEW h, Follows(h), NEW c, IsSeq(c.parts), c.parts # <<>>,
           Fits(AllParts(h), c.parts)
    PROVE  Follows(Append(h, c))
<1> DEFINE n == Append(h, c)
           L == Len(h)
<1>1. /\ IsSeq(h) /\ IsSeq(n) /\ L \in Nat /\ DOMAIN h = 1..L /\ DOMAIN n = 1..(L + 1)
      /\ n[L + 1] = c /\ \A i \in 1..L : n[i] = h[i]
  BY AppendFacts, SeqFacts DEF Follows
<1>2. \A k \in Nat : k <= L => Past(n, k) = Past(h, k)
  BY <1>1, PastOfAppend
<1>3. AllParts(h) = Past(h, L)
  BY <1>1, AllIsPast
<1> HIDE DEF n, L
<1>4. ASSUME NEW k \in DOMAIN n
      PROVE  /\ IsSeq(n[k].parts) /\ n[k].parts # <<>>
             /\ Fits(Past(n, k - 1), n[k].parts)
  <2>1. CASE k = L + 1
    <3>1. k - 1 = L /\ L <= L
      BY <1>1, <2>1
    <3> QED BY <1>1, <1>2, <1>3, <2>1, <3>1
  <2>2. CASE k \in 1..L
    <3>1. k - 1 \in Nat /\ k - 1 <= L /\ k \in DOMAIN h /\ n[k] = h[k]
      BY <1>1, <2>2
    <3>2. Past(n, k - 1) = Past(h, k - 1)
      BY <1>2, <3>1
    <3> QED BY <3>1, <3>2 DEF Follows
  <2> QED BY <1>1, <2>1, <2>2
<1>5. Follows(n)
  BY <1>1, <1>4 DEF Follows
<1> QED BY <1>5 DEF n

LEMMA NumberedTurn ==
    ASSUME LastNumber \in Nat, NEW parts, Told(parts)
    PROVE  /\ IsSeq(Numbered(parts)) /\ Numbered(parts) # <<>>
           /\ Len(Numbered(parts)) = Len(parts)
           /\ \A i \in 1..Len(parts) :
                /\ Numbered(parts)[i].n = LastNumber + i
                /\ Numbered(parts)[i].kind = parts[i].kind
                /\ parts[i].kind \in {"call", "result"} =>
                     Numbered(parts)[i].id = parts[i].id
                /\ parts[i].kind = "result" => Numbered(parts)[i].answers = parts[i].answers
<1> DEFINE P == Numbered(parts)
           L == Len(parts)
<1>1. IsSeq(parts) /\ L \in Nat \ {0} /\ DOMAIN parts = 1..L
  BY SeqFacts DEF Told
<1>2. P = [i \in 1..L |-> Number(parts[i], LastNumber + i)]
  BY <1>1 DEF Numbered
<1>3. ASSUME NEW i \in 1..L
      PROVE  /\ P[i].n = LastNumber + i
             /\ P[i].kind = parts[i].kind
             /\ parts[i].kind \in {"call", "result"} => P[i].id = parts[i].id
             /\ parts[i].kind = "result" => P[i].answers = parts[i].answers
  <2>1. P[i] = Number(parts[i], LastNumber + i)
    BY <1>2
  <2>2. /\ "kind" \in DOMAIN parts[i]
        /\ parts[i].kind \in {"call", "result"} => "id" \in DOMAIN parts[i]
        /\ parts[i].kind = "result" => "answers" \in DOMAIN parts[i]
    BY <1>1 DEF Told
  <2> HIDE DEF P
  <2> QED BY <2>1, <2>2 DEF Number
<1>4. P \in Seq({P[i] : i \in 1..L}) /\ Len(P) = L
  BY <1>1, <1>2
<1> HIDE DEF P, L
<1>5. IsSeq(P) /\ P # <<>>
  BY <1>1, <1>4, AnySeq, SeqFacts
<1> QED BY <1>3, <1>4, <1>5 DEF P, L

LEMMA SayAnswerable ==
    ASSUME Answerable, NEW role, NEW parts, Told(parts), Say(role, parts),
           Fits(AllParts(contents), Numbered(parts))
    PROVE  Answerable'
<1> DEFINE P == Numbered(parts)
           c == [role |-> role, parts |-> P]
           L == Len(parts)
           later == LastNumber + L
           S == AllParts(contents)
<1>1. /\ LastNumber \in Nat /\ Follows(contents) /\ NumberedUpTo(contents, LastNumber)
      /\ IsSeq(contents)
  BY DEF Answerable, Follows
<1>2. /\ IsSeq(P) /\ P # <<>> /\ Len(P) = L /\ L \in Nat \ {0} /\ DOMAIN P = 1..L
      /\ \A i \in 1..L : P[i].n = LastNumber + i
  <2>1. IsSeq(P) /\ P # <<>> /\ Len(P) = L /\ \A i \in 1..L : P[i].n = LastNumber + i
    BY <1>1, NumberedTurn
  <2>2. Len(P) \in Nat /\ DOMAIN P = 1..Len(P) /\ Len(P) # 0
    BY <2>1, SeqFacts
  <2> HIDE DEF P, L
  <2> QED BY <2>1, <2>2
<1>3. contents' = Append(contents, c) /\ c.parts = P
  BY DEF Say
<1>4. Fits(S, P)
  OBVIOUS
<1> HIDE DEF P, c, L
<1>5. Follows(contents')
  BY <1>1, <1>2, <1>3, <1>4, FollowsAppend
<1>6. LastNumber' = later
  <2>1. contents' # <<>> /\ Last(contents') = c
    BY <1>1, <1>3, AppendFacts DEF Last
  <2>2. Last(P) = P[L]
    BY <1>2 DEF Last
  <2>3. P[L].n = later
    BY <1>2
  <2> QED BY <1>3, <2>1, <2>2, <2>3 DEF LastNumber
<1>7. AllParts(contents') = S \cup ToSet(P)
  BY <1>1, <1>3, PartsOfAppend
<1>8. later \in Nat /\ LastNumber <= later
  BY <1>1, <1>2
<1>9. \A x \in S : x.n \in 0..later /\ (x.kind = "result" => x.answers \in 0..later)
  <2>1. \A i \in 0..LastNumber : i \in 0..later
    BY <1>1, <1>8
  <2> QED BY <1>1, <2>1 DEF NumberedUpTo
<1>10. ASSUME NEW i \in 1..L
       PROVE  P[i].n \in 0..later /\ (P[i].kind = "result" => P[i].answers \in 0..later)
  <2>1. P[i].n \in 0..later
    BY <1>1, <1>2
  <2>2. ASSUME P[i].kind = "result" PROVE P[i].answers \in 0..later
    <3>1. GoodResult(Heard(S, P, i), P[i])
      BY <1>2, <1>4, <2>2 DEF Fits, GoodNext
    <3>2. PICK x \in Heard(S, P, i) : x.n = P[i].answers
      BY <3>1 DEF GoodResult, OpenIn
    <3>3. CASE x \in S
      BY <1>9, <3>2, <3>3
    <3>4. CASE \E j \in 1..(i - 1) : x = P[j]
      <4>1. PICK j \in 1..(i - 1) : x = P[j]
        BY <3>4
      <4>2. j \in 1..L
        BY <1>2
      <4>3. P[j].n \in 0..later
        BY <1>1, <1>2, <4>2
      <4> QED BY <3>2, <4>1, <4>3
    <3> QED BY <3>2, <3>3, <3>4 DEF Heard
  <2> QED BY <2>1, <2>2
<1>11. NumberedUpTo(contents', later)
  <2>1. \A x \in ToSet(P) : \E i \in 1..L : x = P[i]
    BY <1>2 DEF ToSet
  <2> QED BY <1>7, <1>9, <1>10, <2>1 DEF NumberedUpTo
<1> QED BY <1>5, <1>6, <1>8, <1>11 DEF Answerable

LEMMA OpenShrinks ==
    ASSUME NEW S, NEW H, S \subseteq H, NEW c \in OpenIn(H), c \in S
    PROVE  c \in OpenIn(S)
BY DEF OpenIn

\* Words and pictures.
LEMMA WordsFit ==
    ASSUME LastNumber \in Nat, NEW S, NEW parts, Told(parts),
           \A i \in DOMAIN parts : parts[i].kind \in {"text", "media"}
    PROVE  Fits(S, Numbered(parts))
<1> DEFINE P == Numbered(parts)
<1>1. IsSeq(parts) /\ DOMAIN parts = 1..Len(parts)
  BY SeqFacts DEF Told
<1>2. IsSeq(P) /\ Len(P) = Len(parts) /\ \A i \in 1..Len(parts) : P[i].kind = parts[i].kind
  BY NumberedTurn
<1> HIDE DEF P
<1>3. DOMAIN P = 1..Len(parts)
  BY <1>2, SeqFacts
<1>4. \A q \in DOMAIN P : P[q].kind \in {"text", "media"}
  BY <1>1, <1>2, <1>3
<1>5. Fits(S, P)
  BY <1>4 DEF Fits, GoodNext, Kinds
<1> QED BY <1>5 DEF P

\* A model's turn: its calls have ids apart from each other's and from those
\* of the open calls.
LEMMA TurnFits ==
    ASSUME Answerable, NEW parts, Told(parts),
           \A i \in DOMAIN parts :
                /\ parts[i].kind \in Kinds \ {"result"}
                /\ parts[i].kind = "call" =>
                     /\ parts[i].id \in Nat
                     /\ \A c \in Open : c.id # parts[i].id
           , \A i, j \in DOMAIN parts :
                parts[i].kind = "call" /\ parts[j].kind = "call" /\ parts[i].id = parts[j].id
                  => i = j \/ parts[i].id = NoId
    PROVE  Fits(AllParts(contents), Numbered(parts))
<1> DEFINE P == Numbered(parts)
           S == AllParts(contents)
           L == Len(parts)
<1>0. LastNumber \in Nat /\ NumberedUpTo(contents, LastNumber)
  BY DEF Answerable
<1>1. IsSeq(parts) /\ DOMAIN parts = 1..L /\ L \in Nat
  BY SeqFacts DEF Told
<1>2. /\ IsSeq(P) /\ Len(P) = L
      /\ \A i \in 1..L : /\ P[i].n = LastNumber + i /\ P[i].kind = parts[i].kind
                         /\ parts[i].kind = "call" => P[i].id = parts[i].id
  BY <1>0, NumberedTurn
<1> HIDE DEF P, L
<1>3. DOMAIN P = 1..L
  BY <1>2, SeqFacts
<1>4. ASSUME NEW q \in 1..L, P[q].kind = "call"
      PROVE  GoodCall(Heard(S, P, q), P[q])
  <2> DEFINE H == Heard(S, P, q)
  <2>1. P[q].id = parts[q].id /\ parts[q].id \in Nat /\ P[q].n = LastNumber + q /\ P[q].n \in Nat
    BY <1>0, <1>1, <1>2, <1>4
  <2>2. ASSUME NEW x \in H
        PROVE  /\ x.kind = "call" => x.n < P[q].n
               /\ x.kind = "result" => x.answers < P[q].n
    <3>1. CASE x \in S
      <4>1. x.n \in 0..LastNumber /\ (x.kind = "result" => x.answers \in 0..LastNumber)
        BY <1>0, <3>1 DEF NumberedUpTo
      <4> QED BY <1>0, <1>1, <2>1, <4>1
    <3>2. CASE x \notin S
      <4>1. PICK j \in 1..(q - 1) : x = P[j]
        BY <2>2, <3>2 DEF Heard
      <4>2. j \in 1..L /\ j < q
        BY <1>1
      <4>3. x.kind # "result" /\ x.n = LastNumber + j
        BY <1>1, <1>2, <4>1, <4>2
      <4> QED BY <1>0, <2>1, <4>2, <4>3
    <3> QED BY <3>1, <3>2
  <2>3. ASSUME P[q].id # NoId, NEW c \in OpenIn(H)
        PROVE  c.id # P[q].id
    <3>1. CASE c \in S
      <4>1. c \in Open
        BY <2>3, <3>1, OpenShrinks DEF Heard, Open
      <4> QED BY <1>1, <1>2, <1>4, <2>1, <4>1
    <3>2. CASE c \notin S
      <4>1. c \in H /\ c.kind = "call"
        BY <2>3 DEF OpenIn
      <4>2. PICK j \in 1..(q - 1) : c = P[j]
        BY <3>2, <4>1 DEF Heard
      <4>3. j \in 1..L /\ j # q
        BY <1>1
      <4> QED BY <1>1, <1>2, <1>4, <2>1, <2>3, <4>1, <4>2, <4>3
    <3> QED BY <3>1, <3>2
  <2> HIDE DEF H
  <2>4. GoodCall(H, P[q])
    BY <2>1, <2>2, <2>3 DEF GoodCall
  <2> QED BY <2>4 DEF H
<1>5. \A q \in 1..L : P[q].kind \in Kinds \ {"result"}
  BY <1>1, <1>2
<1>6. Fits(S, P)
  BY <1>3, <1>4, <1>5 DEF Fits, GoodNext
<1> QED BY <1>6 DEF P

\* Results of open calls, each once, the oldest first where an open call has
\* no id.
LEMMA AnswersFit ==
    ASSUME Answerable, NEW count, NEW pick, Picks(count, pick),
           NEW parts, AnswersOf(parts, count, pick)
    PROVE  Told(parts) /\ Fits(AllParts(contents), Numbered(parts))
<1>p. /\ count \in Nat \ {0} /\ pick \in [1..count -> Open]
      /\ \A i, j \in 1..count : i # j => pick[i] # pick[j]
      /\ Unnamed(Open) => \A i \in 1..count : \A c \in Open :
           c.n < pick[i].n => \E j \in 1..(i - 1) : pick[j] = c
  BY DEF Picks
<1>q. \A i \in 1..count : /\ {"kind", "id", "answers"} \subseteq DOMAIN parts[i]
                          /\ parts[i].kind = "result"
                          /\ parts[i].id = pick[i].id /\ parts[i].answers = pick[i].n
  BY DEF Result, AnswersOf
<1>r. IsSeq(parts) /\ Len(parts) = count /\ DOMAIN parts = 1..count /\ parts # <<>>
  BY <1>p, SeqFacts DEF AnswersOf
<1>t. Told(parts)
  BY <1>q, <1>r DEF Told
<1> DEFINE P == Numbered(parts)
           S == AllParts(contents)
<1>0. LastNumber \in Nat /\ NumberedUpTo(contents, LastNumber) /\ Follows(contents)
  BY DEF Answerable
<1>2. /\ IsSeq(P) /\ Len(P) = count
      /\ \A i \in 1..count : /\ P[i].kind = "result"
                             /\ P[i].id = pick[i].id /\ P[i].answers = pick[i].n
  BY <1>0, <1>q, <1>r, <1>t, NumberedTurn
<1> HIDE DEF P
<1>3. DOMAIN P = 1..count
  BY <1>2, SeqFacts
<1>4. \A i \in 1..count : pick[i] \in OpenIn(S) /\ pick[i] \in S /\ pick[i].kind = "call"
  BY <1>p DEF Open, OpenIn
<1>5. ASSUME NEW q \in 1..count PROVE GoodResult(Heard(S, P, q), P[q])
  <2> DEFINE H == Heard(S, P, q)
             c == pick[q]
  <2>1. c \in S /\ c.kind = "call" /\ c \in OpenIn(S)
    BY <1>4
  <2>2. \A j \in 1..(q - 1) : j \in 1..count /\ j # q
    BY <1>p
  <2>3. ASSUME NEW r \in H, r.kind = "result" PROVE r.answers # c.n
    <3>1. CASE r \in S
      BY <2>1, <2>3, <3>1 DEF OpenIn
    <3>2. CASE r \notin S
      <4>1. PICK j \in 1..(q - 1) : r = P[j]
        BY <2>3, <3>2 DEF Heard
      <4>2. pick[j] \in S /\ pick[j].kind = "call" /\ pick[j] # c /\ r.answers = pick[j].n
        BY <1>2, <1>4, <1>p, <2>2, <4>1
      <4> QED BY <1>0, <2>1, <4>2, CallOfNumber
    <3> QED BY <3>1, <3>2
  <2>4. c \in OpenIn(H)
    <3>1. c \in H
      BY <2>1 DEF Heard
    <3> QED BY <2>1, <2>3, <3>1 DEF OpenIn
  <2>5. ASSUME P[q].id = NoId, NEW d \in OpenIn(H) PROVE c.n <= d.n
    <3>1. d \in H /\ d.kind = "call" /\ ~\E r \in H : r.kind = "result" /\ r.answers = d.n
      BY <2>5 DEF OpenIn
    <3>2. d \in S
      <4> SUFFICES ASSUME d \notin S PROVE FALSE
        OBVIOUS
      <4>1. PICK j \in 1..(q - 1) : d = P[j]
        BY <3>1 DEF Heard
      <4> QED BY <1>2, <2>2, <3>1, <4>1
    <3>3. d \in Open
      BY <2>5, <3>2, OpenShrinks DEF Heard, Open
    <3>4. Unnamed(Open)
      <4>1. c \in Open /\ c.id = NoId /\ c.kind = "call"
        BY <1>2, <2>1, <2>5 DEF Open
      <4> QED BY <4>1 DEF Unnamed
    <3>5. ~(d.n < c.n)
      <4> SUFFICES ASSUME d.n < c.n PROVE FALSE
        OBVIOUS
      <4>1. PICK j \in 1..(q - 1) : pick[j] = d
        BY <1>p, <3>3, <3>4
      <4>2. P[j] \in H
        BY DEF Heard
      <4> QED BY <1>2, <2>2, <3>1, <4>1, <4>2
    <3>6. c.n \in 0..LastNumber /\ d.n \in 0..LastNumber
      BY <1>0, <2>1, <3>2 DEF NumberedUpTo
    <3> QED BY <1>0, <3>5, <3>6
  <2> HIDE DEF H
  <2>6. GoodResult(H, P[q])
    BY <1>2, <2>4, <2>5 DEF GoodResult
  <2> QED BY <2>6 DEF H
<1>6. Fits(S, P)
  BY <1>2, <1>3, <1>5 DEF Fits, GoodNext, Kinds
<1> QED BY <1>t, <1>6 DEF P

LEMMA SummaryFacts ==
    /\ IsSeq(OwnTurn.parts) /\ OwnTurn.parts # <<>> /\ DOMAIN OwnTurn.parts = {1}
    /\ \A x \in ToSet(OwnTurn.parts) : x.n = 0 /\ x.kind = "text"
    /\ ToSet(OwnTurn.parts) # {}
<1> DEFINE p == AdaptersText
<1>1. p.n = 0 /\ p.kind = "text"
  <2> DEFINE t == Text("some", NoItem)
  <2>1. "kind" \in DOMAIN t /\ t.kind = "text"
    BY DEF Text
  <2>2. p = Number(t, 0)
    BY DEF AdaptersText
  <2> HIDE DEF t, p
  <2> QED BY <2>1, <2>2 DEF Number
<1>2. OwnTurn.parts = <<p>>
  BY DEF OwnTurn
<1> HIDE DEF p
<1>3. IsSeq(<<p>>) /\ <<p>> # <<>> /\ DOMAIN <<p>> = {1} /\ <<p>>[1] = p
  BY SingleFacts
<1> QED BY <1>1, <1>2, <1>3 DEF ToSet

\* In place of the settled start of the history, a summary: what follows still
\* answers its own calls.
LEMMA CompactAnswerable ==
    ASSUME Answerable, Compact
    PROVE  Answerable'
<1>0. /\ LastNumber \in Nat /\ Follows(contents) /\ NumberedUpTo(contents, LastNumber)
      /\ IsSeq(contents)
  BY DEF Answerable, Follows
<1>1. PICK k \in 2..(Len(contents) - 1) :
        /\ contents' = <<OwnTurn>> \o SubSeq(contents, k + 1, Len(contents))
        /\ \A r \in AllParts(SubSeq(contents, k + 1, Len(contents))) : r.kind = "result" =>
             \E c \in AllParts(SubSeq(contents, k + 1, Len(contents))) :
                 c.kind = "call" /\ c.n = r.answers
  BY DEF Compact, OwnTurn
<1> DEFINE rest == SubSeq(contents, k + 1, Len(contents))
           L == Len(contents)
           new == contents'
<1>2. IsSeq(contents) /\ L \in Nat /\ DOMAIN contents = 1..L
  BY <1>0, SeqFacts
<1>3. /\ IsSeq(rest) /\ Len(rest) = L - k
      /\ \A i \in 1..Len(rest) : i + k \in 1..L /\ rest[i] = contents[i + k]
  <2>1. contents \in Seq(ToSet(contents)) /\ k + 1 \in 1..L
    BY <1>2 DEF IsSeq
  <2>2. /\ rest \in Seq(ToSet(contents))
        /\ Len(rest) = L - k
        /\ \A i \in 1..Len(rest) : rest[i] = contents[i + k]
    BY <1>2, <2>1
  <2>3. k \in Nat
    BY <1>2
  <2> HIDE DEF rest
  <2>4. \A i \in 1..Len(rest) : i + k \in 1..L
    BY <1>2, <2>2, <2>3
  <2>5. IsSeq(rest)
    BY <2>2, AnySeq
  <2> QED BY <2>2, <2>4, <2>5
<1>3a. /\ contents' = <<OwnTurn>> \o rest
       /\ \A r \in AllParts(rest) : r.kind = "result" =>
             \E c \in AllParts(rest) : c.kind = "call" /\ c.n = r.answers
  BY <1>1
<1> HIDE DEF rest
<1>4. k \in Nat \ {0} /\ L - k \in Nat \ {0}
  <2>1. k \in 2..(L - 1) /\ L \in Nat
    BY <1>1, <1>2
  <2> HIDE DEF L
  <2> QED BY ONLY <2>1
<1> HIDE DEF L
<1>6. /\ IsSeq(new) /\ DOMAIN new = 1..(L - k + 1) /\ Len(new) = L - k + 1
      /\ new[1] = OwnTurn
      /\ \A i \in 1..(L - k) : new[1 + i] = rest[i]
  <2>1. IsSeq(<<OwnTurn>>) /\ Len(<<OwnTurn>>) = 1 /\ <<OwnTurn>>[1] = OwnTurn
    BY SingleFacts
  <2>2. Len(new) = 1 + (L - k) /\ 1 \in 1..1
    BY <1>3, <1>3a, <2>1, ConcatFacts
  <2>3. IsSeq(new) /\ new[1] = OwnTurn
        /\ \A i \in 1..(L - k) : new[1 + i] = rest[i]
    BY <1>3, <1>3a, <2>1, <2>2, ConcatFacts
  <2> QED BY <1>4, <2>2, <2>3, SeqFacts
<1> HIDE DEF new
<1>7. ASSUME NEW i \in DOMAIN new
      PROVE  \/ i = 1 /\ new[i] = OwnTurn
             \/ i - 1 \in 1..(L - k) /\ i - 1 + k \in DOMAIN contents /\ new[i] = contents[i - 1 + k]
  <2>1. CASE i = 1
    BY <1>6, <2>1
  <2>2. CASE i # 1
    <3> DEFINE j == i - 1
    <3>1. j \in 1..(L - k) /\ 1 + j = i
      BY <1>4, <1>6, <2>2
    <3> HIDE DEF j
    <3>2. new[i] = contents[j + k] /\ j + k \in 1..L
      BY <1>3, <1>6, <3>1
    <3> QED BY <1>2, <3>1, <3>2 DEF j
  <2> QED BY <2>1, <2>2
\* A content of the rest is one of the old history, after the summarised ones.
<1>8. ASSUME NEW i \in 1..(L - k)
      PROVE  i + k \in DOMAIN contents /\ new[1 + i] = contents[i + k] /\ i + k > k
             /\ 1 + i \in DOMAIN new
  <2>1. i + k \in 1..L /\ rest[i] = contents[i + k] /\ i \in 1..Len(rest) /\ i \in 1..(L - k)
    BY <1>3
  <2>2. new[1 + i] = rest[i]
    BY <1>6, <2>1
  <2>3. i + k > k /\ 1 + i \in 1..(L - k + 1)
    BY <1>4
  <2> QED BY <1>2, <1>6, <2>1, <2>2, <2>3
\* What a part of the rest comes after, and what it came after.
<1>9. ASSUME NEW i \in 1..(L - k), NEW q \in DOMAIN contents[i + k].parts
      PROVE  GoodNext(Heard(Past(new, i), contents[i + k].parts, q), contents[i + k].parts[q])
  <2> DEFINE P == contents[i + k].parts
             p == P[q]
             H == Heard(Past(contents, i + k - 1), P, q)
             N == Heard(Past(new, i), P, q)
  <2>0. i \in Nat /\ i + k \in DOMAIN contents
    BY <1>4, <1>8
  <2>1. GoodNext(H, p)
    BY <1>0, <2>0 DEF Follows, Fits
  <2>1a. ASSUME NEW x \in H
         PROVE  \E d \in DOMAIN contents : \E e \in DOMAIN contents[d].parts :
                    Earlier(d, e, i + k, q) /\ x = contents[d].parts[e]
    <3> DEFINE l == i + k
    <3>1. l \in DOMAIN contents /\ q \in DOMAIN contents[l].parts
      BY <2>0
    <3>2. x \in Heard(Past(contents, l - 1), contents[l].parts, q)
      BY <2>1a
    <3> HIDE DEF l
    <3>3. \E d \in DOMAIN contents : \E e \in DOMAIN contents[d].parts :
              Earlier(d, e, l, q) /\ x = contents[d].parts[e]
      BY <1>0, <3>1, <3>2, HeardIsEarlier
    <3> QED BY <3>3 DEF l
  <2>2. ASSUME NEW x \in N, x.kind \in {"call", "result"}
        PROVE  /\ x \in H
               /\ \E a \in DOMAIN contents : \E b \in DOMAIN contents[a].parts :
                    x = contents[a].parts[b] /\ a > k /\ Earlier(a, b, i + k, q)
    <3>1. CASE \E j \in 1..(q - 1) : x = P[j]
      <4>1. PICK j \in 1..(q - 1) : x = P[j]
        BY <3>1
      <4>2. IsSeq(P) /\ DOMAIN P = 1..Len(P) /\ Len(P) \in Nat
        BY <1>0, <2>0, SeqFacts DEF Follows
      <4>3. j \in DOMAIN P /\ j < q
        BY <4>2
      <4>4. i + k > k
        BY <1>8
      <4> QED BY <2>0, <4>1, <4>3, <4>4 DEF Earlier, Heard
    <3>2. CASE \E m \in 1..i : x \in ToSet(new[m].parts)
      <4>1. PICK m \in 1..i : x \in ToSet(new[m].parts)
        BY <3>2
      <4>2. m \in DOMAIN new
        BY <1>4, <1>6
      <4>3. new[m] # OwnTurn
        BY <2>2, <4>1, SummaryFacts
      <4> DEFINE a == m - 1 + k
      <4>4. m - 1 \in 1..(L - k) /\ a \in DOMAIN contents /\ new[m] = contents[a]
        BY <1>7, <4>2, <4>3
      <4>5. a > k /\ a < i + k /\ a \in 1..(i + k - 1)
        BY <1>4, <4>4
      <4>6. x \in ToSet(contents[a].parts)
        BY <4>1, <4>4
      <4> HIDE DEF a
      <4>7. x \in H
        BY <4>5, <4>6 DEF Heard, Past
      <4>8. PICK b \in DOMAIN contents[a].parts : x = contents[a].parts[b]
        BY <4>6 DEF ToSet
      <4> QED BY <4>4, <4>5, <4>7, <4>8 DEF Earlier
    <3> QED BY <2>2, <3>1, <3>2 DEF Heard, Past
  <2>3. ASSUME NEW a \in DOMAIN contents, NEW b \in DOMAIN contents[a].parts,
               a > k, Earlier(a, b, i + k, q)
        PROVE  contents[a].parts[b] \in N
    <3>1. CASE a = i + k /\ b < q
      <4>2. IsSeq(P) /\ DOMAIN P = 1..Len(P) /\ Len(P) \in Nat
        BY <1>0, <2>0, SeqFacts DEF Follows
      <4>3. b \in 1..(q - 1)
        BY <3>1, <4>2
      <4> QED BY <3>1, <4>3 DEF Heard
    <3>2. CASE a < i + k
      <4> DEFINE m == a - k
      <4>1. m \in 1..(L - k) /\ m + k = a /\ 1 + m \in 1..i
        BY <1>2, <1>4, <2>3, <3>2
      <4> HIDE DEF m
      <4>2. new[1 + m] = contents[a]
        BY <1>8, <4>1
      <4>3. contents[a].parts[b] \in ToSet(new[1 + m].parts)
        BY <4>2 DEF ToSet
      <4> QED BY <4>1, <4>3 DEF Heard, Past
    <3> QED BY <2>3, <3>1, <3>2 DEF Earlier
  \* A call of the rest that is open among the rest was open before.
  <2>4. ASSUME NEW c \in OpenIn(N) PROVE c \in OpenIn(H)
    <3>1. c \in N /\ c.kind = "call" /\ ~\E r \in N : r.kind = "result" /\ r.answers = c.n
      BY <2>4 DEF OpenIn
    <3>2. PICK a \in DOMAIN contents : \E b \in DOMAIN contents[a].parts :
            c = contents[a].parts[b] /\ a > k /\ Earlier(a, b, i + k, q)
      BY <2>2, <3>1
    <3>3. PICK b \in DOMAIN contents[a].parts :
            c = contents[a].parts[b] /\ a > k /\ Earlier(a, b, i + k, q)
      BY <3>2
    <3>4. ASSUME NEW r \in H, r.kind = "result", r.answers = c.n PROVE FALSE
      <4>1. PICK d \in DOMAIN contents : \E e \in DOMAIN contents[d].parts :
              Earlier(d, e, i + k, q) /\ r = contents[d].parts[e]
        BY <2>1a
      <4>2. PICK e \in DOMAIN contents[d].parts :
              Earlier(d, e, i + k, q) /\ r = contents[d].parts[e]
        BY <4>1
      <4>3. CASE d > k
        <5>1. r \in N
          BY <2>3, <4>2, <4>3
        <5> QED BY <3>1, <3>4, <5>1
      <4>4. CASE ~(d > k)
        <5>1. Earlier(d, e, a, b)
          BY <1>2, <1>4, <3>3, <4>4 DEF Earlier
        <5>2. r \in Heard(Past(contents, a - 1), contents[a].parts, b)
          BY <1>0, <4>2, <5>1, EarlierIsHeard
        <5>3. GoodCall(Heard(Past(contents, a - 1), contents[a].parts, b), c)
          BY <1>0, <3>1, <3>3 DEF Follows, Fits, GoodNext
        <5>4. c.n < c.n /\ c.n \in Nat
          BY <3>4, <5>2, <5>3 DEF GoodCall
        <5> QED BY <5>4
      <4> QED BY <4>3, <4>4
    <3>5. c \in H
      BY <2>2, <3>1
    <3> QED BY <3>1, <3>4, <3>5 DEF OpenIn
  <2>5. ASSUME p.kind = "call" PROVE GoodCall(N, p)
    <3>1. GoodCall(H, p)
      BY <2>1, <2>5 DEF GoodNext
    <3> HIDE DEF p, H, N, P
    <3> QED BY <2>2, <2>4, <3>1 DEF GoodCall
  <2>6. ASSUME p.kind = "result" PROVE GoodResult(N, p)
    <3>1. PICK c \in OpenIn(H) :
            /\ c.n = p.answers /\ c.id = p.id
            /\ p.id = NoId => \A d \in OpenIn(H) : c.n <= d.n
      BY <2>1, <2>6 DEF GoodNext, GoodResult
    <3>2. c \in H /\ c.kind = "call" /\ ~\E r \in H : r.kind = "result" /\ r.answers = c.n
      BY <3>1 DEF OpenIn
    <3>3. PICK a \in DOMAIN contents : \E b \in DOMAIN contents[a].parts :
            Earlier(a, b, i + k, q) /\ c = contents[a].parts[b]
      BY <2>1a, <3>2
    <3>4. PICK b \in DOMAIN contents[a].parts :
            Earlier(a, b, i + k, q) /\ c = contents[a].parts[b]
      BY <3>3
    <3>5. a > k
      <4>1. p \in AllParts(rest)
        <5>1. rest[i] = contents[i + k] /\ i \in DOMAIN rest
          BY <1>3, SeqFacts
        <5>2. p \in ToSet(rest[i].parts)
          BY <5>1 DEF ToSet
        <5> QED BY <5>1, <5>2 DEF AllParts
      <4>2. PICK o \in AllParts(rest) : o.kind = "call" /\ o.n = c.n
        BY <1>3a, <2>6, <3>1, <4>1
      <4>3. PICK m \in DOMAIN rest : \E e \in DOMAIN rest[m].parts : o = rest[m].parts[e]
        BY PlaceOf
      <4>4. m \in 1..(L - k) /\ rest[m] = contents[m + k]
        BY <1>3, SeqFacts
      <4>5. m + k \in DOMAIN contents /\ m + k > k
        BY <1>8, <4>4
      <4>6. PICK e \in DOMAIN contents[m + k].parts : o = contents[m + k].parts[e]
        BY <4>3, <4>4
      <4>7. a = m + k
        BY <1>0, <3>2, <3>4, <4>2, <4>5, <4>6, CallsDiffer
      <4> QED BY <4>5, <4>7
    <3>6. c \in N
      BY <2>3, <3>4, <3>5
    <3>7. c \in OpenIn(N)
      <4>1. \A r \in N : r.kind = "result" => r \in H
        BY <2>2
      <4> HIDE DEF N, H
      <4> QED BY <3>2, <3>6, <4>1 DEF OpenIn
    <3> HIDE DEF p, H, N, P
    <3> QED BY <2>4, <3>1, <3>7 DEF GoodResult
  <2> HIDE DEF H, N
  <2>7. GoodNext(N, p)
    BY <2>1, <2>5, <2>6 DEF GoodNext
  <2> QED BY <2>7 DEF N
<1>10. ASSUME NEW m \in DOMAIN new
       PROVE  /\ IsSeq(new[m].parts) /\ new[m].parts # <<>>
              /\ Fits(Past(new, m - 1), new[m].parts)
  <2>1. CASE new[m] = OwnTurn
    <3>1. \A q \in DOMAIN OwnTurn.parts : OwnTurn.parts[q].kind = "text"
      BY SummaryFacts DEF ToSet
    <3> QED BY <2>1, <3>1, SummaryFacts DEF Fits, GoodNext, Kinds
  <2>2. CASE new[m] # OwnTurn
    <3> DEFINE i == m - 1
    <3>1. i \in 1..(L - k) /\ i + k \in DOMAIN contents /\ new[m] = contents[i + k]
      BY <1>7, <2>2
    <3> HIDE DEF i
    <3>2. Fits(Past(new, i), contents[i + k].parts)
      BY <1>9, <3>1 DEF Fits
    <3>3. IsSeq(contents[i + k].parts) /\ contents[i + k].parts # <<>>
      BY <1>0, <3>1 DEF Follows
    <3> QED BY <3>1, <3>2, <3>3 DEF i
  <2> QED BY <2>1, <2>2
<1>11. Follows(new)
  BY <1>6, <1>10 DEF Follows
<1>12. LastNumber' = LastNumber
  <2>1. contents # <<>> /\ contents' # <<>>
    <3>1. L # 0 /\ L - k + 1 # 0
      BY <1>2, <1>4
    <3> QED BY <1>2, <1>6, <3>1, SeqFacts DEF L, new
  <2>2. L - k + 1 \in DOMAIN new /\ L - k + 1 # 1 /\ (L - k + 1) - 1 + k = L
    BY <1>2, <1>4, <1>6
  <2>3. new[L - k + 1] = contents[L]
    BY <1>7, <2>2
  <2>4. Last(contents') = Last(contents)
    BY <1>6, <2>3 DEF Last, L, new
  <2> QED BY <2>1, <2>4 DEF LastNumber
<1>13. NumberedUpTo(new, LastNumber)
  <2> SUFFICES ASSUME NEW x \in AllParts(new)
               PROVE  /\ x.n \in 0..LastNumber
                      /\ x.kind = "result" => x.answers \in 0..LastNumber
    BY DEF NumberedUpTo
  <2>1. PICK m \in DOMAIN new : x \in ToSet(new[m].parts)
    BY DEF AllParts
  <2>2. CASE new[m] = OwnTurn
    <3>1. x.n = 0 /\ x.kind = "text"
      BY <2>1, <2>2, SummaryFacts
    <3> QED BY <1>0, <3>1
  <2>3. CASE new[m] # OwnTurn
    <3>1. PICK i \in DOMAIN contents : new[m] = contents[i]
      BY <1>7, <2>3
    <3>2. x \in AllParts(contents)
      BY <2>1, <3>1 DEF AllParts
    <3> QED BY <1>0, <3>2 DEF NumberedUpTo
  <2> QED BY <2>2, <2>3
<1> QED BY <1>0, <1>11, <1>12, <1>13 DEF Answerable, new

LEMMA WordsAreTold ==
    /\ Told(<<Text("some", NoItem)>>)
    /\ \A i \in DOMAIN <<Text("some", NoItem)>> : <<Text("some", NoItem)>>[i].kind \in {"text", "media"}
<1> DEFINE p == Text("some", NoItem)
<1>1. "kind" \in DOMAIN p /\ p.kind = "text"
  BY DEF Text
<1> HIDE DEF p
<1>2. IsSeq(<<p>>) /\ <<p>> # <<>> /\ DOMAIN <<p>> = {1} /\ <<p>>[1] = p
  BY SingleFacts
<1>3. Told(<<p>>) /\ \A i \in DOMAIN <<p>> : <<p>>[i].kind \in {"text", "media"}
  BY <1>1, <1>2 DEF Told
<1> QED BY <1>3 DEF p

LEMMA TurnIsTold ==
    ASSUME NEW turn \in UserTurns \cup ModelTurns
    PROVE  /\ Told(turn)
           /\ \A i \in DOMAIN turn : /\ turn[i].kind \in Kinds \ {"result"}
                                     /\ turn[i].kind = "call" => turn[i].id \in Nat
           /\ turn \in UserTurns => \A i \in DOMAIN turn : turn[i].kind \in {"text", "media"}
<1>1. turn \in Seq(Answer) /\ turn # <<>>
  <2>1. Said \subseteq Answer
    BY DEF Answer
  <2> QED BY <2>1, TurnsAssumption, SeqMonotonic
<1>2. IsSeq(turn) /\ DOMAIN turn = 1..Len(turn) /\ \A i \in 1..Len(turn) : turn[i] \in Answer
  BY <1>1, AnySeq, SeqFacts, ElementOfSeq
<1>3. \A p \in Answer : /\ "kind" \in DOMAIN p /\ p.kind \in Kinds \ {"result"}
                        /\ p.kind = "call" => "id" \in DOMAIN p /\ p.id \in Nat
  BY DEF Answer, Said, Kinds
<1>4. turn \in UserTurns => \A i \in DOMAIN turn : turn[i].kind \in {"text", "media"}
  <2>1. turn \in UserTurns => \A i \in 1..Len(turn) : turn[i] \in Said
    BY TurnsAssumption, ElementOfSeq
  <2>2. \A p \in Said : p.kind \in {"text", "media"}
    BY DEF Said
  <2> QED BY <1>2, <2>1, <2>2
<1> QED BY <1>1, <1>2, <1>3, <1>4 DEF Told

\* A content that is one new call, or one result of the oldest open call.
LEMMA OneCallFits ==
    ASSUME Answerable, Open = {}, NEW name, NEW native
    PROVE  LET p == Call(LastNumber + 1, name, native)
           IN Told(<<p>>) /\ Fits(AllParts(contents), Numbered(<<p>>))
<1> DEFINE p == Call(LastNumber + 1, name, native)
<1>1. "kind" \in DOMAIN p /\ p.kind = "call" /\ "id" \in DOMAIN p /\ p.id \in Nat
  <2>1. LastNumber + 1 \in Nat
    BY DEF Answerable
  <2> QED BY <2>1 DEF Call
<1> HIDE DEF p
<1>2. IsSeq(<<p>>) /\ <<p>> # <<>> /\ DOMAIN <<p>> = {1} /\ <<p>>[1] = p
  BY SingleFacts
<1>3. Told(<<p>>)
  BY <1>1, <1>2 DEF Told
<1>4. Fits(AllParts(contents), Numbered(<<p>>))
  <2>1. \A i \in DOMAIN <<p>> :
          /\ <<p>>[i].kind \in Kinds \ {"result"}
          /\ <<p>>[i].kind = "call" => /\ <<p>>[i].id \in Nat
                                       /\ \A c \in Open : c.id # <<p>>[i].id
    BY <1>1, <1>2 DEF Kinds
  <2>2. \A i, j \in DOMAIN <<p>> : i = j
    BY <1>2
  <2> QED BY <1>3, <2>1, <2>2, TurnFits
<1> QED BY <1>3, <1>4 DEF p

LEMMA InitAnswerable == Init => Answerable
<1> SUFFICES ASSUME Init PROVE Answerable
  OBVIOUS
<1>1. contents = <<>> /\ LastNumber = 0 /\ IsSeq(<<>>) /\ DOMAIN <<>> = {}
  BY NoSeq DEF Init, LastNumber
<1>2. Follows(contents)
  BY <1>1 DEF Follows
<1>3. AllParts(contents) = {}
  BY <1>1 DEF AllParts
<1> QED BY <1>1, <1>2, <1>3 DEF Answerable, NumberedUpTo

LEMMA StepAnswerable == Answerable /\ [Next]_vars => Answerable'
<1> SUFFICES ASSUME Answerable, [Next]_vars PROVE Answerable'
  OBVIOUS
<1>1. ASSUME UNCHANGED contents PROVE Answerable'
  BY <1>1 DEF Answerable, LastNumber
<1>0. LastNumber \in Nat
  BY DEF Answerable
<1>2. CASE UserSpeaks
  <2>1. PICK turn \in UserTurns \cup {<<Text("some", NoItem)>>} : Say("user", turn)
    BY <1>2 DEF UserSpeaks
  <2>2. Told(turn) /\ \A i \in DOMAIN turn : turn[i].kind \in {"text", "media"}
    <3>1. CASE turn \in UserTurns
      BY <3>1, TurnIsTold
    <3>2. CASE turn = <<Text("some", NoItem)>>
      BY <3>2, WordsAreTold
    <3> QED BY <2>1, <3>1, <3>2
  <2>3. Fits(AllParts(contents), Numbered(turn))
    BY <1>0, <2>2, WordsFit
  <2> QED BY <2>1, <2>2, <2>3, SayAnswerable
<1>3. CASE ModelSpeaks
  <2>1. PICK turn \in ModelTurns :
          /\ \A i \in DOMAIN turn : turn[i].kind = "call" => \A c \in Open : c.id # turn[i].id
          /\ Say("model", turn)
    BY <1>3 DEF ModelSpeaks
  <2>2. /\ Told(turn)
        /\ \A i \in DOMAIN turn : /\ turn[i].kind \in Kinds \ {"result"}
                                  /\ turn[i].kind = "call" => turn[i].id \in Nat
    BY TurnIsTold
  <2>3. \A i, j \in DOMAIN turn :
          turn[i].kind = "call" /\ turn[j].kind = "call" /\ turn[i].id = turn[j].id
            => i = j \/ turn[i].id = NoId
    BY TurnsAssumption
  <2>4. Fits(AllParts(contents), Numbered(turn))
    BY <2>1, <2>2, <2>3, TurnFits
  <2> QED BY <2>1, <2>2, <2>4, SayAnswerable
<1>4. CASE ToolsAnswer
  <2>1. PICK count \in 1..Cardinality(Open) : \E pick \in [1..count -> Open] :
          /\ \A i, j \in 1..count : i # j => pick[i] # pick[j]
          /\ Unnamed(Open) => \A i \in 1..count : \A c \in Open :
               c.n < pick[i].n => \E j \in 1..(i - 1) : pick[j] = c
          /\ Say("user", [i \in 1..count |-> Result(pick[i].id, pick[i].name, pick[i].n, <<>>)])
    BY <1>4 DEF ToolsAnswer
  <2>2. PICK pick \in [1..count -> Open] :
          /\ \A i, j \in 1..count : i # j => pick[i] # pick[j]
          /\ Unnamed(Open) => \A i \in 1..count : \A c \in Open :
               c.n < pick[i].n => \E j \in 1..(i - 1) : pick[j] = c
          /\ Say("user", [i \in 1..count |-> Result(pick[i].id, pick[i].name, pick[i].n, <<>>)])
    BY <2>1
  <2> DEFINE s == [i \in 1..count |-> Result(pick[i].id, pick[i].name, pick[i].n, <<>>)]
  <2>3. count \in Nat \ {0}
    OBVIOUS
  <2>4. s \in Seq({s[i] : i \in 1..count}) /\ Len(s) = count
    BY <2>3
  <2>5. IsSeq(s)
    BY <2>4, AnySeq
  <2>6. \A i \in 1..count : s[i] = Result(pick[i].id, pick[i].name, pick[i].n, <<>>)
    OBVIOUS
  <2> HIDE DEF s
  <2>8. Picks(count, pick)
    BY <2>2, <2>3 DEF Picks
  <2>9. AnswersOf(s, count, pick)
    BY <2>4, <2>5, <2>6 DEF AnswersOf
  <2>7. Told(s) /\ Fits(AllParts(contents), Numbered(s))
    BY <2>8, <2>9, AnswersFit
  <2> QED BY <2>2, <2>7, SayAnswerable DEF s
<1>5. CASE ModelSearches
  <2>1. Say("model", <<Call(LastNumber + 1, SearchTool, NoId)>>) /\ Open = {}
    BY <1>5 DEF ModelSearches, Asked
  <2> QED BY <2>1, OneCallFits, SayAnswerable
<1>6. CASE SearchAnswers
  <2>0. PICK call \in Open : \E found :
          /\ \A c \in Open : call.n <= c.n
          /\ Say("user", <<Result(call.id, SearchTool, call.n, found)>>)
    BY <1>6 DEF SearchAnswers
  <2>1. PICK found :
          /\ \A c \in Open : call.n <= c.n
          /\ Say("user", <<Result(call.id, SearchTool, call.n, found)>>)
    BY <2>0
  <2> DEFINE r == Result(call.id, SearchTool, call.n, found)
             pick == [i \in 1..1 |-> call]
  <2>2. IsSeq(<<r>>) /\ Len(<<r>>) = 1 /\ <<r>>[1] = r
    BY SingleFacts
  <2>3. pick \in [1..1 -> Open] /\ pick[1] = call /\ \A i \in 1..1 : i = 1
    OBVIOUS
  <2>4. \A c \in Open : c.n \in Nat /\ call.n \in Nat
    BY DEF Answerable, NumberedUpTo, Open, OpenIn
  <2>5. \A c \in Open : ~(c.n < call.n)
    BY <2>1, <2>4
  <2>6. \A i \in 1..1 : \E name, f : <<r>>[i] = Result(pick[i].id, name, pick[i].n, f)
    <3>1. r = Result(pick[1].id, SearchTool, pick[1].n, found)
      BY <2>3
    <3> QED BY <2>2, <2>3, <3>1
  <2> HIDE DEF r, pick
  <2>8. Picks(1, pick)
    BY <2>3, <2>5 DEF Picks
  <2>9. AnswersOf(<<r>>, 1, pick)
    BY <2>2, <2>6 DEF AnswersOf
  <2>7. Told(<<r>>) /\ Fits(AllParts(contents), Numbered(<<r>>))
    BY <2>8, <2>9, AnswersFit
  <2> QED BY <2>1, <2>7, SayAnswerable DEF r
<1>7. CASE ModelCalls
  <2>1. PICK t, namespace : Say("model", <<Call(LastNumber + 1, t, namespace)>>)
    BY <1>7 DEF ModelCalls
  <2>2. Open = {}
    BY <1>7 DEF ModelCalls, Asked
  <2> QED BY <2>1, <2>2, OneCallFits, SayAnswerable
<1>8. CASE Revoke \/ Grant \/ ApplicationLoads \/ UNCHANGED vars
  BY <1>1, <1>8 DEF Revoke, Grant, ApplicationLoads, vars
<1>9. CASE Compact
  BY <1>9, CompactAnswerable
<1> QED BY <1>2, <1>3, <1>4, <1>5, <1>6, <1>7, <1>8, <1>9 DEF Next

\* In every reachable history each result answers one call that is open when
\* it is said, and without an id the oldest; so an adapter's tracker can pair
\* them (Session's guards; vercel/request.go:195).
THEOREM HistoryStaysAnswerable == Spec => []Answerable
<1> QED BY InitAnswerable, StepAnswerable, PTL DEF Spec

------------------------------------------------------------------------------
(* Pairing results with calls on a wire *)

LEMMA AppendReaches ==
    ASSUME NEW pieces, AllReach(pieces), NEW x,
           IsResult(x) => Linked(pieces, x.id, x.answers)
    PROVE  AllReach(Append(pieces, x))
<1> DEFINE N == Append(pieces, x)
           L == Len(pieces)
<1>1. /\ IsSeq(N) /\ Len(N) = L + 1 /\ L \in Nat
      /\ \A i \in 1..L : N[i] = pieces[i] /\ N[L + 1] = x
  BY AppendFacts, SeqFacts DEF AllReach
<1>1a. N[L + 1] = x
  BY AppendFacts DEF AllReach
<1> HIDE DEF N, L
<1>2. ASSUME NEW i \in 1..(L + 1), IsResult(N[i]) PROVE ReachesItsCall(N, i)
  <2>1. CASE i \in 1..L
    <3>1. IsResult(pieces[i]) /\ N[i] = pieces[i]
      BY <1>1, <1>2, <2>1
    <3>2. ReachesItsCall(pieces, i)
      BY <2>1, <3>1 DEF AllReach, L
    <3>3. \A k \in 1..i : N[k] = pieces[k]
      BY <1>1, <2>1
    <3>4. \A j \in 1..(i - 1) : j \in 1..i /\ \A k \in (j + 1)..(i - 1) : k \in 1..i
      BY <1>1, <2>1
    <3>5. i \in 1..i
      BY <2>1
    <3> QED BY <3>2, <3>3, <3>4, <3>5 DEF ReachesItsCall
  <2>2. CASE i = L + 1
    <3>1. Linked(pieces, x.id, x.answers)
      BY <1>1a, <1>2, <2>2
    <3>2. PICK j \in 1..L :
            /\ IsCall(pieces[j]) /\ pieces[j].id = x.id /\ pieces[j].of = <<x.answers>>
            /\ \A k \in (j + 1)..L : "id" \in DOMAIN pieces[k] => pieces[k].id # x.id
      BY <3>1 DEF Linked, L
    <3>3. j \in 1..(i - 1) /\ (j + 1)..(i - 1) = (j + 1)..L /\ N[j] = pieces[j]
      BY <1>1, <2>2
    <3>4. \A k \in (j + 1)..L : N[k] = pieces[k]
      BY <1>1
    <3> QED BY <1>1a, <2>2, <3>2, <3>3, <3>4 DEF ReachesItsCall
  <2> QED BY <1>1, <2>1, <2>2
<1>3. AllReach(N)
  BY <1>1, <1>2 DEF AllReach
<1> QED BY <1>3 DEF N

LEMMA LinkedStays ==
    ASSUME NEW pieces, IsSeq(pieces), NEW id, NEW n, Linked(pieces, id, n), NEW x,
           "id" \in DOMAIN x => x.id # id
    PROVE  Linked(Append(pieces, x), id, n)
<1> DEFINE N == Append(pieces, x)
           L == Len(pieces)
<1>1. /\ Len(N) = L + 1 /\ L \in Nat /\ N[L + 1] = x
      /\ \A i \in 1..L : N[i] = pieces[i]
  BY AppendFacts, SeqFacts
<1>2. PICK j \in 1..L :
        /\ IsCall(pieces[j]) /\ pieces[j].id = id /\ pieces[j].of = <<n>>
        /\ \A k \in (j + 1)..L : "id" \in DOMAIN pieces[k] => pieces[k].id # id
  BY DEF Linked
<1> HIDE DEF N, L
<1>3. \A k \in (j + 1)..(L + 1) : k \in (j + 1)..L \/ k = L + 1
  BY <1>1
<1>4. j \in 1..(L + 1) /\ N[j] = pieces[j] /\ \A k \in (j + 1)..L : N[k] = pieces[k]
  BY <1>1
<1>5. \A k \in (j + 1)..(L + 1) : "id" \in DOMAIN N[k] => N[k].id # id
  BY <1>1, <1>2, <1>3, <1>4
<1>6. IsCall(N[j]) /\ N[j].id = id /\ N[j].of = <<n>> /\ j \in 1..Len(N) /\ Len(N) = L + 1
  BY <1>1, <1>2, <1>4
<1>7. Linked(N, id, n)
  BY <1>5, <1>6 DEF Linked
<1> QED BY <1>7 DEF N

LEMMA LinkedByCall ==
    ASSUME NEW pieces, IsSeq(pieces), NEW x, IsCall(x), NEW n, x.of = <<n>>
    PROVE  Linked(Append(pieces, x), x.id, n)
<1>1. /\ Len(Append(pieces, x)) = Len(pieces) + 1 /\ Len(pieces) \in Nat
      /\ Append(pieces, x)[Len(pieces) + 1] = x
  BY AppendFacts, SeqFacts
<1> DEFINE j == Len(pieces) + 1
<1>2. j \in 1..Len(Append(pieces, x)) /\ (j + 1)..Len(Append(pieces, x)) = {}
  BY <1>1
<1> QED BY <1>1, <1>2 DEF Linked

LEMMA SameShapeReaches ==
    ASSUME NEW s, NEW t, SameShape(s, t)
    PROVE  /\ AllReach(s) => AllReach(t)
           /\ \A id, n : Linked(s, id, n) => Linked(t, id, n)
<1>1. Len(s) \in Nat /\ Len(t) = Len(s) /\ IsSeq(t)
  BY SeqFacts DEF SameShape
<1>2. ASSUME NEW i \in 1..Len(s)
      PROVE  /\ "id" \in DOMAIN t[i] => t[i] = s[i]
             /\ IsCall(s[i]) => t[i] = s[i]
             /\ IsResult(t[i]) => t[i] = s[i]
  BY DEF SameShape, Bare, IsCall, IsResult
<1>3. ASSUME AllReach(s) PROVE AllReach(t)
  <2>1. ASSUME NEW i \in 1..Len(s), IsResult(t[i]) PROVE ReachesItsCall(t, i)
    <3>1. t[i] = s[i] /\ ReachesItsCall(s, i)
      BY <1>2, <1>3, <2>1 DEF AllReach
    <3>2. \A j \in 1..(i - 1) : j \in 1..Len(s) /\ \A k \in (j + 1)..(i - 1) : k \in 1..Len(s)
      BY <1>1
    <3> QED BY <1>2, <3>1, <3>2 DEF ReachesItsCall
  <2> QED BY <1>1, <2>1 DEF AllReach
<1>4. ASSUME NEW id, NEW n, Linked(s, id, n) PROVE Linked(t, id, n)
  <2>1. PICK j \in 1..Len(s) :
        /\ IsCall(s[j]) /\ s[j].id = id /\ s[j].of = <<n>>
        /\ \A k \in (j + 1)..Len(s) : "id" \in DOMAIN s[k] => s[k].id # id
    BY <1>4 DEF Linked
  <2>2. \A k \in (j + 1)..Len(s) : k \in 1..Len(s)
    BY <1>1
  <2> QED BY <1>1, <1>2, <2>1, <2>2 DEF Linked
<1> QED BY <1>3, <1>4

LEMMA TracksStart == Tracks(NewTracker, <<>>, {})
<1>1. IsSeq(<<>>) /\ Len(<<>>) = 0 /\ ToSet(<<>>) = {} /\ OpenIn({}) = {}
  BY NoSeq DEF OpenIn
<1>2. 1..0 = {}
  OBVIOUS
<1>3. Waiting(<<>>, <<>>, <<>>, {})
  BY <1>1, <1>2 DEF Waiting
<1>4. AllReach(<<>>)
  BY <1>1, <1>2 DEF AllReach
<1>5. NewTracker.nextID = 0 /\ NewTracker.pending = <<>>
      /\ NewTracker = [nextID |-> NewTracker.nextID, pending |-> NewTracker.pending]
  BY DEF NewTracker
<1>6. \A i \in 1..Len(<<>>) : "id" \in DOMAIN <<>>[i] =>
         <<>>[i].id \in Int /\ <<>>[i].id >= -NewTracker.nextID
  BY <1>1, <1>2
<1>7. \E o : Waiting(o, NewTracker.pending, <<>>, {})
  BY <1>3, <1>5
<1> QED BY <1>1, <1>4, <1>5, <1>6, <1>7 DEF Tracks

\* A part that is neither a call nor a result opens and answers nothing.
LEMMA OtherOpens ==
    ASSUME NEW S, NEW p, p.kind # "call", p.kind # "result"
    PROVE  OpenIn(S \cup {p}) = OpenIn(S)
BY DEF OpenIn

LEMMA TracksOther ==
    ASSUME NEW t, NEW pieces, NEW S, Tracks(t, pieces, S),
           NEW p, p.kind # "call", p.kind # "result"
    PROVE  Tracks(t, pieces, S \cup {p})
BY OtherOpens DEF Tracks, Waiting

LEMMA TracksBare ==
    ASSUME NEW t, NEW pieces, NEW S, Tracks(t, pieces, S), NEW x, Bare(x)
    PROVE  Tracks(t, Append(pieces, x), S)
<1> DEFINE N == Append(pieces, x)
           L == Len(pieces)
<1>0. IsSeq(pieces)
  BY DEF Tracks, AllReach
<1>1. /\ L \in Nat /\ Len(N) = L + 1 /\ N[L + 1] = x /\ \A i \in 1..L : N[i] = pieces[i]
  BY <1>0, AppendFacts, SeqFacts
<1>2. AllReach(N)
  BY AppendReaches DEF Tracks, Bare, IsResult
<1>3. \A id, n : Linked(pieces, id, n) => Linked(N, id, n)
  BY <1>0, LinkedStays DEF Bare
<1>4. \E o : Waiting(o, t.pending, N, S)
  <2>1. PICK o : Waiting(o, t.pending, pieces, S)
    BY DEF Tracks
  <2> HIDE DEF N
  <2>2. Waiting(o, t.pending, N, S)
    BY <1>3, <2>1 DEF Waiting
  <2> QED BY <2>2
<1> HIDE DEF N, L
<1>5. ASSUME NEW i \in 1..Len(N), "id" \in DOMAIN N[i]
      PROVE  N[i].id \in Int /\ N[i].id >= -t.nextID
  <2>1. i \in 1..L
    BY <1>1, <1>5 DEF Bare
  <2> QED BY <1>1, <1>5, <2>1 DEF Tracks, L
<1>6. Tracks(t, N, S)
  BY <1>2, <1>4, <1>5 DEF Tracks
<1> QED BY <1>6 DEF N

LEMMA TracksSame ==
    ASSUME NEW t, NEW pieces, NEW S, Tracks(t, pieces, S),
           NEW others, SameShape(pieces, others)
    PROVE  Tracks(t, others, S)
<1>1. AllReach(others) /\ \A id, n : Linked(pieces, id, n) => Linked(others, id, n)
  BY SameShapeReaches DEF Tracks
<1>2. PICK o : Waiting(o, t.pending, pieces, S)
  BY DEF Tracks
<1>3. Waiting(o, t.pending, others, S)
  BY <1>1, <1>2 DEF Waiting
<1>4. ASSUME NEW i \in 1..Len(others), "id" \in DOMAIN others[i]
      PROVE  others[i].id \in Int /\ others[i].id >= -t.nextID
  <2>1. i \in 1..Len(pieces) /\ others[i] = pieces[i]
    BY <1>4 DEF SameShape, Bare
  <2> QED BY <1>4, <2>1 DEF Tracks
<1> QED BY <1>1, <1>3, <1>4 DEF Tracks

\* A call is put on the wire under its own id, or one made up for it.
LEMMA TracksCall ==
    ASSUME NEW t, NEW pieces, NEW S, Tracks(t, pieces, S),
           NEW p, p.kind = "call", GoodCall(S, p),
           NEW x, IsCall(x), x.id = CallID(t, p), x.of = <<p.n>>
    PROVE  Tracks(TrackCall(t, p), Append(pieces, x), S \cup {p})
<1> DEFINE N == Append(pieces, x)
           L == Len(pieces)
           u == TrackCall(t, p)
           id == CallID(t, p)
           D == S \cup {p}
<1>0. /\ IsSeq(pieces) /\ t.nextID \in Nat /\ IsSeq(t.pending) /\ AllReach(pieces)
      /\ \A i \in 1..L : "id" \in DOMAIN pieces[i] =>
           pieces[i].id \in Int /\ pieces[i].id >= -t.nextID
  BY DEF Tracks, AllReach
<1>1. /\ L \in Nat /\ Len(N) = L + 1 /\ N[L + 1] = x /\ \A i \in 1..L : N[i] = pieces[i]
  BY <1>0, AppendFacts, SeqFacts
<1>2. AllReach(N)
  BY <1>0, AppendReaches DEF IsCall
<1>3. /\ u.nextID = (IF p.id = NoId THEN t.nextID + 1 ELSE t.nextID)
      /\ u.pending = Append(t.pending, id)
      /\ u = [nextID |-> u.nextID, pending |-> u.pending]
  BY DEF TrackCall
<1>4. /\ p.id \in Nat /\ p.n \in Nat /\ id \in Int /\ id >= -u.nextID
      /\ u.nextID \in Nat /\ u.nextID >= t.nextID
      /\ p.id # NoId => id = p.id
      /\ p.id = NoId => id < 0 /\ id < -t.nextID
  <2>1. p.id \in Nat /\ p.n \in Nat /\ t.nextID \in Nat
    BY <1>0 DEF GoodCall
  <2>2. id = IF p.id = NoId THEN -(t.nextID + 1) ELSE p.id
    BY DEF CallID, MadeUp
  <2> HIDE DEF id, u
  <2> QED BY <1>3, <2>1, <2>2 DEF NoId
<1>5. PICK o : Waiting(o, t.pending, pieces, S)
  BY DEF Tracks
<1>6. /\ IsSeq(o) /\ Len(o) = Len(t.pending) /\ ToSet(o) = OpenIn(S)
      /\ \A i \in 1..Len(o) :
           /\ o[i].id \in Nat /\ o[i].n \in Nat
           /\ o[i].id # NoId => t.pending[i] = o[i].id
           /\ o[i].id = NoId => t.pending[i] \in Int /\ t.pending[i] < 0
           /\ Linked(pieces, t.pending[i], o[i].n)
      /\ \A i, j \in 1..Len(o) : i < j => o[i].n < o[j].n /\ t.pending[i] # t.pending[j]
  BY <1>5 DEF Waiting
<1>7. OpenIn(D) = OpenIn(S) \cup {p}
  <2>1. \A r \in S : r.kind = "result" => r.answers # p.n
    <3>1. \A r \in S : r.kind = "result" => r.answers < p.n
      BY DEF GoodCall
    <3> QED BY <1>4, <3>1
  <2> QED BY <2>1 DEF OpenIn
<1> DEFINE K == Len(o)
           q == Append(o, p)
           b == u.pending
<1>8. /\ IsSeq(q) /\ Len(q) = K + 1 /\ K \in Nat /\ q[K + 1] = p
      /\ \A i \in 1..K : q[i] = o[i] /\ b[i] = t.pending[i]
      /\ IsSeq(b) /\ Len(b) = K + 1 /\ b[K + 1] = id
  BY <1>0, <1>3, <1>6, AppendFacts, SeqFacts
<1>9. ToSet(q) = OpenIn(D)
  <2>1. DOMAIN q = 1..(K + 1) /\ DOMAIN o = 1..K
    BY <1>6, <1>8, SeqFacts
  <2>2. ToSet(q) = ToSet(o) \cup {p}
    <3> HIDE DEF q, K
    <3>1. \A i \in 1..(K + 1) : i \in 1..K \/ i = K + 1
      BY <1>8
    <3>2. \A i \in 1..K : i \in 1..(K + 1)
      BY <1>8
    <3>3. K + 1 \in 1..(K + 1)
      BY <1>8
    <3> QED BY <1>8, <2>1, <3>1, <3>2, <3>3 DEF ToSet
  <2> QED BY <1>6, <1>7, <2>2
\* No piece that is waited for has the new id.
<1>10. ASSUME NEW i \in 1..K
       PROVE  /\ t.pending[i] # id /\ o[i].n < p.n
              /\ Linked(N, t.pending[i], o[i].n)
  <2>1. o[i] \in OpenIn(S)
    <3>1. i \in DOMAIN o
      BY <1>6, SeqFacts
    <3> QED BY <1>6, <3>1 DEF ToSet
  <2>2. o[i].n < p.n /\ (p.id # NoId => o[i].id # p.id)
    BY <2>1 DEF GoodCall, OpenIn
  <2>3. t.pending[i] # id
    <3>1. CASE p.id # NoId
      BY <1>4, <1>6, <2>2, <3>1
    <3>2. CASE p.id = NoId
      <4>1. PICK j \in 1..L : IsCall(pieces[j]) /\ pieces[j].id = t.pending[i]
        BY <1>6 DEF Linked
      <4>2. t.pending[i] \in Int /\ t.pending[i] >= -t.nextID
        BY <1>0, <4>1 DEF IsCall
      <4> HIDE DEF id, u
      <4> QED BY <1>0, <1>4, <3>2, <4>2
    <3> QED BY <3>1, <3>2
  <2>4. Linked(N, t.pending[i], o[i].n)
    BY <1>0, <1>6, <2>3, LinkedStays
  <2> QED BY <2>2, <2>3, <2>4
<1>11. Linked(N, id, p.n)
  BY <1>0, LinkedByCall
<1> HIDE DEF N, L, u, id, D, K, q, b
<1>12. \A i \in 1..(K + 1) : i \in 1..K \/ i = K + 1
  BY <1>8
<1>13. ASSUME NEW i \in 1..(K + 1)
       PROVE  /\ q[i].id \in Nat /\ q[i].n \in Nat
              /\ q[i].id # NoId => b[i] = q[i].id
              /\ q[i].id = NoId => b[i] \in Int /\ b[i] < 0
              /\ Linked(N, b[i], q[i].n)
  <2>1. CASE i \in 1..K
    <3>1. i \in 1..Len(o)
      BY <2>1 DEF K
    <3> QED BY <1>6, <1>8, <1>10, <2>1, <3>1
  <2>2. CASE i = K + 1
    BY <1>4, <1>8, <1>11, <2>2
  <2> QED BY <1>12, <2>1, <2>2
<1>14. ASSUME NEW i \in 1..(K + 1), NEW j \in 1..(K + 1), i < j
       PROVE  q[i].n < q[j].n /\ b[i] # b[j]
  <2>1. i \in 1..K
    BY <1>8, <1>14
  <2>2. CASE j \in 1..K
    <3>1. i \in 1..Len(o) /\ j \in 1..Len(o)
      BY <2>1, <2>2 DEF K
    <3> QED BY <1>6, <1>8, <1>14, <2>1, <2>2, <3>1
  <2>3. CASE j = K + 1
    BY <1>8, <1>10, <2>1, <2>3
  <2> QED BY <1>12, <2>2, <2>3
<1>15. Waiting(q, b, N, D)
  BY <1>8, <1>9, <1>13, <1>14 DEF Waiting
<1>16. ASSUME NEW i \in 1..Len(N), "id" \in DOMAIN N[i]
       PROVE  N[i].id \in Int /\ N[i].id >= -u.nextID
  <2>1. CASE i \in 1..L
    <3>1. N[i].id \in Int /\ N[i].id >= -t.nextID
      BY <1>0, <1>1, <1>16, <2>1
    <3> QED BY <1>0, <1>4, <3>1
  <2>2. CASE i = L + 1
    BY <1>1, <1>4, <2>2 DEF id
  <2> QED BY <1>1, <2>1, <2>2
<1>17. IsSeq(u.pending)
  BY <1>8 DEF b
<1>18. \E w : Waiting(w, u.pending, N, D)
  BY <1>15 DEF b
<1>19. Tracks(u, N, D)
  BY <1>2, <1>3, <1>4, <1>16, <1>17, <1>18 DEF Tracks
<1> QED BY <1>19 DEF u, N, D

\* A result takes the id of the call it answers, and leaves the others waiting.
LEMMA TracksResult ==
    ASSUME NEW t, NEW pieces, NEW S, Tracks(t, pieces, S),
           NEW p, p.kind = "result", GoodResult(S, p),
           NEW x, IsResult(x), x.id = ResultID(t, p), x.answers = p.answers
    PROVE  Tracks(TrackResult(t, p), Append(pieces, x), S \cup {p})
<1> DEFINE N == Append(pieces, x)
           L == Len(pieces)
           a == t.pending
           u == TrackResult(t, p)
           b == u.pending
           D == S \cup {p}
<1>0. /\ IsSeq(pieces) /\ t.nextID \in Nat /\ IsSeq(a) /\ AllReach(pieces)
      /\ t = [nextID |-> t.nextID, pending |-> a]
      /\ \A i \in 1..L : "id" \in DOMAIN pieces[i] =>
           pieces[i].id \in Int /\ pieces[i].id >= -t.nextID
  BY DEF Tracks, AllReach
<1>1. /\ L \in Nat /\ Len(N) = L + 1 /\ N[L + 1] = x /\ \A i \in 1..L : N[i] = pieces[i]
  BY <1>0, AppendFacts, SeqFacts
<1>2. /\ u.nextID = t.nextID
      /\ b = IF p.id = NoId THEN Tail(a) ELSE RemoveFirst(a, p.id)
      /\ u = [nextID |-> u.nextID, pending |-> b]
  <2> DEFINE left == IF p.id = NoId THEN Tail(a) ELSE RemoveFirst(a, p.id)
  <2>1. u = [t EXCEPT !.pending = left]
    BY DEF TrackResult
  <2> HIDE DEF left, u
  <2>2. u = [nextID |-> t.nextID, pending |-> left]
    BY <1>0, <2>1
  <2> QED BY <2>2 DEF left
<1>3. PICK o : Waiting(o, a, pieces, S)
  BY DEF Tracks
<1> DEFINE K == Len(o)
<1>4. /\ IsSeq(o) /\ K = Len(a) /\ ToSet(o) = OpenIn(S)
      /\ \A i \in 1..K :
           /\ o[i].id \in Nat /\ o[i].n \in Nat
           /\ o[i].id # NoId => a[i] = o[i].id
           /\ o[i].id = NoId => a[i] \in Int /\ a[i] < 0
           /\ Linked(pieces, a[i], o[i].n)
      /\ \A i, j \in 1..K : i < j => o[i].n < o[j].n /\ a[i] # a[j]
  BY <1>3 DEF Waiting
<1>5. PICK c \in OpenIn(S) : /\ c.n = p.answers /\ c.id = p.id
                             /\ p.id = NoId => \A d \in OpenIn(S) : c.n <= d.n
  BY DEF GoodResult
<1>6. K \in Nat /\ DOMAIN o = 1..K /\ DOMAIN a = 1..K
  BY <1>0, <1>4, SeqFacts
<1>7. PICK m \in 1..K : o[m] = c
  BY <1>4, <1>6 DEF ToSet
<1> HIDE DEF K, N, L
<1>8. ASSUME NEW i \in 1..K, NEW j \in 1..K, i # j
      PROVE  o[i].n # o[j].n /\ a[i] # a[j]
  <2>1. i < j \/ j < i
    BY <1>6, <1>8
  <2>2. o[i].n \in Nat /\ o[j].n \in Nat
    BY <1>4
  <2>3. i < j => o[i].n < o[j].n /\ a[i] # a[j]
    BY <1>4
  <2>4. j < i => o[j].n < o[i].n /\ a[j] # a[i]
    BY <1>4
  <2> QED BY <2>1, <2>2, <2>3, <2>4
<1>9. a[m] = ResultID(t, p) /\ Without(a, b, m)
  <2>1. CASE p.id = NoId
    <3>1. m = 1
      <4> SUFFICES ASSUME m # 1 PROVE FALSE
        OBVIOUS
      <4>1. 1 \in 1..K /\ 1 < m
        BY <1>6
      <4>2. o[1].n < o[m].n /\ o[1].n \in Nat /\ o[m].n \in Nat
        BY <1>4, <4>1
      <4>3. o[1] \in OpenIn(S)
        BY <1>4, <1>6, <4>1 DEF ToSet
      <4>4. o[m].n <= o[1].n
        BY <1>5, <1>7, <2>1, <4>3
      <4> QED BY <4>2, <4>4
    <3>2. a # <<>>
      BY <1>0, <1>4, <1>6, SeqFacts
    <3>3. Head(a) = a[1]
      BY <1>0, <3>2, HeadTailProperties DEF IsSeq
    <3>4. Without(a, Tail(a), 1)
      BY <1>0, <3>2, TailFacts
    <3> HIDE DEF a, b
    <3> QED BY <1>2, <2>1, <3>1, <3>3, <3>4 DEF ResultID, a
  <2>2. CASE p.id # NoId
    <3>1. a[m] = p.id
      BY <1>4, <1>5, <1>7, <2>2
    <3>2. Contains(a, p.id)
      BY <1>6, <3>1 DEF Contains
    <3>3. PICK k \in 1..Len(a) : a[k] = p.id /\ Without(a, RemoveFirst(a, p.id), k)
      BY <1>0, <3>2, RemoveFacts
    <3>4. k = m
      BY <1>4, <1>8, <3>1, <3>3
    <3> QED BY <1>2, <2>2, <3>1, <3>3, <3>4 DEF ResultID
  <2> QED BY <2>1, <2>2
<1> DEFINE g == [i \in 1..(K - 1) |-> IF i < m THEN i ELSE i + 1]
<1>10. /\ \A i \in 1..(K - 1) : g[i] \in 1..K /\ g[i] # m
       /\ \A i, j \in 1..(K - 1) : i < j => g[i] < g[j]
  BY <1>6
<1>11. ASSUME NEW j \in 1..K, j # m PROVE \E i \in 1..(K - 1) : g[i] = j
  <2>1. CASE j < m
    <3>1. j \in 1..(K - 1) /\ g[j] = j
      BY <1>6, <2>1
    <3> QED BY <3>1
  <2>2. CASE j > m
    <3>1. j - 1 \in 1..(K - 1) /\ g[j - 1] = j
      BY <1>6, <2>2
    <3> QED BY <3>1
  <2> QED BY <1>6, <1>11, <2>1, <2>2
<1>12. /\ IsSeq(b) /\ Len(b) = K - 1 /\ K - 1 \in Nat
       /\ \A i \in 1..(K - 1) : b[i] = a[g[i]]
  <2>1. K - 1 \in Nat
    BY <1>6
  <2> QED BY <1>4, <1>9, <2>1 DEF Without
<1> HIDE DEF g, a, b, u, D
<1> DEFINE q == [i \in 1..(K - 1) |-> o[g[i]]]
<1>13. IsSeq(q) /\ Len(q) = K - 1 /\ DOMAIN q = 1..(K - 1)
  <2>1. q \in Seq({q[i] : i \in 1..(K - 1)}) /\ Len(q) = K - 1
    BY <1>12
  <2>2. IsSeq(q)
    BY <2>1, AnySeq
  <2> QED BY <2>1, <2>2
<1>14. \A i \in 1..(K - 1) : q[i] = o[g[i]]
  OBVIOUS
<1> HIDE DEF q
<1>15. OpenIn(D) = OpenIn(S) \ {c}
  <2>1. ASSUME NEW d \in OpenIn(S), d.n = c.n PROVE d = c
    <3>1. PICK i \in 1..K : d = o[i]
      BY <1>4, <1>6, <2>1 DEF ToSet
    <3> QED BY <1>7, <1>8, <2>1, <3>1
  <2>2. ASSUME NEW d \in OpenIn(D) PROVE d \in OpenIn(S) /\ d # c
    BY <1>5, <2>2 DEF OpenIn, D
  <2>3. ASSUME NEW d \in OpenIn(S), d # c PROVE d \in OpenIn(D)
    <3>1. d.n # p.answers
      BY <1>5, <2>1, <2>3
    <3> QED BY <2>3, <3>1 DEF OpenIn, D
  <2> QED BY <2>2, <2>3
<1>16. ToSet(q) = OpenIn(D)
  <2>1. ASSUME NEW e \in ToSet(q) PROVE e \in OpenIn(D)
    <3>1. PICK i \in 1..(K - 1) : e = o[g[i]]
      BY <1>13, <1>14, <2>1 DEF ToSet
    <3>2. g[i] \in 1..K /\ g[i] # m
      BY <1>10
    <3>3. e \in OpenIn(S) /\ e # c
      BY <1>4, <1>6, <1>7, <1>8, <3>1, <3>2 DEF ToSet
    <3> QED BY <1>15, <3>3
  <2>2. ASSUME NEW e \in OpenIn(D) PROVE e \in ToSet(q)
    <3>1. e \in ToSet(o) /\ e # c
      BY <1>4, <1>15, <2>2
    <3>2. PICK j \in 1..K : e = o[j]
      BY <1>6, <3>1 DEF ToSet
    <3>3. PICK i \in 1..(K - 1) : g[i] = j
      BY <1>7, <1>11, <3>1, <3>2
    <3>4. q[i] = e
      BY <1>14, <3>2, <3>3
    <3> QED BY <1>13, <3>4 DEF ToSet
  <2> QED BY <2>1, <2>2
<1>17. x.id = a[m]
  BY <1>9
<1>18. AllReach(N)
  <2>1. Linked(pieces, x.id, x.answers)
    BY <1>4, <1>5, <1>7, <1>17
  <2> QED BY <1>0, <2>1, AppendReaches DEF N
<1>19. ASSUME NEW i \in 1..(K - 1)
       PROVE  /\ q[i].id \in Nat /\ q[i].n \in Nat
              /\ q[i].id # NoId => b[i] = q[i].id
              /\ q[i].id = NoId => b[i] \in Int /\ b[i] < 0
              /\ Linked(N, b[i], q[i].n)
  <2>1. PICK j \in 1..K : j = g[i] /\ j # m
    BY <1>10
  <2>2. q[i] = o[j] /\ b[i] = a[j]
    BY <1>12, <1>14, <2>1
  <2>3. a[j] # x.id /\ Linked(pieces, a[j], o[j].n)
    BY <1>4, <1>8, <1>17, <2>1
  <2>4. Linked(N, a[j], o[j].n)
    BY <1>0, <2>3, LinkedStays DEF N
  <2> QED BY <1>4, <2>2, <2>4
<1>20. ASSUME NEW i \in 1..(K - 1), NEW j \in 1..(K - 1), i < j
       PROVE  q[i].n < q[j].n /\ b[i] # b[j]
  <2>1. g[i] \in 1..K /\ g[j] \in 1..K /\ g[i] < g[j]
    BY <1>10, <1>20
  <2>2. PICK k \in 1..K : k = g[i]
    BY <2>1
  <2>3. PICK l \in 1..K : l = g[j]
    BY <2>1
  <2>4. k < l
    BY <2>1, <2>2, <2>3
  <2>5. o[k].n < o[l].n /\ a[k] # a[l]
    BY <1>4, <2>4
  <2> QED BY <1>12, <1>14, <2>2, <2>3, <2>5
<1>21. Waiting(q, b, N, D)
  BY <1>12, <1>13, <1>16, <1>19, <1>20 DEF Waiting
<1>22. ASSUME NEW i \in 1..Len(N), "id" \in DOMAIN N[i]
       PROVE  N[i].id \in Int /\ N[i].id >= -u.nextID
  <2>1. CASE i \in 1..L
    BY <1>0, <1>1, <1>2, <1>22, <2>1 DEF u, L
  <2>2. CASE i = L + 1
    <3>1. Linked(pieces, x.id, o[m].n)
      BY <1>4, <1>17
    <3>2. PICK j \in 1..L : IsCall(pieces[j]) /\ pieces[j].id = x.id
      BY <3>1 DEF Linked, L
    <3> QED BY <1>0, <1>1, <1>2, <2>2, <3>2 DEF IsCall, u, L
  <2> QED BY <1>1, <2>1, <2>2
<1>23. \E w : Waiting(w, u.pending, N, D)
  BY <1>21 DEF b
<1>24. IsSeq(u.pending)
  BY <1>12 DEF b
<1>25. u = [nextID |-> u.nextID, pending |-> u.pending] /\ u.nextID \in Nat
  BY <1>0, <1>2 DEF b, u
<1>26. Tracks(u, N, D)
  BY <1>18, <1>22, <1>23, <1>24, <1>25 DEF Tracks
<1> QED BY <1>26 DEF u, N, D

------------------------------------------------------------------------------
(* Sequences laid end to end *)

LEMMA JoinExists ==
    ASSUME NEW ss
    PROVE  \A n \in Nat : \E f : Joins(f, ss, n)
<1> DEFINE T == {n \in Nat : \E f : Joins(f, ss, n)}
<1>1. 0 \in T
  <2> DEFINE g == [k \in 1..0 |-> ss[k]]
  <2>1. \A k \in 1..0 : FALSE
    OBVIOUS
  <2>2. Joins(g, ss, 0)
    BY <2>1 DEF Joins
  <2> QED BY <2>2
<1>2. ASSUME NEW n \in Nat, n \in T PROVE n + 1 \in T
  <2>1. PICK f : Joins(f, ss, n)
    BY <1>2
  <2> DEFINE g == [k \in 1..(n + 1) |-> IF k # n + 1 THEN f[k]
                                        ELSE IF k = 1 THEN ss[k] ELSE f[n] \o ss[k]]
  <2>2. \A k \in 1..n : f[k] = IF k = 1 THEN ss[k] ELSE f[k - 1] \o ss[k]
    BY <2>1 DEF Joins
  <2>3. \A k \in 1..(n + 1) : k = n + 1 \/ k \in 1..n
    OBVIOUS
  <2>4. \A k \in 1..n : g[k] = f[k]
    OBVIOUS
  <2>5. \A k \in 1..(n + 1) : k # 1 => g[k - 1] = f[k - 1]
    BY <2>4
  <2>6. \A k \in 1..(n + 1) : g[k] = IF k = 1 THEN ss[k] ELSE g[k - 1] \o ss[k]
    <3> SUFFICES ASSUME NEW k \in 1..(n + 1)
                 PROVE  g[k] = IF k = 1 THEN ss[k] ELSE g[k - 1] \o ss[k]
      OBVIOUS
    <3>1. CASE k = n + 1
      <4>1. g[k] = IF k = 1 THEN ss[k] ELSE f[n] \o ss[k]
        BY <3>1
      <4>2. k # 1 => g[k - 1] = f[n]
        <5>1. k - 1 = n
          BY <3>1
        <5> QED BY <2>5, <5>1
      <4> HIDE DEF g
      <4> QED BY <4>1, <4>2
    <3>2. CASE k \in 1..n
      <4>1. g[k] = f[k]
        BY <2>4, <3>2
      <4> HIDE DEF g
      <4> QED BY <2>2, <2>5, <3>2, <4>1
    <3> QED BY <2>3, <3>1, <3>2
  <2>7. g = [k \in 1..(n + 1) |-> g[k]]
    OBVIOUS
  <2> HIDE DEF g
  <2>8. Joins(g, ss, n + 1)
    BY <2>6, <2>7 DEF Joins
  <2> QED BY <2>8
<1> HIDE DEF T
<1>3. Nat \subseteq T
  BY <1>1, <1>2, SetInduction
<1> QED BY <1>3 DEF T

\* How a join goes, one sequence at a time.
LEMMA FlattenFacts ==
    ASSUME NEW ss, IsSeq(ss), ss # <<>>
    PROVE  \E f : /\ FlattenSeq(ss) = f[Len(ss)] /\ f[1] = ss[1]
                  /\ \A i \in 2..Len(ss) : f[i] = f[i - 1] \o ss[i]
<1> DEFINE f == CHOOSE g : Joins(g, ss, Len(ss))
<1>1. Len(ss) \in Nat /\ Len(ss) # 0
  BY SeqFacts
<1>2. Joins(f, ss, Len(ss))
  BY <1>1, JoinExists
<1>3. FlattenSeq(ss) = f[Len(ss)]
  BY <1>1 DEF FlattenSeq, Joins
<1>4. \A i \in 1..Len(ss) : f[i] = IF i = 1 THEN ss[i] ELSE f[i - 1] \o ss[i]
  BY <1>2 DEF Joins
<1> HIDE DEF f
<1>5. f[1] = ss[1]
  <2>1. 1 \in 1..Len(ss)
    BY <1>1
  <2> QED BY <1>4, <2>1
<1>6. ASSUME NEW i \in 2..Len(ss) PROVE f[i] = f[i - 1] \o ss[i]
  <2>1. i \in 1..Len(ss) /\ i # 1
    BY <1>1
  <2> QED BY <1>4, <2>1
<1> QED BY <1>3, <1>5, <1>6

LEMMA FlattenNone == FlattenSeq(<<>>) = <<>>
BY NoSeq DEF FlattenSeq

LEMMA FlattenIsSeq ==
    ASSUME NEW ss, SeqOfSeqs(ss)
    PROVE  IsSeq(FlattenSeq(ss))
<1>1. CASE ss = <<>>
  BY <1>1, FlattenNone, NoSeq
<1>2. CASE ss # <<>>
  <2>1. IsSeq(ss) /\ Len(ss) \in Nat \ {0} /\ \A i \in 1..Len(ss) : IsSeq(ss[i])
    BY <1>2, SeqFacts DEF SeqOfSeqs
  <2>2. PICK f : /\ FlattenSeq(ss) = f[Len(ss)] /\ f[1] = ss[1]
                 /\ \A i \in 2..Len(ss) : f[i] = f[i - 1] \o ss[i]
    BY <1>2, <2>1, FlattenFacts
  <2> DEFINE T == {k \in Nat : k + 1 <= Len(ss) => IsSeq(f[k + 1])}
  <2>3. 0 \in T
    BY <2>1, <2>2
  <2>4. ASSUME NEW k \in Nat, k \in T PROVE k + 1 \in T
    <3> SUFFICES ASSUME (k + 1) + 1 <= Len(ss) PROVE IsSeq(f[(k + 1) + 1])
      OBVIOUS
    <3>1. (k + 1) + 1 \in 2..Len(ss) /\ ((k + 1) + 1) - 1 = k + 1 /\ k + 1 <= Len(ss)
          /\ (k + 1) + 1 \in 1..Len(ss)
      BY <2>1
    <3>2. IsSeq(f[k + 1])
      BY <2>4, <3>1
    <3> DEFINE l == (k + 1) + 1
    <3>3. f[l] = f[l - 1] \o ss[l]
      BY <2>2, <3>1
    <3>4. IsSeq(ss[l]) /\ IsSeq(f[l - 1])
      BY <2>1, <3>1, <3>2
    <3> HIDE DEF l
    <3>5. IsSeq(f[l])
      BY <3>3, <3>4, ConcatFacts
    <3> QED BY <3>5 DEF l
  <2> HIDE DEF T
  <2>5. Nat \subseteq T
    BY <2>3, <2>4, SetInduction
  <2>6. Len(ss) - 1 \in T /\ (Len(ss) - 1) + 1 = Len(ss)
    BY <2>1, <2>5
  <2> QED BY <2>1, <2>2, <2>6 DEF T
<1> QED BY <1>1, <1>2

LEMMA FlattenAppend ==
    ASSUME NEW ss, SeqOfSeqs(ss), NEW e, IsSeq(e)
    PROVE  FlattenSeq(Append(ss, e)) = FlattenSeq(ss) \o e
<1> DEFINE n == Append(ss, e)
           L == Len(ss)
<1>0. /\ IsSeq(ss) /\ L \in Nat /\ IsSeq(n) /\ n # <<>> /\ Len(n) = L + 1
      /\ n[L + 1] = e /\ \A i \in 1..L : n[i] = ss[i]
  BY AppendFacts, SeqFacts DEF SeqOfSeqs
<1> HIDE DEF n, L
<1>1. PICK g : /\ FlattenSeq(n) = g[L + 1] /\ g[1] = n[1]
               /\ \A i \in 2..(L + 1) : g[i] = g[i - 1] \o n[i]
  <2>1. PICK g : /\ FlattenSeq(n) = g[Len(n)] /\ g[1] = n[1]
                 /\ \A i \in 2..Len(n) : g[i] = g[i - 1] \o n[i]
    BY <1>0, FlattenFacts
  <2> QED BY <1>0, <2>1
<1>2. CASE ss = <<>>
  <2>1. L = 0
    BY <1>2, NoSeq DEF L
  <2>2. FlattenSeq(n) = e
    BY <1>0, <1>1, <2>1
  <2>3. FlattenSeq(ss) = <<>>
    BY <1>2, FlattenNone
  <2>4. <<>> \o e = e
    BY ConcatEmptySeq DEF IsSeq
  <2> QED BY <2>2, <2>3, <2>4 DEF n
<1>3. CASE ss # <<>>
  <2>1. L # 0
    BY <1>0, <1>3, SeqFacts DEF L
  <2>2. PICK f : /\ FlattenSeq(ss) = f[L] /\ f[1] = ss[1]
                 /\ \A i \in 2..L : f[i] = f[i - 1] \o ss[i]
    BY <1>0, <1>3, FlattenFacts DEF L
  <2> DEFINE T == {k \in Nat : k + 1 <= L => f[k + 1] = g[k + 1]}
  <2>3. 0 \in T
    BY <1>0, <1>1, <2>1, <2>2
  <2>4. ASSUME NEW k \in Nat, k \in T PROVE k + 1 \in T
    <3> SUFFICES ASSUME (k + 1) + 1 <= L PROVE f[(k + 1) + 1] = g[(k + 1) + 1]
      OBVIOUS
    <3>1. (k + 1) + 1 \in 2..L /\ (k + 1) + 1 \in 2..(L + 1) /\ (k + 1) + 1 \in 1..L
          /\ ((k + 1) + 1) - 1 = k + 1 /\ k + 1 <= L
      BY <1>0
    <3>2. f[k + 1] = g[k + 1]
      BY <2>4, <3>1
    <3> DEFINE l == (k + 1) + 1
    <3>3. f[l] = f[k + 1] \o ss[l]
      BY <2>2, <3>1
    <3>4. g[l] = g[k + 1] \o n[l]
      BY <1>1, <3>1
    <3>5. n[l] = ss[l]
      BY <1>0, <3>1
    <3> HIDE DEF l
    <3>6. f[l] = g[l]
      BY <3>2, <3>3, <3>4, <3>5
    <3> QED BY <3>6 DEF l
  <2> HIDE DEF T
  <2>5. Nat \subseteq T
    BY <2>3, <2>4, SetInduction
  <2>6. L - 1 \in T /\ (L - 1) + 1 = L
    BY <1>0, <2>1, <2>5
  <2>7. f[L] = g[L]
    BY <1>0, <2>6 DEF T
  <2>8. L + 1 \in 2..(L + 1) /\ (L + 1) - 1 = L
    BY <1>0, <2>1
  <2>9. g[L + 1] = g[L] \o n[L + 1]
    BY <1>1, <2>8
  <2> QED BY <1>0, <1>1, <2>2, <2>7, <2>9 DEF n
<1> QED BY <1>2, <1>3

LEMMA GrowsBy ==
    ASSUME NEW s, IsSeq(s), NEW t, IsSeq(t), Len(t) = Len(s) + 1, NEW e,
           \A i \in 1..Len(s) : t[i] = s[i] /\ IsSeq(s[i]), t[Len(s) + 1] = e
    PROVE  t = Append(s, e) /\ SeqOfSeqs(s)
<1> DEFINE n == Append(s, e)
<1>1. /\ Len(s) \in Nat /\ IsSeq(n) /\ Len(n) = Len(s) + 1
      /\ n[Len(s) + 1] = e /\ \A i \in 1..Len(s) : n[i] = s[i]
  BY AppendFacts, SeqFacts
<1> HIDE DEF n
<1>2. ASSUME NEW i \in 1..Len(t) PROVE t[i] = n[i]
  <2>1. i \in 1..Len(s) \/ i = Len(s) + 1
    BY <1>1
  <2> QED BY <1>1, <2>1
<1>3. t = n
  BY <1>1, <1>2, SameSeq
<1> QED BY <1>3 DEF n, SeqOfSeqs

LEMMA PartsAppend ==
    ASSUME NEW messages, HaveParts(messages), NEW m, IsSeq(m.parts)
    PROVE  /\ HaveParts(Append(messages, m))
           /\ MessageParts(Append(messages, m)) = MessageParts(messages) \o m.parts
           /\ IsSeq(MessageParts(messages))
<1> DEFINE n == Append(messages, m)
           L == Len(messages)
           s == [i \in 1..L |-> messages[i].parts]
           t == [i \in 1..(L + 1) |-> n[i].parts]
<1>1. /\ IsSeq(messages) /\ IsSeq(n) /\ L \in Nat /\ Len(n) = L + 1
      /\ DOMAIN messages = 1..L /\ DOMAIN n = 1..(L + 1)
      /\ n[L + 1] = m /\ \A i \in 1..L : n[i] = messages[i]
  BY AppendFacts, SeqFacts DEF HaveParts
<1>2. MessageParts(messages) = FlattenSeq(s) /\ MessageParts(n) = FlattenSeq(t)
  BY <1>1 DEF MessageParts
<1> HIDE DEF n
<1>3. /\ \A i \in 1..L : IsSeq(messages[i].parts)
      /\ \A i \in 1..(L + 1) : i \in 1..L \/ i = L + 1
  BY <1>1 DEF HaveParts
<1>4. HaveParts(n)
  BY <1>1, <1>3 DEF HaveParts
<1> HIDE DEF L
<1>5. s \in Seq({s[i] : i \in 1..L}) /\ Len(s) = L /\ t \in Seq({t[i] : i \in 1..(L + 1)}) /\ Len(t) = L + 1
  BY <1>1
<1>6. \A i \in 1..L : s[i] = messages[i].parts /\ t[i] = s[i] /\ IsSeq(s[i])
  <2> SUFFICES ASSUME NEW i \in 1..L
               PROVE  s[i] = messages[i].parts /\ t[i] = s[i] /\ IsSeq(s[i])
    OBVIOUS
  <2>1. i \in 1..(L + 1) /\ n[i] = messages[i]
    BY <1>1
  <2> QED BY <1>3, <2>1, SingleFacts
<1>7. L + 1 \in 1..(L + 1) /\ t[L + 1] = m.parts /\ IsSeq(m.parts)
  <2>1. L + 1 \in 1..(L + 1)
    BY <1>1
  <2> QED BY <1>1, <2>1, SingleFacts
<1> HIDE DEF s, t
<1>8. IsSeq(s) /\ IsSeq(t) /\ Len(s) \in Nat
  BY <1>1, <1>5, AnySeq
<1>8a. /\ Len(t) = Len(s) + 1 /\ t[Len(s) + 1] = m.parts
       /\ \A i \in 1..Len(s) : t[i] = s[i] /\ IsSeq(s[i])
  BY <1>5, <1>6, <1>7
<1>9. t = Append(s, m.parts) /\ SeqOfSeqs(s)
  BY <1>8, <1>8a, GrowsBy
<1>10. MessageParts(n) = MessageParts(messages) \o m.parts /\ IsSeq(MessageParts(messages))
  BY <1>2, <1>7, <1>9, FlattenAppend, FlattenIsSeq
<1> QED BY <1>4, <1>10 DEF n

LEMMA BlocksAppend ==
    ASSUME NEW messages, HaveBlocks(messages), NEW m, IsSeq(m.content)
    PROVE  /\ HaveBlocks(Append(messages, m))
           /\ MessageBlocks(Append(messages, m)) = MessageBlocks(messages) \o m.content
           /\ IsSeq(MessageBlocks(messages))
<1> DEFINE n == Append(messages, m)
           L == Len(messages)
           s == [i \in 1..L |-> messages[i].content]
           t == [i \in 1..(L + 1) |-> n[i].content]
<1>1. /\ IsSeq(messages) /\ IsSeq(n) /\ L \in Nat /\ Len(n) = L + 1
      /\ DOMAIN messages = 1..L /\ DOMAIN n = 1..(L + 1)
      /\ n[L + 1] = m /\ \A i \in 1..L : n[i] = messages[i]
  BY AppendFacts, SeqFacts DEF HaveBlocks
<1>2. MessageBlocks(messages) = FlattenSeq(s) /\ MessageBlocks(n) = FlattenSeq(t)
  BY <1>1 DEF MessageBlocks
<1> HIDE DEF n
<1>3. /\ \A i \in 1..L : IsSeq(messages[i].content)
      /\ \A i \in 1..(L + 1) : i \in 1..L \/ i = L + 1
  BY <1>1 DEF HaveBlocks
<1>4. HaveBlocks(n)
  BY <1>1, <1>3 DEF HaveBlocks
<1> HIDE DEF L
<1>5. s \in Seq({s[i] : i \in 1..L}) /\ Len(s) = L /\ t \in Seq({t[i] : i \in 1..(L + 1)}) /\ Len(t) = L + 1
  BY <1>1
<1>6. \A i \in 1..L : s[i] = messages[i].content /\ t[i] = s[i] /\ IsSeq(s[i])
  <2> SUFFICES ASSUME NEW i \in 1..L
               PROVE  s[i] = messages[i].content /\ t[i] = s[i] /\ IsSeq(s[i])
    OBVIOUS
  <2>1. i \in 1..(L + 1) /\ n[i] = messages[i]
    BY <1>1
  <2> QED BY <1>3, <2>1, SingleFacts
<1>7. L + 1 \in 1..(L + 1) /\ t[L + 1] = m.content /\ IsSeq(m.content)
  <2>1. L + 1 \in 1..(L + 1)
    BY <1>1
  <2> QED BY <1>1, <2>1, SingleFacts
<1> HIDE DEF s, t
<1>8. IsSeq(s) /\ IsSeq(t) /\ Len(s) \in Nat
  BY <1>1, <1>5, AnySeq
<1>8a. /\ Len(t) = Len(s) + 1 /\ t[Len(s) + 1] = m.content
       /\ \A i \in 1..Len(s) : t[i] = s[i] /\ IsSeq(s[i])
  BY <1>5, <1>6, <1>7
<1>9. t = Append(s, m.content) /\ SeqOfSeqs(s)
  BY <1>8, <1>8a, GrowsBy
<1>10. MessageBlocks(n) = MessageBlocks(messages) \o m.content /\ IsSeq(MessageBlocks(messages))
  BY <1>2, <1>7, <1>9, FlattenAppend, FlattenIsSeq
<1> QED BY <1>4, <1>10 DEF n

LEMMA PiecesAppend ==
    ASSUME NEW messages, HaveCalls(messages), NEW m, IsSeq(ChatPiece(m))
    PROVE  /\ HaveCalls(Append(messages, m))
           /\ ChatPieces(Append(messages, m)) = ChatPieces(messages) \o ChatPiece(m)
           /\ IsSeq(ChatPieces(messages))
<1> DEFINE n == Append(messages, m)
           L == Len(messages)
           s == [i \in 1..L |-> ChatPiece(messages[i])]
           t == [i \in 1..(L + 1) |-> ChatPiece(n[i])]
<1>1. /\ IsSeq(messages) /\ IsSeq(n) /\ L \in Nat /\ Len(n) = L + 1
      /\ DOMAIN messages = 1..L /\ DOMAIN n = 1..(L + 1)
      /\ n[L + 1] = m /\ \A i \in 1..L : n[i] = messages[i]
  BY AppendFacts, SeqFacts DEF HaveCalls
<1>2. ChatPieces(messages) = FlattenSeq(s) /\ ChatPieces(n) = FlattenSeq(t)
  BY <1>1 DEF ChatPieces, ChatPiece
<1> HIDE DEF n
<1>3. /\ \A i \in 1..L : IsSeq(ChatPiece(messages[i]))
      /\ \A i \in 1..(L + 1) : i \in 1..L \/ i = L + 1
  BY <1>1 DEF HaveCalls
<1>4. HaveCalls(n)
  BY <1>1, <1>3 DEF HaveCalls
<1> HIDE DEF L
<1>5. s \in Seq({s[i] : i \in 1..L}) /\ Len(s) = L /\ t \in Seq({t[i] : i \in 1..(L + 1)}) /\ Len(t) = L + 1
  BY <1>1
<1>6. \A i \in 1..L : s[i] = ChatPiece(messages[i]) /\ t[i] = s[i] /\ IsSeq(s[i])
  <2> SUFFICES ASSUME NEW i \in 1..L
               PROVE  s[i] = ChatPiece(messages[i]) /\ t[i] = s[i] /\ IsSeq(s[i])
    OBVIOUS
  <2>1. i \in 1..(L + 1) /\ n[i] = messages[i]
    BY <1>1
  <2> QED BY <1>3, <2>1, SingleFacts
<1>7. L + 1 \in 1..(L + 1) /\ t[L + 1] = ChatPiece(m) /\ IsSeq(ChatPiece(m))
  <2>1. L + 1 \in 1..(L + 1)
    BY <1>1
  <2> QED BY <1>1, <2>1, SingleFacts
<1> HIDE DEF s, t
<1>8. IsSeq(s) /\ IsSeq(t) /\ Len(s) \in Nat
  BY <1>1, <1>5, AnySeq
<1>8a. /\ Len(t) = Len(s) + 1 /\ t[Len(s) + 1] = ChatPiece(m)
       /\ \A i \in 1..Len(s) : t[i] = s[i] /\ IsSeq(s[i])
  BY <1>5, <1>6, <1>7
<1>9. t = Append(s, ChatPiece(m)) /\ SeqOfSeqs(s)
  BY <1>8, <1>8a, GrowsBy
<1>10. ChatPieces(n) = ChatPieces(messages) \o ChatPiece(m) /\ IsSeq(ChatPieces(messages))
  BY <1>2, <1>7, <1>9, FlattenAppend, FlattenIsSeq
<1> QED BY <1>4, <1>10 DEF n

------------------------------------------------------------------------------
(* The input of the Responses API *)

LEMMA ItemsSame ==
    ASSUME NEW w, NEW S, ItemsTrack(w, S), NEW v, SameItems(v, w)
    PROVE  ItemsTrack(v, S)
BY DEF ItemsTrack, SameItems

LEMMA ItemsFail ==
    ASSUME NEW w, ItemsState(w), NEW S
    PROVE  ItemsTrack([w EXCEPT !.failed = TRUE], S)
<1> DEFINE v == [w EXCEPT !.failed = TRUE]
<1>1. v = [w EXCEPT !.failed = TRUE]
  OBVIOUS
<1> HIDE DEF v
<1>2. v = [failed |-> TRUE, items |-> w.items, open |-> w.open, item |-> w.item,
           tracker |-> w.tracker]
  BY <1>1 DEF ItemsState
<1>3. ItemsTrack(v, S)
  BY <1>2 DEF ItemsTrack, ItemsState
<1> QED BY <1>3 DEF v

LEMMA ItemsAdd ==
    ASSUME NEW w, ItemsState(w), NEW x, NEW t
    PROVE  /\ OneMoreItem(AddItem(w, x), w, x, w.tracker)
           /\ OneMoreItem([AddItem(w, x) EXCEPT !.tracker = t], w, x, t)
<1> DEFINE v == AddItem(w, x)
           u == [v EXCEPT !.tracker = t]
<1>1. v = [w EXCEPT !.items = Append(w.items, x)]
  BY DEF AddItem
<1>2. u = [v EXCEPT !.tracker = t]
  OBVIOUS
<1> HIDE DEF v, u
<1>3. v = [failed |-> w.failed, items |-> Append(w.items, x), open |-> w.open, item |-> w.item,
           tracker |-> w.tracker]
  BY <1>1 DEF ItemsState
<1>4. u = [failed |-> w.failed, items |-> Append(w.items, x), open |-> w.open, item |-> w.item,
           tracker |-> t]
  BY <1>2, <1>3
<1>5. OneMoreItem(v, w, x, w.tracker)
  BY <1>3 DEF ItemsState, OneMoreItem
<1>6. OneMoreItem(u, w, x, t)
  BY <1>4 DEF ItemsState, OneMoreItem
<1> QED BY <1>5, <1>6 DEF u, v

LEMMA ItemsAddBare ==
    ASSUME NEW w, NEW S, ItemsTrack(w, S), NEW x, Bare(x)
    PROVE  ItemsTrack(AddItem(w, x), S)
<1>1. OneMoreItem(AddItem(w, x), w, x, w.tracker)
  BY ItemsAdd DEF ItemsTrack
<1> QED BY <1>1, TracksBare DEF ItemsTrack, OneMoreItem

LEMMA ItemsFlush ==
    ASSUME NEW w, NEW S, ItemsTrack(w, S), NEW role
    PROVE  /\ ItemsTrack(FlushMessage(w, role), S)
           /\ FlushMessage(w, role).failed = w.failed
           /\ FlushMessage(w, role).tracker = w.tracker
<1> DEFINE kept == IF role = "assistant" THEN Worded(w.open, w.item) ELSE w.open
           closed == [w EXCEPT !.open = <<>>, !.item = NoItem]
           x == [type |-> "message", role |-> role, item |-> w.item,
                 media |-> OfKind(kept, "media") # <<>>, of |-> Numbers(kept)]
           v == [closed EXCEPT !.items = Append(@, x)]
<1>1. FlushMessage(w, role) = IF kept = <<>> THEN closed ELSE v
  BY DEF FlushMessage
<1>2. Bare(x)
  BY DEF Bare
<1>2a. closed = [w EXCEPT !.open = <<>>, !.item = NoItem]
  OBVIOUS
<1>2b. v = [closed EXCEPT !.items = Append(closed.items, x)]
  OBVIOUS
<1> HIDE DEF x, kept, v, closed
<1>3. closed = [failed |-> w.failed, items |-> w.items, open |-> <<>>, item |-> NoItem,
                tracker |-> w.tracker]
  BY <1>2a DEF ItemsTrack, ItemsState
<1>4. v = [failed |-> w.failed, items |-> Append(w.items, x), open |-> <<>>, item |-> NoItem,
           tracker |-> w.tracker]
  BY <1>2b, <1>3
<1>5. ItemsTrack(closed, S) /\ closed.failed = w.failed /\ closed.tracker = w.tracker
  BY <1>3 DEF ItemsTrack, ItemsState
<1>6. ItemsTrack(v, S) /\ v.failed = w.failed /\ v.tracker = w.tracker
  BY <1>2, <1>4, TracksBare DEF ItemsTrack, ItemsState
<1> QED BY <1>1, <1>5, <1>6

LEMMA ItemsText ==
    ASSUME NEW w, NEW S, ItemsTrack(w, S), NEW role, NEW p
    PROVE  ItemsTrack(AddText(w, role, p), S)
<1> DEFINE v == IF role = "assistant" /\ w.open # <<>> /\ p.item # w.item
                THEN FlushMessage(w, role) ELSE w
           u == [v EXCEPT !.open = Append(@, p),
                          !.item = IF role = "assistant" THEN p.item ELSE @]
<1>1. AddText(w, role, p) = u
  BY DEF AddText
<1>2. ItemsTrack(v, S)
  BY ItemsFlush
<1> HIDE DEF v
<1>3. SameItems(u, v)
  <2> DEFINE item == IF role = "assistant" THEN p.item ELSE v.item
  <2>0. u = [v EXCEPT !.open = Append(v.open, p), !.item = item]
    OBVIOUS
  <2> HIDE DEF u, item
  <2>1. u = [failed |-> v.failed, items |-> v.items, open |-> Append(v.open, p), item |-> item,
             tracker |-> v.tracker]
    BY <1>2, <2>0 DEF ItemsTrack, ItemsState
  <2> QED BY <1>2, <2>1 DEF SameItems, ItemsTrack, ItemsState
<1> HIDE DEF u
<1> QED BY <1>1, <1>2, <1>3, ItemsSame

LEMMA ItemsCall ==
    ASSUME NEW w, NEW S, ItemsTrack(w, S), NEW role, NEW p, p.kind = "call", GoodCall(S, p)
    PROVE  ItemsTrack(AddCall(w, role, p), S \cup {p})
<1> DEFINE v == FlushMessage(w, role)
           x == [type |-> "function_call", id |-> CallID(v.tracker, p), name |-> p.name,
                 namespace |-> NoId, of |-> <<p.n>>]
           t == TrackCall(v.tracker, p)
           u == [AddItem(v, x) EXCEPT !.tracker = t]
<1>1. ItemsTrack(v, S)
  BY ItemsFlush
<1>2. AddItem(v, x).tracker = v.tracker
  BY <1>1, ItemsAdd DEF ItemsTrack, OneMoreItem
<1>3. AddCall(w, role, p) = u
  <2>1. AddCall(w, role, p) = [AddItem(v, x) EXCEPT !.tracker = TrackCall(@, p)]
    BY DEF AddCall
  <2> HIDE DEF v, x
  <2> QED BY <1>2, <2>1
<1>4. IsCall(x) /\ x.id = CallID(v.tracker, p) /\ x.of = <<p.n>>
  BY DEF IsCall, IsResult
<1>5. ItemsState(u) /\ u.failed = v.failed /\ u.items = Append(v.items, x) /\ u.tracker = t
  <2>1. ItemsState(v)
    BY <1>1 DEF ItemsTrack
  <2> HIDE DEF v, x, t
  <2>2. OneMoreItem(u, v, x, t)
    BY <2>1, ItemsAdd
  <2> HIDE DEF u
  <2> QED BY <2>2 DEF OneMoreItem
<1> HIDE DEF u, x, v
<1>6. ASSUME ~u.failed PROVE Tracks(u.tracker, u.items, S \cup {p})
  <2>1. Tracks(v.tracker, v.items, S)
    BY <1>1, <1>5, <1>6 DEF ItemsTrack
  <2> QED BY <1>4, <1>5, <2>1, TracksCall
<1> QED BY <1>3, <1>5, <1>6 DEF ItemsTrack

LEMMA ItemsOutput ==
    ASSUME NEW w, NEW S, ItemsTrack(w, S), NEW role, NEW p, p.kind = "result", GoodResult(S, p)
    PROVE  ItemsTrack(AddOutput(w, role, p), S \cup {p})
<1> DEFINE v == FlushMessage(w, role)
           x == [type |-> "function_call_output", id |-> ResultID(v.tracker, p),
                 answers |-> p.answers, of |-> <<p.n>>]
           t == TrackResult(v.tracker, p)
           u == [AddItem(v, x) EXCEPT !.tracker = t]
<1>1. ItemsTrack(v, S)
  BY ItemsFlush
<1>2. AddItem(v, x).tracker = v.tracker
  BY <1>1, ItemsAdd DEF ItemsTrack, OneMoreItem
<1>3. AddOutput(w, role, p) = IF Unpaired(v.tracker, p) THEN [v EXCEPT !.failed = TRUE] ELSE u
  <2>1. AddOutput(w, role, p) = IF Unpaired(v.tracker, p) THEN [v EXCEPT !.failed = TRUE]
                                ELSE [AddItem(v, x) EXCEPT !.tracker = TrackResult(@, p)]
    BY DEF AddOutput
  <2> HIDE DEF v, x
  <2> QED BY <1>2, <2>1
<1>4. IsResult(x) /\ x.id = ResultID(v.tracker, p) /\ x.answers = p.answers
  BY DEF IsResult
<1>5. ItemsState(u) /\ u.failed = v.failed /\ u.items = Append(v.items, x) /\ u.tracker = t
  <2>1. ItemsState(v)
    BY <1>1 DEF ItemsTrack
  <2> HIDE DEF v, x, t
  <2>2. OneMoreItem(u, v, x, t)
    BY <2>1, ItemsAdd
  <2> HIDE DEF u
  <2> QED BY <2>2 DEF OneMoreItem
<1> HIDE DEF u, x, v
<1>6. ASSUME ~u.failed PROVE Tracks(u.tracker, u.items, S \cup {p})
  <2>1. Tracks(v.tracker, v.items, S)
    BY <1>1, <1>5, <1>6 DEF ItemsTrack
  <2> QED BY <1>4, <1>5, <2>1, TracksResult
<1>7. ItemsTrack(u, S \cup {p})
  BY <1>5, <1>6 DEF ItemsTrack
<1> QED BY <1>1, <1>3, <1>7, ItemsFail DEF ItemsTrack

LEMMA ItemsOther ==
    ASSUME NEW w, NEW S, ItemsTrack(w, S), NEW p, p.kind # "call", p.kind # "result"
    PROVE  ItemsTrack(w, S \cup {p})
BY TracksOther DEF ItemsTrack

LEMMA ItemsPartTracks ==
    ASSUME NEW w, NEW S, ItemsTrack(w, S), NEW role, NEW p, GoodNext(S, p)
    PROVE  ItemsTrack(ItemsPart(w, role, p), S \cup {p})
<1>0. /\ ItemsState(w) /\ p.kind \in Kinds
      /\ p.kind = "call" => GoodCall(S, p)
      /\ p.kind = "result" => GoodResult(S, p)
  BY DEF ItemsTrack, GoodNext
<1>1. CASE w.failed
  <2>1. ItemsPart(w, role, p) = w
    BY <1>1 DEF ItemsPart
  <2> QED BY <1>1, <2>1 DEF ItemsTrack
<1>2. CASE ~w.failed /\ p.kind = "signed"
  <2>1. ItemsPart(w, role, p) = IF p.by = "own" THEN AddItem(FlushMessage(w, role), [type |-> "reasoning", of |-> <<p.n>>])
            ELSE [w EXCEPT !.failed = TRUE]
    BY <1>2 DEF ItemsPart
  <2>2. Bare([type |-> "reasoning", of |-> <<p.n>>])
    BY DEF Bare
  <2>3. ItemsTrack(FlushMessage(w, role), S)
    BY ItemsFlush
  <2>4. ItemsTrack(ItemsPart(w, role, p), S)
    <3> QED BY <1>0, <2>1, <2>2, <2>3, ItemsAddBare, ItemsFail
  <2> QED BY <1>2, <2>4, ItemsOther
<1>3. CASE ~w.failed /\ p.kind = "thought"
  <2>1. ItemsPart(w, role, p) = w
    BY <1>3 DEF ItemsPart
  <2> QED BY <1>3, <2>1, ItemsOther
<1>4. CASE ~w.failed /\ p.kind = "text"
  <2>1. ItemsPart(w, role, p) = AddText(w, role, p) \/ ItemsPart(w, role, p) = [w EXCEPT !.failed = TRUE]
    BY <1>4 DEF ItemsPart
  <2>2. ItemsTrack(ItemsPart(w, role, p), S)
    BY <1>0, <2>1, ItemsText, ItemsFail
  <2> QED BY <1>4, <2>2, ItemsOther
<1>5. CASE ~w.failed /\ p.kind = "media"
  <2> DEFINE u == [w EXCEPT !.open = Append(@, p)]
  <2>1. ItemsPart(w, role, p) = u \/ ItemsPart(w, role, p) = [w EXCEPT !.failed = TRUE]
    BY <1>5 DEF ItemsPart
  <2>1a. u = [w EXCEPT !.open = Append(w.open, p)]
    OBVIOUS
  <2> HIDE DEF u
  <2>2. u = [failed |-> w.failed, items |-> w.items, open |-> Append(w.open, p), item |-> w.item,
             tracker |-> w.tracker]
    BY <1>0, <2>1a DEF ItemsState
  <2>3. SameItems(u, w)
    BY <1>0, <2>2 DEF SameItems, ItemsState
  <2>4. ItemsTrack(ItemsPart(w, role, p), S)
    BY <1>0, <2>1, <2>3, ItemsSame, ItemsFail
  <2> QED BY <1>5, <2>4, ItemsOther
<1>6. CASE ~w.failed /\ p.kind = "call"
  <2>1. ItemsPart(w, role, p) = AddCall(w, role, p)
    BY <1>6 DEF ItemsPart
  <2> QED BY <1>0, <1>6, <2>1, ItemsCall
<1>7. CASE ~w.failed /\ p.kind = "result"
  <2>1. ItemsPart(w, role, p) = AddOutput(w, role, p)
    BY <1>7 DEF ItemsPart
  <2> QED BY <1>0, <1>7, <2>1, ItemsOutput
<1> QED BY <1>0, <1>1, <1>2, <1>3, <1>4, <1>5, <1>6, <1>7 DEF Kinds

\* What was heard grows part by part, what is past content by content.
LEMMA HeardFacts ==
    ASSUME NEW S, NEW parts, IsSeq(parts)
    PROVE  /\ Heard(S, parts, 1) = S
           /\ Heard(S, parts, Len(parts) + 1) = S \cup ToSet(parts)
           /\ \A k \in 1..Len(parts) :
                Heard(S, parts, k + 1) = Heard(S, parts, k) \cup {parts[k]}
<1>1. Len(parts) \in Nat /\ DOMAIN parts = 1..Len(parts)
  BY SeqFacts
<1>2. 1..(1 - 1) = {} /\ 1..((Len(parts) + 1) - 1) = 1..Len(parts)
  BY <1>1
<1>3. Heard(S, parts, 1) = S
  BY <1>2 DEF Heard
<1>4. Heard(S, parts, Len(parts) + 1) = S \cup ToSet(parts)
  BY <1>1, <1>2 DEF Heard, ToSet
<1>5. ASSUME NEW k \in 1..Len(parts)
      PROVE  Heard(S, parts, k + 1) = Heard(S, parts, k) \cup {parts[k]}
  <2>1. 1..((k + 1) - 1) = 1..(k - 1) \cup {k}
    BY <1>1
  <2> QED BY <2>1 DEF Heard
<1> QED BY <1>3, <1>4, <1>5

LEMMA HeardGrows ==
    ASSUME NEW S, NEW parts, IsSeq(parts), NEW k \in 1..Len(parts)
    PROVE  Heard(S, parts, k + 1) = Heard(S, parts, k) \cup {parts[k]}
BY HeardFacts

LEMMA PastFacts ==
    ASSUME NEW h
    PROVE  /\ Past(h, 0) = {}
           /\ \A k \in Nat : Past(h, k + 1) = Past(h, k) \cup ToSet(h[k + 1].parts)
<1>1. 1..0 = {}
  OBVIOUS
<1>2. Past(h, 0) = {}
  BY <1>1 DEF Past
<1>3. ASSUME NEW k \in Nat
      PROVE  Past(h, k + 1) = Past(h, k) \cup ToSet(h[k + 1].parts)
  <2>1. 1..(k + 1) = 1..k \cup {k + 1}
    OBVIOUS
  <2> QED BY <2>1 DEF Past
<1> QED BY <1>2, <1>3

LEMMA ItemsWalkExists ==
    ASSUME NEW w, NEW role, NEW parts
    PROVE  \A n \in Nat : \E f : WalksItems(f, w, role, parts, n)
<1> DEFINE T == {n \in Nat : \E f : WalksItems(f, w, role, parts, n)}
<1>1. 0 \in T
  <2> DEFINE g == [k \in 0..0 |-> w]
  <2>1. WalksItems(g, w, role, parts, 0)
    BY DEF WalksItems
  <2> QED BY <2>1
<1>2. ASSUME NEW n \in Nat, n \in T PROVE n + 1 \in T
  <2>1. PICK f : WalksItems(f, w, role, parts, n)
    BY <1>2
  <2> DEFINE g == [k \in 0..(n + 1) |-> IF k # n + 1 THEN f[k] ELSE ItemsPart(f[n], role, parts[k])]
  <2>2. \A k \in 0..n : f[k] = IF k = 0 THEN w ELSE ItemsPart(f[k - 1], role, parts[k])
    BY <2>1 DEF WalksItems
  <2>3. \A k \in 0..(n + 1) : k = n + 1 \/ k \in 0..n
    OBVIOUS
  <2>4. \A k \in 0..n : g[k] = f[k]
    OBVIOUS
  <2>5. \A k \in 1..(n + 1) : g[k - 1] = f[k - 1]
    BY <2>4
  <2>6. \A k \in 0..(n + 1) : g[k] = IF k = 0 THEN w ELSE ItemsPart(g[k - 1], role, parts[k])
    BY <2>2, <2>3, <2>4, <2>5
  <2>7. g = [k \in 0..(n + 1) |-> g[k]]
    OBVIOUS
  <2> HIDE DEF g
  <2>8. WalksItems(g, w, role, parts, n + 1)
    BY <2>6, <2>7 DEF WalksItems
  <2> QED BY <2>8
<1> HIDE DEF T
<1>3. Nat \subseteq T
  BY <1>1, <1>2, SetInduction
<1> QED BY <1>3 DEF T

LEMMA ItemsWalkFacts ==
    ASSUME NEW w, NEW role, NEW parts, IsSeq(parts)
    PROVE  /\ ItemsWalk(w, role, parts)[0] = w
           /\ \A k \in 1..Len(parts) :
                ItemsWalk(w, role, parts)[k] = ItemsPart(ItemsWalk(w, role, parts)[k - 1], role, parts[k])
<1> DEFINE f == CHOOSE g : WalksItems(g, w, role, parts, Len(parts))
<1>1. Len(parts) \in Nat
  BY SeqFacts
<1>2. WalksItems(f, w, role, parts, Len(parts))
  BY <1>1, ItemsWalkExists
<1>3. ItemsWalk(w, role, parts) = f
  BY DEF ItemsWalk, WalksItems
<1>4. \A k \in 0..Len(parts) : f[k] = IF k = 0 THEN w ELSE ItemsPart(f[k - 1], role, parts[k])
  BY <1>2 DEF WalksItems
<1> HIDE DEF f
<1> QED BY <1>1, <1>3, <1>4

LEMMA ItemsHistoryExists ==
    ASSUME NEW history
    PROVE  \A n \in Nat : \E f : WalksItemsHistory(f, history, n)
<1> DEFINE T == {n \in Nat : \E f : WalksItemsHistory(f, history, n)}
<1>1. 0 \in T
  <2> DEFINE g == [k \in 0..0 |-> ItemsStart]
  <2>1. WalksItemsHistory(g, history, 0)
    BY DEF WalksItemsHistory
  <2> QED BY <2>1
<1>2. ASSUME NEW n \in Nat, n \in T PROVE n + 1 \in T
  <2>1. PICK f : WalksItemsHistory(f, history, n)
    BY <1>2
  <2> DEFINE g == [k \in 0..(n + 1) |-> IF k # n + 1 THEN f[k] ELSE ItemsContent(f[n], history[k])]
  <2>2. \A k \in 0..n : f[k] = IF k = 0 THEN ItemsStart ELSE ItemsContent(f[k - 1], history[k])
    BY <2>1 DEF WalksItemsHistory
  <2>3. \A k \in 0..(n + 1) : k = n + 1 \/ k \in 0..n
    OBVIOUS
  <2>4. \A k \in 0..n : g[k] = f[k]
    OBVIOUS
  <2>5. \A k \in 1..(n + 1) : g[k - 1] = f[k - 1]
    BY <2>4
  <2>6. \A k \in 0..(n + 1) : g[k] = IF k = 0 THEN ItemsStart ELSE ItemsContent(g[k - 1], history[k])
    BY <2>2, <2>3, <2>4, <2>5
  <2>7. g = [k \in 0..(n + 1) |-> g[k]]
    OBVIOUS
  <2> HIDE DEF g
  <2>8. WalksItemsHistory(g, history, n + 1)
    BY <2>6, <2>7 DEF WalksItemsHistory
  <2> QED BY <2>8
<1> HIDE DEF T
<1>3. Nat \subseteq T
  BY <1>1, <1>2, SetInduction
<1> QED BY <1>3 DEF T

LEMMA ItemsHistoryFacts ==
    ASSUME NEW history, IsSeq(history)
    PROVE  /\ ItemsHistory(history)[0] = ItemsStart
           /\ \A k \in 1..Len(history) :
                ItemsHistory(history)[k] = ItemsContent(ItemsHistory(history)[k - 1], history[k])
<1> DEFINE f == CHOOSE g : WalksItemsHistory(g, history, Len(history))
<1>1. Len(history) \in Nat
  BY SeqFacts
<1>2. WalksItemsHistory(f, history, Len(history))
  BY <1>1, ItemsHistoryExists
<1>3. ItemsHistory(history) = f
  BY DEF ItemsHistory, WalksItemsHistory
<1>4. \A k \in 0..Len(history) : f[k] = IF k = 0 THEN ItemsStart ELSE ItemsContent(f[k - 1], history[k])
  BY <1>2 DEF WalksItemsHistory
<1> HIDE DEF f
<1> QED BY <1>1, <1>3, <1>4

LEMMA ItemsStartTracks == ItemsTrack(ItemsStart, {})
<1>1. /\ ItemsState(ItemsStart) /\ ItemsStart.tracker = NewTracker /\ ItemsStart.items = <<>>
  BY DEF ItemsState, ItemsStart
<1> QED BY <1>1, TracksStart DEF ItemsTrack

LEMMA ItemsContentTracks ==
    ASSUME NEW w, NEW S, ItemsTrack(w, S), NEW content, IsSeq(content.parts), Fits(S, content.parts)
    PROVE  ItemsTrack(ItemsContent(w, content), S \cup ToSet(content.parts))
<1> DEFINE parts == content.parts
           role == ResponsesRole(content.role)
           L == Len(parts)
           W == ItemsWalk(w, role, parts)
           T == {k \in Nat : k <= L => ItemsTrack(W[k], Heard(S, parts, k + 1))}
<1>0. /\ L \in Nat /\ DOMAIN parts = 1..L
      /\ W[0] = w /\ \A k \in 1..L : W[k] = ItemsPart(W[k - 1], role, parts[k])
      /\ Heard(S, parts, 1) = S /\ Heard(S, parts, L + 1) = S \cup ToSet(parts)
      /\ \A k \in 1..L : Heard(S, parts, k + 1) = Heard(S, parts, k) \cup {parts[k]}
  <2>0. IsSeq(parts)
    OBVIOUS
  <2> HIDE DEF parts, role
  <2>1. L \in Nat /\ DOMAIN parts = 1..L
    BY <2>0, SeqFacts
  <2>2. W[0] = w /\ \A k \in 1..L : W[k] = ItemsPart(W[k - 1], role, parts[k])
    BY <2>0, ItemsWalkFacts
  <2>3. Heard(S, parts, 1) = S
    BY <2>0, HeardFacts
  <2>4. Heard(S, parts, L + 1) = S \cup ToSet(parts)
    BY <2>0, HeardFacts
  <2>5. \A k \in 1..L : Heard(S, parts, k + 1) = Heard(S, parts, k) \cup {parts[k]}
    BY <2>0, HeardGrows
  <2> HIDE DEF W, L
  <2> QED BY <2>1, <2>2, <2>3, <2>4, <2>5
<1>1. 0 \in T
  BY <1>0
<1>2. ASSUME NEW k \in Nat, k \in T PROVE k + 1 \in T
  <2> SUFFICES ASSUME k + 1 <= L PROVE ItemsTrack(W[k + 1], Heard(S, parts, (k + 1) + 1))
    OBVIOUS
  <2>1. k + 1 \in 1..L /\ (k + 1) - 1 = k /\ k <= L
    BY <1>0
  <2>2. ItemsTrack(W[k], Heard(S, parts, k + 1)) /\ GoodNext(Heard(S, parts, k + 1), parts[k + 1])
    BY <1>0, <1>2, <2>1 DEF Fits
  <2>3. W[k + 1] = ItemsPart(W[k], role, parts[k + 1])
    BY <1>0, <2>1
  <2>4. Heard(S, parts, (k + 1) + 1) = Heard(S, parts, k + 1) \cup {parts[k + 1]}
    BY <1>0, <2>1
  <2> HIDE DEF W, parts, role
  <2> QED BY <2>2, <2>3, <2>4, ItemsPartTracks
<1>3. Nat \subseteq T
  <2> HIDE DEF T
  <2> QED BY <1>1, <1>2, SetInduction
<1>4. ItemsTrack(W[L], S \cup ToSet(parts))
  <2>1. L \in T
    BY <1>0, <1>3
  <2>2. ItemsTrack(W[L], Heard(S, parts, L + 1))
    BY <1>0, <2>1
  <2> HIDE DEF W, parts, role, L
  <2> QED BY <1>0, <2>2
<1>5. ItemsContent(w, content) = CloseItems(W[L], role)
  BY DEF ItemsContent
<1> HIDE DEF W, L, role, T
<1> QED BY <1>4, <1>5, ItemsFlush DEF CloseItems

LEMMA ItemsHistoryTracks ==
    ASSUME NEW history, Follows(history)
    PROVE  ItemsTrack(ItemsHistory(history)[Len(history)], AllParts(history))
<1> DEFINE H == ItemsHistory(history)
           T == {k \in Nat : k <= Len(history) => ItemsTrack(H[k], Past(history, k))}
<1>0. /\ IsSeq(history) /\ Len(history) \in Nat /\ DOMAIN history = 1..Len(history)
      /\ H[0] = ItemsStart /\ \A k \in 1..Len(history) : H[k] = ItemsContent(H[k - 1], history[k])
  BY SeqFacts, ItemsHistoryFacts DEF Follows
<1>1. 0 \in T
  <2>1. Past(history, 0) = {}
    BY PastFacts
  <2> QED BY <1>0, <2>1, ItemsStartTracks
<1>2. ASSUME NEW k \in Nat, k \in T PROVE k + 1 \in T
  <2> SUFFICES ASSUME k + 1 <= Len(history) PROVE ItemsTrack(H[k + 1], Past(history, k + 1))
    OBVIOUS
  <2>1. k + 1 \in 1..Len(history) /\ (k + 1) - 1 = k /\ k <= Len(history)
    BY <1>0
  <2>2. H[k + 1] = ItemsContent(H[k], history[k + 1])
    BY <1>0, <2>1
  <2>3. ItemsTrack(H[k], Past(history, k))
    BY <1>0, <1>2, <2>1
  <2>4. IsSeq(history[k + 1].parts) /\ Fits(Past(history, k), history[k + 1].parts)
    BY <1>0, <2>1 DEF Follows
  <2>5. Past(history, k + 1) = Past(history, k) \cup ToSet(history[k + 1].parts)
    BY PastFacts
  <2> HIDE DEF H
  <2> QED BY <2>2, <2>3, <2>4, <2>5, ItemsContentTracks
<1> HIDE DEF T
<1>3. Nat \subseteq T
  BY <1>1, <1>2, SetInduction
<1>4. Len(history) \in T
  BY <1>0, <1>3
<1> QED BY <1>0, <1>4, AllIsPast DEF T

\* What is linked on the wire reaches its call.
LEMMA ReachIsPaired == \A pieces : AllReach(pieces) => Paired(pieces)
<1> SUFFICES ASSUME NEW pieces, AllReach(pieces) PROVE Paired(pieces)
  OBVIOUS
<1>1. DOMAIN pieces = 1..Len(pieces)
  BY SeqFacts DEF AllReach
<1> QED BY <1>1 DEF Paired, AllReach

LEMMA NoPieces == Paired(<<>>)
<1>1. AllReach(<<>>)
  BY TracksStart DEF Tracks
<1> QED BY <1>1, ReachIsPaired

LEMMA ResponsesPaired == Follows(contents) => Paired(ResponsesPieces)
<1> SUFFICES ASSUME Follows(contents) PROVE Paired(ResponsesPieces)
  OBVIOUS
<1> DEFINE w == ItemsHistory(contents)[Len(contents)]
<1>1. ItemsTrack(w, AllParts(contents))
  BY ItemsHistoryTracks
<1>2. ResponsesPieces = IF ~w.failed /\ w.items # <<>> THEN w.items ELSE <<>>
  BY DEF ResponsesPieces, Responses, ResponsesInput, Input
<1> HIDE DEF w
<1>3. ~w.failed => AllReach(w.items)
  BY <1>1 DEF ItemsTrack, Tracks
<1> QED BY <1>2, <1>3, ReachIsPaired, NoPieces

------------------------------------------------------------------------------
(* The prompt of the AI SDK *)

LEMMA SaidIsSeq ==
    ASSUME NEW w, VercelState(w)
    PROVE  IsSeq(MessageParts(w.messages)) /\ IsSeq(VercelSaid(w))
<1> DEFINE m == [parts |-> <<>>]
<1>1. IsSeq(m.parts)
  BY NoSeq
<1> HIDE DEF m
<1>2. IsSeq(MessageParts(w.messages))
  BY <1>1, PartsAppend DEF VercelState
<1> QED BY <1>2, ConcatFacts DEF VercelState, VercelSaid

LEMMA VercelFail ==
    ASSUME NEW w, VercelState(w), NEW S
    PROVE  VercelTrack([w EXCEPT !.failed = TRUE], S)
<1> DEFINE v == [w EXCEPT !.failed = TRUE]
<1>1. v = [w EXCEPT !.failed = TRUE]
  OBVIOUS
<1> HIDE DEF v
<1>2. v = [failed |-> TRUE, messages |-> w.messages, parts |-> w.parts, item |-> w.item,
           tracker |-> w.tracker]
  BY <1>1 DEF VercelState
<1>3. VercelTrack(v, S)
  BY <1>2 DEF VercelTrack, VercelState
<1> QED BY <1>3 DEF v

\* Closing the open message moves nothing on the wire.
LEMMA VercelFlushSaid ==
    ASSUME NEW w, VercelState(w), NEW role
    PROVE  /\ VercelState(FlushParts(w, role))
           /\ VercelSaid(FlushParts(w, role)) = VercelSaid(w)
           /\ FlushParts(w, role).failed = w.failed
           /\ FlushParts(w, role).tracker = w.tracker
<1> DEFINE m == [role |-> role, parts |-> w.parts]
           v == [w EXCEPT !.messages = Append(w.messages, m), !.parts = <<>>, !.item = NoItem]
<1>0. IsSeq(w.parts) /\ HaveParts(w.messages) /\ w.failed \in BOOLEAN
  BY DEF VercelState
<1>1. FlushParts(w, role) = IF w.parts = <<>> THEN w ELSE v
  BY DEF FlushParts
<1>2. v = [w EXCEPT !.messages = Append(w.messages, m), !.parts = <<>>, !.item = NoItem]
  OBVIOUS
<1>3. m.parts = w.parts
  OBVIOUS
<1> HIDE DEF v, m
<1>4. v = [failed |-> w.failed, messages |-> Append(w.messages, m), parts |-> <<>>,
           item |-> NoItem, tracker |-> w.tracker]
  BY <1>0, <1>2 DEF VercelState
<1>5. /\ HaveParts(Append(w.messages, m))
      /\ MessageParts(Append(w.messages, m)) = VercelSaid(w)
  BY <1>0, <1>3, PartsAppend DEF VercelSaid
<1>6. VercelSaid(v) = VercelSaid(w)
  <2>1. VercelSaid(w) \o <<>> = VercelSaid(w)
    BY <1>0, SaidIsSeq, ConcatEmptySeq DEF IsSeq
  <2> QED BY <1>4, <1>5, <2>1 DEF VercelSaid
<1>7. VercelState(v)
  <2>1. TextIsBare(<<>>)
    BY NoSeq DEF TextIsBare
  <2> QED BY <1>0, <1>4, <1>5, <2>1, NoSeq DEF VercelState
<1> QED BY <1>1, <1>4, <1>6, <1>7

LEMMA VercelFlush ==
    ASSUME NEW w, NEW S, VercelTrack(w, S), NEW role
    PROVE  /\ VercelTrack(FlushParts(w, role), S)
           /\ FlushParts(w, role).failed = w.failed
           /\ FlushParts(w, role).tracker = w.tracker
BY VercelFlushSaid DEF VercelTrack

LEMMA VercelAppends ==
    ASSUME NEW w, VercelState(w), NEW x, x.type = "text" => Bare(x), NEW t, NEW item,
           NEW v, v = [failed |-> w.failed, messages |-> w.messages, parts |-> Append(w.parts, x),
                       item |-> item, tracker |-> t]
    PROVE  OneMorePart(v, w, x, t)
<1>1. /\ IsSeq(w.parts) /\ IsSeq(Append(w.parts, x)) /\ Len(w.parts) \in Nat
      /\ Len(Append(w.parts, x)) = Len(w.parts) + 1
      /\ Append(w.parts, x)[Len(w.parts) + 1] = x
      /\ \A i \in 1..Len(w.parts) : Append(w.parts, x)[i] = w.parts[i]
  BY AppendFacts, SeqFacts DEF VercelState
<1>2. TextIsBare(Append(w.parts, x))
  <2>1. \A i \in 1..(Len(w.parts) + 1) : i \in 1..Len(w.parts) \/ i = Len(w.parts) + 1
    BY <1>1
  <2> QED BY <1>1, <2>1 DEF TextIsBare, VercelState
<1>3. VercelSaid(v) = Append(VercelSaid(w), x)
  <2> DEFINE m == MessageParts(w.messages)
  <2>1. IsSeq(m)
    BY SaidIsSeq
  <2> HIDE DEF m
  <2>2. m \o Append(w.parts, x) = Append(m \o w.parts, x)
    BY <1>1, <2>1, ConcatAppend
  <2> QED BY <2>2 DEF VercelSaid, m
<1>4. VercelState(v)
  BY <1>1, <1>2 DEF VercelState
<1> QED BY <1>3, <1>4 DEF OneMorePart

LEMMA VercelAdd ==
    ASSUME NEW w, VercelState(w), NEW x, x.type = "text" => Bare(x), NEW t
    PROVE  /\ OneMorePart(AddPart(w, x), w, x, w.tracker)
           /\ OneMorePart([AddPart(w, x) EXCEPT !.tracker = t], w, x, t)
<1> DEFINE v == AddPart(w, x)
           u == [v EXCEPT !.tracker = t]
<1>1. v = [w EXCEPT !.parts = Append(w.parts, x)]
  BY DEF AddPart
<1>2. u = [v EXCEPT !.tracker = t]
  OBVIOUS
<1> HIDE DEF v, u
<1>3. v = [failed |-> w.failed, messages |-> w.messages, parts |-> Append(w.parts, x),
           item |-> w.item, tracker |-> w.tracker]
  BY <1>1 DEF VercelState
<1>4. u = [failed |-> w.failed, messages |-> w.messages, parts |-> Append(w.parts, x),
           item |-> w.item, tracker |-> t]
  BY <1>2, <1>3
<1>5. OneMorePart(v, w, x, w.tracker)
  BY <1>3, VercelAppends
<1>6. OneMorePart(u, w, x, t)
  BY <1>4, VercelAppends
<1> QED BY <1>5, <1>6 DEF u, v

LEMMA VercelAddBare ==
    ASSUME NEW w, NEW S, VercelTrack(w, S), NEW x, Bare(x), NEW v,
           OneMorePart(v, w, x, w.tracker)
    PROVE  VercelTrack(v, S)
BY TracksBare DEF VercelTrack, OneMorePart

LEMMA ShapeBehind ==
    ASSUME NEW s, IsSeq(s), NEW t, NEW u, SameShape(t, u)
    PROVE  SameShape(s \o t, s \o u)
<1> DEFINE a == s \o t
           b == s \o u
           L == Len(s)
           K == Len(t)
<1>1. IsSeq(t) /\ IsSeq(u) /\ Len(u) = K /\ L \in Nat /\ K \in Nat
      /\ \A i \in 1..K : u[i] = t[i] \/ (Bare(t[i]) /\ Bare(u[i]))
  BY SeqFacts DEF SameShape
<1>2. /\ IsSeq(a) /\ IsSeq(b) /\ Len(a) = L + K /\ Len(b) = L + K
      /\ \A i \in 1..L : a[i] = b[i]
      /\ \A i \in 1..K : a[L + i] = t[i] /\ b[L + i] = u[i]
  <2>1. IsSeq(a) /\ Len(a) = L + K /\ \A i \in 1..L : a[i] = s[i]
    BY <1>1, ConcatFacts
  <2>2. IsSeq(b) /\ Len(b) = L + K /\ \A i \in 1..L : b[i] = s[i]
    BY <1>1, ConcatFacts
  <2>3. \A i \in 1..K : a[L + i] = t[i]
    BY <1>1, ConcatFacts
  <2>4. \A i \in 1..Len(u) : b[L + i] = u[i]
    BY <1>1, ConcatFacts
  <2> HIDE DEF a, b, L, K
  <2> QED BY <1>1, <2>1, <2>2, <2>3, <2>4
<1> HIDE DEF a, b, L, K
<1>3. ASSUME NEW i \in 1..(L + K)
      PROVE  b[i] = a[i] \/ (Bare(a[i]) /\ Bare(b[i]))
  <2>1. CASE i \in 1..L
    BY <1>2, <2>1
  <2>2. CASE i \notin 1..L
    <3> DEFINE k == i - L
    <3>1. k \in 1..K /\ i = L + k
      BY <1>1, <2>2
    <3> HIDE DEF k
    <3>2. a[i] = t[k] /\ b[i] = u[k]
      BY <1>2, <3>1
    <3> QED BY <1>1, <3>1, <3>2
  <2> QED BY <2>1, <2>2
<1>4. SameShape(a, b)
  BY <1>2, <1>3 DEF SameShape
<1> QED BY <1>4 DEF a, b

LEMMA VercelJoinsSaid ==
    ASSUME NEW w, VercelState(w), NEW item, NEW n, NEW v, Widens(v, w, item, n)
    PROVE  /\ VercelState(v) /\ v.failed = w.failed /\ v.tracker = w.tracker
           /\ SameShape(VercelSaid(w), VercelSaid(v))
           /\ v.messages = w.messages
           /\ v.parts = [w.parts EXCEPT ![Len(w.parts)] = Widened(w.parts[Len(w.parts)], n)]
<1> DEFINE P == w.parts
           L == Len(P)
           x == [P[L] EXCEPT !.of = Append(P[L].of, n)]
           Q == [P EXCEPT ![L] = x]
<1>0. VercelState(w) /\ IsSeq(P) /\ TextIsBare(P) /\ w.failed \in BOOLEAN
  BY DEF VercelState
<1>1. L \in Nat /\ L # 0 /\ L \in 1..L /\ P[L].type = "text"
  BY <1>0, SeqFacts DEF Last, Widens
<1>2. Bare(P[L])
  BY <1>0, <1>1 DEF TextIsBare
<1>3. Bare(x)
  <2>1. DOMAIN x = DOMAIN P[L]
    OBVIOUS
  <2> HIDE DEF x
  <2> QED BY <1>2, <2>1 DEF Bare
<1>4. v = [failed |-> w.failed, messages |-> w.messages, parts |-> Q, item |-> item,
           tracker |-> w.tracker]
  BY <1>0 DEF VercelState, Widens
<1>4a. x = Widened(P[L], n)
  BY DEF Widened
<1> HIDE DEF x
<1>5. IsSeq(Q) /\ Len(Q) = L /\ \A i \in 1..L : Q[i] = IF i = L THEN x ELSE P[i]
  <2>1. P \in Seq(ToSet(P) \cup {x})
    BY <1>0, SeqMonotonic DEF IsSeq
  <2>2. /\ Q \in Seq(ToSet(P) \cup {x}) /\ Len(Q) = L
        /\ \A i \in 1..L : Q[i] = IF i = L THEN x ELSE P[i]
    BY <1>1, <2>1, ExceptSeq
  <2> QED BY <2>2, AnySeq
<1> HIDE DEF Q, P, L
<1>6. SameShape(P, Q)
  BY <1>0, <1>2, <1>3, <1>5 DEF SameShape, L
<1>7. TextIsBare(Q)
  BY <1>0, <1>3, <1>5 DEF TextIsBare, L
<1>8. VercelState(v)
  <2>1. v.failed = w.failed /\ v.messages = w.messages /\ v.parts = Q /\ v.item = item
        /\ v.tracker = w.tracker
    BY ONLY <1>4
  <2>2. v = [failed |-> v.failed, messages |-> v.messages, parts |-> v.parts, item |-> v.item,
             tracker |-> v.tracker]
    BY <1>4, <2>1
  <2>3. HaveParts(w.messages)
    BY <1>0 DEF VercelState
  <2> QED BY <1>0, <1>5, <1>7, <2>1, <2>2, <2>3 DEF VercelState
<1>9. SameShape(VercelSaid(w), VercelSaid(v))
  <2>1. IsSeq(MessageParts(w.messages))
    BY <1>0, SaidIsSeq
  <2>2. SameShape(MessageParts(w.messages) \o P, MessageParts(w.messages) \o Q)
    BY <1>6, <2>1, ShapeBehind
  <2>3. VercelSaid(w) = MessageParts(w.messages) \o P
    BY DEF VercelSaid, P
  <2>4. v.messages = w.messages /\ v.parts = Q
    BY ONLY <1>4
  <2>5. VercelSaid(v) = MessageParts(w.messages) \o Q
    BY <2>4 DEF VercelSaid
  <2> QED BY <2>2, <2>3, <2>4, <2>5
<1>10. v.parts = [P EXCEPT ![L] = x] /\ v.messages = w.messages
  BY <1>4 DEF Q
<1>11. v.failed = w.failed /\ v.tracker = w.tracker
  BY <1>4
<1> QED BY <1>4a, <1>8, <1>9, <1>10, <1>11 DEF P, L

LEMMA VercelJoins ==
    ASSUME NEW w, NEW S, VercelTrack(w, S), NEW item, NEW n, NEW v, Widens(v, w, item, n)
    PROVE  VercelTrack(v, S)
<1>1. VercelState(w)
  BY DEF VercelTrack
<1>2. VercelState(v)
  BY <1>1, VercelJoinsSaid
<1>4. v.failed = w.failed
  BY <1>1 DEF VercelState, Widens
<1>5. v.tracker = w.tracker
  BY <1>1 DEF VercelState, Widens
<1>3. SameShape(VercelSaid(w), VercelSaid(v))
  BY <1>1, VercelJoinsSaid
<1> QED BY <1>2, <1>3, <1>4, <1>5, TracksSame DEF VercelTrack

LEMMA VercelText ==
    ASSUME NEW w, NEW S, VercelTrack(w, S), NEW role, NEW p
    PROVE  VercelTrack(AddVercelText(w, role, p), S)
<1> DEFINE assistant == role = "assistant"
           v == IF assistant /\ w.parts # <<>> /\ p.item # w.item
                THEN FlushParts(w, role) ELSE w
           item == IF assistant THEN p.item ELSE v.item
           joins == item # NoItem /\ v.parts # <<>> /\ Last(v.parts).type = "text"
           x == [type |-> "text", item |-> item, of |-> <<p.n>>]
           a == [v EXCEPT !.item = item, !.parts[Len(v.parts)].of = Append(@, p.n)]
           b == [v EXCEPT !.item = item, !.parts = Append(v.parts, x)]
<1>1. AddVercelText(w, role, p) = IF joins THEN a ELSE b
  BY DEF AddVercelText
<1>2. VercelTrack(v, S)
  BY VercelFlush
<1>3. Bare(x)
  BY DEF Bare
<1>4. joins => Widens(a, v, item, p.n)
  BY DEF Widens
<1>5. b = [v EXCEPT !.item = item, !.parts = Append(v.parts, x)]
  OBVIOUS
<1> HIDE DEF v, item, x, a, b, joins
<1>7. joins => VercelTrack(a, S)
  BY <1>2, <1>4, VercelJoins
<1>8. b = [failed |-> v.failed, messages |-> v.messages, parts |-> Append(v.parts, x),
           item |-> item, tracker |-> v.tracker]
  BY <1>2, <1>5 DEF VercelTrack, VercelState
<1>9. VercelTrack(b, S)
  <2>1. OneMorePart(b, v, x, v.tracker)
    BY <1>2, <1>3, <1>8, VercelAppends DEF VercelTrack
  <2> QED BY <1>2, <1>3, <2>1, VercelAddBare
<1> QED BY <1>1, <1>7, <1>9

LEMMA VercelCallTracks ==
    ASSUME NEW w, NEW S, VercelTrack(w, S), NEW p, p.kind = "call", GoodCall(S, p)
    PROVE  VercelTrack(VercelCall(w, p), S \cup {p})
<1> DEFINE x == [type |-> "tool-call", id |-> CallID(w.tracker, p), name |-> p.name,
                 namespace |-> NoId, of |-> <<p.n>>]
           t == TrackCall(w.tracker, p)
           u == [AddPart(w, x) EXCEPT !.tracker = t]
<1>0. VercelState(w)
  BY DEF VercelTrack
<1>1. IsCall(x) /\ x.id = CallID(w.tracker, p) /\ x.of = <<p.n>> /\ (x.type = "text" => Bare(x))
  BY DEF IsCall, IsResult
<1>2. VercelCall(w, p) = [AddPart(w, x) EXCEPT !.tracker = TrackCall(@, p)]
  BY DEF VercelCall
<1> HIDE DEF x
<1>3. AddPart(w, x).tracker = w.tracker
  BY <1>0, <1>1, VercelAdd DEF OneMorePart
<1>4. VercelCall(w, p) = u
  BY <1>2, <1>3
<1> HIDE DEF t
<1>5. OneMorePart(u, w, x, t)
  BY <1>0, <1>1, VercelAdd
<1> HIDE DEF u
<1>6. ASSUME ~u.failed PROVE Tracks(u.tracker, VercelSaid(u), S \cup {p})
  <2>1. Tracks(w.tracker, VercelSaid(w), S)
    BY <1>5, <1>6 DEF VercelTrack, OneMorePart
  <2>2. u.tracker = TrackCall(w.tracker, p) /\ VercelSaid(u) = Append(VercelSaid(w), x)
    BY <1>5 DEF OneMorePart, t
  <2> QED BY <1>1, <2>1, <2>2, TracksCall
<1> QED BY <1>4, <1>5, <1>6 DEF VercelTrack, OneMorePart

LEMMA VercelResultTracks ==
    ASSUME NEW w, NEW S, VercelTrack(w, S), NEW role, NEW p, p.kind = "result", GoodResult(S, p)
    PROVE  VercelTrack(VercelResult(w, role, p), S \cup {p})
<1> DEFINE v == FlushParts(w, role)
           x == [type |-> "tool-result", id |-> ResultID(v.tracker, p),
                 answers |-> p.answers, output |-> "result", of |-> <<p.n>>]
           t == TrackResult(v.tracker, p)
           u == [AddPart(v, x) EXCEPT !.tracker = t]
<1>0. VercelTrack(v, S) /\ VercelState(v)
  BY VercelFlush DEF VercelTrack
<1>1. IsResult(x) /\ x.id = ResultID(v.tracker, p) /\ x.answers = p.answers
      /\ (x.type = "text" => Bare(x))
  BY DEF IsResult
<1>2. VercelResult(w, role, p) =
        IF Unpaired(v.tracker, p) THEN [v EXCEPT !.failed = TRUE]
        ELSE FlushParts([AddPart(v, x) EXCEPT !.tracker = TrackResult(@, p)], "tool")
  BY DEF VercelResult
<1> HIDE DEF x, v
<1>3. AddPart(v, x).tracker = v.tracker
  BY <1>0, <1>1, VercelAdd DEF OneMorePart
<1>4. [AddPart(v, x) EXCEPT !.tracker = TrackResult(@, p)] = u
  BY <1>3
<1> HIDE DEF t
<1>5. OneMorePart(u, v, x, t)
  BY <1>0, <1>1, VercelAdd
<1> HIDE DEF u
<1>6. ASSUME ~u.failed PROVE Tracks(u.tracker, VercelSaid(u), S \cup {p})
  <2>1. Tracks(v.tracker, VercelSaid(v), S)
    BY <1>0, <1>5, <1>6 DEF VercelTrack, OneMorePart
  <2>2. u.tracker = TrackResult(v.tracker, p) /\ VercelSaid(u) = Append(VercelSaid(v), x)
    BY <1>5 DEF OneMorePart, t
  <2> QED BY <1>1, <2>1, <2>2, TracksResult
<1>7. VercelTrack(u, S \cup {p})
  BY <1>5, <1>6 DEF VercelTrack, OneMorePart
<1> QED BY <1>0, <1>2, <1>4, <1>7, VercelFlush, VercelFail

LEMMA VercelOther ==
    ASSUME NEW w, NEW S, VercelTrack(w, S), NEW p, p.kind # "call", p.kind # "result"
    PROVE  VercelTrack(w, S \cup {p})
BY TracksOther DEF VercelTrack

LEMMA VercelPartTracks ==
    ASSUME NEW w, NEW S, VercelTrack(w, S), NEW role, NEW p, GoodNext(S, p)
    PROVE  VercelTrack(VercelPart(w, role, p), S \cup {p})
<1>0. /\ VercelState(w) /\ p.kind \in Kinds
      /\ p.kind = "call" => GoodCall(S, p)
      /\ p.kind = "result" => GoodResult(S, p)
  BY DEF VercelTrack, GoodNext
<1>1. CASE w.failed
  <2>1. VercelPart(w, role, p) = w
    BY <1>1 DEF VercelPart
  <2> QED BY <1>1, <2>1 DEF VercelTrack
<1>2. CASE ~w.failed /\ p.kind \in {"signed", "media"}
  <2> DEFINE x == [type |-> IF p.kind = "media" THEN "file" ELSE "reasoning", of |-> <<p.n>>]
  <2>1. \/ VercelPart(w, role, p) = AddPart(w, x)
        \/ VercelPart(w, role, p) = [w EXCEPT !.failed = TRUE]
    BY <1>2 DEF VercelPart
  <2>2. Bare(x)
    BY DEF Bare
  <2> HIDE DEF x
  <2>3. VercelTrack(AddPart(w, x), S)
    BY <1>0, <2>2, VercelAdd, VercelAddBare
  <2>4. VercelTrack(VercelPart(w, role, p), S)
    BY <1>0, <2>1, <2>3, VercelFail
  <2> QED BY <1>2, <2>4, VercelOther
<1>3. CASE ~w.failed /\ p.kind = "thought"
  <2>1. VercelPart(w, role, p) = w
    BY <1>3 DEF VercelPart
  <2> QED BY <1>3, <2>1, VercelOther
<1>4. CASE ~w.failed /\ p.kind = "text"
  <2>1. \/ VercelPart(w, role, p) = AddVercelText(w, role, p)
        \/ VercelPart(w, role, p) = [w EXCEPT !.failed = TRUE]
    BY <1>4 DEF VercelPart
  <2>2. VercelTrack(VercelPart(w, role, p), S)
    BY <1>0, <2>1, VercelText, VercelFail
  <2> QED BY <1>4, <2>2, VercelOther
<1>5. CASE ~w.failed /\ p.kind = "call"
  <2>1. VercelPart(w, role, p) = VercelCall(w, p)
    BY <1>5 DEF VercelPart
  <2> QED BY <1>0, <1>5, <2>1, VercelCallTracks
<1>6. CASE ~w.failed /\ p.kind = "result"
  <2>1. VercelPart(w, role, p) = VercelResult(w, role, p)
    BY <1>6 DEF VercelPart
  <2> QED BY <1>0, <1>6, <2>1, VercelResultTracks
<1> QED BY <1>0, <1>1, <1>2, <1>3, <1>4, <1>5, <1>6 DEF Kinds

LEMMA VercelWalkExists ==
    ASSUME NEW w, NEW role, NEW parts
    PROVE  \A n \in Nat : \E f : WalksVercel(f, w, role, parts, n)
<1> DEFINE T == {n \in Nat : \E f : WalksVercel(f, w, role, parts, n)}
<1>1. 0 \in T
  <2> DEFINE g == [k \in 0..0 |-> w]
  <2>1. WalksVercel(g, w, role, parts, 0)
    BY DEF WalksVercel
  <2> QED BY <2>1
<1>2. ASSUME NEW n \in Nat, n \in T PROVE n + 1 \in T
  <2>1. PICK f : WalksVercel(f, w, role, parts, n)
    BY <1>2
  <2> DEFINE g == [k \in 0..(n + 1) |-> IF k # n + 1 THEN f[k] ELSE VercelPart(f[n], role, parts[k])]
  <2>2. \A k \in 0..n : f[k] = IF k = 0 THEN w ELSE VercelPart(f[k - 1], role, parts[k])
    BY <2>1 DEF WalksVercel
  <2>3. \A k \in 0..(n + 1) : k = n + 1 \/ k \in 0..n
    OBVIOUS
  <2>4. \A k \in 0..n : g[k] = f[k]
    OBVIOUS
  <2>5. \A k \in 1..(n + 1) : g[k - 1] = f[k - 1]
    BY <2>4
  <2>6. \A k \in 0..(n + 1) : g[k] = IF k = 0 THEN w ELSE VercelPart(g[k - 1], role, parts[k])
    BY <2>2, <2>3, <2>4, <2>5
  <2>7. g = [k \in 0..(n + 1) |-> g[k]]
    OBVIOUS
  <2> HIDE DEF g
  <2>8. WalksVercel(g, w, role, parts, n + 1)
    BY <2>6, <2>7 DEF WalksVercel
  <2> QED BY <2>8
<1> HIDE DEF T
<1>3. Nat \subseteq T
  BY <1>1, <1>2, SetInduction
<1> QED BY <1>3 DEF T

LEMMA VercelWalkFacts ==
    ASSUME NEW w, NEW role, NEW parts, IsSeq(parts)
    PROVE  /\ VercelWalk(w, role, parts)[0] = w
           /\ \A k \in 1..Len(parts) :
                VercelWalk(w, role, parts)[k] = VercelPart(VercelWalk(w, role, parts)[k - 1], role, parts[k])
<1> DEFINE f == CHOOSE g : WalksVercel(g, w, role, parts, Len(parts))
<1>1. Len(parts) \in Nat
  BY SeqFacts
<1>2. WalksVercel(f, w, role, parts, Len(parts))
  BY <1>1, VercelWalkExists
<1>3. VercelWalk(w, role, parts) = f
  BY DEF VercelWalk, WalksVercel
<1>4. \A k \in 0..Len(parts) : f[k] = IF k = 0 THEN w ELSE VercelPart(f[k - 1], role, parts[k])
  BY <1>2 DEF WalksVercel
<1> HIDE DEF f
<1> QED BY <1>1, <1>3, <1>4

LEMMA VercelHistoryExists ==
    ASSUME NEW history
    PROVE  \A n \in Nat : \E f : WalksVercelHistory(f, history, n)
<1> DEFINE T == {n \in Nat : \E f : WalksVercelHistory(f, history, n)}
<1>1. 0 \in T
  <2> DEFINE g == [k \in 0..0 |-> VercelStart]
  <2>1. WalksVercelHistory(g, history, 0)
    BY DEF WalksVercelHistory
  <2> QED BY <2>1
<1>2. ASSUME NEW n \in Nat, n \in T PROVE n + 1 \in T
  <2>1. PICK f : WalksVercelHistory(f, history, n)
    BY <1>2
  <2> DEFINE g == [k \in 0..(n + 1) |-> IF k # n + 1 THEN f[k] ELSE VercelContent(f[n], history[k])]
  <2>2. \A k \in 0..n : f[k] = IF k = 0 THEN VercelStart ELSE VercelContent(f[k - 1], history[k])
    BY <2>1 DEF WalksVercelHistory
  <2>3. \A k \in 0..(n + 1) : k = n + 1 \/ k \in 0..n
    OBVIOUS
  <2>4. \A k \in 0..n : g[k] = f[k]
    OBVIOUS
  <2>5. \A k \in 1..(n + 1) : g[k - 1] = f[k - 1]
    BY <2>4
  <2>6. \A k \in 0..(n + 1) : g[k] = IF k = 0 THEN VercelStart ELSE VercelContent(g[k - 1], history[k])
    BY <2>2, <2>3, <2>4, <2>5
  <2>7. g = [k \in 0..(n + 1) |-> g[k]]
    OBVIOUS
  <2> HIDE DEF g
  <2>8. WalksVercelHistory(g, history, n + 1)
    BY <2>6, <2>7 DEF WalksVercelHistory
  <2> QED BY <2>8
<1> HIDE DEF T
<1>3. Nat \subseteq T
  BY <1>1, <1>2, SetInduction
<1> QED BY <1>3 DEF T

LEMMA VercelHistoryFacts ==
    ASSUME NEW history, IsSeq(history)
    PROVE  /\ VercelHistory(history)[0] = VercelStart
           /\ \A k \in 1..Len(history) :
                VercelHistory(history)[k] = VercelContent(VercelHistory(history)[k - 1], history[k])
<1> DEFINE f == CHOOSE g : WalksVercelHistory(g, history, Len(history))
<1>1. Len(history) \in Nat
  BY SeqFacts
<1>2. WalksVercelHistory(f, history, Len(history))
  BY <1>1, VercelHistoryExists
<1>3. VercelHistory(history) = f
  BY DEF VercelHistory, WalksVercelHistory
<1>4. \A k \in 0..Len(history) : f[k] = IF k = 0 THEN VercelStart ELSE VercelContent(f[k - 1], history[k])
  BY <1>2 DEF WalksVercelHistory
<1> HIDE DEF f
<1> QED BY <1>1, <1>3, <1>4

LEMMA VercelStartTracks == VercelTrack(VercelStart, {})
<1>1. /\ VercelStart = [failed |-> FALSE, messages |-> <<>>, parts |-> <<>>, item |-> NoItem,
                        tracker |-> NewTracker]
  BY DEF VercelStart
<1>2. HaveParts(<<>>) /\ TextIsBare(<<>>) /\ IsSeq(<<>>)
  BY NoSeq DEF HaveParts, TextIsBare
<1>3. VercelState(VercelStart)
  BY <1>1, <1>2 DEF VercelState
<1>4. MessageParts(<<>>) = <<>>
  <2> DEFINE s == [i \in DOMAIN <<>> |-> <<>>[i].parts]
  <2>1. s = <<>>
    OBVIOUS
  <2> QED BY <2>1, FlattenNone DEF MessageParts
<1>5. VercelSaid(VercelStart) = <<>>
  <2>1. <<>> \o <<>> = <<>>
    BY NoSeq, ConcatEmptySeq DEF IsSeq
  <2> QED BY <1>1, <1>4, <2>1 DEF VercelSaid
<1> QED BY <1>1, <1>3, <1>5, TracksStart DEF VercelTrack

LEMMA VercelContentTracks ==
    ASSUME NEW w, NEW S, VercelTrack(w, S), NEW content, IsSeq(content.parts), Fits(S, content.parts)
    PROVE  VercelTrack(VercelContent(w, content), S \cup ToSet(content.parts))
<1> DEFINE parts == content.parts
           role == VercelRole(content.role)
           L == Len(parts)
           W == VercelWalk(w, role, parts)
           T == {k \in Nat : k <= L => VercelTrack(W[k], Heard(S, parts, k + 1))}
<1>0. /\ L \in Nat /\ DOMAIN parts = 1..L
      /\ W[0] = w /\ \A k \in 1..L : W[k] = VercelPart(W[k - 1], role, parts[k])
      /\ Heard(S, parts, 1) = S /\ Heard(S, parts, L + 1) = S \cup ToSet(parts)
      /\ \A k \in 1..L : Heard(S, parts, k + 1) = Heard(S, parts, k) \cup {parts[k]}
  <2>0. IsSeq(parts)
    OBVIOUS
  <2> HIDE DEF parts, role
  <2>1. L \in Nat /\ DOMAIN parts = 1..L
    BY <2>0, SeqFacts
  <2>2. W[0] = w /\ \A k \in 1..L : W[k] = VercelPart(W[k - 1], role, parts[k])
    BY <2>0, VercelWalkFacts
  <2>3. Heard(S, parts, 1) = S
    BY <2>0, HeardFacts
  <2>4. Heard(S, parts, L + 1) = S \cup ToSet(parts)
    BY <2>0, HeardFacts
  <2>5. \A k \in 1..L : Heard(S, parts, k + 1) = Heard(S, parts, k) \cup {parts[k]}
    BY <2>0, HeardGrows
  <2> HIDE DEF W, L
  <2> QED BY <2>1, <2>2, <2>3, <2>4, <2>5
<1>1. 0 \in T
  BY <1>0
<1>2. ASSUME NEW k \in Nat, k \in T PROVE k + 1 \in T
  <2> SUFFICES ASSUME k + 1 <= L PROVE VercelTrack(W[k + 1], Heard(S, parts, (k + 1) + 1))
    OBVIOUS
  <2>1. k + 1 \in 1..L /\ (k + 1) - 1 = k /\ k <= L
    BY <1>0
  <2>2. VercelTrack(W[k], Heard(S, parts, k + 1)) /\ GoodNext(Heard(S, parts, k + 1), parts[k + 1])
    BY <1>0, <1>2, <2>1 DEF Fits
  <2>3. W[k + 1] = VercelPart(W[k], role, parts[k + 1])
    BY <1>0, <2>1
  <2>4. Heard(S, parts, (k + 1) + 1) = Heard(S, parts, k + 1) \cup {parts[k + 1]}
    BY <1>0, <2>1
  <2> HIDE DEF W, parts, role
  <2> QED BY <2>2, <2>3, <2>4, VercelPartTracks
<1>3. Nat \subseteq T
  <2> HIDE DEF T
  <2> QED BY <1>1, <1>2, SetInduction
<1>4. VercelTrack(W[L], S \cup ToSet(parts))
  <2>1. L \in T
    BY <1>0, <1>3
  <2>2. VercelTrack(W[L], Heard(S, parts, L + 1))
    BY <1>0, <2>1
  <2> HIDE DEF W, parts, role, L
  <2> QED BY <1>0, <2>2
<1>5. VercelContent(w, content) = CloseContent(W[L], role)
  BY DEF VercelContent
<1> HIDE DEF W, L, role, T
<1> QED BY <1>4, <1>5, VercelFlush DEF CloseContent

LEMMA VercelHistoryTracks ==
    ASSUME NEW history, Follows(history)
    PROVE  VercelTrack(VercelHistory(history)[Len(history)], AllParts(history))
<1> DEFINE H == VercelHistory(history)
           T == {k \in Nat : k <= Len(history) => VercelTrack(H[k], Past(history, k))}
<1>0. /\ IsSeq(history) /\ Len(history) \in Nat /\ DOMAIN history = 1..Len(history)
      /\ H[0] = VercelStart /\ \A k \in 1..Len(history) : H[k] = VercelContent(H[k - 1], history[k])
  BY SeqFacts, VercelHistoryFacts DEF Follows
<1>1. 0 \in T
  <2>1. Past(history, 0) = {}
    BY PastFacts
  <2> QED BY <1>0, <2>1, VercelStartTracks
<1>2. ASSUME NEW k \in Nat, k \in T PROVE k + 1 \in T
  <2> SUFFICES ASSUME k + 1 <= Len(history) PROVE VercelTrack(H[k + 1], Past(history, k + 1))
    OBVIOUS
  <2>1. k + 1 \in 1..Len(history) /\ (k + 1) - 1 = k /\ k <= Len(history)
    BY <1>0
  <2>2. H[k + 1] = VercelContent(H[k], history[k + 1])
    BY <1>0, <2>1
  <2>3. VercelTrack(H[k], Past(history, k))
    BY <1>0, <1>2, <2>1
  <2>4. IsSeq(history[k + 1].parts) /\ Fits(Past(history, k), history[k + 1].parts)
    BY <1>0, <2>1 DEF Follows
  <2>5. Past(history, k + 1) = Past(history, k) \cup ToSet(history[k + 1].parts)
    BY PastFacts
  <2> HIDE DEF H
  <2> QED BY <2>2, <2>3, <2>4, <2>5, VercelContentTracks
<1> HIDE DEF T
<1>3. Nat \subseteq T
  BY <1>1, <1>2, SetInduction
<1>4. Len(history) \in T
  BY <1>0, <1>3
<1> QED BY <1>0, <1>4, AllIsPast DEF T

\* What comes before does not depend on what follows.
LEMMA ReachesBefore ==
    ASSUME NEW s, IsSeq(s), NEW t, IsSeq(t), AllReach(s \o t)
    PROVE  AllReach(s)
<1> DEFINE a == s \o t
<1>1. /\ IsSeq(a) /\ Len(a) = Len(s) + Len(t) /\ Len(s) \in Nat /\ Len(t) \in Nat
      /\ \A i \in 1..Len(s) : a[i] = s[i]
  BY ConcatFacts, SeqFacts
<1>2. AllReach(a)
  OBVIOUS
<1> HIDE DEF a
<1>3. ASSUME NEW i \in 1..Len(s), IsResult(s[i]) PROVE ReachesItsCall(s, i)
  <2>1. i \in 1..Len(a) /\ a[i] = s[i]
    BY <1>1
  <2>2. ReachesItsCall(a, i)
    BY <1>2, <1>3, <2>1 DEF AllReach
  <2>3. \A j \in 1..(i - 1) : j \in 1..Len(s) /\ \A k \in (j + 1)..(i - 1) : k \in 1..Len(s)
    BY <1>1
  <2> QED BY <1>1, <2>1, <2>2, <2>3 DEF ReachesItsCall
<1> QED BY <1>3 DEF AllReach

LEMMA VercelPaired == Follows(contents) => Paired(VercelPieces)
<1> SUFFICES ASSUME Follows(contents) PROVE Paired(VercelPieces)
  OBVIOUS
<1> DEFINE w == VercelHistory(contents)[Len(contents)]
           S == AllParts(contents)
<1>1. VercelTrack(w, S)
  BY VercelHistoryTracks
<1>2. VercelPieces = IF ~w.failed /\ w.messages # <<>> THEN MessageParts(w.messages) ELSE <<>>
  BY DEF VercelPieces, Vercel, VercelPrompt, Prompt
<1> HIDE DEF w
<1>3. ~w.failed => AllReach(VercelSaid(w))
  BY <1>1 DEF VercelTrack, Tracks
<1>4. ~w.failed => AllReach(MessageParts(w.messages))
  <2>1. /\ IsSeq(MessageParts(w.messages)) /\ IsSeq(w.parts)
        /\ VercelSaid(w) = MessageParts(w.messages) \o w.parts
    BY <1>1, SaidIsSeq DEF VercelTrack, VercelState, VercelSaid
  <2> QED BY <1>3, <2>1, ReachesBefore
<1> QED BY <1>2, <1>4, ReachIsPaired, NoPieces

------------------------------------------------------------------------------
(* The messages of Chat Completions *)

LEMMA NothingBehind ==
    ASSUME NEW s, IsSeq(s)
    PROVE  s \o <<>> = s /\ <<>> \o s = s
BY ConcatEmptySeq DEF IsSeq

LEMMA OneBehind ==
    ASSUME NEW s, IsSeq(s), NEW x
    PROVE  s \o <<x>> = Append(s, x)
<1>1. s \in Seq(ToSet(s) \cup {x}) /\ x \in ToSet(s) \cup {x}
  BY SeqMonotonic DEF IsSeq
<1> DEFINE S == ToSet(s) \cup {x}
<1>2. s \in Seq(S) /\ x \in S
  BY <1>1
<1> HIDE DEF S
<1> QED BY <1>2, AppendIsConcat

LEMMA PiecesAreSeq ==
    ASSUME NEW m, HaveCalls(m)
    PROVE  IsSeq(ChatPieces(m)) /\ IsSeq(m)
<1> DEFINE x == [role |-> "tool"]
<1>1. IsSeq(ChatPiece(x))
  BY SingleFacts DEF ChatPiece
<1> HIDE DEF x
<1> QED BY <1>1, PiecesAppend DEF HaveCalls

LEMMA ChatFail ==
    ASSUME NEW w, ChatState(w)
    PROVE  ChatState([w EXCEPT !.failed = TRUE]) /\ [w EXCEPT !.failed = TRUE].failed
<1> DEFINE v == [w EXCEPT !.failed = TRUE]
<1>1. v = [w EXCEPT !.failed = TRUE]
  OBVIOUS
<1> HIDE DEF v
<1>2. v = [failed |-> TRUE, messages |-> w.messages, parts |-> w.parts,
           calls |-> w.calls, results |-> w.results, tracker |-> w.tracker]
  BY <1>1 DEF ChatState
<1>3. ChatState(v) /\ v.failed
  BY <1>2 DEF ChatState
<1> QED BY <1>3 DEF v

LEMMA ChatBecomes ==
    ASSUME NEW w, ChatState(w), NEW parts, IsSeq(parts), NEW calls, IsSeq(calls),
           NEW results, IsSeq(results), NEW t, t = [nextID |-> t.nextID, pending |-> t.pending],
           t.nextID \in Nat, IsSeq(t.pending),
           NEW v, v = [failed |-> w.failed, messages |-> w.messages, parts |-> parts,
                       calls |-> calls, results |-> results, tracker |-> t]
    PROVE  Became(v, w, parts, calls, results, t)
BY DEF Became, ChatState

LEMMA ChatCallTracks ==
    ASSUME NEW w, NEW S, NEW role, ChatReading(w, role, S), NEW p, ~w.failed,
           p.kind = "call", GoodCall(S, p), ~ChatRejects(role, p)
    PROVE  ChatReading(ChatPart(w, p), role, S \cup {p})
<1> DEFINE x == [id |-> CallID(w.tracker, p), of |-> <<p.n>>]
           t == TrackCall(w.tracker, p)
           v == ChatPart(w, p)
           C == Append(w.calls, x)
           A == ChatPieces(w.messages \o w.results)
<1>0. /\ ChatState(w) /\ OneSided(w, role) /\ HaveCalls(w.messages \o w.results)
      /\ Tracks(w.tracker, A \o w.calls, S) /\ role = "model"
      /\ IsSeq(w.parts) /\ IsSeq(w.calls) /\ IsSeq(w.results)
  BY DEF ChatReading, ChatSaid, ChatRejects, ChatState
<1>1. v = [[w EXCEPT !.calls = C] EXCEPT !.tracker = t]
  BY DEF ChatPart
<1>2. IsCall(x) /\ x.id = CallID(w.tracker, p) /\ x.of = <<p.n>>
  BY DEF IsCall, IsResult
<1> HIDE DEF x, t, A
<1>3. IsSeq(A) /\ IsSeq(C) /\ A \o C = Append(A \o w.calls, x)
  <2>1. IsSeq(A)
    BY <1>0, PiecesAreSeq DEF A
  <2>2. IsSeq(w.calls) /\ IsSeq(Append(w.calls, x))
    BY <1>0, AppendFacts
  <2>3. A \o Append(w.calls, x) = Append(A \o w.calls, x)
    BY <2>1, <2>2, ConcatAppend
  <2> QED BY <2>1, <2>2, <2>3
<1>4. Tracks(t, Append(A \o w.calls, x), S \cup {p})
  BY <1>0, <1>2, TracksCall DEF t
<1> HIDE DEF v, C
<1>5. v = [failed |-> w.failed, messages |-> w.messages, parts |-> w.parts,
           calls |-> C, results |-> w.results, tracker |-> t]
  BY <1>0, <1>1 DEF ChatState
<1>6. t = [nextID |-> t.nextID, pending |-> t.pending] /\ t.nextID \in Nat /\ IsSeq(t.pending)
  BY <1>4 DEF Tracks
<1>7. Became(v, w, w.parts, C, w.results, t)
  BY <1>0, <1>3, <1>5, <1>6, ChatBecomes
<1>8. ChatSaid(v) = A \o C
  BY <1>7 DEF ChatSaid, Became, A
<1>9. ChatReading(v, role, S \cup {p})
  BY <1>0, <1>3, <1>4, <1>7, <1>8 DEF ChatReading, OneSided, Became
<1> QED BY <1>9 DEF v

LEMMA ChatResultTracks ==
    ASSUME NEW w, NEW S, NEW role, ChatReading(w, role, S), NEW p, ~w.failed,
           p.kind = "result", GoodResult(S, p), ~ChatRejects(role, p)
    PROVE  ChatReading(ChatPart(w, p), role, S \cup {p})
<1> DEFINE x == [role |-> "tool", id |-> ResultID(w.tracker, p),
                 answers |-> p.answers, of |-> <<p.n>>]
           t == TrackResult(w.tracker, p)
           v == ChatPart(w, p)
           R == Append(w.results, x)
           M == w.messages \o w.results
           A == ChatPieces(M)
<1>0. /\ ChatState(w) /\ OneSided(w, role) /\ HaveCalls(M)
      /\ Tracks(w.tracker, A \o w.calls, S) /\ role # "model" /\ w.calls = <<>>
      /\ IsSeq(w.parts) /\ IsSeq(w.calls) /\ IsSeq(w.results) /\ IsSeq(w.messages)
  BY DEF ChatReading, ChatSaid, ChatRejects, ChatState, OneSided
<1>1. CASE Unpaired(w.tracker, p)
  <2>1. v = [w EXCEPT !.failed = TRUE]
    BY <1>1 DEF ChatPart
  <2> HIDE DEF v
  <2>2. ChatReading(v, role, S \cup {p})
    BY <1>0, <2>1, ChatFail DEF ChatReading
  <2> QED BY <2>2 DEF v
<1>2. CASE ~Unpaired(w.tracker, p)
  <2>1. v = [[w EXCEPT !.results = R] EXCEPT !.tracker = t]
    BY <1>2 DEF ChatPart
  <2>2. IsResult(x) /\ x.id = ResultID(w.tracker, p) /\ x.answers = p.answers /\ x.role = "tool"
    BY DEF IsResult
  <2> HIDE DEF x, t, A
  <2>3. A \o w.calls = A /\ IsSeq(A)
    BY <1>0, PiecesAreSeq, NothingBehind DEF A
  <2>4. Tracks(t, Append(A, x), S \cup {p})
    BY <1>0, <2>2, <2>3, TracksResult DEF t
  <2>5. w.messages \o R = Append(M, x) /\ IsSeq(R)
    <3>1. IsSeq(w.messages) /\ IsSeq(w.results)
      BY <1>0
    <3>2. IsSeq(R)
      BY <3>1, AppendFacts
    <3> DEFINE m == w.messages
               r == w.results
    <3> HIDE DEF m, r
    <3>3. m \o Append(r, x) = Append(m \o r, x)
      <4>1. IsSeq(m) /\ IsSeq(r)
        BY <3>1 DEF m, r
      <4> QED BY ONLY <4>1, ConcatAppend
    <3> QED BY <3>2, <3>3 DEF m, r
  <2>6. HaveCalls(Append(M, x)) /\ ChatPieces(Append(M, x)) = Append(A, x)
    <3>1. ChatPiece(x) = <<x>> /\ IsSeq(ChatPiece(x))
      BY <2>2, SingleFacts DEF ChatPiece
    <3> HIDE DEF M
    <3>2. HaveCalls(Append(M, x)) /\ ChatPieces(Append(M, x)) = A \o <<x>>
      BY <1>0, <3>1, PiecesAppend DEF A
    <3> QED BY <2>3, <3>2, OneBehind
  <2> HIDE DEF v, R
  <2>7. v = [failed |-> w.failed, messages |-> w.messages, parts |-> w.parts,
             calls |-> w.calls, results |-> R, tracker |-> t]
    BY <1>0, <2>1 DEF ChatState
  <2>8. t = [nextID |-> t.nextID, pending |-> t.pending] /\ t.nextID \in Nat /\ IsSeq(t.pending)
    BY <2>4 DEF Tracks
  <2>9. Became(v, w, w.parts, w.calls, R, t)
    BY <1>0, <2>5, <2>7, <2>8, ChatBecomes
  <2>10. v.messages \o v.results = Append(M, x)
    BY <2>5, <2>9 DEF Became
  <2> HIDE DEF M
  <2>11. IsSeq(Append(A, x)) /\ v.calls = <<>>
    BY <1>0, <2>3, <2>9, AppendFacts DEF Became
  <2>12. ChatSaid(v) = Append(A, x)
    BY <2>6, <2>10, <2>11, NothingBehind DEF ChatSaid
  <2>13. ChatReading(v, role, S \cup {p})
    BY <1>0, <2>4, <2>6, <2>9, <2>10, <2>11, <2>12 DEF ChatReading, OneSided, Became
  <2> QED BY <2>13 DEF v
<1> QED BY <1>1, <1>2

LEMMA ChatPartTracks ==
    ASSUME NEW w, NEW S, NEW role, ChatReading(w, role, S), NEW p, GoodNext(S, p),
           ~ChatRejects(role, p)
    PROVE  ChatReading(ChatPart(w, p), role, S \cup {p})
<1> DEFINE v == ChatPart(w, p)
<1>0. /\ ChatState(w) /\ p.kind \in Kinds
      /\ p.kind = "call" => GoodCall(S, p)
      /\ p.kind = "result" => GoodResult(S, p)
  BY DEF ChatReading, GoodNext
<1>1. CASE w.failed
  <2>1. ChatPart(w, p) = w
    BY <1>1 DEF ChatPart
  <2> QED BY <1>1, <2>1 DEF ChatReading
<1>2. CASE ~w.failed /\ p.kind = "call"
  BY <1>0, <1>2, ChatCallTracks
<1>3. CASE ~w.failed /\ p.kind = "result"
  BY <1>0, <1>3, ChatResultTracks
<1>4. CASE ~w.failed /\ p.kind \notin {"call", "result"}
  <2>1. v = [w EXCEPT !.parts = Append(w.parts, p)]
    BY <1>4 DEF ChatPart
  <2> HIDE DEF v
  <2>2. v = [failed |-> w.failed, messages |-> w.messages, parts |-> Append(w.parts, p),
             calls |-> w.calls, results |-> w.results, tracker |-> w.tracker]
    BY <1>0, <2>1 DEF ChatState
  <2>3. IsSeq(Append(w.parts, p))
    BY <1>0, AppendFacts DEF ChatState
  <2>4. Became(v, w, Append(w.parts, p), w.calls, w.results, w.tracker)
    BY <1>0, <2>2, <2>3, ChatBecomes DEF ChatState
  <2>5. ChatSaid(v) = ChatSaid(w)
    BY <2>4 DEF ChatSaid, Became
  <2>6. OneSided(w, role) /\ HaveCalls(w.messages \o w.results) /\ Tracks(w.tracker, ChatSaid(w), S)
    BY <1>4 DEF ChatReading
  <2>7. Tracks(w.tracker, ChatSaid(w), S \cup {p})
    BY <1>4, <2>6, TracksOther
  <2>8. ChatReading(v, role, S \cup {p})
    BY <2>4, <2>5, <2>6, <2>7 DEF ChatReading, Became, OneSided
  <2> QED BY <2>8 DEF v
<1> QED BY <1>1, <1>2, <1>3, <1>4

\* The content's parts are read.
LEMMA ChatWalkTracks ==
    ASSUME NEW w, NEW S, NEW role, ChatReading(w, role, S), NEW parts, IsSeq(parts),
           Fits(S, parts), \A i \in DOMAIN parts : ~ChatRejects(role, parts[i])
    PROVE  ChatReading(ChatWalk(w, parts)[Len(parts)], role, S \cup ToSet(parts))
<1> DEFINE L == Len(parts)
           W == ChatWalk(w, parts)
           T == {k \in Nat : k <= L => ChatReading(W[k], role, Heard(S, parts, k + 1))}
<1>0. /\ L \in Nat /\ DOMAIN parts = 1..L
      /\ W[0] = w /\ \A k \in 1..L : W[k] = ChatPart(W[k - 1], parts[k])
      /\ Heard(S, parts, 1) = S /\ Heard(S, parts, L + 1) = S \cup ToSet(parts)
      /\ \A k \in 1..L : Heard(S, parts, k + 1) = Heard(S, parts, k) \cup {parts[k]}
  <2>1. L \in Nat /\ DOMAIN parts = 1..L
    BY SeqFacts
  <2>2. W[0] = w /\ \A k \in 1..L : W[k] = ChatPart(W[k - 1], parts[k])
    BY ChatWalkFacts
  <2>3. Heard(S, parts, 1) = S
    BY HeardFacts
  <2>4. Heard(S, parts, L + 1) = S \cup ToSet(parts)
    BY HeardFacts
  <2>5. \A k \in 1..L : Heard(S, parts, k + 1) = Heard(S, parts, k) \cup {parts[k]}
    BY HeardGrows
  <2> HIDE DEF W, L
  <2> QED BY <2>1, <2>2, <2>3, <2>4, <2>5
<1>1. 0 \in T
  BY <1>0
<1>2. ASSUME NEW k \in Nat, k \in T PROVE k + 1 \in T
  <2> SUFFICES ASSUME k + 1 <= L PROVE ChatReading(W[k + 1], role, Heard(S, parts, (k + 1) + 1))
    OBVIOUS
  <2>1. k + 1 \in 1..L /\ (k + 1) - 1 = k /\ k <= L
    BY <1>0
  <2>2. /\ ChatReading(W[k], role, Heard(S, parts, k + 1))
        /\ GoodNext(Heard(S, parts, k + 1), parts[k + 1]) /\ ~ChatRejects(role, parts[k + 1])
    BY <1>0, <1>2, <2>1 DEF Fits
  <2>3. W[k + 1] = ChatPart(W[k], parts[k + 1])
    BY <1>0, <2>1
  <2>4. Heard(S, parts, (k + 1) + 1) = Heard(S, parts, k + 1) \cup {parts[k + 1]}
    BY <1>0, <2>1
  <2> HIDE DEF W
  <2> QED BY <2>2, <2>3, <2>4, ChatPartTracks
<1>3. Nat \subseteq T
  <2> HIDE DEF T
  <2> QED BY <1>1, <1>2, SetInduction
<1>4. ChatReading(W[L], role, S \cup ToSet(parts))
  <2>1. L \in T
    BY <1>0, <1>3
  <2>2. ChatReading(W[L], role, Heard(S, parts, L + 1))
    BY <1>0, <2>1
  <2> HIDE DEF W, L
  <2> QED BY <1>0, <2>2
<1> QED BY <1>4

\* Its calls and results become messages where they are.
LEMMA ChatMessageTracks ==
    ASSUME NEW w, NEW S, NEW role, ChatReading(w, role, S)
    PROVE  ChatTrack(ChatMessage(w, role), S)
<1> DEFINE m == [role |-> IF role = "model" THEN "assistant" ELSE "user",
                 calls |-> w.calls, media |-> OfKind(w.parts, "media") # <<>>,
                 of |-> Numbers(w.parts)]
           v == ChatMessage(w, role)
           a == [w EXCEPT !.messages = w.messages \o w.results]
           b == [w EXCEPT !.messages = Append(w.messages, m)]
           f == [w EXCEPT !.failed = TRUE]
<1>0. /\ ChatState(w) /\ IsSeq(w.messages) /\ IsSeq(w.results) /\ IsSeq(w.calls)
      /\ ~w.failed => /\ HaveCalls(w.messages \o w.results)
                      /\ Tracks(w.tracker, ChatPieces(w.messages \o w.results) \o w.calls, S)
  BY DEF ChatReading, ChatState, ChatSaid
<1>1. /\ w.results # <<>> => v = f \/ (v = a /\ w.calls = <<>>)
      /\ w.results = <<>> => (v = w /\ w.calls = <<>>) \/ v = f \/ v = b
  BY DEF ChatMessage
<1>2. IsSeq(w.messages \o w.results)
  BY <1>0, ConcatFacts
<1>3. ~w.failed => IsSeq(ChatPieces(w.messages \o w.results))
  BY <1>0, PiecesAreSeq
<1>4. ChatPiece(m) = w.calls
  BY DEF ChatPiece
<1>5. ChatTrack(f, S)
  BY <1>0, ChatFail DEF ChatTrack
<1>6. ASSUME w.results = <<>>, w.calls = <<>> PROVE ChatTrack(w, S)
  <2>1. w.messages \o w.results = w.messages
    BY <1>0, <1>6, NothingBehind
  <2>2. ~w.failed => ChatPieces(w.messages) \o w.calls = ChatPieces(w.messages)
    BY <1>3, <1>6, <2>1, NothingBehind
  <2> QED BY <1>0, <2>1, <2>2 DEF ChatTrack
<1>7. ASSUME w.calls = <<>> PROVE ChatTrack(a, S)
  <2>1. a = [w EXCEPT !.messages = w.messages \o w.results]
    OBVIOUS
  <2> HIDE DEF a
  <2>2. a = [failed |-> w.failed, messages |-> w.messages \o w.results, parts |-> w.parts,
             calls |-> w.calls, results |-> w.results, tracker |-> w.tracker]
    BY <1>0, <2>1 DEF ChatState
  <2>3. ~w.failed => ChatPieces(w.messages \o w.results) \o w.calls
                       = ChatPieces(w.messages \o w.results)
    BY <1>3, <1>7, NothingBehind
  <2>4. ChatState(a)
    BY <1>0, <1>2, <2>2 DEF ChatState
  <2>5. a.failed = w.failed /\ a.messages = w.messages \o w.results /\ a.tracker = w.tracker
    BY <2>2
  <2> QED BY <1>0, <2>3, <2>4, <2>5 DEF ChatTrack
<1>8. ASSUME w.results = <<>> PROVE ChatTrack(b, S)
  <2>1. b = [w EXCEPT !.messages = Append(w.messages, m)]
    OBVIOUS
  <2> HIDE DEF b, m
  <2>2. b = [failed |-> w.failed, messages |-> Append(w.messages, m), parts |-> w.parts,
             calls |-> w.calls, results |-> w.results, tracker |-> w.tracker]
    BY <1>0, <2>1 DEF ChatState
  <2>3. w.messages \o w.results = w.messages
    BY <1>0, <1>8, NothingBehind
  <2>4. ~w.failed => /\ HaveCalls(Append(w.messages, m))
                     /\ ChatPieces(Append(w.messages, m)) = ChatPieces(w.messages) \o w.calls
    BY <1>0, <1>4, <2>3, PiecesAppend
  <2>5. ChatState(b)
    <3>1. IsSeq(Append(w.messages, m))
      BY <1>0, AppendFacts
    <3> QED BY <1>0, <2>2, <3>1 DEF ChatState
  <2>6. b.failed = w.failed /\ b.messages = Append(w.messages, m) /\ b.tracker = w.tracker
    BY <2>2
  <2> QED BY <1>0, <2>3, <2>4, <2>5, <2>6 DEF ChatTrack
<1> HIDE DEF v, a, b, f
<1>9. ChatTrack(v, S)
  BY <1>1, <1>5, <1>6, <1>7, <1>8
<1> QED BY <1>9 DEF v

LEMMA ChatContentTracks ==
    ASSUME NEW w, NEW S, ChatTrack(w, S), NEW content, IsSeq(content.parts),
           Fits(S, content.parts)
    PROVE  ChatTrack(ChatContent(w, content), S \cup ToSet(content.parts))
<1> DEFINE opened == [w EXCEPT !.parts = <<>>, !.calls = <<>>, !.results = <<>>]
           walked == ChatWalk(opened, content.parts)[Len(content.parts)]
           refused == \/ w.failed
                      \/ content.role = "model" /\ w.tracker.pending # <<>>
                      \/ \E i \in DOMAIN content.parts : ChatRejects(content.role, content.parts[i])
           D == S \cup ToSet(content.parts)
<1>0. ChatContent(w, content) =
        IF refused THEN [w EXCEPT !.failed = TRUE]
        ELSE IF walked.failed THEN walked ELSE ChatMessage(walked, content.role)
  BY DEF ChatContent
<1>1. ChatState(w) /\ IsSeq(w.messages)
  BY DEF ChatTrack, ChatState
<1>2. opened = [failed |-> w.failed, messages |-> w.messages, parts |-> <<>>, calls |-> <<>>,
                results |-> <<>>, tracker |-> w.tracker]
  <2>1. opened = [w EXCEPT !.parts = <<>>, !.calls = <<>>, !.results = <<>>]
    OBVIOUS
  <2> HIDE DEF opened
  <2> QED BY <1>1, <2>1 DEF ChatState
<1> HIDE DEF opened
<1>3. ChatState(opened) /\ opened.failed = w.failed /\ opened.calls = <<>> /\ opened.results = <<>>
      /\ opened.messages = w.messages /\ opened.tracker = w.tracker
  BY <1>1, <1>2, NoSeq DEF ChatState
<1>4. ChatReading(opened, content.role, S)
  <2> SUFFICES ASSUME ~w.failed
               PROVE  /\ OneSided(opened, content.role)
                      /\ HaveCalls(opened.messages \o opened.results)
                      /\ Tracks(opened.tracker, ChatSaid(opened), S)
    BY <1>3 DEF ChatReading
  <2>1. HaveCalls(w.messages) /\ Tracks(w.tracker, ChatPieces(w.messages), S)
    BY DEF ChatTrack
  <2>2. opened.messages \o opened.results = w.messages
    BY <1>1, <1>3, NothingBehind
  <2>3. ChatSaid(opened) = ChatPieces(w.messages)
    BY <1>3, <2>1, <2>2, PiecesAreSeq, NothingBehind DEF ChatSaid
  <2> QED BY <1>3, <2>1, <2>2, <2>3 DEF OneSided
<1>5. ASSUME ~refused PROVE ChatReading(walked, content.role, D)
  BY <1>4, <1>5, ChatWalkTracks
<1> HIDE DEF walked, D, refused
<1>6. ASSUME ~refused PROVE ChatTrack(ChatContent(w, content), D)
  <2>1. ChatReading(walked, content.role, D)
    BY <1>5, <1>6
  <2>2. walked.failed => ChatTrack(walked, D)
    BY <2>1 DEF ChatReading, ChatTrack
  <2>3. ChatTrack(ChatMessage(walked, content.role), D)
    BY <2>1, ChatMessageTracks
  <2> QED BY <1>0, <1>6, <2>2, <2>3
<1>7. ASSUME refused PROVE ChatTrack(ChatContent(w, content), D)
  BY <1>0, <1>1, <1>7, ChatFail DEF ChatTrack
<1> QED BY <1>6, <1>7 DEF D

LEMMA ChatStartTracks == ChatTrack(ChatStart, {})
<1>1. ChatStart = [failed |-> FALSE, messages |-> <<>>, parts |-> <<>>, calls |-> <<>>,
                   results |-> <<>>, tracker |-> NewTracker]
  BY DEF ChatStart
<1>2. HaveCalls(<<>>) /\ IsSeq(<<>>)
  BY NoSeq DEF HaveCalls
<1>3. NewTracker = [nextID |-> 0, pending |-> <<>>]
  BY DEF NewTracker
<1>4. ChatState(ChatStart)
  BY <1>1, <1>2, <1>3 DEF ChatState
<1>5. ChatPieces(<<>>) = <<>>
  <2> DEFINE s == [i \in DOMAIN <<>> |-> IF <<>>[i].role = "tool" THEN <<<<>>[i]>> ELSE <<>>[i].calls]
  <2>1. s = <<>>
    OBVIOUS
  <2> QED BY <2>1, FlattenNone DEF ChatPieces
<1> QED BY <1>1, <1>2, <1>4, <1>5, TracksStart DEF ChatTrack

LEMMA ChatHistoryTracks ==
    ASSUME NEW history, Follows(history)
    PROVE  ChatTrack(ChatHistory(history)[Len(history)], AllParts(history))
<1> DEFINE H == ChatHistory(history)
           T == {k \in Nat : k <= Len(history) => ChatTrack(H[k], Past(history, k))}
<1>0. /\ IsSeq(history) /\ Len(history) \in Nat /\ DOMAIN history = 1..Len(history)
      /\ H[0] = ChatStart /\ \A k \in 1..Len(history) : H[k] = ChatContent(H[k - 1], history[k])
  BY SeqFacts, ChatHistoryFacts DEF Follows
<1>1. 0 \in T
  <2>1. Past(history, 0) = {}
    BY PastFacts
  <2> QED BY <1>0, <2>1, ChatStartTracks
<1>2. ASSUME NEW k \in Nat, k \in T PROVE k + 1 \in T
  <2> SUFFICES ASSUME k + 1 <= Len(history) PROVE ChatTrack(H[k + 1], Past(history, k + 1))
    OBVIOUS
  <2>1. k + 1 \in 1..Len(history) /\ (k + 1) - 1 = k /\ k <= Len(history)
    BY <1>0
  <2>2. H[k + 1] = ChatContent(H[k], history[k + 1])
    BY <1>0, <2>1
  <2>3. ChatTrack(H[k], Past(history, k))
    BY <1>0, <1>2, <2>1
  <2>4. IsSeq(history[k + 1].parts) /\ Fits(Past(history, k), history[k + 1].parts)
    BY <1>0, <2>1 DEF Follows
  <2>5. Past(history, k + 1) = Past(history, k) \cup ToSet(history[k + 1].parts)
    BY PastFacts
  <2> HIDE DEF H
  <2> QED BY <2>2, <2>3, <2>4, <2>5, ChatContentTracks
<1> HIDE DEF T
<1>3. Nat \subseteq T
  BY <1>1, <1>2, SetInduction
<1>4. Len(history) \in T
  BY <1>0, <1>3
<1> QED BY <1>0, <1>4, AllIsPast DEF T

LEMMA ChatIsPaired ==
    Follows(contents) =>
        \A chat \in {Chat} : chat.ok => Paired(ChatPieces(chat.messages))
<1> SUFFICES ASSUME Follows(contents), Chat.ok PROVE Paired(ChatPieces(Chat.messages))
  OBVIOUS
<1> DEFINE w == ChatHistory(contents)[Len(contents)]
<1>1. ChatTrack(w, AllParts(contents))
  BY ChatHistoryTracks
<1>2. Chat.messages = w.messages /\ ~w.failed
  BY DEF Chat, ChatMessages
<1> HIDE DEF w
<1>3. AllReach(ChatPieces(w.messages))
  BY <1>1, <1>2 DEF ChatTrack, Tracks
<1> QED BY <1>2, <1>3, ReachIsPaired

------------------------------------------------------------------------------
(* Anthropic, which makes no ids up: the ids of the history are the wire's *)

LEMMA LinksBare ==
    ASSUME NEW P, NEW S, Links(P, S), NEW x, Bare(x)
    PROVE  Links(Append(P, x), S)
<1>1. AllReach(P) /\ IsSeq(P)
  BY DEF Links, AllReach
<1>2. "id" \notin DOMAIN x /\ ~IsResult(x)
  BY DEF Bare, IsResult
<1>3. AllReach(Append(P, x))
  BY <1>1, <1>2, AppendReaches
<1>4. \A c \in OpenIn(S) : c.id # NoId => Linked(Append(P, x), c.id, c.n)
  <2> SUFFICES ASSUME NEW c \in OpenIn(S), c.id # NoId PROVE Linked(Append(P, x), c.id, c.n)
    OBVIOUS
  <2>1. Linked(P, c.id, c.n)
    BY DEF Links
  <2> QED BY <1>1, <1>2, <2>1, LinkedStays
<1>5. \A c, d \in OpenIn(S) : c.id # NoId /\ c.id = d.id => c = d
  BY DEF Links
<1> HIDE DEF Links
<1> QED BY <1>3, <1>4, <1>5 DEF Links

LEMMA LinksOther ==
    ASSUME NEW P, NEW S, Links(P, S), NEW p, p.kind # "call", p.kind # "result"
    PROVE  Links(P, S \cup {p})
BY OtherOpens DEF Links

LEMMA LinksCall ==
    ASSUME NEW P, NEW S, Links(P, S), NEW p, p.kind = "call", GoodCall(S, p),
           NEW x, IsCall(x), x.id = p.id, x.of = <<p.n>>
    PROVE  Links(Append(P, x), S \cup {p})
<1> DEFINE D == S \cup {p}
<1>1. AllReach(P) /\ IsSeq(P) /\ ~IsResult(x)
  BY DEF Links, AllReach, IsCall
<1>2. AllReach(Append(P, x))
  BY <1>1, AppendReaches
<1>3. \A c \in OpenIn(D) : c = p \/ c \in OpenIn(S)
  BY DEF OpenIn
<1>4. \A c \in OpenIn(S) : p.id # NoId => c.id # p.id
  BY DEF GoodCall
<1> HIDE DEF D
<1>5. \A c \in OpenIn(D) : c.id # NoId => Linked(Append(P, x), c.id, c.n)
  <2> SUFFICES ASSUME NEW c \in OpenIn(D), c.id # NoId PROVE Linked(Append(P, x), c.id, c.n)
    OBVIOUS
  <2>1. CASE c = p
    <3>1. Linked(Append(P, x), x.id, p.n)
      BY <1>1, LinkedByCall
    <3> QED BY <2>1, <3>1
  <2>2. CASE c \in OpenIn(S)
    <3>1. Linked(P, c.id, c.n)
      BY <2>2 DEF Links
    <3>2. x.id # c.id
      BY <1>4, <2>2
    <3> QED BY <1>1, <3>1, <3>2, LinkedStays
  <2> QED BY <1>3, <2>1, <2>2
<1>6. \A c, d \in OpenIn(D) : c.id # NoId /\ c.id = d.id => c = d
  <2> SUFFICES ASSUME NEW c \in OpenIn(D), NEW d \in OpenIn(D), c.id # NoId, c.id = d.id
               PROVE  c = d
    OBVIOUS
  <2>1. c \in OpenIn(S) /\ d \in OpenIn(S) => c = d
    BY DEF Links
  <2> QED BY <1>3, <1>4, <2>1
<1>7. Links(Append(P, x), D)
  BY <1>2, <1>5, <1>6 DEF Links
<1> QED BY <1>7 DEF D

LEMMA LinksResult ==
    ASSUME NEW P, NEW S, Links(P, S), NEW p, p.kind = "result", GoodResult(S, p), p.id # NoId,
           NEW x, IsResult(x), x.id = p.id, x.answers = p.answers
    PROVE  Links(Append(P, x), S \cup {p})
<1> DEFINE D == S \cup {p}
<1>1. AllReach(P) /\ IsSeq(P)
  BY DEF Links, AllReach
<1>2. PICK a \in OpenIn(S) : a.n = p.answers /\ a.id = p.id
  BY DEF GoodResult
<1>3. Linked(P, x.id, x.answers)
  BY <1>2 DEF Links
<1>4. AllReach(Append(P, x))
  BY <1>1, <1>3, AppendReaches
<1>5. \A c \in OpenIn(D) : c \in OpenIn(S) /\ c.n # p.answers
  BY DEF OpenIn
<1> HIDE DEF D
<1>6. \A c \in OpenIn(D) : c.id # NoId => Linked(Append(P, x), c.id, c.n)
  <2> SUFFICES ASSUME NEW c \in OpenIn(D), c.id # NoId PROVE Linked(Append(P, x), c.id, c.n)
    OBVIOUS
  <2>1. c \in OpenIn(S) /\ Linked(P, c.id, c.n)
    BY <1>5 DEF Links
  <2>2. x.id # c.id
    <3>1. SUFFICES ASSUME c.id = a.id PROVE FALSE
      BY <1>2
    <3>2. c = a
      BY <1>2, <2>1, <3>1 DEF Links
    <3> QED BY <1>2, <1>5, <3>2
  <2> QED BY <1>1, <2>1, <2>2, LinkedStays
<1>7. \A c, d \in OpenIn(D) : c.id # NoId /\ c.id = d.id => c = d
  BY <1>5 DEF Links
<1>8. Links(Append(P, x), D)
  BY <1>4, <1>6, <1>7 DEF Links
<1> QED BY <1>8 DEF D

\* What the adapter makes of one part.
LEMMA LinksPart ==
    ASSUME NEW P, NEW S, Links(P, S), NEW content, NEW p, GoodNext(S, p), ~Unsupported(p)
    PROVE  Links(IF Sendable(content, p) THEN Append(P, Block(p)) ELSE P, S \cup {p})
<1>1. CASE p.kind = "call"
  <2> DEFINE x == Block(p)
  <2>1. x = [type |-> "tool_use", id |-> p.id, name |-> p.name, of |-> <<p.n>>]
    BY <1>1 DEF Block
  <2>2. Sendable(content, p) /\ GoodCall(S, p)
    BY <1>1 DEF Sendable, GoodNext
  <2> HIDE DEF x
  <2>3. IsCall(x) /\ x.id = p.id /\ x.of = <<p.n>>
    BY <2>1 DEF IsCall, IsResult
  <2>4. Links(Append(P, x), S \cup {p})
    BY <1>1, <2>2, <2>3, LinksCall
  <2> QED BY <2>2, <2>4 DEF x
<1>2. CASE p.kind = "result"
  <2> DEFINE x == Block(p)
  <2>1. x = [type |-> "tool_result", id |-> p.id, answers |-> p.answers,
             content |-> "result", of |-> <<p.n>>]
    BY <1>2 DEF Block
  <2>2. Sendable(content, p) /\ GoodResult(S, p) /\ p.id # NoId
    BY <1>2 DEF Sendable, GoodNext, Unsupported
  <2> HIDE DEF x
  <2>3. IsResult(x) /\ x.id = p.id /\ x.answers = p.answers
    BY <2>1 DEF IsResult
  <2>4. Links(Append(P, x), S \cup {p})
    BY <1>2, <2>2, <2>3, LinksResult
  <2> QED BY <2>2, <2>4 DEF x
<1>3. CASE p.kind # "call" /\ p.kind # "result"
  <2>1. Bare(Block(p))
    BY <1>3 DEF Block, Bare, GoodNext, Kinds
  <2>2. Links(P, S \cup {p})
    BY <1>3, LinksOther
  <2>3. Links(Append(P, Block(p)), S \cup {p})
    BY <2>1, <2>2, LinksBare
  <2> QED BY <2>2, <2>3
<1> QED BY <1>1, <1>2, <1>3

\* What it makes of a content.
LEMMA LinksContent ==
    ASSUME NEW B, NEW S, Links(B, S), NEW content, IsSeq(content.parts),
           Fits(S, content.parts), \A q \in DOMAIN content.parts : ~Unsupported(content.parts[q])
    PROVE  /\ IsSeq(Blocks(content))
           /\ Links(B \o Blocks(content), S \cup ToSet(content.parts))
<1> DEFINE parts == content.parts
           L == Len(parts)
           W == BlocksUpTo(content)
           T == {k \in Nat : k <= L =>
                    IsSeq(W[k]) /\ Links(B \o W[k], Heard(S, parts, k + 1))}
<1>0. /\ L \in Nat /\ DOMAIN parts = 1..L
      /\ IsSeq(B)
      /\ W[0] = <<>>
      /\ \A k \in 1..L : W[k] = IF Sendable(content, parts[k])
                                THEN Append(W[k - 1], Block(parts[k])) ELSE W[k - 1]
  <2>1. L \in Nat /\ DOMAIN parts = 1..L
    BY SeqFacts
  <2>2. IsSeq(B)
    BY DEF Links, AllReach
  <2> QED BY <2>1, <2>2, BlocksUpToFacts
<1>0a. /\ Heard(S, parts, 1) = S /\ Heard(S, parts, L + 1) = S \cup ToSet(parts)
       /\ \A k \in 1..L : Heard(S, parts, k + 1) = Heard(S, parts, k) \cup {parts[k]}
  <2>3. Heard(S, parts, 1) = S
    BY HeardFacts
  <2>4. Heard(S, parts, L + 1) = S \cup ToSet(parts)
    BY HeardFacts
  <2>5. \A k \in 1..L : Heard(S, parts, k + 1) = Heard(S, parts, k) \cup {parts[k]}
    BY HeardGrows
  <2> QED BY <2>3, <2>4, <2>5
<1>1. 0 \in T
  <2>1. B \o <<>> = B /\ IsSeq(<<>>)
    BY <1>0, NothingBehind, NoSeq
  <2>2. IsSeq(W[0]) /\ Links(B \o W[0], Heard(S, parts, 0 + 1))
    BY <1>0, <1>0a, <2>1
  <2> HIDE DEF W
  <2> QED BY <2>2
<1>2. ASSUME NEW k \in Nat, k \in T PROVE k + 1 \in T
  <2> SUFFICES ASSUME k + 1 <= L
               PROVE  IsSeq(W[k + 1]) /\ Links(B \o W[k + 1], Heard(S, parts, (k + 1) + 1))
    OBVIOUS
  <2>1. k + 1 \in 1..L /\ (k + 1) - 1 = k /\ k <= L
    BY <1>0
  <2> DEFINE w == W[k]
             p == parts[k + 1]
             A == Heard(S, parts, k + 1)
  <2>2. IsSeq(w) /\ Links(B \o w, A)
    BY <1>2, <2>1
  <2>3. GoodNext(A, p) /\ ~Unsupported(p)
    BY <1>0, <2>1 DEF Fits
  <2>4. W[k + 1] = IF Sendable(content, p) THEN Append(w, Block(p)) ELSE w
    BY <1>0, <2>1
  <2>5. Heard(S, parts, (k + 1) + 1) = A \cup {p}
    BY <1>0a, <2>1
  <2> HIDE DEF w, p, A, W, parts, L, T
  <2>6. Links(IF Sendable(content, p) THEN Append(B \o w, Block(p)) ELSE B \o w, A \cup {p})
    BY <2>2, <2>3, LinksPart
  <2>7. B \o Append(w, Block(p)) = Append(B \o w, Block(p)) /\ IsSeq(Append(w, Block(p)))
    BY <1>0, <2>2, ConcatAppend, AppendFacts
  <2>8. IsSeq(W[k + 1])
    BY <2>2, <2>4, <2>7
  <2>9. Links(B \o W[k + 1], A \cup {p})
    <3>1. CASE Sendable(content, p)
      BY <2>4, <2>6, <2>7, <3>1
    <3>2. CASE ~Sendable(content, p)
      BY <2>4, <2>6, <3>2
    <3> QED BY <3>1, <3>2
  <2> QED BY <2>5, <2>8, <2>9
<1>3. Nat \subseteq T
  <2> HIDE DEF T
  <2> QED BY <1>1, <1>2, SetInduction
<1>4. L \in T
  BY <1>0, <1>3
<1>5. Blocks(content) = W[L]
  BY DEF Blocks
<1>6. IsSeq(W[L]) /\ Links(B \o W[L], Heard(S, parts, L + 1))
  BY <1>0, <1>4
<1> HIDE DEF W, L, T
<1> QED BY <1>0a, <1>5, <1>6

LEMMA ConcatTwice ==
    ASSUME NEW s, IsSeq(s), NEW t, IsSeq(t), NEW u, IsSeq(u)
    PROVE  (s \o t) \o u = s \o (t \o u)
<1> DEFINE S == ToSet(s) \cup ToSet(t) \cup ToSet(u)
<1>1. s \in Seq(S) /\ t \in Seq(S) /\ u \in Seq(S)
  BY SeqMonotonic DEF IsSeq
<1> HIDE DEF S
<1> QED BY <1>1, ConcatAssociative

\* A sequence is what is before its last element, and that element.
LEMMA LastSplit ==
    ASSUME NEW s, IsSeq(s), s # <<>>
    PROVE  \E f : /\ IsSeq(f) /\ s = Append(f, s[Len(s)])
                  /\ \A i \in 1..Len(f) : f[i] = s[i] /\ i \in 1..Len(s)
                  /\ \A e : [s EXCEPT ![Len(s)] = e] = Append(f, e)
<1> DEFINE L == Len(s)
           f == [i \in 1..(L - 1) |-> s[i]]
<1>1. L \in Nat /\ L >= 1 /\ DOMAIN s = 1..L
  BY SeqFacts
<1>2. IsSeq(f) /\ Len(f) = L - 1 /\ \A i \in 1..(L - 1) : f[i] = s[i]
  <2> DEFINE R == {s[i] : i \in 1..L}
  <2>1. f \in [1..(L - 1) -> R] /\ L - 1 \in Nat
    BY <1>1
  <2>2. f \in Seq(R) /\ Len(f) = L - 1
    BY <2>1, SeqDef, LenProperties
  <2>3. IsSeq(f)
    BY <2>2, AnySeq
  <2> QED BY <2>2, <2>3
<1> HIDE DEF f
<1>3. \A e : [s EXCEPT ![L] = e] = Append(f, e)
  <2> SUFFICES ASSUME NEW e PROVE [s EXCEPT ![L] = e] = Append(f, e)
    OBVIOUS
  <2> DEFINE t == [s EXCEPT ![L] = e]
             n == Append(f, e)
  <2>1. t = [i \in 1..L |-> IF i = L THEN e ELSE s[i]]
    BY <1>1
  <2>2. t \in [1..L -> ToSet(s) \cup {e}]
    BY <1>1, <2>1 DEF ToSet
  <2>3. IsSeq(t) /\ Len(t) = L
    <3> HIDE DEF t
    <3>1. t \in Seq(ToSet(s) \cup {e}) /\ Len(t) = L
      BY <1>1, <2>2, SeqDef, LenProperties
    <3> QED BY <3>1, AnySeq
  <2>4. IsSeq(n) /\ Len(n) = Len(f) + 1 /\ n[Len(f) + 1] = e /\ \A i \in 1..Len(f) : n[i] = f[i]
    BY <1>2, AppendFacts
  <2>5. \A i \in 1..L : t[i] = IF i = L THEN e ELSE s[i]
    BY <2>1
  <2> HIDE DEF t, n, L
  <2>6. \A i \in 1..L : t[i] = n[i]
    <3>1. Len(f) + 1 = L /\ Len(f) = L - 1
      BY <1>1, <1>2
    <3>2. ASSUME NEW i \in 1..(L - 1) PROVE t[i] = n[i]
      <4>0. i \in 1..L /\ i # L
        BY <1>1
      <4>1. i \in 1..L /\ i # L /\ i \in 1..Len(f)
        BY <3>1, <4>0
      <4> QED BY <1>2, <2>4, <2>5, <4>1
    <3>3. t[L] = n[L]
      <4>1. n[L] = e
        BY <2>4, <3>1
      <4>2. L \in 1..L
        BY <1>1
      <4> QED BY <2>5, <4>1, <4>2
    <3> QED BY <1>1, <3>2, <3>3
  <2>7. t = n
    BY <1>1, <1>2, <2>3, <2>4, <2>6, SameSeq
  <2> QED BY <2>7 DEF t, n
<1>4. s = Append(f, s[L])
  <2>1. [s EXCEPT ![L] = s[L]] = Append(f, s[L])
    BY <1>3
  <2>2. [s EXCEPT ![L] = s[L]] = s
    <3>1. [i \in DOMAIN s |-> s[i]] = s
      BY SeqFacts, <1>1 DEF IsSeq
    <3> QED BY <3>1
  <2> QED BY <2>1, <2>2
<1>5. \A i \in 1..Len(f) : f[i] = s[i] /\ i \in 1..Len(s)
  BY <1>1, <1>2
<1> QED BY <1>2, <1>3, <1>4, <1>5

LEMMA BlockedAppend ==
    ASSUME NEW messages, Blocked(messages), NEW m, IsSeq(m.content), "content" \in DOMAIN m
    PROVE  /\ Blocked(Append(messages, m))
           /\ MessageBlocks(Append(messages, m)) = MessageBlocks(messages) \o m.content
           /\ IsSeq(MessageBlocks(messages))
<1> DEFINE n == Append(messages, m)
<1>1. /\ HaveBlocks(n) /\ MessageBlocks(n) = MessageBlocks(messages) \o m.content
      /\ IsSeq(MessageBlocks(messages))
  BY BlocksAppend DEF Blocked
<1>2. /\ IsSeq(messages) /\ Len(n) = Len(messages) + 1 /\ n[Len(messages) + 1] = m
      /\ \A i \in 1..Len(messages) : n[i] = messages[i]
  BY AppendFacts DEF Blocked, HaveBlocks
<1>3. Len(messages) \in Nat
  BY <1>2, SeqFacts
<1> HIDE DEF n
<1>4. ASSUME NEW i \in 1..Len(n) PROVE "content" \in DOMAIN n[i]
  <2>1. i \in 1..Len(messages) \/ i = Len(messages) + 1
    BY <1>2, <1>3
  <2> QED BY <1>2, <2>1 DEF Blocked
<1>5. Blocked(n)
  BY <1>1, <1>4 DEF Blocked
<1> QED BY <1>1, <1>5 DEF n

LEMMA AddsMessages ==
    ASSUME NEW w, ~w.failed, w = [failed |-> w.failed, messages |-> w.messages],
           w.failed \in BOOLEAN, NEW blocks, NEW new, Blocked(new),
           \/ MessageBlocks(new) = MessageBlocks(w.messages) \o blocks
           \/ MessageBlocks(new) = Append(MessageBlocks(w.messages), PromptBlock) \o blocks
    PROVE  Adds([w EXCEPT !.messages = new], w, blocks)
<1> DEFINE v == [w EXCEPT !.messages = new]
<1>1. v = [w EXCEPT !.messages = new]
  OBVIOUS
<1> HIDE DEF v
<1>2. v = [failed |-> FALSE, messages |-> new]
  BY <1>1
<1>3. v.failed = FALSE /\ v.messages = new /\ v = [failed |-> v.failed, messages |-> v.messages]
  BY <1>2
<1>4. Adds(v, w, blocks)
  BY <1>3 DEF Adds
<1> QED BY <1>1, <1>4

LEMMA AddMessageAdds ==
    ASSUME NEW w, w = [failed |-> w.failed, messages |-> w.messages], w.failed \in BOOLEAN,
           ~w.failed => Blocked(w.messages), NEW history, NEW k, IsSeq(Blocks(history[k]))
    PROVE  Adds(NextMessages(w, history, k), w, Blocks(history[k]))
<1> DEFINE C == Blocks(history[k])
           m == MessageOf(history, k)
           M == w.messages
           last == Last(M)
           p == ContinuationPrompt
           j == Joined(M[Len(M)], m)
           v1 == [w EXCEPT !.messages = <<m>>]
           v2 == [w EXCEPT !.messages = Append(M, m)]
           v3 == [w EXCEPT !.messages = M \o <<p, m>>]
           v4 == [w EXCEPT !.messages = [M EXCEPT ![Len(M)] = j]]
           v5 == [w EXCEPT !.failed = TRUE]
<1>0. /\ m.content = C /\ "content" \in DOMAIN m
      /\ p.content = <<PromptBlock>> /\ "content" \in DOMAIN p
  BY DEF MessageOf, ContinuationPrompt, PromptBlock
<1>0a. /\ w = [failed |-> w.failed, messages |-> M] /\ w.failed \in BOOLEAN /\ IsSeq(C)
  OBVIOUS
<1>1. NextMessages(w, history, k) =
        IF C = <<>> \/ w.failed THEN w
        ELSE IF M = <<>> THEN v1
        ELSE IF last.role # m.role THEN v2
        ELSE IF /\ m.role = "assistant"
                /\ HasBlock(last, "thinking") \/ HasBlock(m, "thinking")
             THEN IF HasBlock(last, "tool_use") THEN v5 ELSE v3
        ELSE v4
  BY DEF NextMessages, AddMessage
<1>3. ASSUME w.failed PROVE Adds(w, w, C)
  BY <1>0a, <1>3 DEF Adds
<1>4. ~w.failed => Blocked(M) /\ IsSeq(M) /\ IsSeq(MessageBlocks(M))
  <2>1. ~w.failed => Blocked(M) /\ IsSeq(M)
    BY DEF Blocked, HaveBlocks
  <2> DEFINE x == [content |-> <<>>]
  <2>2. IsSeq(x.content) /\ "content" \in DOMAIN x
    BY NoSeq
  <2> HIDE DEF x, M
  <2> QED BY <2>1, <2>2, BlockedAppend
<1>5. ASSUME ~w.failed, C = <<>> PROVE Adds(w, w, C)
  <2>1. MessageBlocks(M) \o C = MessageBlocks(M)
    BY <1>4, <1>5, NothingBehind
  <2> HIDE DEF C, m, p, j, last
  <2> QED BY <1>0a, <1>4, <1>5, <2>1 DEF Adds
<1> HIDE DEF C, m, last, p, j
<1>5a. ASSUME ~w.failed
       PROVE  Blocked(Append(M, m)) /\ MessageBlocks(Append(M, m)) = MessageBlocks(M) \o C
  BY <1>0, <1>0a, <1>4, <1>5a, BlockedAppend
<1>6. ASSUME ~w.failed PROVE Adds(v2, w, C)
  BY <1>0a, <1>5a, <1>6, AddsMessages
<1>7. ASSUME ~w.failed, M = <<>> PROVE Adds(v1, w, C)
  <2>1. <<m>> = Append(M, m)
    BY <1>7
  <2> QED BY <1>6, <1>7, <2>1
<1>8. ASSUME ~w.failed PROVE Adds(v3, w, C)
  <2>1. IsSeq(p.content)
    BY <1>0, SingleFacts
  <2>2. /\ Blocked(Append(M, p))
        /\ MessageBlocks(Append(M, p)) = MessageBlocks(M) \o <<PromptBlock>>
    BY <1>0, <1>4, <1>8, <2>1, BlockedAppend
  <2>3. MessageBlocks(M) \o <<PromptBlock>> = Append(MessageBlocks(M), PromptBlock)
    BY <1>4, <1>8, OneBehind
  <2>6. /\ Blocked(Append(Append(M, p), m))
        /\ MessageBlocks(Append(Append(M, p), m)) = MessageBlocks(Append(M, p)) \o C
    BY <1>0, <1>0a, <2>2, BlockedAppend
  <2>7. M \o <<p, m>> = Append(Append(M, p), m)
    <3>1. <<p, m>> = Append(<<p>>, m) /\ IsSeq(<<p>>)
      BY SingleFacts
    <3>2. M \o Append(<<p>>, m) = Append(M \o <<p>>, m)
      BY <1>4, <1>8, <3>1, ConcatAppend
    <3> QED BY <1>4, <1>8, <3>1, <3>2, OneBehind
  <2>8. MessageBlocks(Append(Append(M, p), m)) = Append(MessageBlocks(M), PromptBlock) \o C
    BY <2>2, <2>3, <2>6
  <2> QED BY <1>0a, <1>8, <2>6, <2>7, <2>8, AddsMessages
<1>9. ASSUME ~w.failed, M # <<>> PROVE Adds(v4, w, C)
  <2> DEFINE l == M[Len(M)]
  <2>1. PICK f : /\ IsSeq(f) /\ M = Append(f, l)
                 /\ \A i \in 1..Len(f) : f[i] = M[i] /\ i \in 1..Len(M)
                 /\ \A e : [M EXCEPT ![Len(M)] = e] = Append(f, e)
    BY <1>4, <1>9, LastSplit
  <2>2. Blocked(f) /\ IsSeq(l.content) /\ "content" \in DOMAIN l
    <3>1. Len(M) \in 1..Len(M)
      BY <1>4, <1>9, SeqFacts
    <3> QED BY <1>4, <1>9, <2>1, <3>1 DEF Blocked, HaveBlocks
  <2>3. j.content = l.content \o C /\ "content" \in DOMAIN j
    <3>1. l.content \o m.content = l.content \o C
      BY <1>0
    <3>2. j = [l EXCEPT !.content = l.content \o m.content, !.from = l.from \cup m.from]
      BY DEF Joined, j
    <3> HIDE DEF l
    <3>3. DOMAIN j = DOMAIN l /\ j.content = l.content \o m.content
      BY <2>2, <3>2
    <3> QED BY <2>2, <3>1, <3>3
  <2> HIDE DEF l
  <2>4. MessageBlocks(M) = MessageBlocks(f) \o l.content /\ IsSeq(MessageBlocks(f))
    BY <2>1, <2>2, BlockedAppend
  <2>5. IsSeq(j.content)
    BY <1>0a, <2>2, <2>3, ConcatFacts
  <2>6. Blocked(Append(f, j)) /\ MessageBlocks(Append(f, j)) = MessageBlocks(f) \o j.content
    BY <2>2, <2>3, <2>5, BlockedAppend
  <2>7. MessageBlocks(f) \o j.content = MessageBlocks(M) \o C
    <3> DEFINE F == MessageBlocks(f)
               lc == l.content
    <3>1. IsSeq(F) /\ IsSeq(lc) /\ IsSeq(C)
      BY <1>0a, <2>2, <2>4
    <3> HIDE DEF F, lc
    <3>2. (F \o lc) \o C = F \o (lc \o C)
      BY ONLY <3>1, ConcatTwice
    <3> QED BY <2>3, <2>4, <3>2 DEF F, lc
  <2>8. [M EXCEPT ![Len(M)] = j] = Append(f, j)
    BY <2>1
  <2> QED BY <1>0a, <1>9, <2>6, <2>7, <2>8, AddsMessages
<1>10. ASSUME ~w.failed PROVE Adds(v5, w, C)
  <2> DEFINE v == v5
  <2>0. v = [w EXCEPT !.failed = TRUE]
    OBVIOUS
  <2> HIDE DEF v, v5
  <2>1. v = [failed |-> TRUE, messages |-> w.messages]
    BY <1>0a, <2>0
  <2>2. v.failed = TRUE /\ v = [failed |-> v.failed, messages |-> v.messages]
    BY <2>1
  <2>3. Adds(v, w, C)
    BY <2>2 DEF Adds
  <2> QED BY <2>3 DEF v, v5
<1> HIDE DEF v1, v2, v3, v4, v5, M
<1>11. Adds(NextMessages(w, history, k), w, C)
  BY <1>1, <1>3, <1>5, <1>6, <1>7, <1>8, <1>9, <1>10
<1> QED BY <1>11 DEF C

\* One content's message is added: the same blocks are linked.
LEMMA AddMessageTracks ==
    ASSUME NEW w, NEW S, AnthropicTrack(w, S), NEW history, NEW k,
           IsSeq(history[k].parts), Fits(S, history[k].parts),
           \A q \in DOMAIN history[k].parts : ~Unsupported(history[k].parts[q])
    PROVE  AnthropicTrack(NextMessages(w, history, k), S \cup ToSet(history[k].parts))
<1> DEFINE content == history[k]
           C == Blocks(content)
           D == S \cup ToSet(content.parts)
           v == NextMessages(w, history, k)
           B == MessageBlocks(w.messages)
<1>1. /\ w = [failed |-> w.failed, messages |-> w.messages] /\ w.failed \in BOOLEAN
      /\ ~w.failed => Blocked(w.messages) /\ Links(B, S)
  BY DEF AnthropicTrack
<1>2. ASSUME NEW P, Links(P, S) PROVE IsSeq(C) /\ Links(P \o C, D)
  <2> HIDE DEF v, B
  <2> QED BY <1>2, LinksContent
<1>3. CASE w.failed
  <2>1. v = w
    BY <1>3 DEF NextMessages, AddMessage
  <2> HIDE DEF v, D, C, content
  <2>2. AnthropicTrack(v, D)
    BY <1>1, <1>3, <2>1 DEF AnthropicTrack
  <2> QED BY <2>2 DEF v, D, content
<1>4. CASE ~w.failed
  <2>1. IsSeq(C) /\ Links(B \o C, D)
    BY <1>1, <1>2, <1>4
  <2>2. Adds(v, w, C)
    BY <1>1, <2>1, AddMessageAdds
  <2>3. Bare(PromptBlock)
    BY DEF Bare, PromptBlock
  <2>4. Links(Append(B, PromptBlock), S)
    BY <1>1, <1>4, <2>3, LinksBare
  <2>5. Links(Append(B, PromptBlock) \o C, D)
    BY <1>2, <2>4
  <2> HIDE DEF v, D, C, content
  <2>6. AnthropicTrack(v, D)
    BY <2>1, <2>2, <2>5 DEF Adds, AnthropicTrack
  <2> QED BY <2>6 DEF v, D, content
<1> QED BY <1>3, <1>4

\* What is in one of the sequences is in all of them laid end to end.
LEMMA FlattenHolds ==
    ASSUME NEW ss, SeqOfSeqs(ss), NEW i \in 1..Len(ss), NEW q \in 1..Len(ss[i])
    PROVE  \E r \in DOMAIN FlattenSeq(ss) : FlattenSeq(ss)[r] = ss[i][q]
<1> DEFINE L == Len(ss)
<1>1. L \in Nat /\ IsSeq(ss) /\ ss # <<>> /\ L >= 1
  BY SeqFacts DEF SeqOfSeqs
<1>2. PICK f : /\ FlattenSeq(ss) = f[L] /\ f[1] = ss[1]
               /\ \A k \in 2..L : f[k] = f[k - 1] \o ss[k]
  BY <1>1, FlattenFacts
<1> DEFINE Holds(n) == n >= i => \E r \in 1..Len(f[n]) : f[n][r] = ss[i][q]
           T == {n \in Nat : n \in 1..L => IsSeq(f[n]) /\ Holds(n)}
<1>3. 0 \in T
  OBVIOUS
<1>4. ASSUME NEW n \in Nat, n \in T PROVE n + 1 \in T
  <2> SUFFICES ASSUME n + 1 \in 1..L PROVE IsSeq(f[n + 1]) /\ Holds(n + 1)
    OBVIOUS
  <2>1. CASE n = 0
    <3>1. n + 1 = 1 /\ f[n + 1] = ss[1] /\ 1 \in 1..L
      BY <1>1, <1>2, <2>1
    <3>2. IsSeq(ss[1])
      BY <3>1 DEF SeqOfSeqs
    <3>3. n + 1 >= i => i = 1
      BY <3>1
    <3> QED BY <3>1, <3>2, <3>3
  <2>2. CASE n # 0
    <3> DEFINE a == f[n]
               b == ss[n + 1]
               c == f[n + 1]
    <3>1. n \in 1..L /\ n + 1 \in 2..L /\ (n + 1) - 1 = n
      BY <1>1, <2>2
    <3>2. c = a \o b
      BY <1>2, <3>1
    <3>3. IsSeq(a) /\ Holds(n)
      BY <1>4, <3>1
    <3>4. IsSeq(b)
      BY <3>1 DEF SeqOfSeqs
    <3>4a. n >= i => \E r \in 1..Len(a) : a[r] = ss[i][q]
      BY <3>3
    <3>4b. n + 1 = i => q \in 1..Len(b) /\ b[q] = ss[i][q]
      OBVIOUS
    <3> HIDE DEF a, b
    <3>5. IsSeq(a \o b) /\ Len(a \o b) = Len(a) + Len(b) /\ Len(a) \in Nat /\ Len(b) \in Nat
          /\ (\A r \in 1..Len(a) : (a \o b)[r] = a[r])
          /\ \A r \in 1..Len(b) : (a \o b)[Len(a) + r] = b[r]
      BY <3>3, <3>4, ConcatFacts, SeqFacts
    <3>6. ASSUME n >= i PROVE \E r \in 1..Len(a \o b) : (a \o b)[r] = ss[i][q]
      <4>1. PICK r \in 1..Len(a) : a[r] = ss[i][q]
        BY <3>4a, <3>6
      <4>2. r \in 1..Len(a \o b)
        BY <3>5
      <4> QED BY <3>5, <4>1, <4>2
    <3>7. ASSUME n + 1 = i PROVE \E r \in 1..Len(a \o b) : (a \o b)[r] = ss[i][q]
      <4>1. Len(a) + q \in 1..Len(a \o b)
        BY <3>4b, <3>5, <3>7
      <4> QED BY <3>4b, <3>5, <3>7, <4>1
    <3>8. n + 1 >= i => n >= i \/ n + 1 = i
      OBVIOUS
    <3>9. n + 1 >= i => \E r \in 1..Len(c) : c[r] = ss[i][q]
      BY <3>2, <3>6, <3>7, <3>8
    <3> QED BY <3>2, <3>5, <3>9
  <2> QED BY <2>1, <2>2
<1>5. L \in T
  <2> HIDE DEF T
  <2>1. Nat \subseteq T
    BY <1>3, <1>4, SetInduction
  <2> QED BY <1>1, <2>1
<1>6. \E r \in 1..Len(f[L]) : f[L][r] = ss[i][q]
  BY <1>1, <1>5
<1>7. IsSeq(f[L])
  BY <1>1, <1>5
<1>8. DOMAIN f[L] = 1..Len(f[L])
  BY <1>7, SeqFacts
<1> QED BY <1>2, <1>6, <1>8

LEMMA PartsHeld ==
    ASSUME NEW h, Follows(h), NEW k \in DOMAIN h, NEW q \in DOMAIN h[k].parts
    PROVE  \E r \in DOMAIN PartsOf(h) : PartsOf(h)[r] = h[k].parts[q]
<1> DEFINE ss == [i \in DOMAIN h |-> h[i].parts]
           L == Len(h)
<1>1. L \in Nat /\ DOMAIN h = 1..L /\ \A i \in 1..L : IsSeq(h[i].parts)
  BY SeqFacts DEF Follows
<1>2. PartsOf(h) = FlattenSeq(ss)
  BY DEF PartsOf
<1>3. IsSeq(ss) /\ Len(ss) = L /\ \A i \in 1..L : ss[i] = h[i].parts
  <2> DEFINE R == {h[i].parts : i \in 1..L}
  <2>1. ss \in [1..L -> R]
    BY <1>1
  <2>2. \A i \in 1..L : ss[i] = h[i].parts
    BY <1>1
  <2> HIDE DEF ss, R
  <2>3. ss \in Seq(R) /\ Len(ss) = L
    BY <1>1, <2>1, SeqDef, LenProperties
  <2> QED BY <2>2, <2>3, AnySeq
<1> HIDE DEF ss
<1>4. SeqOfSeqs(ss)
  BY <1>1, <1>3 DEF SeqOfSeqs
<1>5. k \in 1..Len(ss) /\ ss[k] = h[k].parts
  BY <1>1, <1>3
<1>6. q \in 1..Len(ss[k])
  BY <1>1, <1>5, SeqFacts
<1> QED BY <1>2, <1>4, <1>5, <1>6, FlattenHolds

LEMMA AnthropicHistoryTracks ==
    ASSUME NEW h, Follows(h),
           \A k \in DOMAIN h : \A q \in DOMAIN h[k].parts : ~Unsupported(h[k].parts[q])
    PROVE  AnthropicTrack(NormalizeConsecutiveMessages(h)[Len(h)], AllParts(h))
<1> DEFINE H == NormalizeConsecutiveMessages(h)
           T == {k \in Nat : k <= Len(h) => AnthropicTrack(H[k], Past(h, k))}
<1>0. /\ IsSeq(h) /\ Len(h) \in Nat /\ DOMAIN h = 1..Len(h)
      /\ H[0] = NoMessages /\ \A k \in 1..Len(h) : H[k] = NextMessages(H[k - 1], h, k)
  BY SeqFacts, MessagesWalkFacts DEF Follows
<1>1. 0 \in T
  <2>1. Past(h, 0) = {}
    BY PastFacts
  <2>2. AnthropicTrack(NoMessages, {})
    <3>1. Blocked(<<>>) /\ MessageBlocks(<<>>) = <<>>
      <4> DEFINE s == [i \in DOMAIN <<>> |-> <<>>[i].content]
      <4>1. s = <<>>
        OBVIOUS
      <4> QED BY <4>1, FlattenNone, NoSeq DEF MessageBlocks, Blocked, HaveBlocks
    <3>2. Links(<<>>, {})
      BY TracksStart DEF Links, Tracks, OpenIn
    <3>3. NoMessages = [failed |-> FALSE, messages |-> <<>>]
      BY DEF NoMessages
    <3>4. NoMessages.failed = FALSE /\ NoMessages.messages = <<>>
          /\ NoMessages = [failed |-> NoMessages.failed, messages |-> NoMessages.messages]
      BY <3>3
    <3> QED BY <3>1, <3>2, <3>4 DEF AnthropicTrack
  <2> QED BY <1>0, <2>1, <2>2
<1>2. ASSUME NEW k \in Nat, k \in T PROVE k + 1 \in T
  <2> SUFFICES ASSUME k + 1 <= Len(h) PROVE AnthropicTrack(H[k + 1], Past(h, k + 1))
    OBVIOUS
  <2>1. k + 1 \in 1..Len(h) /\ (k + 1) - 1 = k /\ k <= Len(h)
    BY <1>0
  <2>2. H[k + 1] = NextMessages(H[k], h, k + 1)
    BY <1>0, <2>1
  <2>3. AnthropicTrack(H[k], Past(h, k))
    BY <1>0, <1>2, <2>1
  <2>4. IsSeq(h[k + 1].parts) /\ Fits(Past(h, k), h[k + 1].parts)
    BY <1>0, <2>1 DEF Follows
  <2>5. \A q \in DOMAIN h[k + 1].parts : ~Unsupported(h[k + 1].parts[q])
    BY <1>0, <2>1
  <2>6. Past(h, k + 1) = Past(h, k) \cup ToSet(h[k + 1].parts)
    BY PastFacts
  <2> HIDE DEF H
  <2> QED BY <2>2, <2>3, <2>4, <2>5, <2>6, AddMessageTracks
<1> HIDE DEF T
<1>3. Nat \subseteq T
  BY <1>1, <1>2, SetInduction
<1>4. Len(h) \in T
  BY <1>0, <1>3
<1> QED BY <1>0, <1>4, AllIsPast DEF T

\* The adapter's own turn answers and calls nothing.
LEMMA WithUserTurnFollows == ASSUME Follows(contents) PROVE Follows(WithUserTurn(contents))
<1>1. WithUserTurn(contents) \in {contents, Append(contents, OwnTurn)}
  BY DEF WithUserTurn, OwnTurn
<1>2. IsSeq(OwnTurn.parts) /\ OwnTurn.parts # <<>> /\ DOMAIN OwnTurn.parts = {1}
  BY SummaryFacts
<1>3. OwnTurn.parts[1].kind = "text"
  BY <1>2, SummaryFacts DEF ToSet
<1>4. Fits(AllParts(contents), OwnTurn.parts)
  BY <1>2, <1>3 DEF Fits, GoodNext, Kinds
<1>5. Follows(Append(contents, OwnTurn))
  BY <1>2, <1>4, FollowsAppend
<1> QED BY <1>1, <1>5

LEMMA AnthropicPaired == Follows(contents) => Paired(AnthropicPieces)
<1> SUFFICES ASSUME Follows(contents) PROVE Paired(AnthropicPieces)
  OBVIOUS
<1> DEFINE h == WithUserTurn(contents)
           w == NormalizeConsecutiveMessages(h)[Len(h)]
           sent == Anthropic
<1>1. Follows(h)
  BY WithUserTurnFollows
<1>2. sent = [ok |-> /\ \A i \in DOMAIN PartsOf(h) : ~Unsupported(PartsOf(h)[i])
                     /\ ~w.failed,
              messages |-> w.messages]
  BY DEF Anthropic, AnthropicRequest, ContentsToMessages
<1>3. AnthropicPieces = IF sent.ok THEN MessageBlocks(sent.messages) ELSE <<>>
  BY DEF AnthropicPieces
<1> HIDE DEF h, w, sent
<1>4. ASSUME sent.ok PROVE Paired(MessageBlocks(sent.messages))
  <2>1. (\A i \in DOMAIN PartsOf(h) : ~Unsupported(PartsOf(h)[i])) /\ ~w.failed
        /\ sent.messages = w.messages
    BY <1>2, <1>4
  <2>2. \A k \in DOMAIN h : \A q \in DOMAIN h[k].parts : ~Unsupported(h[k].parts[q])
    <3> SUFFICES ASSUME NEW k \in DOMAIN h, NEW q \in DOMAIN h[k].parts
                 PROVE  ~Unsupported(h[k].parts[q])
      OBVIOUS
    <3>1. PICK r \in DOMAIN PartsOf(h) : PartsOf(h)[r] = h[k].parts[q]
      BY <1>1, PartsHeld
    <3> QED BY <2>1, <3>1
  <2>3. AnthropicTrack(w, AllParts(h))
    BY <1>1, <2>2, AnthropicHistoryTracks DEF w
  <2>4. AllReach(MessageBlocks(w.messages))
    BY <2>1, <2>3 DEF AnthropicTrack, Links
  <2> QED BY <2>1, <2>4, ReachIsPaired
<1> QED BY <1>3, <1>4, NoPieces

LEMMA AnswerableReaches == Answerable => ResultsReachTheirCalls
BY VercelPaired, ResponsesPaired, ChatIsPaired, AnthropicPaired
   DEF Answerable, ResultsReachTheirCalls

THEOREM ResultsReach == Spec => []ResultsReachTheirCalls
BY HistoryStaysAnswerable, AnswerableReaches, PTL

------------------------------------------------------------------------------
(* What a request carries: the elements of a sequence at some places, their  *)
(* numbers, and the parts pieces were made of                                *)

LEMMA KeptExists ==
    ASSUME NEW s, NEW places
    PROVE  \A n \in Nat : \E f : Keeps(f, s, places, n)
<1> DEFINE T == {n \in Nat : \E f : Keeps(f, s, places, n)}
<1>1. 0 \in T
  <2> DEFINE g == [k \in 0..0 |-> <<>>]
  <2>1. Keeps(g, s, places, 0)
    BY DEF Keeps
  <2> QED BY <2>1
<1>2. ASSUME NEW n \in Nat, n \in T PROVE n + 1 \in T
  <2>1. PICK f : Keeps(f, s, places, n)
    BY <1>2
  <2> DEFINE g == [k \in 0..(n + 1) |->
                     IF k # n + 1 THEN f[k]
                     ELSE IF k \in places THEN Append(f[n], s[k]) ELSE f[n]]
  <2>2. \A k \in 0..n : f[k] = IF k = 0 THEN <<>>
                               ELSE IF k \in places THEN Append(f[k - 1], s[k]) ELSE f[k - 1]
    BY <2>1 DEF Keeps
  <2>3. \A k \in 0..(n + 1) : k = n + 1 \/ k \in 0..n
    OBVIOUS
  <2>4. \A k \in 0..n : g[k] = f[k]
    OBVIOUS
  <2>5. \A k \in 1..(n + 1) : g[k - 1] = f[k - 1]
    BY <2>4
  <2>6. \A k \in 0..(n + 1) : g[k] = IF k = 0 THEN <<>>
                                     ELSE IF k \in places THEN Append(g[k - 1], s[k]) ELSE g[k - 1]
    <3> SUFFICES ASSUME NEW k \in 0..(n + 1)
                 PROVE  g[k] = IF k = 0 THEN <<>>
                               ELSE IF k \in places THEN Append(g[k - 1], s[k]) ELSE g[k - 1]
      OBVIOUS
    <3>1. CASE k = n + 1
      <4>1. g[k] = IF k \in places THEN Append(f[n], s[k]) ELSE f[n]
        BY <3>1
      <4>2. g[k - 1] = f[n] /\ k # 0
        <5>1. k - 1 = n /\ k # 0
          BY <3>1
        <5> QED BY <2>4, <5>1
      <4> HIDE DEF g
      <4> QED BY <4>1, <4>2
    <3>2. CASE k \in 0..n
      <4>1. g[k] = f[k]
        BY <2>4, <3>2
      <4>2. k # 0 => g[k - 1] = f[k - 1]
        BY <2>5
      <4> HIDE DEF g
      <4> QED BY <2>2, <3>2, <4>1, <4>2
    <3> QED BY <2>3, <3>1, <3>2
  <2>7. g = [k \in 0..(n + 1) |-> g[k]]
    OBVIOUS
  <2> HIDE DEF g
  <2>8. Keeps(g, s, places, n + 1)
    BY <2>6, <2>7 DEF Keeps
  <2> QED BY <2>8
<1> HIDE DEF T
<1>3. Nat \subseteq T
  BY <1>1, <1>2, SetInduction
<1> QED BY <1>3 DEF T

\* What is kept, one element at a time.
LEMMA KeptFacts ==
    ASSUME NEW s, IsSeq(s), NEW places
    PROVE  /\ KeptUpTo(s, places)[0] = <<>>
           /\ \A k \in 1..Len(s) :
                KeptUpTo(s, places)[k] =
                  IF k \in places THEN Append(KeptUpTo(s, places)[k - 1], s[k])
                                  ELSE KeptUpTo(s, places)[k - 1]
           /\ \A k \in 0..Len(s) : IsSeq(KeptUpTo(s, places)[k])
<1> DEFINE f == CHOOSE g : Keeps(g, s, places, Len(s))
<1>1. Len(s) \in Nat
  BY SeqFacts
<1>2. Keeps(f, s, places, Len(s))
  BY <1>1, KeptExists
<1>3. KeptUpTo(s, places) = f
  BY DEF KeptUpTo, Keeps
<1>4. \A k \in 0..Len(s) : f[k] = IF k = 0 THEN <<>>
                                  ELSE IF k \in places THEN Append(f[k - 1], s[k]) ELSE f[k - 1]
  BY <1>2 DEF Keeps
<1> HIDE DEF f
<1>5. f[0] = <<>>
  BY <1>1, <1>4
<1>6. ASSUME NEW k \in 1..Len(s)
      PROVE  f[k] = IF k \in places THEN Append(f[k - 1], s[k]) ELSE f[k - 1]
  <2>1. k \in 0..Len(s) /\ k # 0
    BY <1>1
  <2> QED BY <1>4, <2>1
<1> DEFINE T == {k \in Nat : k <= Len(s) => IsSeq(f[k])}
<1>7. 0 \in T
  BY <1>5, NoSeq
<1>8. ASSUME NEW k \in Nat, k \in T PROVE k + 1 \in T
  <2> SUFFICES ASSUME k + 1 <= Len(s) PROVE IsSeq(f[k + 1])
    OBVIOUS
  <2>1. k + 1 \in 1..Len(s) /\ (k + 1) - 1 = k /\ k <= Len(s)
    BY <1>1
  <2>2. IsSeq(f[k])
    BY <1>8, <2>1
  <2>3. f[k + 1] = IF k + 1 \in places THEN Append(f[k], s[k + 1]) ELSE f[k]
    BY <1>6, <2>1
  <2> QED BY <2>2, <2>3, AppendFacts
<1> HIDE DEF T
<1>9. Nat \subseteq T
  BY <1>7, <1>8, SetInduction
<1>10. \A k \in 0..Len(s) : IsSeq(f[k])
  BY <1>1, <1>9 DEF T
<1> QED BY <1>3, <1>5, <1>6, <1>10

LEMMA KeptNone == \A places : Kept(<<>>, places) = <<>>
<1>1. KeptUpTo(<<>>, {})[0] = <<>> /\ Len(<<>>) = 0 /\ IsSeq(<<>>)
  BY NoSeq, KeptFacts
<1> QED BY <1>1, KeptFacts DEF Kept

\* One more element is kept or it is not.
LEMMA KeptAppend ==
    ASSUME NEW s, IsSeq(s), NEW x, NEW P, NEW Q, \A i \in 1..Len(s) : i \in P <=> i \in Q
    PROVE  /\ Kept(Append(s, x), Q) =
                IF Len(s) + 1 \in Q THEN Append(Kept(s, P), x) ELSE Kept(s, P)
           /\ IsSeq(Kept(s, P))
<1> DEFINE L == Len(s)
           t == Append(s, x)
           f == KeptUpTo(s, P)
           g == KeptUpTo(t, Q)
<1>1. /\ L \in Nat /\ IsSeq(t) /\ Len(t) = L + 1 /\ t[L + 1] = x
      /\ \A i \in 1..L : t[i] = s[i]
  BY AppendFacts, SeqFacts
<1>2. /\ f[0] = <<>> /\ \A k \in 0..L : IsSeq(f[k])
      /\ \A k \in 1..L : f[k] = IF k \in P THEN Append(f[k - 1], s[k]) ELSE f[k - 1]
  BY KeptFacts
<1>3. /\ g[0] = <<>>
      /\ \A k \in 1..Len(t) : g[k] = IF k \in Q THEN Append(g[k - 1], t[k]) ELSE g[k - 1]
  <2> HIDE DEF t
  <2> QED BY <1>1, KeptFacts
<1>4. Kept(s, P) = f[L] /\ Kept(t, Q) = g[L + 1]
  BY <1>1 DEF Kept
<1>5. \A i \in 1..L : i \in P <=> i \in Q
  OBVIOUS
<1> HIDE DEF L, t, f, g
<1> DEFINE T == {k \in Nat : k <= L => g[k] = f[k]}
<1>6. 0 \in T
  BY <1>2, <1>3
<1>7. ASSUME NEW k \in Nat, k \in T PROVE k + 1 \in T
  <2> SUFFICES ASSUME k + 1 <= L PROVE g[k + 1] = f[k + 1]
    OBVIOUS
  <2>1. k + 1 \in 1..L /\ (k + 1) - 1 = k /\ k <= L /\ k + 1 \in 1..Len(t)
    BY <1>1
  <2>2. g[k] = f[k]
    BY <1>7, <2>1
  <2>3. g[k + 1] = IF k + 1 \in Q THEN Append(g[k], t[k + 1]) ELSE g[k]
    BY <1>3, <2>1
  <2>4. f[k + 1] = IF k + 1 \in P THEN Append(f[k], s[k + 1]) ELSE f[k]
    BY <1>2, <2>1
  <2>5. (k + 1 \in P <=> k + 1 \in Q) /\ t[k + 1] = s[k + 1]
    BY <1>1, <1>5, <2>1
  <2> QED BY <2>2, <2>3, <2>4, <2>5
<1> HIDE DEF T
<1>8. Nat \subseteq T
  BY <1>6, <1>7, SetInduction
<1>9. g[L] = f[L]
  BY <1>1, <1>8 DEF T
<1>10. g[L + 1] = IF L + 1 \in Q THEN Append(g[L], x) ELSE g[L]
  <2>1. L + 1 \in 1..Len(t) /\ (L + 1) - 1 = L
    BY <1>1
  <2> QED BY <1>1, <1>3, <2>1
<1>11. L \in 0..L
  BY <1>1
<1> QED BY <1>2, <1>4, <1>9, <1>10, <1>11 DEF L, t

LEMMA NumbersFacts ==
    ASSUME NEW s, IsSeq(s), NEW x
    PROVE  /\ IsSeq(Numbers(s))
           /\ Numbers(Append(s, x)) = Append(Numbers(s), x.n)
<1> DEFINE L == Len(s)
           t == Append(s, x)
           a == Numbers(s)
           b == Numbers(t)
           c == Append(a, x.n)
<1>1. /\ L \in Nat /\ IsSeq(t) /\ Len(t) = L + 1 /\ t[L + 1] = x
      /\ \A i \in 1..L : t[i] = s[i]
      /\ DOMAIN s = 1..L /\ DOMAIN t = 1..(L + 1)
  BY AppendFacts, SeqFacts
<1> HIDE DEF t, L
<1>2. a = [i \in 1..L |-> s[i].n] /\ b = [i \in 1..(L + 1) |-> t[i].n]
  BY <1>1 DEF Numbers
<1> HIDE DEF a, b
<1>3. a \in Seq({a[i] : i \in 1..L}) /\ Len(a) = L /\ b \in Seq({b[i] : i \in 1..(L + 1)}) /\ Len(b) = L + 1
  BY <1>1, <1>2
<1>4. IsSeq(a) /\ IsSeq(b)
  BY <1>3, AnySeq
<1>5. IsSeq(c) /\ Len(c) = L + 1 /\ c[L + 1] = x.n /\ \A i \in 1..L : c[i] = a[i]
  BY <1>3, <1>4, AppendFacts
<1> HIDE DEF c
<1>6. ASSUME NEW i \in 1..(L + 1) PROVE b[i] = c[i]
  <2>1. CASE i \in 1..L
    BY <1>1, <1>2, <1>5, <2>1
  <2>2. CASE i = L + 1
    BY <1>1, <1>2, <1>5, <2>2
  <2> QED BY <1>1, <2>1, <2>2
<1>7. b = c
  BY <1>3, <1>4, <1>5, <1>6, SameSeq
<1> QED BY <1>4, <1>7 DEF a, b, c, t

LEMMA NumbersNone == Numbers(<<>>) = <<>>
BY DEF Numbers

LEMMA CarriedAppend ==
    ASSUME NEW pieces, HaveOf(pieces), NEW x, Made(x)
    PROVE  /\ HaveOf(Append(pieces, x))
           /\ Carried(Append(pieces, x)) = Carried(pieces) \o x.of
           /\ IsSeq(Carried(pieces))
<1> DEFINE n == Append(pieces, x)
           L == Len(pieces)
           s == [i \in 1..L |-> pieces[i].of]
           t == [i \in 1..(L + 1) |-> n[i].of]
<1>1. /\ IsSeq(pieces) /\ IsSeq(n) /\ L \in Nat /\ Len(n) = L + 1
      /\ DOMAIN pieces = 1..L /\ DOMAIN n = 1..(L + 1)
      /\ n[L + 1] = x /\ \A i \in 1..L : n[i] = pieces[i]
  BY AppendFacts, SeqFacts DEF HaveOf
<1>2. Carried(pieces) = FlattenSeq(s) /\ Carried(n) = FlattenSeq(t)
  BY <1>1 DEF Carried
<1> HIDE DEF n
<1>3. /\ \A i \in 1..L : IsSeq(pieces[i].of)
      /\ IsSeq(x.of)
      /\ \A i \in 1..(L + 1) : i \in 1..L \/ i = L + 1
  BY <1>1 DEF HaveOf, Made
<1>4. HaveOf(n)
  BY <1>1, <1>3 DEF HaveOf
<1> HIDE DEF L
<1>5. s \in Seq({s[i] : i \in 1..L}) /\ Len(s) = L /\ t \in Seq({t[i] : i \in 1..(L + 1)}) /\ Len(t) = L + 1
  BY <1>1
<1>6. \A i \in 1..L : s[i] = pieces[i].of /\ t[i] = s[i] /\ IsSeq(s[i])
  <2> SUFFICES ASSUME NEW i \in 1..L
               PROVE  s[i] = pieces[i].of /\ t[i] = s[i] /\ IsSeq(s[i])
    OBVIOUS
  <2>1. i \in 1..(L + 1) /\ n[i] = pieces[i]
    BY <1>1
  <2> QED BY <1>3, <2>1, SingleFacts
<1>7. L + 1 \in 1..(L + 1) /\ t[L + 1] = x.of /\ IsSeq(x.of)
  <2>1. L + 1 \in 1..(L + 1)
    BY <1>1
  <2> QED BY <1>1, <1>3, <2>1, SingleFacts
<1> HIDE DEF s, t
<1>8. IsSeq(s) /\ IsSeq(t) /\ Len(s) \in Nat
  BY <1>1, <1>5, AnySeq
<1>8a. /\ Len(t) = Len(s) + 1 /\ t[Len(s) + 1] = x.of
       /\ \A i \in 1..Len(s) : t[i] = s[i] /\ IsSeq(s[i])
  BY <1>5, <1>6, <1>7
<1>9. t = Append(s, x.of) /\ SeqOfSeqs(s)
  BY <1>8, <1>8a, GrowsBy
<1>10. Carried(n) = Carried(pieces) \o x.of /\ IsSeq(Carried(pieces))
  BY <1>2, <1>7, <1>9, FlattenAppend, FlattenIsSeq
<1> QED BY <1>4, <1>10 DEF n

LEMMA CarriedNone == HaveOf(<<>>) /\ Carried(<<>>) = <<>>
<1>1. HaveOf(<<>>)
  BY NoSeq DEF HaveOf
<1>2. [i \in DOMAIN <<>> |-> <<>>[i].of] = <<>>
  OBVIOUS
<1> QED BY <1>1, <1>2, FlattenNone DEF Carried

\* Laying sequences end to end, one at a time: what there is after the first k.
LEMMA FlattenSteps ==
    ASSUME NEW n \in Nat, NEW F, \A i \in 1..n : IsSeq(F[i])
    PROVE  \E c : /\ c[0] = <<>>
                  /\ \A k \in 1..n : c[k] = c[k - 1] \o F[k]
                  /\ \A k \in 0..n : IsSeq(c[k])
                  /\ c[n] = FlattenSeq([i \in 1..n |-> F[i]])
<1> DEFINE ss == [i \in 1..n |-> F[i]]
<1>0. ss \in Seq({F[i] : i \in 1..n}) /\ Len(ss) = n
  OBVIOUS
<1>1. \A i \in 1..n : ss[i] = F[i]
  OBVIOUS
<1> HIDE DEF ss
<1>2. IsSeq(ss)
  BY <1>0, AnySeq
<1>3. SUFFICES \E c : /\ c[0] = <<>>
                      /\ \A k \in 1..n : c[k] = c[k - 1] \o F[k]
                      /\ \A k \in 0..n : IsSeq(c[k])
                      /\ c[n] = FlattenSeq(ss)
  BY DEF ss
<1>4. CASE n = 0
  <2> DEFINE c == [k \in 0..0 |-> <<>>]
  <2>1. c[0] = <<>>
    OBVIOUS
  <2> HIDE DEF c
  <2>2. ss = <<>>
    BY <1>0, <1>2, <1>4, SeqFacts
  <2> QED BY <1>4, <2>1, <2>2, NoSeq, FlattenNone
<1>5. CASE n # 0
  <2>1. ss # <<>>
    BY <1>0, <1>2, <1>5, SeqFacts
  <2>2. PICK f : /\ FlattenSeq(ss) = f[n] /\ f[1] = ss[1]
                 /\ \A i \in 2..n : f[i] = f[i - 1] \o ss[i]
    BY <1>0, <1>2, <2>1, FlattenFacts
  <2> DEFINE c == [k \in 0..n |-> IF k = 0 THEN <<>> ELSE f[k]]
  <2>3. c[0] = <<>> /\ \A k \in 1..n : c[k] = f[k]
    OBVIOUS
  <2> HIDE DEF c
  <2>4. ASSUME NEW k \in 1..n PROVE c[k] = c[k - 1] \o F[k]
    <3>1. CASE k = 1
      <4>1. IsSeq(F[1]) /\ c[1] = F[1]
        BY <1>1, <2>2, <2>3, <3>1
      <4>2. <<>> \o F[1] = F[1]
        BY <4>1, ConcatEmptySeq DEF IsSeq
      <4>3. k - 1 = 0
        BY <3>1
      <4> QED BY <2>3, <3>1, <4>1, <4>2, <4>3
    <3>2. CASE k # 1
      <4>1. k \in 2..n /\ k - 1 \in 1..n
        BY <3>2
      <4>2. f[k] = f[k - 1] \o ss[k]
        BY <2>2, <4>1
      <4> QED BY <1>1, <2>3, <4>1, <4>2
    <3> QED BY <3>1, <3>2
  <2> DEFINE T == {k \in Nat : k <= n => IsSeq(c[k])}
  <2>5. 0 \in T
    BY <2>3, NoSeq
  <2>6. ASSUME NEW k \in Nat, k \in T PROVE k + 1 \in T
    <3> SUFFICES ASSUME k + 1 <= n PROVE IsSeq(c[k + 1])
      OBVIOUS
    <3>1. k + 1 \in 1..n /\ (k + 1) - 1 = k /\ k <= n
      OBVIOUS
    <3>2. IsSeq(c[k]) /\ IsSeq(F[k + 1])
      BY <2>6, <3>1
    <3>3. c[k + 1] = c[k] \o F[k + 1]
      BY <2>4, <3>1
    <3> QED BY <3>2, <3>3, ConcatFacts
  <2> HIDE DEF T
  <2>7. Nat \subseteq T
    BY <2>5, <2>6, SetInduction
  <2>8. \A k \in 0..n : IsSeq(c[k])
    BY <2>7 DEF T
  <2>9. c[n] = FlattenSeq(ss)
    BY <1>5, <2>2, <2>3
  <2> QED BY <2>3, <2>4, <2>8, <2>9
<1> QED BY <1>4, <1>5

LEMMA NumbersSteps ==
    ASSUME NEW parts, IsSeq(parts), NEW places, NEW told, IsSeq(told)
    PROVE  \E c : Counts(c, told, parts, places)
<1> DEFINE L == Len(parts)
           u == KeptUpTo(parts, places)
           c == [k \in 0..L |-> told \o Numbers(u[k])]
<1>1. /\ L \in Nat /\ u[0] = <<>> /\ \A k \in 0..L : IsSeq(u[k])
      /\ \A k \in 1..L : u[k] = IF k \in places THEN Append(u[k - 1], parts[k]) ELSE u[k - 1]
  BY SeqFacts, KeptFacts
<1>2. Kept(parts, places) = u[L]
  BY DEF Kept
<1> HIDE DEF L, u
<1>3. \A k \in 0..L : c[k] = told \o Numbers(u[k])
  OBVIOUS
<1> HIDE DEF c
<1>4. \A k \in 0..L : IsSeq(Numbers(u[k])) /\ IsSeq(c[k])
  <2> SUFFICES ASSUME NEW k \in 0..L PROVE IsSeq(Numbers(u[k])) /\ IsSeq(c[k])
    OBVIOUS
  <2>1. IsSeq(u[k])
    BY <1>1
  <2>2. IsSeq(Numbers(u[k]))
    BY <2>1, NumbersFacts
  <2>3. IsSeq(told \o Numbers(u[k]))
    BY <2>2, ConcatFacts
  <2> QED BY <1>3, <2>2, <2>3
<1>5. c[0] = told
  <2>1. told \o <<>> = told
    BY ConcatEmptySeq DEF IsSeq
  <2>2. 0 \in 0..L
    BY <1>1
  <2> QED BY <1>1, <1>3, <2>1, <2>2, NumbersNone
<1>6. ASSUME NEW k \in 1..L
      PROVE  c[k] = IF k \in places THEN Append(c[k - 1], parts[k].n) ELSE c[k - 1]
  <2>1. k \in 0..L /\ k - 1 \in 0..L
    BY <1>1
  <2>2. c[k] = told \o Numbers(u[k]) /\ c[k - 1] = told \o Numbers(u[k - 1])
    BY <1>3, <2>1
  <2>3. IsSeq(u[k - 1]) /\ IsSeq(Numbers(u[k - 1]))
    BY <1>1, <1>4, <2>1
  <2>4. CASE k \in places
    <3>1. u[k] = Append(u[k - 1], parts[k])
      BY <1>1, <2>4
    <3>2. Numbers(u[k]) = Append(Numbers(u[k - 1]), parts[k].n)
      BY <2>3, <3>1, NumbersFacts
    <3>3. told \o Append(Numbers(u[k - 1]), parts[k].n) =
            Append(told \o Numbers(u[k - 1]), parts[k].n)
      BY <2>3, ConcatAppend
    <3> QED BY <2>2, <2>4, <3>2, <3>3
  <2>5. CASE k \notin places
    BY <1>1, <2>2, <2>5
  <2> QED BY <2>4, <2>5
<1>7. c[L] = told \o Numbers(Kept(parts, places))
  <2>1. L \in 0..L
    BY <1>1
  <2> QED BY <1>2, <1>3, <2>1
<1>8. Counts(c, told, parts, places)
  BY <1>4, <1>5, <1>6, <1>7 DEF L, Counts
<1> QED BY <1>8

LEMMA KeptNumbers ==
    ASSUME NEW parts, IsSeq(parts), NEW places
    PROVE  IsSeq(Kept(parts, places)) /\ IsSeq(Numbers(Kept(parts, places)))
<1>1. IsSeq(Kept(parts, places))
  BY KeptAppend
<1> QED BY <1>1, NumbersFacts

------------------------------------------------------------------------------
(* The history as a conversation of two: what a request is made from         *)

------------------------------------------------------------------------------
(* The prompt of the AI SDK carries what was said *)

LEMMA VercelToldFail ==
    ASSUME NEW w, VercelState(w), NEW told
    PROVE  VercelTold([w EXCEPT !.failed = TRUE], told)
<1> DEFINE v == [w EXCEPT !.failed = TRUE]
<1>1. v = [w EXCEPT !.failed = TRUE]
  OBVIOUS
<1> HIDE DEF v
<1>2. v = [failed |-> TRUE, messages |-> w.messages, parts |-> w.parts, item |-> w.item,
           tracker |-> w.tracker]
  BY <1>1 DEF VercelState
<1>3. VercelTold(v, told)
  BY <1>2 DEF VercelTold, VercelState
<1> QED BY <1>3 DEF v

LEMMA VercelToldFlush ==
    ASSUME NEW w, NEW told, VercelTold(w, told), NEW role
    PROVE  VercelTold(FlushParts(w, role), told)
BY VercelFlushSaid DEF VercelTold

LEMMA VercelToldMore ==
    ASSUME NEW w, NEW told, VercelTold(w, told), NEW x, NEW n, Carries(x, n), NEW t, NEW v,
           OneMorePart(v, w, x, t)
    PROVE  VercelTold(v, Append(told, n))
<1>1. /\ VercelState(v) /\ v.failed = w.failed
      /\ VercelSaid(v) = Append(VercelSaid(w), x)
  BY DEF OneMorePart
<1>2. ASSUME ~w.failed
      PROVE  HaveOf(VercelSaid(v)) /\ Carried(VercelSaid(v)) = Append(told, n)
  <2>1. HaveOf(VercelSaid(w)) /\ Carried(VercelSaid(w)) = told
    BY <1>2 DEF VercelTold
  <2>2. Made(x) /\ x.of = <<n>>
    BY SingleFacts DEF Made, Carries
  <2>3. /\ HaveOf(VercelSaid(v))
        /\ Carried(VercelSaid(v)) = told \o x.of
        /\ IsSeq(told)
    BY <1>1, <2>1, <2>2, CarriedAppend
  <2> QED BY <2>2, <2>3, OneBehind
<1> QED BY <1>1, <1>2 DEF VercelTold

\* Text that joins the last fragment is carried by it.
LEMMA VercelToldJoins ==
    ASSUME NEW w, NEW told, VercelTold(w, told), NEW item, NEW n, NEW v, Widens(v, w, item, n)
    PROVE  VercelTold(v, Append(told, n))
<1>0. VercelState(w)
  BY DEF VercelTold
<1>1. VercelState(v) /\ v.failed = w.failed /\ v.messages = w.messages
  <2>1. VercelState(v)
    BY <1>0, VercelJoinsSaid
  <2>2. v.failed = w.failed
    BY <1>0 DEF VercelState, Widens
  <2>3. v.messages = w.messages
    BY <1>0 DEF VercelState, Widens
  <2> QED BY <2>1, <2>2, <2>3
<1>1a. v.parts = [w.parts EXCEPT ![Len(w.parts)] = Widened(w.parts[Len(w.parts)], n)]
  BY <1>0, VercelJoinsSaid
<1> DEFINE P == w.parts
           m == MessageParts(w.messages)
           a == P[Len(P)]
           e == Widened(a, n)
<1>2. v.parts = [P EXCEPT ![Len(P)] = e] /\ IsSeq(P) /\ P # <<>>
  BY <1>0, <1>1a DEF VercelState, Widens
<1>2a. IsSeq(m)
  BY <1>0, SaidIsSeq
<1>2b. VercelSaid(w) = m \o P /\ VercelSaid(v) = m \o v.parts
  BY <1>1 DEF VercelSaid
<1> HIDE DEF P, m, e
<1>3. PICK f : /\ IsSeq(f) /\ P = Append(f, a)
               /\ \A i \in 1..Len(f) : f[i] = P[i] /\ i \in 1..Len(P)
               /\ \A d : [P EXCEPT ![Len(P)] = d] = Append(f, d)
  BY <1>2, LastSplit
<1> HIDE DEF a
<1>4. P = Append(f, a) /\ v.parts = Append(f, e)
  BY <1>2, <1>3
<1> DEFINE b == m \o f
<1>5. IsSeq(b)
  BY <1>2a, <1>3, ConcatFacts
<1>6. VercelSaid(w) = Append(b, a) /\ VercelSaid(v) = Append(b, e)
  <2>1. m \o Append(f, a) = Append(b, a) /\ m \o Append(f, e) = Append(b, e)
    BY <1>2a, <1>3, ConcatAppend
  <2> QED BY <1>2b, <1>4, <2>1
<1> HIDE DEF b
<1>7. ASSUME ~w.failed
      PROVE  HaveOf(VercelSaid(v)) /\ Carried(VercelSaid(v)) = Append(told, n)
  <2>1. HaveOf(Append(b, a)) /\ Carried(Append(b, a)) = told
    BY <1>6, <1>7 DEF VercelTold
  <2>2. HaveOf(b) /\ Made(a)
    <3>1. /\ Len(Append(b, a)) = Len(b) + 1 /\ Append(b, a)[Len(b) + 1] = a /\ Len(b) \in Nat
          /\ \A i \in 1..Len(b) : Append(b, a)[i] = b[i]
      BY <1>5, AppendFacts, SeqFacts
    <3>2. Len(b) + 1 \in 1..Len(Append(b, a)) /\ \A i \in 1..Len(b) : i \in 1..Len(Append(b, a))
      BY <3>1
    <3> QED BY <1>5, <2>1, <3>1, <3>2 DEF HaveOf
  <2>5. "of" \in DOMAIN e /\ e.of = Append(a.of, n)
    BY <2>2 DEF e, Widened, Made
  <2>6. Made(e)
    BY <2>2, <2>5, AppendFacts DEF Made
  <2>7. /\ Carried(Append(b, a)) = Carried(b) \o a.of
        /\ IsSeq(Carried(b))
    BY <2>2, CarriedAppend
  <2>7a. /\ Carried(Append(b, e)) = Carried(b) \o e.of
         /\ HaveOf(Append(b, e))
    BY <2>2, <2>6, CarriedAppend
  <2>8. Carried(b) \o Append(a.of, n) = Append(Carried(b) \o a.of, n)
    BY <2>2, <2>7, ConcatAppend DEF Made
  <2> QED BY <1>6, <2>1, <2>5, <2>7, <2>7a, <2>8
<1> QED BY <1>1, <1>7 DEF VercelTold

LEMMA VercelToldText ==
    ASSUME NEW w, NEW told, VercelTold(w, told), NEW role, NEW p
    PROVE  VercelTold(AddVercelText(w, role, p), Append(told, p.n))
<1> DEFINE assistant == role = "assistant"
           v == IF assistant /\ w.parts # <<>> /\ p.item # w.item
                THEN FlushParts(w, role) ELSE w
           item == IF assistant THEN p.item ELSE v.item
           joins == item # NoItem /\ v.parts # <<>> /\ Last(v.parts).type = "text"
           x == [type |-> "text", item |-> item, of |-> <<p.n>>]
           a == [v EXCEPT !.item = item, !.parts[Len(v.parts)].of = Append(@, p.n)]
           b == [v EXCEPT !.item = item, !.parts = Append(v.parts, x)]
<1>1. AddVercelText(w, role, p) = IF joins THEN a ELSE b
  BY DEF AddVercelText
<1>2. VercelTold(v, told)
  BY VercelToldFlush
<1>3. Bare(x) /\ Carries(x, p.n)
  BY DEF Bare, Carries
<1>4. joins => Widens(a, v, item, p.n)
  BY DEF Widens
<1>5. b = [v EXCEPT !.item = item, !.parts = Append(v.parts, x)]
  OBVIOUS
<1> HIDE DEF v, item, x, a, b, joins
<1>7. joins => VercelTold(a, Append(told, p.n))
  BY <1>2, <1>4, VercelToldJoins
<1>8. b = [failed |-> v.failed, messages |-> v.messages, parts |-> Append(v.parts, x),
           item |-> item, tracker |-> v.tracker]
  BY <1>2, <1>5 DEF VercelTold, VercelState
<1>9. VercelTold(b, Append(told, p.n))
  <2>1. OneMorePart(b, v, x, v.tracker)
    BY <1>2, <1>3, <1>8, VercelAppends DEF VercelTold
  <2> QED BY <1>2, <1>3, <2>1, VercelToldMore
<1> QED BY <1>1, <1>7, <1>9

LEMMA VercelToldCall ==
    ASSUME NEW w, NEW told, VercelTold(w, told), NEW p
    PROVE  VercelTold(VercelCall(w, p), Append(told, p.n))
<1> DEFINE x == [type |-> "tool-call", id |-> CallID(w.tracker, p), name |-> p.name,
                 namespace |-> NoId, of |-> <<p.n>>]
           t == TrackCall(w.tracker, p)
           u == [AddPart(w, x) EXCEPT !.tracker = t]
<1>0. VercelState(w)
  BY DEF VercelTold
<1>1. Carries(x, p.n) /\ (x.type = "text" => Bare(x))
  BY DEF Carries
<1>2. VercelCall(w, p) = [AddPart(w, x) EXCEPT !.tracker = TrackCall(@, p)]
  BY DEF VercelCall
<1> HIDE DEF x
<1>3. AddPart(w, x).tracker = w.tracker
  BY <1>0, <1>1, VercelAdd DEF OneMorePart
<1>4. VercelCall(w, p) = u
  BY <1>2, <1>3
<1> HIDE DEF t
<1>5. OneMorePart(u, w, x, t)
  BY <1>0, <1>1, VercelAdd
<1> HIDE DEF u
<1> QED BY <1>1, <1>4, <1>5, VercelToldMore

LEMMA VercelToldResult ==
    ASSUME NEW w, NEW told, VercelTold(w, told), NEW role, NEW p
    PROVE  VercelTold(VercelResult(w, role, p), Append(told, p.n))
<1> DEFINE v == FlushParts(w, role)
           x == [type |-> "tool-result", id |-> ResultID(v.tracker, p),
                 answers |-> p.answers, output |-> "result", of |-> <<p.n>>]
           t == TrackResult(v.tracker, p)
           u == [AddPart(v, x) EXCEPT !.tracker = t]
<1>0. VercelTold(v, told) /\ VercelState(v)
  BY VercelToldFlush DEF VercelTold
<1>1. Carries(x, p.n) /\ (x.type = "text" => Bare(x))
  BY DEF Carries
<1>2. VercelResult(w, role, p) =
        IF Unpaired(v.tracker, p) THEN [v EXCEPT !.failed = TRUE]
        ELSE FlushParts([AddPart(v, x) EXCEPT !.tracker = TrackResult(@, p)], "tool")
  BY DEF VercelResult
<1> HIDE DEF x, v
<1>3. AddPart(v, x).tracker = v.tracker
  BY <1>0, <1>1, VercelAdd DEF OneMorePart
<1>4. [AddPart(v, x) EXCEPT !.tracker = TrackResult(@, p)] = u
  BY <1>3
<1> HIDE DEF t
<1>5. OneMorePart(u, v, x, t)
  BY <1>0, <1>1, VercelAdd
<1> HIDE DEF u
<1>6. VercelTold(FlushParts(u, "tool"), Append(told, p.n))
  BY <1>0, <1>1, <1>5, VercelToldMore, VercelToldFlush
<1> QED BY <1>0, <1>2, <1>4, <1>6, VercelToldFail

\* Each part is carried, but a thought nobody signed.
LEMMA VercelToldPart ==
    ASSUME NEW w, NEW told, VercelTold(w, told), NEW role, NEW p, p.kind \in Kinds
    PROVE  VercelTold(VercelPart(w, role, p), IF p.kind # "thought" THEN Append(told, p.n) ELSE told)
<1>0. VercelState(w)
  BY DEF VercelTold
<1>1. CASE w.failed
  <2>1. VercelPart(w, role, p) = w
    BY <1>1 DEF VercelPart
  <2> QED BY <1>1, <2>1 DEF VercelTold
<1>2. CASE ~w.failed /\ p.kind \in {"signed", "media"}
  <2> DEFINE x == [type |-> IF p.kind = "media" THEN "file" ELSE "reasoning", of |-> <<p.n>>]
  <2>1. \/ VercelPart(w, role, p) = AddPart(w, x)
        \/ VercelPart(w, role, p) = [w EXCEPT !.failed = TRUE]
    BY <1>2 DEF VercelPart
  <2>2. Carries(x, p.n) /\ (x.type = "text" => Bare(x))
    BY DEF Carries
  <2> HIDE DEF x
  <2>3. VercelTold(AddPart(w, x), Append(told, p.n))
    BY <1>0, <2>2, VercelAdd, VercelToldMore
  <2> QED BY <1>0, <1>2, <2>1, <2>3, VercelToldFail
<1>3. CASE ~w.failed /\ p.kind = "thought"
  BY <1>3 DEF VercelPart
<1>4. CASE ~w.failed /\ p.kind = "text"
  <2>1. \/ VercelPart(w, role, p) = AddVercelText(w, role, p)
        \/ VercelPart(w, role, p) = [w EXCEPT !.failed = TRUE]
    BY <1>4 DEF VercelPart
  <2> QED BY <1>0, <1>4, <2>1, VercelToldText, VercelToldFail
<1>5. CASE ~w.failed /\ p.kind = "call"
  <2>1. VercelPart(w, role, p) = VercelCall(w, p)
    BY <1>5 DEF VercelPart
  <2> QED BY <1>5, <2>1, VercelToldCall
<1>6. CASE ~w.failed /\ p.kind = "result"
  <2>1. VercelPart(w, role, p) = VercelResult(w, role, p)
    BY <1>6 DEF VercelPart
  <2> QED BY <1>6, <2>1, VercelToldResult
<1> QED BY <1>1, <1>2, <1>3, <1>4, <1>5, <1>6 DEF Kinds

LEMMA VercelCloses ==
    ASSUME NEW w, VercelState(w), NEW role
    PROVE  FlushParts(w, role).parts = <<>>
<1> DEFINE m == [role |-> role, parts |-> w.parts]
           v == [w EXCEPT !.messages = Append(w.messages, m), !.parts = <<>>, !.item = NoItem]
<1>1. FlushParts(w, role) = IF w.parts = <<>> THEN w ELSE v
  BY DEF FlushParts
<1>2. v = [w EXCEPT !.messages = Append(w.messages, m), !.parts = <<>>, !.item = NoItem]
  OBVIOUS
<1> HIDE DEF v, m
<1>3. v = [failed |-> w.failed, messages |-> Append(w.messages, m), parts |-> <<>>,
           item |-> NoItem, tracker |-> w.tracker]
  BY <1>2 DEF VercelState
<1> QED BY <1>1, <1>3

LEMMA VercelToldContent ==
    ASSUME NEW w, NEW told, VercelTold(w, told), IsSeq(told), NEW content, Attributed(content)
    PROVE  /\ VercelTold(VercelContent(w, content),
                         told \o Numbers(Kept(content.parts, Audible(content))))
           /\ VercelClosed(VercelContent(w, content))
<1> DEFINE parts == content.parts
           role == VercelRole(content.role)
           L == Len(parts)
           W == VercelWalk(w, role, parts)
           places == Audible(content)
<1>0. /\ L \in Nat /\ IsSeq(parts) /\ W[0] = w
      /\ \A k \in 1..L : W[k] = VercelPart(W[k - 1], role, parts[k])
      /\ \A k \in 1..L : parts[k].kind \in Kinds /\ (k \in places <=> parts[k].kind # "thought")
  <2>0. IsSeq(parts) /\ DOMAIN parts = 1..L /\ \A k \in 1..L : parts[k].kind \in Kinds
    BY SeqFacts DEF Attributed
  <2>1. \A k \in 1..L : k \in places <=> parts[k].kind # "thought"
    BY <2>0 DEF Audible, NotHidden
  <2> HIDE DEF parts, role, places
  <2>2. L \in Nat
    BY <2>0, SeqFacts
  <2>3. W[0] = w /\ \A k \in 1..L : W[k] = VercelPart(W[k - 1], role, parts[k])
    BY <2>0, VercelWalkFacts
  <2> HIDE DEF W, L
  <2> QED BY <2>0, <2>1, <2>2, <2>3
<1>0a. PICK c : Counts(c, told, parts, places)
  <2> HIDE DEF parts, places
  <2> QED BY <1>0, NumbersSteps
<1>1. /\ c[0] = told
      /\ \A k \in 1..L : c[k] = IF k \in places THEN Append(c[k - 1], parts[k].n) ELSE c[k - 1]
      /\ c[L] = told \o Numbers(Kept(parts, places))
  <2> HIDE DEF parts, places
  <2> QED BY <1>0a DEF Counts
<1>2. VercelContent(w, content) = CloseContent(W[L], role)
  BY DEF VercelContent
<1> HIDE DEF parts, role, L, W, places
<1> DEFINE T == {k \in Nat : k <= L => VercelTold(W[k], c[k])}
<1>3. 0 \in T
  BY <1>0, <1>1
<1>4. ASSUME NEW k \in Nat, k \in T PROVE k + 1 \in T
  <2> SUFFICES ASSUME k + 1 <= L PROVE VercelTold(W[k + 1], c[k + 1])
    OBVIOUS
  <2>1. k + 1 \in 1..L /\ (k + 1) - 1 = k /\ k <= L
    BY <1>0
  <2>2. VercelTold(W[k], c[k])
    BY <1>4, <2>1
  <2>3. W[k + 1] = VercelPart(W[k], role, parts[k + 1]) /\ parts[k + 1].kind \in Kinds
    BY <1>0, <2>1
  <2>4. c[k + 1] = IF parts[k + 1].kind # "thought" THEN Append(c[k], parts[k + 1].n) ELSE c[k]
    BY <1>0, <1>1, <2>1
  <2> QED BY <2>2, <2>3, <2>4, VercelToldPart
<1> HIDE DEF T
<1>5. Nat \subseteq T
  BY <1>3, <1>4, SetInduction
<1>6. VercelTold(W[L], c[L])
  BY <1>0, <1>5 DEF T
<1>7. VercelTold(CloseContent(W[L], role), c[L])
  BY <1>6, VercelToldFlush DEF CloseContent
<1>8. VercelClosed(CloseContent(W[L], role))
  BY <1>6, VercelCloses DEF CloseContent, VercelClosed, VercelTold
<1> QED BY <1>1, <1>2, <1>7, <1>8 DEF parts, places

LEMMA VercelStartTold == VercelTold(VercelStart, <<>>) /\ VercelClosed(VercelStart)
<1>1. VercelState(VercelStart)
  BY VercelStartTracks DEF VercelTrack
<1>2. VercelSaid(VercelStart) = <<>>
  <2>1. VercelStart.messages = <<>> /\ VercelStart.parts = <<>>
    BY DEF VercelStart
  <2>2. MessageParts(<<>>) = <<>>
    <3>1. [i \in DOMAIN <<>> |-> <<>>[i].parts] = <<>>
      OBVIOUS
    <3> QED BY <3>1, FlattenNone DEF MessageParts
  <2>3. <<>> \o <<>> = <<>>
    BY NoSeq, ConcatEmptySeq
  <2> QED BY <2>1, <2>2, <2>3 DEF VercelSaid
<1>3. VercelStart.parts = <<>>
  BY DEF VercelStart
<1> QED BY <1>1, <1>2, <1>3, CarriedNone DEF VercelTold, VercelClosed

LEMMA VercelToldHistory ==
    ASSUME NEW history, RolesKept(history)
    PROVE  /\ VercelTold(VercelHistory(history)[Len(history)], Expected(history, NotHidden))
           /\ VercelClosed(VercelHistory(history)[Len(history)])
<1> DEFINE H == VercelHistory(history)
           n == Len(history)
           F == [i \in 1..n |-> Numbers(Kept(history[i].parts, Audible(history[i])))]
<1>0. /\ n \in Nat /\ DOMAIN history = 1..n /\ H[0] = VercelStart
      /\ \A k \in 1..n : H[k] = VercelContent(H[k - 1], history[k])
      /\ \A k \in 1..n : Attributed(history[k])
  <2>0. IsSeq(history) /\ \A k \in 1..n : Attributed(history[k])
    BY DEF RolesKept
  <2>1. n \in Nat /\ DOMAIN history = 1..n
    BY <2>0, SeqFacts
  <2>2. H[0] = VercelStart /\ \A k \in 1..n : H[k] = VercelContent(H[k - 1], history[k])
    BY <2>0, VercelHistoryFacts
  <2> HIDE DEF H, n
  <2> QED BY <2>0, <2>1, <2>2
<1>1. Expected(history, NotHidden) = FlattenSeq([i \in 1..n |-> F[i]])
  <2>1. [i \in 1..n |-> F[i]] = F
    OBVIOUS
  <2>2. Expected(history, NotHidden) = FlattenSeq(F)
    BY <1>0 DEF Expected, Audible
  <2> HIDE DEF F
  <2> QED BY <2>1, <2>2
<1>2. \A k \in 1..n : F[k] = Numbers(Kept(history[k].parts, Audible(history[k])))
  OBVIOUS
<1> HIDE DEF H, n, F
<1>3. \A k \in 1..n : IsSeq(F[k])
  <2> SUFFICES ASSUME NEW k \in 1..n PROVE IsSeq(F[k])
    OBVIOUS
  <2>1. IsSeq(history[k].parts)
    BY <1>0 DEF Attributed
  <2> QED BY <1>2, <2>1, KeptNumbers
<1>4. PICK c : /\ c[0] = <<>>
               /\ \A k \in 1..n : c[k] = c[k - 1] \o F[k]
               /\ \A k \in 0..n : IsSeq(c[k])
               /\ c[n] = FlattenSeq([i \in 1..n |-> F[i]])
  BY <1>0, <1>3, FlattenSteps
<1> DEFINE T == {k \in Nat : k <= n => VercelTold(H[k], c[k]) /\ VercelClosed(H[k])}
<1>5. 0 \in T
  BY <1>0, <1>4, VercelStartTold
<1>6. ASSUME NEW k \in Nat, k \in T PROVE k + 1 \in T
  <2> SUFFICES ASSUME k + 1 <= n
               PROVE  VercelTold(H[k + 1], c[k + 1]) /\ VercelClosed(H[k + 1])
    OBVIOUS
  <2>1. k + 1 \in 1..n /\ (k + 1) - 1 = k /\ k <= n /\ k \in 0..n
    BY <1>0
  <2>2. VercelTold(H[k], c[k]) /\ IsSeq(c[k])
    BY <1>4, <1>6, <2>1
  <2>3. H[k + 1] = VercelContent(H[k], history[k + 1]) /\ Attributed(history[k + 1])
    BY <1>0, <2>1
  <2>4. c[k + 1] = c[k] \o F[k + 1]
    BY <1>4, <2>1
  <2>5. c[k + 1] = c[k] \o Numbers(Kept(history[k + 1].parts, Audible(history[k + 1])))
    BY <1>2, <2>1, <2>4
  <2> QED BY <2>2, <2>3, <2>5, VercelToldContent
<1> HIDE DEF T
<1>7. Nat \subseteq T
  BY <1>5, <1>6, SetInduction
<1>8. VercelTold(H[n], c[n]) /\ VercelClosed(H[n])
  BY <1>0, <1>7 DEF T
<1> QED BY <1>1, <1>4, <1>8 DEF H, n

LEMMA VercelTells ==
    ASSUME RolesKept(contents), VercelPieces # <<>>
    PROVE  Carried(VercelPieces) = Expected(contents, NotHidden)
<1> DEFINE w == VercelHistory(contents)[Len(contents)]
<1>1. VercelTold(w, Expected(contents, NotHidden)) /\ VercelClosed(w)
  BY VercelToldHistory
<1>2. VercelPieces = IF ~w.failed /\ w.messages # <<>> THEN MessageParts(w.messages) ELSE <<>>
  BY DEF VercelPieces, Vercel, VercelPrompt, Prompt
<1> HIDE DEF w
<1>3. ~w.failed /\ VercelPieces = MessageParts(w.messages) /\ w.parts = <<>>
  BY <1>1, <1>2 DEF VercelClosed
<1>4. VercelSaid(w) = MessageParts(w.messages)
  <2>1. IsSeq(MessageParts(w.messages))
    BY <1>1, SaidIsSeq DEF VercelTold
  <2> QED BY <1>3, <2>1, ConcatEmptySeq DEF VercelSaid, IsSeq
<1> QED BY <1>1, <1>3, <1>4 DEF VercelTold

------------------------------------------------------------------------------
(* The input of the Responses API carries what was said                      *)

LEMMA WordedNone == \A item : Worded(<<>>, item) = <<>>
BY KeptNone DEF Worded

LEMMA WordedAppend ==
    ASSUME NEW open, IsSeq(open), NEW p, NEW item
    PROVE  /\ Worded(Append(open, p), item) =
                IF p.kind # "text" \/ p.words = "some" \/ item # NoItem
                THEN Append(Worded(open, item), p) ELSE Worded(open, item)
           /\ IsSeq(Worded(open, item))
<1> DEFINE n == Append(open, p)
           L == Len(open)
           P == {i \in DOMAIN open :
                   open[i].kind # "text" \/ open[i].words = "some" \/ item # NoItem}
           Q == {i \in DOMAIN n : n[i].kind # "text" \/ n[i].words = "some" \/ item # NoItem}
<1>1. /\ L \in Nat /\ n[L + 1] = p /\ \A i \in 1..L : n[i] = open[i]
      /\ DOMAIN open = 1..L /\ DOMAIN n = 1..(L + 1)
  BY AppendFacts, SeqFacts
<1>2. Worded(open, item) = Kept(open, P) /\ Worded(n, item) = Kept(n, Q)
  BY DEF Worded
<1> HIDE DEF n
<1>3. \A i \in 1..L : i \in P <=> i \in Q
  <2>1. \A i \in 1..L : i \in DOMAIN open /\ i \in DOMAIN n /\ n[i] = open[i]
    BY <1>1
  <2> QED BY <2>1
<1>4. L + 1 \in Q <=> p.kind # "text" \/ p.words = "some" \/ item # NoItem
  <2>1. L + 1 \in DOMAIN n
    BY <1>1
  <2> QED BY <1>1, <2>1
<1> HIDE DEF P, Q
<1>5. /\ Kept(n, Q) = IF L + 1 \in Q THEN Append(Kept(open, P), p) ELSE Kept(open, P)
      /\ IsSeq(Kept(open, P))
  BY <1>3, KeptAppend DEF n
<1> QED BY <1>2, <1>4, <1>5 DEF n

LEMMA QueuedIsSeq ==
    ASSUME NEW w, IsSeq(w.open), NEW role
    PROVE  IsSeq(Queued(w, role)) /\ IsSeq(Numbers(Queued(w, role)))
<1>1. IsSeq(Worded(w.open, w.item))
  BY WordedAppend
<1>2. IsSeq(Queued(w, role))
  BY <1>1 DEF Queued
<1> QED BY <1>2, NumbersFacts

LEMMA ItemsToldFail ==
    ASSUME NEW w, ItemsState(w), NEW role, NEW told
    PROVE  ItemsTold([w EXCEPT !.failed = TRUE], role, told)
<1> DEFINE v == [w EXCEPT !.failed = TRUE]
<1>1. v = [w EXCEPT !.failed = TRUE]
  OBVIOUS
<1> HIDE DEF v
<1>2. v = [failed |-> TRUE, items |-> w.items, open |-> w.open, item |-> w.item,
           tracker |-> w.tracker]
  BY <1>1 DEF ItemsState
<1>3. ItemsTold(v, role, told)
  BY <1>2 DEF ItemsTold, ItemsState
<1> QED BY <1>3 DEF v

\* With nothing open, the items are all that was told, whoever speaks next.
LEMMA ItemsToldClosed ==
    ASSUME NEW w, w.open = <<>>, NEW told
    PROVE  \A role : ItemsTold(w, role, told) <=>
             ItemsState(w) /\ (~w.failed => HaveOf(w.items) /\ Carried(w.items) = told)
<1> SUFFICES ASSUME NEW role
             PROVE  ItemsTold(w, role, told) <=>
                    ItemsState(w) /\ (~w.failed => HaveOf(w.items) /\ Carried(w.items) = told)
  OBVIOUS
<1>1. Queued(w, role) = <<>> /\ IsSeq(w.open)
  BY WordedNone, NoSeq DEF Queued
<1>2. HaveOf(w.items) => IsSeq(Carried(w.items))
  <2> DEFINE x == [of |-> <<>>]
  <2>1. Made(x)
    BY NoSeq DEF Made
  <2> HIDE DEF x
  <2> QED BY <2>1, CarriedAppend
<1>3. HaveOf(w.items) => Carried(w.items) \o <<>> = Carried(w.items)
  BY <1>2, ConcatEmptySeq DEF IsSeq
<1> QED BY <1>1, <1>3, NumbersNone DEF ItemsTold

LEMMA ItemsToldFlush ==
    ASSUME NEW w, NEW role, NEW told, ItemsTold(w, role, told)
    PROVE  /\ ItemsTold(FlushMessage(w, role), role, told)
           /\ FlushMessage(w, role).failed = w.failed
           /\ FlushMessage(w, role).open = <<>>
<1> DEFINE kept == Queued(w, role)
           closed == [w EXCEPT !.open = <<>>, !.item = NoItem]
           x == [type |-> "message", role |-> role, item |-> w.item,
                 media |-> OfKind(kept, "media") # <<>>, of |-> Numbers(kept)]
           v == [closed EXCEPT !.items = Append(@, x)]
<1>1. FlushMessage(w, role) = IF kept = <<>> THEN closed ELSE v
  BY DEF FlushMessage, Queued
<1>2. "of" \in DOMAIN x /\ x.of = Numbers(kept)
  OBVIOUS
<1>2a. closed = [w EXCEPT !.open = <<>>, !.item = NoItem]
  OBVIOUS
<1>2b. v = [closed EXCEPT !.items = Append(closed.items, x)]
  OBVIOUS
<1> HIDE DEF x, kept, v, closed
<1>3. closed = [failed |-> w.failed, items |-> w.items, open |-> <<>>, item |-> NoItem,
                tracker |-> w.tracker]
  BY <1>2a DEF ItemsTold, ItemsState
<1>4. v = [failed |-> w.failed, items |-> Append(w.items, x), open |-> <<>>, item |-> NoItem,
           tracker |-> w.tracker]
  BY <1>2b, <1>3
<1>5. w.failed \in BOOLEAN
  BY DEF ItemsTold, ItemsState
<1>6. ItemsState(closed) /\ closed.failed = w.failed /\ closed.open = <<>> /\ closed.items = w.items
  BY <1>3, <1>5 DEF ItemsState
<1>7. ItemsState(v) /\ v.failed = w.failed /\ v.open = <<>> /\ v.items = Append(w.items, x)
  BY <1>4, <1>5 DEF ItemsState
<1>8. ASSUME ~w.failed
      PROVE  /\ HaveOf(w.items) /\ Carried(w.items) \o Numbers(kept) = told
             /\ IsSeq(Numbers(kept))
  BY <1>8, QueuedIsSeq DEF ItemsTold, kept
<1>9. CASE kept = <<>>
  <2>1. w.open = <<>> \/ w.open # <<>>
    OBVIOUS
  <2>2. ASSUME ~w.failed PROVE HaveOf(w.items) /\ Carried(w.items) = told
    <3> DEFINE y == [of |-> <<>>]
    <3>1. Made(y)
      BY NoSeq DEF Made
    <3> HIDE DEF y
    <3>2. IsSeq(Carried(w.items))
      BY <1>8, <2>2, <3>1, CarriedAppend
    <3> QED BY <1>8, <1>9, <2>2, <3>2, NumbersNone, ConcatEmptySeq DEF IsSeq
  <2>3. ItemsTold(closed, role, told)
    BY <1>6, <2>2, ItemsToldClosed
  <2> QED BY <1>1, <1>6, <1>9, <2>3
<1>10. CASE kept # <<>>
  <2>1. ASSUME ~w.failed PROVE HaveOf(Append(w.items, x)) /\ Carried(Append(w.items, x)) = told
    <3>1. Made(x)
      BY <1>2, <1>8, <2>1 DEF Made
    <3> QED BY <1>2, <1>8, <2>1, <3>1, CarriedAppend
  <2>2. ItemsTold(v, role, told)
    BY <1>7, <2>1, ItemsToldClosed
  <2> QED BY <1>1, <1>7, <1>10, <2>2
<1> QED BY <1>9, <1>10

\* An item of one part behind the closed message.
LEMMA ItemsToldMore ==
    ASSUME NEW v, NEW role, NEW told, ItemsTold(v, role, told), v.open = <<>>,
           NEW x, NEW n, Carries(x, n), NEW t, NEW u, OneMoreItem(u, v, x, t)
    PROVE  ItemsTold(u, role, Append(told, n))
<1>1. ItemsState(u) /\ u.failed = v.failed /\ u.items = Append(v.items, x) /\ u.open = <<>>
  BY DEF OneMoreItem
<1>2. ASSUME ~u.failed PROVE HaveOf(u.items) /\ Carried(u.items) = Append(told, n)
  <2>1. HaveOf(v.items) /\ Carried(v.items) = told
    BY <1>1, <1>2, ItemsToldClosed
  <2>2. Made(x) /\ x.of = <<n>>
    BY SingleFacts DEF Made, Carries
  <2>3. HaveOf(Append(v.items, x)) /\ Carried(Append(v.items, x)) = told \o <<n>> /\ IsSeq(told)
    BY <2>1, <2>2, CarriedAppend
  <2> QED BY <1>1, <2>3, OneBehind
<1> QED BY <1>1, <1>2, ItemsToldClosed

LEMMA OpensFacts ==
    ASSUME NEW v, ItemsState(v), NEW role, NEW p, NEW u, Opens(u, v, role, p)
    PROVE  /\ ItemsState(u) /\ u.failed = v.failed /\ u.items = v.items
           /\ u.open = Append(v.open, p)
           /\ role = "assistant" => u.item = p.item
<1> DEFINE item == IF role = "assistant" THEN p.item ELSE v.item
           open == Append(v.open, p)
<1>1. u = [v EXCEPT !.open = open, !.item = item]
  BY DEF Opens
<1>1a. role = "assistant" => item = p.item
  OBVIOUS
<1> HIDE DEF item, open
<1>2. u = [failed |-> v.failed, items |-> v.items, open |-> open, item |-> item,
           tracker |-> v.tracker]
  BY <1>1 DEF ItemsState
<1>3. v.failed \in BOOLEAN
  BY DEF ItemsState
<1>4. ItemsState(u) /\ u.failed = v.failed /\ u.items = v.items /\ u.open = open /\ u.item = item
  BY <1>2, <1>3 DEF ItemsState
<1> QED BY <1>1a, <1>4 DEF open

LEMMA ItemsToldOpen ==
    ASSUME NEW v, NEW said, NEW told, ItemsTold(v, ResponsesRole(said), told), NEW p,
           NEW u, Opens(u, v, ResponsesRole(said), p)
    PROVE  ItemsTold(u, ResponsesRole(said), ToldOf(told, said, p))
<1> DEFINE role == ResponsesRole(said)
           open == v.open
<1>0. /\ role = ResponsesRole(said) /\ ItemsState(v) /\ ItemsTold(v, role, told)
      /\ Opens(u, v, role, p) /\ open = v.open
  BY DEF ItemsTold
<1> HIDE DEF role, open
<1>4. /\ ItemsState(u) /\ u.failed = v.failed /\ u.items = v.items
      /\ u.open = Append(open, p)
      /\ role = "assistant" => u.item = p.item
  BY <1>0, OpensFacts
<1>4a. /\ p.kind \in {"text", "media"}
       /\ p.kind = "media" => role # "assistant"
       /\ role = "assistant" => open = <<>> \/ p.item = v.item
  BY <1>0 DEF Opens
<1>5. ASSUME ~u.failed
      PROVE  /\ IsSeq(u.open) /\ HaveOf(u.items)
             /\ Carried(u.items) \o Numbers(Queued(u, role)) = ToldOf(told, said, p)
  <2>1. /\ IsSeq(open) /\ HaveOf(v.items)
        /\ Carried(v.items) \o Numbers(Queued(v, role)) = told
    BY <1>0, <1>4, <1>5 DEF ItemsTold
  <2>2. IsSeq(u.open)
    BY <1>4, <2>1, AppendFacts
  <2>3. Queued(u, role) = IF Worthwhile(said, p) THEN Append(Queued(v, role), p)
                                                 ELSE Queued(v, role)
    <3>1. CASE role # "assistant"
      <4>1. said # "model"
        BY <1>0, <3>1 DEF ResponsesRole
      <4>2. Worthwhile(said, p)
        BY <1>4a, <4>1 DEF Worthwhile
      <4> QED BY <1>0, <1>4, <3>1, <4>2 DEF Queued
    <3>2. CASE role = "assistant"
      <4>1. said = "model" /\ p.kind = "text"
        BY <1>0, <1>4a, <3>2 DEF ResponsesRole
      <4>2. Worthwhile(said, p) <=> p.words = "some" \/ p.item # NoItem
        BY <4>1 DEF Worthwhile
      <4>3. Queued(u, role) = Worded(Append(open, p), p.item)
        BY <1>4, <3>2 DEF Queued
      <4>4. Worded(Append(open, p), p.item) =
              IF p.words = "some" \/ p.item # NoItem
              THEN Append(Worded(open, p.item), p) ELSE Worded(open, p.item)
        <5> DEFINE item == p.item
        <5>1. item = p.item
          OBVIOUS
        <5> HIDE DEF item
        <5>2. Worded(Append(open, p), item) =
                IF p.kind # "text" \/ p.words = "some" \/ item # NoItem
                THEN Append(Worded(open, item), p) ELSE Worded(open, item)
          BY <2>1, WordedAppend
        <5> QED BY <4>1, <5>1, <5>2
      <4>5. Worded(open, p.item) = Queued(v, role)
        BY <1>0, <1>4a, <3>2, WordedNone DEF Queued
      <4> QED BY <4>2, <4>3, <4>4, <4>5
    <3> QED BY <3>1, <3>2
  <2>4. CASE ~Worthwhile(said, p)
    BY <1>4, <2>1, <2>2, <2>3, <2>4 DEF ToldOf
  <2>5. CASE Worthwhile(said, p)
    <3>1. IsSeq(Queued(v, role)) /\ IsSeq(Numbers(Queued(v, role)))
      BY <1>0, <2>1, QueuedIsSeq
    <3>2. Numbers(Queued(u, role)) = Append(Numbers(Queued(v, role)), p.n)
      BY <2>3, <2>5, <3>1, NumbersFacts
    <3>3. IsSeq(Carried(v.items))
      <4> DEFINE y == [of |-> <<>>]
      <4>1. Made(y)
        BY NoSeq DEF Made
      <4> HIDE DEF y
      <4> QED BY <2>1, <4>1, CarriedAppend
    <3>4. Carried(v.items) \o Append(Numbers(Queued(v, role)), p.n) = Append(told, p.n)
      BY <2>1, <3>1, <3>3, ConcatAppend
    <3> QED BY <1>4, <2>1, <2>2, <2>5, <3>2, <3>4 DEF ToldOf
  <2> QED BY <2>4, <2>5
<1>6. ItemsTold(u, role, ToldOf(told, said, p))
  BY <1>4, <1>5 DEF ItemsTold
<1> QED BY <1>6 DEF role

LEMMA ItemsToldText ==
    ASSUME NEW w, NEW said, NEW told, ItemsTold(w, ResponsesRole(said), told), NEW p, p.kind = "text"
    PROVE  ItemsTold(AddText(w, ResponsesRole(said), p), ResponsesRole(said), ToldOf(told, said, p))
<1> DEFINE role == ResponsesRole(said)
           v == IF role = "assistant" /\ w.open # <<>> /\ p.item # w.item
                THEN FlushMessage(w, role) ELSE w
           u == [v EXCEPT !.open = Append(@, p),
                          !.item = IF role = "assistant" THEN p.item ELSE @]
<1>0. role = ResponsesRole(said) /\ ItemsTold(w, role, told)
  OBVIOUS
<1> HIDE DEF role
<1>1. AddText(w, role, p) = u
  BY DEF AddText
<1>2. ItemsTold(v, role, told) /\ (role = "assistant" => v.open = <<>> \/ p.item = v.item)
  BY <1>0, ItemsToldFlush
<1> HIDE DEF v
<1>3. u = [v EXCEPT !.open = Append(v.open, p),
                    !.item = IF role = "assistant" THEN p.item ELSE v.item]
  OBVIOUS
<1> HIDE DEF u
<1>4. Opens(u, v, role, p)
  BY <1>2, <1>3 DEF Opens
<1>5. ItemsTold(u, role, ToldOf(told, said, p))
  BY <1>2, <1>4, ItemsToldOpen DEF role
<1> QED BY <1>1, <1>5 DEF role

LEMMA ItemsToldMedia ==
    ASSUME NEW w, NEW said, NEW told, ItemsTold(w, ResponsesRole(said), told),
           ResponsesRole(said) # "assistant", NEW p, p.kind = "media"
    PROVE  ItemsTold([w EXCEPT !.open = Append(@, p)], ResponsesRole(said), ToldOf(told, said, p))
<1> DEFINE role == ResponsesRole(said)
           u == [w EXCEPT !.open = Append(@, p)]
           x == [w EXCEPT !.open = Append(w.open, p),
                          !.item = IF role = "assistant" THEN p.item ELSE w.item]
<1>0. role = ResponsesRole(said) /\ ItemsTold(w, role, told) /\ role # "assistant"
  OBVIOUS
<1>1. u = [w EXCEPT !.open = Append(w.open, p)]
  OBVIOUS
<1>2. x = [w EXCEPT !.open = Append(w.open, p),
                    !.item = IF role = "assistant" THEN p.item ELSE w.item]
  OBVIOUS
<1> HIDE DEF role, u, x
<1>3. u = x
  <2>1. u = [failed |-> w.failed, items |-> w.items, open |-> Append(w.open, p), item |-> w.item,
             tracker |-> w.tracker]
    BY <1>0, <1>1 DEF ItemsTold, ItemsState
  <2>2. x = [failed |-> w.failed, items |-> w.items, open |-> Append(w.open, p), item |-> w.item,
             tracker |-> w.tracker]
    BY <1>0, <1>2 DEF ItemsTold, ItemsState
  <2> QED BY <2>1, <2>2
<1>3a. Opens(x, w, role, p)
  BY <1>0, <1>2 DEF Opens
<1>4. ItemsTold(x, role, ToldOf(told, said, p))
  BY <1>0, <1>3a, ItemsToldOpen DEF role
<1> QED BY <1>3, <1>4 DEF role, u

LEMMA ItemsToldCall ==
    ASSUME NEW w, NEW role, NEW told, ItemsTold(w, role, told), NEW p
    PROVE  ItemsTold(AddCall(w, role, p), role, Append(told, p.n))
<1> DEFINE v == FlushMessage(w, role)
           x == [type |-> "function_call", id |-> CallID(v.tracker, p), name |-> p.name,
                 namespace |-> NoId, of |-> <<p.n>>]
           t == TrackCall(v.tracker, p)
           u == [AddItem(v, x) EXCEPT !.tracker = t]
<1>1. ItemsTold(v, role, told) /\ v.open = <<>>
  BY ItemsToldFlush
<1>2. ItemsState(v)
  BY <1>1 DEF ItemsTold
<1>3. AddItem(v, x).tracker = v.tracker
  BY <1>2, ItemsAdd DEF OneMoreItem
<1>4. AddCall(w, role, p) = u
  <2>1. AddCall(w, role, p) = [AddItem(v, x) EXCEPT !.tracker = TrackCall(@, p)]
    BY DEF AddCall
  <2> HIDE DEF v, x
  <2> QED BY <1>3, <2>1
<1>5. Carries(x, p.n)
  BY DEF Carries
<1> HIDE DEF v, x, t
<1>6. OneMoreItem(u, v, x, t)
  BY <1>2, ItemsAdd
<1> HIDE DEF u
<1> QED BY <1>1, <1>4, <1>5, <1>6, ItemsToldMore

LEMMA ItemsToldOutput ==
    ASSUME NEW w, NEW role, NEW told, ItemsTold(w, role, told), NEW p
    PROVE  ItemsTold(AddOutput(w, role, p), role, Append(told, p.n))
<1> DEFINE v == FlushMessage(w, role)
           x == [type |-> "function_call_output", id |-> ResultID(v.tracker, p),
                 answers |-> p.answers, of |-> <<p.n>>]
           t == TrackResult(v.tracker, p)
           u == [AddItem(v, x) EXCEPT !.tracker = t]
<1>1. ItemsTold(v, role, told) /\ v.open = <<>>
  BY ItemsToldFlush
<1>2. ItemsState(v)
  BY <1>1 DEF ItemsTold
<1>3. AddItem(v, x).tracker = v.tracker
  BY <1>2, ItemsAdd DEF OneMoreItem
<1>4. AddOutput(w, role, p) = IF Unpaired(v.tracker, p) THEN [v EXCEPT !.failed = TRUE] ELSE u
  <2>1. AddOutput(w, role, p) = IF Unpaired(v.tracker, p) THEN [v EXCEPT !.failed = TRUE]
                                ELSE [AddItem(v, x) EXCEPT !.tracker = TrackResult(@, p)]
    BY DEF AddOutput
  <2> HIDE DEF v, x
  <2> QED BY <1>3, <2>1
<1>5. Carries(x, p.n)
  BY DEF Carries
<1> HIDE DEF v, x, t
<1>6. OneMoreItem(u, v, x, t)
  BY <1>2, ItemsAdd
<1> HIDE DEF u
<1>7. ItemsTold(u, role, Append(told, p.n))
  BY <1>1, <1>5, <1>6, ItemsToldMore
<1> QED BY <1>2, <1>4, <1>7, ItemsToldFail

LEMMA ItemsToldPart ==
    ASSUME NEW w, NEW said, NEW told, ItemsTold(w, ResponsesRole(said), told),
           NEW p, p.kind \in Kinds
    PROVE  ItemsTold(ItemsPart(w, ResponsesRole(said), p), ResponsesRole(said), ToldOf(told, said, p))
<1> DEFINE role == ResponsesRole(said)
<1>0. ItemsState(w) /\ ItemsTold(w, role, told)
  BY DEF ItemsTold
<1>0a. p.kind \in {"signed", "media", "call", "result"} => ToldOf(told, said, p) = Append(told, p.n)
  BY DEF ToldOf, Worthwhile
<1>1. CASE w.failed
  <2>1. ItemsPart(w, role, p) = w
    BY <1>1 DEF ItemsPart
  <2> QED BY <1>1, <2>1 DEF ItemsTold
<1>2. CASE ~w.failed /\ p.kind = "signed"
  <2> DEFINE v == FlushMessage(w, role)
             x == [type |-> "reasoning", of |-> <<p.n>>]
  <2>1. ItemsPart(w, role, p) = IF p.by = "own" THEN AddItem(v, x) ELSE [w EXCEPT !.failed = TRUE]
    BY <1>2 DEF ItemsPart
  <2>2. Carries(x, p.n)
    BY DEF Carries
  <2>3. ItemsTold(v, role, told) /\ v.open = <<>> /\ ItemsState(v)
    BY <1>0, ItemsToldFlush DEF ItemsTold
  <2> HIDE DEF v, x, role
  <2>4. OneMoreItem(AddItem(v, x), v, x, v.tracker)
    BY <2>3, ItemsAdd
  <2>5. ItemsTold(AddItem(v, x), role, Append(told, p.n))
    BY <2>2, <2>3, <2>4, ItemsToldMore
  <2>6. ItemsTold([w EXCEPT !.failed = TRUE], role, Append(told, p.n))
    BY <1>0, ItemsToldFail
  <2>7. ItemsTold(ItemsPart(w, role, p), role, Append(told, p.n))
    BY <2>1, <2>5, <2>6
  <2> QED BY <1>0a, <1>2, <2>7 DEF role
<1>3. CASE ~w.failed /\ p.kind = "thought"
  <2>1. ItemsPart(w, role, p) = w
    BY <1>3 DEF ItemsPart
  <2>2. ToldOf(told, said, p) = told
    BY <1>3 DEF ToldOf, Worthwhile
  <2> QED BY <2>1, <2>2
<1>4. CASE ~w.failed /\ p.kind = "text"
  <2>1. ItemsPart(w, role, p) = AddText(w, role, p) \/ ItemsPart(w, role, p) = [w EXCEPT !.failed = TRUE]
    BY <1>4 DEF ItemsPart
  <2> QED BY <1>0, <1>4, <2>1, ItemsToldText, ItemsToldFail
<1>5. CASE ~w.failed /\ p.kind = "media"
  <2>1. ItemsPart(w, role, p) = IF role = "assistant" THEN [w EXCEPT !.failed = TRUE]
                                ELSE [w EXCEPT !.open = Append(@, p)]
    BY <1>5 DEF ItemsPart
  <2> QED BY <1>0, <1>5, <2>1, ItemsToldMedia, ItemsToldFail
<1>6. CASE ~w.failed /\ p.kind = "call"
  <2>1. ItemsPart(w, role, p) = AddCall(w, role, p)
    BY <1>6 DEF ItemsPart
  <2> QED BY <1>0, <1>0a, <1>6, <2>1, ItemsToldCall
<1>7. CASE ~w.failed /\ p.kind = "result"
  <2>1. ItemsPart(w, role, p) = AddOutput(w, role, p)
    BY <1>7 DEF ItemsPart
  <2> QED BY <1>0, <1>0a, <1>7, <2>1, ItemsToldOutput
<1> QED BY <1>1, <1>2, <1>3, <1>4, <1>5, <1>6, <1>7 DEF Kinds

LEMMA CleanIsTold ==
    ASSUME NEW w, NEW told, ItemsClean(w, told), NEW role
    PROVE  ItemsTold(w, role, told)
<1>1. CASE w.failed
  BY <1>1 DEF ItemsClean, ItemsTold
<1>2. CASE ~w.failed
  <2>1. w.open = <<>> /\ ItemsState(w) /\ HaveOf(w.items) /\ Carried(w.items) = told
    BY <1>2 DEF ItemsClean
  <2> QED BY <2>1, ItemsToldClosed
<1> QED BY <1>1, <1>2

LEMMA ItemsToldCloses ==
    ASSUME NEW w, NEW role, NEW told, ItemsTold(w, role, told)
    PROVE  ItemsClean(CloseItems(w, role), told)
<1>1. CASE w.failed
  BY <1>1 DEF CloseItems, ItemsClean, ItemsTold
<1>2. CASE ~w.failed
  <2> DEFINE v == FlushMessage(w, role)
  <2>1. CloseItems(w, role) = v
    BY <1>2 DEF CloseItems
  <2>2. ItemsTold(v, role, told) /\ v.open = <<>>
    BY ItemsToldFlush
  <2> HIDE DEF v
  <2>3. ItemsState(v) /\ (~v.failed => HaveOf(v.items) /\ Carried(v.items) = told)
    BY <2>2, ItemsToldClosed
  <2> QED BY <2>1, <2>2, <2>3 DEF ItemsClean
<1> QED BY <1>1, <1>2

LEMMA ItemsToldContent ==
    ASSUME NEW w, NEW told, ItemsClean(w, told), IsSeq(told), NEW content, Attributed(content)
    PROVE  ItemsClean(ItemsContent(w, content),
                      told \o Numbers(Kept(content.parts, Telling(content))))
<1> DEFINE parts == content.parts
           said == content.role
           role == ResponsesRole(said)
           L == Len(parts)
           W == ItemsWalk(w, role, parts)
           places == Telling(content)
<1>0. /\ L \in Nat /\ IsSeq(parts) /\ W[0] = w
      /\ \A k \in 1..L : W[k] = ItemsPart(W[k - 1], role, parts[k])
      /\ \A k \in 1..L : parts[k].kind \in Kinds /\ (k \in places <=> Worthwhile(said, parts[k]))
  <2>0. IsSeq(parts) /\ DOMAIN parts = 1..L /\ \A k \in 1..L : parts[k].kind \in Kinds
    BY SeqFacts DEF Attributed
  <2>1. \A k \in 1..L : k \in places <=> Worthwhile(said, parts[k])
    BY <2>0 DEF Telling
  <2> HIDE DEF parts, said, role, places
  <2>2. L \in Nat
    BY <2>0, SeqFacts
  <2>3. W[0] = w /\ \A k \in 1..L : W[k] = ItemsPart(W[k - 1], role, parts[k])
    BY <2>0, ItemsWalkFacts
  <2> HIDE DEF W, L
  <2> QED BY <2>0, <2>1, <2>2, <2>3
<1>0a. PICK c : Counts(c, told, parts, places)
  <2> HIDE DEF parts, places
  <2> QED BY <1>0, NumbersSteps
<1>1. /\ c[0] = told
      /\ \A k \in 1..L : c[k] = IF k \in places THEN Append(c[k - 1], parts[k].n) ELSE c[k - 1]
      /\ c[L] = told \o Numbers(Kept(parts, places))
  <2> HIDE DEF parts, places
  <2> QED BY <1>0a DEF Counts
<1>2. ItemsContent(w, content) = CloseItems(W[L], role)
  BY DEF ItemsContent
<1>2a. role = ResponsesRole(said)
  OBVIOUS
<1> HIDE DEF parts, said, role, L, W, places
<1> DEFINE T == {k \in Nat : k <= L => ItemsTold(W[k], role, c[k])}
<1>3. 0 \in T
  BY <1>0, <1>1, CleanIsTold
<1>4. ASSUME NEW k \in Nat, k \in T PROVE k + 1 \in T
  <2> SUFFICES ASSUME k + 1 <= L PROVE ItemsTold(W[k + 1], role, c[k + 1])
    OBVIOUS
  <2>1. k + 1 \in 1..L /\ (k + 1) - 1 = k /\ k <= L
    BY <1>0
  <2>2. ItemsTold(W[k], role, c[k])
    BY <1>4, <2>1
  <2>3. W[k + 1] = ItemsPart(W[k], role, parts[k + 1]) /\ parts[k + 1].kind \in Kinds
    BY <1>0, <2>1
  <2>4. c[k + 1] = ToldOf(c[k], said, parts[k + 1])
    BY <1>0, <1>1, <2>1 DEF ToldOf
  <2> QED BY <1>2a, <2>2, <2>3, <2>4, ItemsToldPart
<1> HIDE DEF T
<1>5. Nat \subseteq T
  BY <1>3, <1>4, SetInduction
<1>6. ItemsTold(W[L], role, c[L])
  BY <1>0, <1>5 DEF T
<1>7. ItemsClean(CloseItems(W[L], role), c[L])
  BY <1>6, ItemsToldCloses
<1> QED BY <1>1, <1>2, <1>7 DEF parts, places

LEMMA ItemsStartClean == ItemsClean(ItemsStart, <<>>)
<1>1. ItemsState(ItemsStart)
  BY ItemsStartTracks DEF ItemsTrack
<1>2. ItemsStart.open = <<>> /\ ItemsStart.items = <<>>
  BY DEF ItemsStart
<1> QED BY <1>1, <1>2, CarriedNone DEF ItemsClean

LEMMA ItemsToldHistory ==
    ASSUME NEW history, RolesKept(history)
    PROVE  ItemsClean(ItemsHistory(history)[Len(history)], Expected(history, Worthwhile))
<1> DEFINE H == ItemsHistory(history)
           n == Len(history)
           F == [i \in 1..n |-> Numbers(Kept(history[i].parts, Telling(history[i])))]
<1>0. /\ n \in Nat /\ DOMAIN history = 1..n /\ H[0] = ItemsStart
      /\ \A k \in 1..n : H[k] = ItemsContent(H[k - 1], history[k])
      /\ \A k \in 1..n : Attributed(history[k])
  <2>0. IsSeq(history) /\ \A k \in 1..n : Attributed(history[k])
    BY DEF RolesKept
  <2>1. n \in Nat /\ DOMAIN history = 1..n
    BY <2>0, SeqFacts
  <2>2. H[0] = ItemsStart /\ \A k \in 1..n : H[k] = ItemsContent(H[k - 1], history[k])
    BY <2>0, ItemsHistoryFacts
  <2> HIDE DEF H, n
  <2> QED BY <2>0, <2>1, <2>2
<1>1. Expected(history, Worthwhile) = FlattenSeq([i \in 1..n |-> F[i]])
  <2>1. [i \in 1..n |-> F[i]] = F
    OBVIOUS
  <2>2. Expected(history, Worthwhile) = FlattenSeq(F)
    BY <1>0 DEF Expected, Telling
  <2> HIDE DEF F
  <2> QED BY <2>1, <2>2
<1>2. \A k \in 1..n : F[k] = Numbers(Kept(history[k].parts, Telling(history[k])))
  OBVIOUS
<1> HIDE DEF H, n, F
<1>3. \A k \in 1..n : IsSeq(F[k])
  <2> SUFFICES ASSUME NEW k \in 1..n PROVE IsSeq(F[k])
    OBVIOUS
  <2>1. IsSeq(history[k].parts)
    BY <1>0 DEF Attributed
  <2> QED BY <1>2, <2>1, KeptNumbers
<1>4. PICK c : /\ c[0] = <<>>
               /\ \A k \in 1..n : c[k] = c[k - 1] \o F[k]
               /\ \A k \in 0..n : IsSeq(c[k])
               /\ c[n] = FlattenSeq([i \in 1..n |-> F[i]])
  BY <1>0, <1>3, FlattenSteps
<1> DEFINE T == {k \in Nat : k <= n => ItemsClean(H[k], c[k])}
<1>5. 0 \in T
  BY <1>0, <1>4, ItemsStartClean
<1>6. ASSUME NEW k \in Nat, k \in T PROVE k + 1 \in T
  <2> SUFFICES ASSUME k + 1 <= n
               PROVE  ItemsClean(H[k + 1], c[k + 1])
    OBVIOUS
  <2>1. k + 1 \in 1..n /\ (k + 1) - 1 = k /\ k <= n /\ k \in 0..n
    BY <1>0
  <2>2. ItemsClean(H[k], c[k]) /\ IsSeq(c[k])
    BY <1>4, <1>6, <2>1
  <2>3. H[k + 1] = ItemsContent(H[k], history[k + 1]) /\ Attributed(history[k + 1])
    BY <1>0, <2>1
  <2>4. c[k + 1] = c[k] \o F[k + 1]
    BY <1>4, <2>1
  <2>5. c[k + 1] = c[k] \o Numbers(Kept(history[k + 1].parts, Telling(history[k + 1])))
    BY <1>2, <2>1, <2>4
  <2> QED BY <2>2, <2>3, <2>5, ItemsToldContent
<1> HIDE DEF T
<1>7. Nat \subseteq T
  BY <1>5, <1>6, SetInduction
<1>8. ItemsClean(H[n], c[n])
  BY <1>0, <1>7 DEF T
<1> QED BY <1>1, <1>4, <1>8 DEF H, n

LEMMA ResponsesTells ==
    ASSUME RolesKept(contents), ResponsesPieces # <<>>
    PROVE  Carried(ResponsesPieces) = Expected(contents, Worthwhile)
<1> DEFINE w == ItemsHistory(contents)[Len(contents)]
<1>1. ItemsClean(w, Expected(contents, Worthwhile))
  BY ItemsToldHistory
<1>2. ResponsesPieces = IF ~w.failed /\ w.items # <<>> THEN w.items ELSE <<>>
  BY DEF ResponsesPieces, Responses, ResponsesInput, Input
<1> HIDE DEF w
<1> QED BY <1>1, <1>2 DEF ItemsClean

------------------------------------------------------------------------------
(* The messages of Chat Completions carry what was said                      *)

LEMMA SpokenAppend ==
    ASSUME NEW messages, Spoken(messages), NEW m, IsSeq(ChatOf(m))
    PROVE  /\ Spoken(Append(messages, m))
           /\ ChatCarried(Append(messages, m)) = ChatCarried(messages) \o ChatOf(m)
           /\ IsSeq(ChatCarried(messages))
<1> DEFINE n == Append(messages, m)
           L == Len(messages)
           s == [i \in 1..L |-> ChatOf(messages[i])]
           t == [i \in 1..(L + 1) |-> ChatOf(n[i])]
<1>1. /\ IsSeq(messages) /\ IsSeq(n) /\ L \in Nat /\ Len(n) = L + 1
      /\ DOMAIN messages = 1..L /\ DOMAIN n = 1..(L + 1)
      /\ n[L + 1] = m /\ \A i \in 1..L : n[i] = messages[i]
  BY AppendFacts, SeqFacts DEF Spoken
<1>2. ChatCarried(messages) = FlattenSeq(s) /\ ChatCarried(n) = FlattenSeq(t)
  <2>1. ChatCarried(messages) = FlattenSeq(s)
    BY <1>1 DEF ChatCarried, ChatOf
  <2> HIDE DEF n
  <2>2. ChatCarried(n) = FlattenSeq(t)
    BY <1>1 DEF ChatCarried, ChatOf
  <2> QED BY <2>1, <2>2
<1> HIDE DEF n
<1>3. /\ \A i \in 1..L : IsSeq(ChatOf(messages[i]))
      /\ \A i \in 1..(L + 1) : i \in 1..L \/ i = L + 1
  BY <1>1 DEF Spoken
<1>4. Spoken(n)
  BY <1>1, <1>3 DEF Spoken
<1> HIDE DEF L
<1>5. s \in Seq({s[i] : i \in 1..L}) /\ Len(s) = L /\ t \in Seq({t[i] : i \in 1..(L + 1)}) /\ Len(t) = L + 1
  BY <1>1
<1>6. \A i \in 1..L : t[i] = s[i] /\ IsSeq(s[i])
  <2> SUFFICES ASSUME NEW i \in 1..L PROVE t[i] = s[i] /\ IsSeq(s[i])
    OBVIOUS
  <2>1. i \in 1..(L + 1) /\ n[i] = messages[i]
    BY <1>1
  <2> QED BY <1>3, <2>1
<1>7. t[L + 1] = ChatOf(m)
  <2>1. L + 1 \in 1..(L + 1)
    BY <1>1
  <2> QED BY <1>1, <2>1
<1> HIDE DEF s, t
<1>8. IsSeq(s) /\ IsSeq(t) /\ Len(s) \in Nat
  BY <1>1, <1>5, AnySeq
<1>8a. /\ Len(t) = Len(s) + 1 /\ t[Len(s) + 1] = ChatOf(m)
       /\ \A i \in 1..Len(s) : t[i] = s[i] /\ IsSeq(s[i])
  BY <1>5, <1>6, <1>7
<1>9. t = Append(s, ChatOf(m)) /\ SeqOfSeqs(s)
  BY <1>8, <1>8a, GrowsBy
<1>10. ChatCarried(n) = ChatCarried(messages) \o ChatOf(m) /\ IsSeq(ChatCarried(messages))
  BY <1>2, <1>9, FlattenAppend, FlattenIsSeq
<1> QED BY <1>4, <1>10 DEF n

LEMMA SpokenNone == Spoken(<<>>) /\ ChatCarried(<<>>) = <<>>
<1>1. Spoken(<<>>)
  BY NoSeq DEF Spoken
<1> DEFINE s == [i \in DOMAIN <<>> |-> IF <<>>[i].role = "tool" THEN <<>>[i].of
                                       ELSE <<>>[i].of \o Carried(<<>>[i].calls)]
<1>2. s = <<>>
  OBVIOUS
<1> QED BY <1>1, <1>2, FlattenNone DEF ChatCarried

LEMMA GrownIsSome ==
    ASSUME NEW s, IsSeq(s), NEW x
    PROVE  Append(s, x) # <<>>
<1>1. Len(Append(s, x)) = Len(s) + 1 /\ Len(s) \in Nat
  BY AppendFacts, SeqFacts
<1>2. Len(<<>>) = 0
  OBVIOUS
<1> QED BY <1>1, <1>2

\* What a part adds to the parts of its content.
LEMMA ChatPartParts ==
    ASSUME NEW w, ChatState(w), ~w.failed, NEW p
    PROVE  ChatPart(w, p).parts = IF p.kind \in {"call", "result"} THEN w.parts
                                                                  ELSE Append(w.parts, p)
<1> DEFINE v == ChatPart(w, p)
           C == Append(w.calls, [id |-> CallID(w.tracker, p), of |-> <<p.n>>])
           R == Append(w.results, [role |-> "tool", id |-> ResultID(w.tracker, p),
                                   answers |-> p.answers, of |-> <<p.n>>])
           t == TrackCall(w.tracker, p)
           r == TrackResult(w.tracker, p)
<1>1. CASE p.kind = "call"
  <2>1. v = [[w EXCEPT !.calls = C] EXCEPT !.tracker = t]
    BY <1>1 DEF ChatPart
  <2> HIDE DEF v, C, t
  <2>2. v.parts = w.parts
    BY <2>1 DEF ChatState
  <2> QED BY <1>1, <2>2 DEF v
<1>2. CASE p.kind = "result"
  <2>1. v = IF Unpaired(w.tracker, p) THEN [w EXCEPT !.failed = TRUE]
            ELSE [w EXCEPT !.results = R, !.tracker = r]
    BY <1>2 DEF ChatPart
  <2> HIDE DEF v, R, r
  <2>2. v.parts = w.parts
    BY <2>1 DEF ChatState
  <2> QED BY <1>2, <2>2 DEF v
<1>3. CASE p.kind \notin {"call", "result"}
  <2>1. v = [w EXCEPT !.parts = Append(w.parts, p)]
    BY <1>3 DEF ChatPart
  <2> HIDE DEF v
  <2>2. v.parts = Append(w.parts, p)
    BY <2>1 DEF ChatState
  <2> QED BY <1>3, <2>2 DEF v
<1> QED BY <1>1, <1>2, <1>3

LEMMA ChatToldPart ==
    ASSUME NEW w, NEW told, NEW said, NEW called, ChatTold(w, told, said, called), NEW p
    PROVE  ChatTold(ChatPart(w, p), told,
                    IF p.kind # "call" THEN Append(said, p.n) ELSE said,
                    IF p.kind = "call" THEN Append(called, p.n) ELSE called)
<1> DEFINE v == ChatPart(w, p)
           spoke == IF p.kind # "call" THEN Append(said, p.n) ELSE said
           calling == IF p.kind = "call" THEN Append(called, p.n) ELSE called
<1>0. ChatState(w) /\ IsSeq(told) /\ IsSeq(said) /\ IsSeq(called)
  BY DEF ChatTold
<1>1. Reads(w, v, p)
  BY <1>0, ChatPartReads
<1>2. ~w.failed => v.parts = IF p.kind \in {"call", "result"} THEN w.parts ELSE Append(w.parts, p)
  BY <1>0, ChatPartParts
<1>3. IsSeq(spoke) /\ IsSeq(calling)
  BY <1>0, AppendFacts
<1> HIDE DEF v
<1>4. ChatState(v)
  BY <1>1 DEF Reads
<1>5. SUFFICES ASSUME ~v.failed
               PROVE  /\ HaveOf(v.calls) /\ Carried(v.calls) = calling
                      /\ Spoken(v.messages) /\ Spoken(v.messages \o v.results)
                      /\ v.parts = <<>> => ChatCarried(v.messages \o v.results) = told \o spoke
                      /\ v.results = <<>> => /\ Numbers(v.parts) = spoke
                                             /\ ChatCarried(v.messages) = told
  <2> HIDE DEF spoke, calling
  <2>1. ChatTold(v, told, spoke, calling)
    BY <1>0, <1>3, <1>4, <1>5 DEF ChatTold
  <2> QED BY <2>1 DEF v, spoke, calling
<1>6. ~w.failed /\ v.messages = w.messages
  BY <1>1, <1>5 DEF Reads
<1> DEFINE M == w.messages
           MR == w.messages \o w.results
<1>7. /\ HaveOf(w.calls) /\ Carried(w.calls) = called
      /\ Spoken(M) /\ Spoken(MR)
      /\ w.parts = <<>> => ChatCarried(MR) = told \o said
      /\ w.results = <<>> => Numbers(w.parts) = said /\ ChatCarried(M) = told
  BY <1>6 DEF ChatTold
<1>8. IsSeq(w.parts) /\ IsSeq(w.results) /\ IsSeq(w.messages)
  BY <1>0 DEF ChatState
<1>9. CASE p.kind = "call"
  <2> DEFINE x == [id |-> CallID(w.tracker, p), of |-> <<p.n>>]
  <2>1. Made(x) /\ x.of = <<p.n>>
    BY SingleFacts DEF Made
  <2>2. v.calls = Append(w.calls, x) /\ v.results = w.results /\ v.parts = w.parts
    BY <1>1, <1>2, <1>5, <1>6, <1>9 DEF Reads, ReadsCall
  <2> HIDE DEF x, M, MR
  <2>3. HaveOf(Append(w.calls, x)) /\ Carried(Append(w.calls, x)) = called \o <<p.n>>
    BY <1>7, <2>1, CarriedAppend
  <2>4. HaveOf(v.calls) /\ Carried(v.calls) = calling
    BY <1>0, <1>9, <2>2, <2>3, OneBehind
  <2>5. v.messages \o v.results = MR /\ v.messages = M
    BY <1>6, <2>2 DEF MR, M
  <2> QED BY <1>7, <1>9, <2>2, <2>4, <2>5
<1>10. CASE p.kind = "result"
  <2>1. PICK id : v.results = Append(w.results, [role |-> "tool", id |-> id,
                                                 answers |-> p.answers, of |-> <<p.n>>])
    BY <1>1, <1>5, <1>10 DEF Reads, ReadsResult
  <2> DEFINE x == [role |-> "tool", id |-> id, answers |-> p.answers, of |-> <<p.n>>]
  <2>2. ChatOf(x) = <<p.n>> /\ IsSeq(ChatOf(x))
    BY SingleFacts DEF ChatOf
  <2>3. v.calls = w.calls /\ v.parts = w.parts /\ v.results = Append(w.results, x)
    BY <1>1, <1>2, <1>5, <1>6, <1>10, <2>1 DEF Reads, ReadsResult
  <2> HIDE DEF x
  <2>4. v.messages \o v.results = Append(MR, x)
    <3> DEFINE R == w.results
    <3>1. IsSeq(M) /\ IsSeq(R) /\ v.messages = M /\ v.results = Append(R, x) /\ MR = M \o R
      BY <1>6, <1>8, <2>3
    <3> HIDE DEF M, R, MR
    <3> QED BY <3>1, ConcatAppend
  <2>5. v.results # <<>>
    BY <1>8, <2>3, GrownIsSome
  <2> HIDE DEF M, MR
  <2>6. /\ Spoken(Append(MR, x)) /\ ChatCarried(Append(MR, x)) = ChatCarried(MR) \o <<p.n>>
        /\ IsSeq(ChatCarried(MR))
    BY <1>7, <2>2, SpokenAppend
  <2>7. ChatCarried(Append(MR, x)) = Append(ChatCarried(MR), p.n)
    BY <2>6, OneBehind
  <2>8. told \o Append(said, p.n) = Append(told \o said, p.n)
    BY <1>0, ConcatAppend
  <2>9. Spoken(v.messages)
    BY <1>6, <1>7 DEF M
  <2> QED BY <1>7, <1>10, <2>3, <2>4, <2>5, <2>6, <2>7, <2>8, <2>9
<1>11. CASE p.kind \notin {"call", "result"}
  <2>1. v.calls = w.calls /\ v.results = w.results /\ v.parts = Append(w.parts, p)
    BY <1>1, <1>2, <1>5, <1>6, <1>11 DEF Reads, ReadsOther
  <2>2. v.parts # <<>>
    BY <1>8, <2>1, GrownIsSome
  <2>3. Numbers(v.parts) = Append(Numbers(w.parts), p.n)
    BY <1>8, <2>1, NumbersFacts
  <2>4. v.messages \o v.results = MR /\ v.messages = M
    BY <1>6, <2>1
  <2> HIDE DEF M, MR
  <2> QED BY <1>7, <1>11, <2>1, <2>2, <2>3, <2>4
<1> QED BY <1>9, <1>10, <1>11

LEMMA ChatToldMessage ==
    ASSUME NEW w, NEW told, NEW said, NEW called, ChatTold(w, told, said, called), ~w.failed,
           NEW role
    PROVE  ChatClean(ChatMessage(w, role), told \o (said \o called))
<1> DEFINE m == [role |-> IF role = "model" THEN "assistant" ELSE "user",
                 calls |-> w.calls, media |-> OfKind(w.parts, "media") # <<>>,
                 of |-> Numbers(w.parts)]
           v == ChatMessage(w, role)
           a == [w EXCEPT !.messages = w.messages \o w.results]
           b == [w EXCEPT !.messages = Append(w.messages, m)]
           f == [w EXCEPT !.failed = TRUE]
           all == told \o (said \o called)
<1>0. /\ ChatState(w) /\ IsSeq(told) /\ IsSeq(said) /\ IsSeq(called)
      /\ HaveOf(w.calls) /\ Carried(w.calls) = called
      /\ Spoken(w.messages) /\ Spoken(w.messages \o w.results)
      /\ w.parts = <<>> => ChatCarried(w.messages \o w.results) = told \o said
      /\ w.results = <<>> => Numbers(w.parts) = said /\ ChatCarried(w.messages) = told
  BY DEF ChatTold
<1>1. /\ w.results # <<>> => v = IF w.parts # <<>> \/ w.calls # <<>> THEN f ELSE a
      /\ w.results = <<>> => (w.parts = <<>> /\ w.calls = <<>> /\ v = w) \/ v = f \/ v = b
  BY DEF ChatMessage
<1>2. ChatState(f) /\ f.failed
  BY <1>0, ChatFail
<1>3. ChatClean(f, all)
  BY <1>2 DEF ChatClean
<1>4. ASSUME w.results # <<>>, w.parts = <<>>, w.calls = <<>> PROVE ChatClean(a, all)
  <2>1. a = [w EXCEPT !.messages = w.messages \o w.results]
    OBVIOUS
  <2> HIDE DEF a
  <2>2. a = [failed |-> w.failed, messages |-> w.messages \o w.results, parts |-> w.parts,
             calls |-> w.calls, results |-> w.results, tracker |-> w.tracker]
    BY <1>0, <2>1 DEF ChatState
  <2>3. IsSeq(w.messages \o w.results)
    BY <1>0 DEF Spoken
  <2>4. ChatState(a) /\ a.messages = w.messages \o w.results
    BY <1>0, <2>2, <2>3 DEF ChatState
  <2>5. said \o called = said
    BY <1>0, <1>4, CarriedNone, NothingBehind
  <2> QED BY <1>0, <1>4, <2>4, <2>5 DEF ChatClean
<1>5. ASSUME w.results = <<>> PROVE ChatClean(b, all)
  <2>1. b = [w EXCEPT !.messages = Append(w.messages, m)]
    OBVIOUS
  <2>2. ChatOf(m) = said \o called
    <3>1. m.role # "tool" /\ m.of = Numbers(w.parts) /\ m.calls = w.calls
      OBVIOUS
    <3> QED BY <1>0, <1>5, <3>1 DEF ChatOf
  <2>3. IsSeq(said \o called)
    BY <1>0, ConcatFacts
  <2> HIDE DEF b, m
  <2>4. b = [failed |-> w.failed, messages |-> Append(w.messages, m), parts |-> w.parts,
             calls |-> w.calls, results |-> w.results, tracker |-> w.tracker]
    BY <1>0, <2>1 DEF ChatState
  <2>5. /\ Spoken(Append(w.messages, m))
        /\ ChatCarried(Append(w.messages, m)) = told \o (said \o called)
    <3> DEFINE M == w.messages
    <3>1. Spoken(M) /\ ChatCarried(M) = told
      BY <1>0, <1>5
    <3> HIDE DEF M
    <3>2. Spoken(Append(M, m)) /\ ChatCarried(Append(M, m)) = told \o (said \o called)
      BY <2>2, <2>3, <3>1, SpokenAppend
    <3> QED BY <3>2 DEF M
  <2>6. ChatState(b) /\ b.messages = Append(w.messages, m)
    <3>1. IsSeq(Append(w.messages, m))
      BY <2>5 DEF Spoken
    <3> QED BY <1>0, <2>4, <3>1 DEF ChatState
  <2> QED BY <2>5, <2>6 DEF ChatClean
<1>6. ASSUME w.results = <<>>, w.parts = <<>>, w.calls = <<>> PROVE ChatClean(w, all)
  <2>1. said = <<>> /\ called = <<>>
    BY <1>0, <1>6, NumbersNone, CarriedNone
  <2>2. all = told
    BY <1>0, <2>1, NoSeq, NothingBehind
  <2> QED BY <1>0, <1>6, <2>2 DEF ChatClean
<1> HIDE DEF v, a, b, f, all
<1>7. ChatClean(v, all)
  BY <1>1, <1>3, <1>4, <1>5, <1>6
<1> QED BY <1>7 DEF v, all

LEMMA ChatToldWalk ==
    ASSUME NEW w, NEW told, ChatTold(w, told, <<>>, <<>>), NEW content, IsSeq(content.parts)
    PROVE  ChatTold(ChatWalk(w, content.parts)[Len(content.parts)], told,
                    Numbers(Kept(content.parts, DOMAIN content.parts \ CallPlaces(content))),
                    Numbers(Kept(content.parts, CallPlaces(content))))
<1> DEFINE parts == content.parts
           L == Len(parts)
           W == ChatWalk(w, parts)
           calls == CallPlaces(content)
           others == DOMAIN content.parts \ CallPlaces(content)
<1>0. /\ L \in Nat /\ IsSeq(parts) /\ W[0] = w
      /\ \A k \in 1..L : W[k] = ChatPart(W[k - 1], parts[k])
      /\ \A k \in 1..L : /\ k \in calls <=> parts[k].kind = "call"
                         /\ k \in others <=> parts[k].kind # "call"
  <2>0. IsSeq(parts) /\ DOMAIN parts = 1..L
    BY SeqFacts
  <2>1. \A k \in 1..L : /\ k \in calls <=> parts[k].kind = "call"
                        /\ k \in others <=> parts[k].kind # "call"
    BY <2>0 DEF CallPlaces
  <2> HIDE DEF parts, calls, others
  <2>2. L \in Nat
    BY <2>0, SeqFacts
  <2>3. W[0] = w /\ \A k \in 1..L : W[k] = ChatPart(W[k - 1], parts[k])
    BY <2>0, ChatWalkFacts
  <2> HIDE DEF W, L
  <2> QED BY <2>0, <2>1, <2>2, <2>3
<1>1. PICK c : Counts(c, <<>>, parts, others)
  <2> HIDE DEF parts, others
  <2> QED BY <1>0, NoSeq, NumbersSteps
<1>2. PICK d : Counts(d, <<>>, parts, calls)
  <2> HIDE DEF parts, calls
  <2> QED BY <1>0, NoSeq, NumbersSteps
<1>3. /\ c[0] = <<>> /\ d[0] = <<>>
      /\ \A k \in 1..L : c[k] = IF k \in others THEN Append(c[k - 1], parts[k].n) ELSE c[k - 1]
      /\ \A k \in 1..L : d[k] = IF k \in calls THEN Append(d[k - 1], parts[k].n) ELSE d[k - 1]
  <2> HIDE DEF parts, calls, others
  <2> QED BY <1>1, <1>2 DEF Counts
<1>4. c[L] = Numbers(Kept(parts, others)) /\ d[L] = Numbers(Kept(parts, calls))
  <2> HIDE DEF parts, calls, others
  <2>1. IsSeq(Numbers(Kept(parts, others))) /\ IsSeq(Numbers(Kept(parts, calls)))
    BY <1>0, KeptNumbers
  <2>2. c[L] = <<>> \o Numbers(Kept(parts, others)) /\ d[L] = <<>> \o Numbers(Kept(parts, calls))
    BY <1>1, <1>2 DEF Counts
  <2> QED BY <2>1, <2>2, NothingBehind
<1> HIDE DEF parts, L, W, calls, others
<1> DEFINE T == {k \in Nat : k <= L => ChatTold(W[k], told, c[k], d[k])}
<1>5. 0 \in T
  BY <1>0, <1>3
<1>6. ASSUME NEW k \in Nat, k \in T PROVE k + 1 \in T
  <2> SUFFICES ASSUME k + 1 <= L PROVE ChatTold(W[k + 1], told, c[k + 1], d[k + 1])
    OBVIOUS
  <2>1. k + 1 \in 1..L /\ (k + 1) - 1 = k /\ k <= L
    BY <1>0
  <2>2. ChatTold(W[k], told, c[k], d[k])
    BY <1>6, <2>1
  <2> DEFINE p == parts[k + 1]
  <2>3. W[k + 1] = ChatPart(W[k], p)
    BY <1>0, <2>1
  <2>4. /\ c[k + 1] = IF p.kind # "call" THEN Append(c[k], p.n) ELSE c[k]
        /\ d[k + 1] = IF p.kind = "call" THEN Append(d[k], p.n) ELSE d[k]
    BY <1>0, <1>3, <2>1
  <2> HIDE DEF p
  <2> QED BY <2>2, <2>3, <2>4, ChatToldPart
<1> HIDE DEF T
<1>7. Nat \subseteq T
  BY <1>5, <1>6, SetInduction
<1>8. ChatTold(W[L], told, c[L], d[L])
  BY <1>0, <1>7 DEF T
<1> QED BY <1>4, <1>8 DEF W, L, parts, calls, others

LEMMA ChatToldContent ==
    ASSUME NEW w, NEW told, ChatClean(w, told), IsSeq(told), NEW content, IsSeq(content.parts)
    PROVE  ChatClean(ChatContent(w, content), told \o ChatSays(content))
<1> DEFINE opened == [w EXCEPT !.parts = <<>>, !.calls = <<>>, !.results = <<>>]
           walked == ChatWalk(opened, content.parts)[Len(content.parts)]
           refused == \/ w.failed
                      \/ content.role = "model" /\ w.tracker.pending # <<>>
                      \/ \E i \in DOMAIN content.parts : ChatRejects(content.role, content.parts[i])
           all == told \o ChatSays(content)
<1>0. ChatContent(w, content) =
        IF refused THEN [w EXCEPT !.failed = TRUE]
        ELSE IF walked.failed THEN walked ELSE ChatMessage(walked, content.role)
  BY DEF ChatContent
<1>1. ChatState(w) /\ IsSeq(w.messages)
  BY DEF ChatClean, ChatState
<1>2. opened = [failed |-> w.failed, messages |-> w.messages, parts |-> <<>>, calls |-> <<>>,
                results |-> <<>>, tracker |-> w.tracker]
  <2>1. opened = [w EXCEPT !.parts = <<>>, !.calls = <<>>, !.results = <<>>]
    OBVIOUS
  <2> HIDE DEF opened
  <2> QED BY <1>1, <2>1 DEF ChatState
<1> HIDE DEF opened
<1>3. /\ ChatState(opened) /\ opened.failed = w.failed /\ opened.parts = <<>>
      /\ opened.calls = <<>> /\ opened.results = <<>> /\ opened.messages = w.messages
  BY <1>1, <1>2, NoSeq DEF ChatState
<1>4. ChatTold(opened, told, <<>>, <<>>)
  <2>1. ASSUME ~w.failed
        PROVE  /\ Spoken(w.messages) /\ ChatCarried(w.messages) = told
               /\ opened.messages \o opened.results = w.messages
               /\ told \o <<>> = told
    BY <1>1, <1>3, <2>1, NothingBehind DEF ChatClean
  <2> QED BY <1>3, <2>1, NoSeq, CarriedNone, NumbersNone DEF ChatTold
<1>5. ChatTold(walked, told,
               Numbers(Kept(content.parts, DOMAIN content.parts \ CallPlaces(content))),
               Numbers(Kept(content.parts, CallPlaces(content))))
  BY <1>4, ChatToldWalk
<1> HIDE DEF walked, refused
<1>6. ~walked.failed => ChatClean(ChatMessage(walked, content.role), all)
  BY <1>5, ChatToldMessage DEF ChatSays
<1>7. walked.failed => ChatClean(walked, all)
  BY <1>5 DEF ChatTold, ChatClean
<1>8. ChatClean([w EXCEPT !.failed = TRUE], all)
  BY <1>1, ChatFail DEF ChatClean
<1> QED BY <1>0, <1>6, <1>7, <1>8

LEMMA ChatStartClean == ChatClean(ChatStart, <<>>)
<1>1. ChatState(ChatStart)
  BY ChatStartTracks DEF ChatTrack
<1>2. ChatStart.messages = <<>>
  BY DEF ChatStart
<1> QED BY <1>1, <1>2, SpokenNone DEF ChatClean

LEMMA ChatToldHistory ==
    ASSUME RolesKept(contents)
    PROVE  ChatClean(ChatHistory(contents)[Len(contents)], ChatExpected)
<1> DEFINE H == ChatHistory(contents)
           n == Len(contents)
           F == [i \in 1..n |-> ChatSays(contents[i])]
<1>0. /\ n \in Nat /\ DOMAIN contents = 1..n /\ H[0] = ChatStart
      /\ \A k \in 1..n : H[k] = ChatContent(H[k - 1], contents[k])
      /\ \A k \in 1..n : IsSeq(contents[k].parts)
  <2>0. IsSeq(contents) /\ \A k \in 1..n : IsSeq(contents[k].parts)
    BY DEF RolesKept, Attributed
  <2>1. n \in Nat /\ DOMAIN contents = 1..n
    BY <2>0, SeqFacts
  <2>2. H[0] = ChatStart /\ \A k \in 1..n : H[k] = ChatContent(H[k - 1], contents[k])
    BY <2>0, ChatHistoryFacts
  <2> HIDE DEF H, n
  <2> QED BY <2>0, <2>1, <2>2
<1>1. ChatExpected = FlattenSeq([i \in 1..n |-> F[i]])
  <2>1. [i \in 1..n |-> F[i]] = F
    OBVIOUS
  <2>2. ChatExpected = FlattenSeq(F)
    BY <1>0 DEF ChatExpected, ChatSays, CallPlaces
  <2> HIDE DEF F
  <2> QED BY <2>1, <2>2
<1>2. \A k \in 1..n : F[k] = ChatSays(contents[k])
  OBVIOUS
<1> HIDE DEF H, n, F
<1>3. \A k \in 1..n : IsSeq(F[k])
  <2> SUFFICES ASSUME NEW k \in 1..n PROVE IsSeq(F[k])
    OBVIOUS
  <2> DEFINE parts == contents[k].parts
             calls == CallPlaces(contents[k])
             others == DOMAIN contents[k].parts \ CallPlaces(contents[k])
  <2>1. IsSeq(parts)
    BY <1>0
  <2>2. F[k] = Numbers(Kept(parts, others)) \o Numbers(Kept(parts, calls))
    BY <1>2 DEF ChatSays
  <2> HIDE DEF parts, calls, others
  <2>3. IsSeq(Numbers(Kept(parts, others))) /\ IsSeq(Numbers(Kept(parts, calls)))
    BY <2>1, KeptNumbers
  <2> QED BY <2>2, <2>3, ConcatFacts
<1>4. PICK c : /\ c[0] = <<>>
               /\ \A k \in 1..n : c[k] = c[k - 1] \o F[k]
               /\ \A k \in 0..n : IsSeq(c[k])
               /\ c[n] = FlattenSeq([i \in 1..n |-> F[i]])
  BY <1>0, <1>3, FlattenSteps
<1> DEFINE T == {k \in Nat : k <= n => ChatClean(H[k], c[k])}
<1>5. 0 \in T
  BY <1>0, <1>4, ChatStartClean
<1>6. ASSUME NEW k \in Nat, k \in T PROVE k + 1 \in T
  <2> SUFFICES ASSUME k + 1 <= n PROVE ChatClean(H[k + 1], c[k + 1])
    OBVIOUS
  <2>1. k + 1 \in 1..n /\ (k + 1) - 1 = k /\ k <= n /\ k \in 0..n
    BY <1>0
  <2>2. ChatClean(H[k], c[k]) /\ IsSeq(c[k])
    BY <1>4, <1>6, <2>1
  <2>3. H[k + 1] = ChatContent(H[k], contents[k + 1]) /\ IsSeq(contents[k + 1].parts)
    BY <1>0, <2>1
  <2>4. c[k + 1] = c[k] \o F[k + 1]
    BY <1>4, <2>1
  <2>5. c[k + 1] = c[k] \o ChatSays(contents[k + 1])
    BY <1>2, <2>1, <2>4
  <2> DEFINE content == contents[k + 1]
  <2>6. IsSeq(content.parts) /\ H[k + 1] = ChatContent(H[k], content) /\ c[k + 1] = c[k] \o ChatSays(content)
    BY <2>3, <2>5
  <2> HIDE DEF content
  <2> QED BY <2>2, <2>6, ChatToldContent
<1> HIDE DEF T
<1>7. Nat \subseteq T
  BY <1>5, <1>6, SetInduction
<1>8. ChatClean(H[n], c[n])
  BY <1>0, <1>7 DEF T
<1> QED BY <1>1, <1>4, <1>8 DEF H, n

LEMMA ChatTells ==
    ASSUME RolesKept(contents), Chat.ok
    PROVE  ChatCarried(Chat.messages) = ChatExpected
<1> DEFINE w == ChatHistory(contents)[Len(contents)]
<1>1. ChatClean(w, ChatExpected)
  BY ChatToldHistory
<1>2. Chat.messages = w.messages /\ ~w.failed
  BY DEF Chat, ChatMessages
<1> HIDE DEF w
<1> QED BY <1>1, <1>2 DEF ChatClean

\* The role a converter gives a content is who said it.
LEMMA SendableIsPresentable ==
    ASSUME NEW content, Attributed(content), NEW p
    PROVE  Sendable(content, p) <=> Presentable(content.role, p)
<1>1. content.role \in {"user", "model"}
  BY DEF Attributed
<1>2. DOMAIN content.parts = 1..Len(content.parts)
  BY SeqFacts DEF Attributed
<1>3. HasKind(content, "result") => content.role = "user"
  BY <1>2 DEF HasKind, Attributed
<1>4. HasKind(content, "call") => content.role = "model"
  BY <1>2 DEF HasKind, Attributed
<1>5. MessageRole(content) = "user" <=> content.role = "user"
  BY <1>1, <1>3, <1>4 DEF MessageRole
<1> QED BY <1>5 DEF Sendable, Presentable

LEMMA BlockCarries ==
    ASSUME NEW p, p.kind \in Kinds
    PROVE  Made(Block(p)) /\ Block(p).of = <<p.n>>
<1>1. "of" \in DOMAIN Block(p) /\ Block(p).of = <<p.n>>
  BY DEF Block, Kinds
<1> QED BY <1>1, SingleFacts DEF Made

\* A content's blocks, behind others.
LEMMA BlocksTold ==
    ASSUME NEW content, Attributed(content), NEW B, HaveOf(B), NEW told, Carried(B) = told
    PROVE  /\ IsSeq(Blocks(content))
           /\ HaveOf(B \o Blocks(content))
           /\ Carried(B \o Blocks(content)) = told \o Numbers(Kept(content.parts, Presented(content)))
<1> DEFINE parts == content.parts
           L == Len(parts)
           W == BlocksUpTo(content)
           places == Presented(content)
<1>0. /\ L \in Nat /\ IsSeq(parts) /\ W[0] = <<>>
      /\ \A k \in 1..L : W[k] = IF k \in places THEN Append(W[k - 1], Block(parts[k])) ELSE W[k - 1]
      /\ \A k \in 1..L : parts[k].kind \in Kinds
  <2>0. IsSeq(parts) /\ DOMAIN parts = 1..L /\ \A k \in 1..L : parts[k].kind \in Kinds
    BY SeqFacts DEF Attributed
  <2>1. \A k \in 1..L : k \in places <=> Sendable(content, parts[k])
    BY <2>0, SendableIsPresentable DEF Presented
  <2>2. W[0] = <<>> /\ \A k \in 1..L : W[k] = IF Sendable(content, parts[k])
                                      THEN Append(W[k - 1], Block(parts[k])) ELSE W[k - 1]
    BY <2>0, BlocksUpToFacts
  <2> HIDE DEF parts, W, places
  <2>3. L \in Nat
    BY <2>0, SeqFacts
  <2> HIDE DEF L
  <2> QED BY <2>0, <2>1, <2>2, <2>3
<1>0a. IsSeq(B) /\ IsSeq(told)
  <2> DEFINE x == [of |-> <<>>]
  <2>1. Made(x)
    BY NoSeq DEF Made
  <2> HIDE DEF x
  <2> QED BY <2>1, CarriedAppend DEF HaveOf
<1>1. PICK c : Counts(c, told, parts, places)
  <2> HIDE DEF parts, places
  <2> QED BY <1>0, <1>0a, NumbersSteps
<1>2. /\ c[0] = told
      /\ \A k \in 1..L : c[k] = IF k \in places THEN Append(c[k - 1], parts[k].n) ELSE c[k - 1]
      /\ c[L] = told \o Numbers(Kept(parts, places))
  <2> HIDE DEF parts, places
  <2> QED BY <1>1 DEF Counts
<1>3. Blocks(content) = W[L]
  BY DEF Blocks
<1> HIDE DEF parts, L, W, places
<1> DEFINE T == {k \in Nat : k <= L => IsSeq(W[k]) /\ HaveOf(B \o W[k]) /\ Carried(B \o W[k]) = c[k]}
<1>4. 0 \in T
  <2>1. B \o <<>> = B /\ IsSeq(<<>>)
    BY <1>0a, NothingBehind, NoSeq
  <2> QED BY <1>0, <1>2, <2>1
<1>5. ASSUME NEW k \in Nat, k \in T PROVE k + 1 \in T
  <2> SUFFICES ASSUME k + 1 <= L
               PROVE  IsSeq(W[k + 1]) /\ HaveOf(B \o W[k + 1]) /\ Carried(B \o W[k + 1]) = c[k + 1]
    OBVIOUS
  <2>1. k + 1 \in 1..L /\ (k + 1) - 1 = k /\ k <= L
    BY <1>0
  <2> DEFINE u == W[k]
             x == Block(parts[k + 1])
             n == parts[k + 1].n
  <2>2. IsSeq(u) /\ HaveOf(B \o u) /\ Carried(B \o u) = c[k]
    BY <1>5, <2>1
  <2>3. W[k + 1] = IF k + 1 \in places THEN Append(u, x) ELSE u
    BY <1>0, <2>1
  <2>4. c[k + 1] = IF k + 1 \in places THEN Append(c[k], n) ELSE c[k]
    BY <1>2, <2>1
  <2>5. Made(x) /\ x.of = <<n>>
    BY <1>0, <2>1, BlockCarries
  <2> HIDE DEF u, x, n, T
  <2>6. B \o Append(u, x) = Append(B \o u, x) /\ IsSeq(Append(u, x))
    BY <1>0a, <2>2, ConcatAppend, AppendFacts
  <2> DEFINE D == B \o u
  <2>7. HaveOf(D) /\ Carried(D) = c[k]
    BY <2>2
  <2> HIDE DEF D
  <2>8. HaveOf(Append(D, x)) /\ Carried(Append(D, x)) = c[k] \o <<n>> /\ IsSeq(c[k])
    BY <2>5, <2>7, CarriedAppend
  <2>9. Carried(Append(D, x)) = Append(c[k], n)
    BY <2>8, OneBehind
  <2>10. CASE k + 1 \in places
    BY <2>3, <2>4, <2>6, <2>8, <2>9, <2>10 DEF D
  <2>11. CASE k + 1 \notin places
    BY <2>2, <2>3, <2>4, <2>11
  <2> QED BY <2>10, <2>11
<1> HIDE DEF T
<1>6. Nat \subseteq T
  BY <1>4, <1>5, SetInduction
<1>7. IsSeq(W[L]) /\ HaveOf(B \o W[L]) /\ Carried(B \o W[L]) = c[L]
  BY <1>0, <1>6 DEF T
<1> QED BY <1>2, <1>3, <1>7 DEF parts, places

LEMMA MessagesToldContent ==
    ASSUME NEW w, NEW told, MessagesTold(w, told), NEW history, NEW k, Attributed(history[k])
    PROVE  MessagesTold(NextMessages(w, history, k),
                        told \o Numbers(Kept(history[k].parts, Presented(history[k]))))
<1> DEFINE content == history[k]
           C == Blocks(content)
           v == NextMessages(w, history, k)
           B == MessageBlocks(w.messages)
           all == told \o Numbers(Kept(content.parts, Presented(content)))
           P == Append(B, PromptBlock)
<1>1. /\ w = [failed |-> w.failed, messages |-> w.messages] /\ w.failed \in BOOLEAN
      /\ ~w.failed => Blocked(w.messages) /\ HaveOf(B) /\ Carried(B) = told
  BY DEF MessagesTold
<1>2. ASSUME NEW D, HaveOf(D), Carried(D) = told
      PROVE  IsSeq(C) /\ HaveOf(D \o C) /\ Carried(D \o C) = all
  <2> HIDE DEF B, P, v
  <2> QED BY <1>2, BlocksTold
<1>3. IsSeq(C)
  <2>1. IsSeq(content.parts)
    BY DEF Attributed
  <2>2. HaveOf(<<>>) /\ Carried(<<>>) = <<>>
    BY CarriedNone
  <2> QED BY <2>2, BlocksTold
<1>4. Adds(v, w, C)
  <2> HIDE DEF B, P
  <2> QED BY <1>1, <1>3, AddMessageAdds
<1>5. ASSUME ~w.failed PROVE HaveOf(P) /\ Carried(P) = told
  <2>1. "of" \in DOMAIN PromptBlock /\ PromptBlock.of = <<>>
    BY DEF PromptBlock
  <2>2. Made(PromptBlock)
    BY <2>1, NoSeq DEF Made
  <2> HIDE DEF B
  <2>3. HaveOf(P) /\ Carried(P) = told \o <<>> /\ IsSeq(told)
    BY <1>1, <1>5, <2>1, <2>2, CarriedAppend
  <2> QED BY <2>3, NothingBehind
<1>6. ~w.failed => HaveOf(B \o C) /\ Carried(B \o C) = all
  BY <1>1, <1>2
<1>7. ~w.failed => HaveOf(P \o C) /\ Carried(P \o C) = all
  <2> HIDE DEF P, C, all
  <2> QED BY <1>2, <1>5
<1>8. /\ v = [failed |-> v.failed, messages |-> v.messages] /\ v.failed \in BOOLEAN
      /\ ~v.failed => /\ ~w.failed /\ Blocked(v.messages)
                      /\ MessageBlocks(v.messages) = B \o C \/ MessageBlocks(v.messages) = P \o C
  <2> HIDE DEF v, C
  <2> QED BY <1>4 DEF Adds
<1> HIDE DEF v, C, B, P, all
<1>9. MessagesTold(v, all)
  BY <1>6, <1>7, <1>8 DEF MessagesTold
<1> QED BY <1>9 DEF v, all

LEMMA MessagesToldHistory ==
    ASSUME NEW history, RolesKept(history)
    PROVE  MessagesTold(NormalizeConsecutiveMessages(history)[Len(history)],
                        Expected(history, Presentable))
<1> DEFINE H == NormalizeConsecutiveMessages(history)
           n == Len(history)
           F == [i \in 1..n |-> Numbers(Kept(history[i].parts, Presented(history[i])))]
<1>0. /\ n \in Nat /\ DOMAIN history = 1..n /\ H[0] = NoMessages
      /\ \A k \in 1..n : H[k] = NextMessages(H[k - 1], history, k)
      /\ \A k \in 1..n : Attributed(history[k])
  <2>0. IsSeq(history) /\ \A k \in 1..n : Attributed(history[k])
    BY DEF RolesKept
  <2>1. n \in Nat /\ DOMAIN history = 1..n
    BY <2>0, SeqFacts
  <2>2. H[0] = NoMessages /\ \A k \in 1..n : H[k] = NextMessages(H[k - 1], history, k)
    BY <2>0, MessagesWalkFacts
  <2> HIDE DEF H, n
  <2> QED BY <2>0, <2>1, <2>2
<1>1. Expected(history, Presentable) = FlattenSeq([i \in 1..n |-> F[i]])
  <2>1. [i \in 1..n |-> F[i]] = F
    OBVIOUS
  <2>2. Expected(history, Presentable) = FlattenSeq(F)
    BY <1>0 DEF Expected, Presented
  <2> HIDE DEF F
  <2> QED BY <2>1, <2>2
<1>2. \A k \in 1..n : F[k] = Numbers(Kept(history[k].parts, Presented(history[k])))
  OBVIOUS
<1> HIDE DEF H, n, F
<1>3. \A k \in 1..n : IsSeq(F[k])
  <2> SUFFICES ASSUME NEW k \in 1..n PROVE IsSeq(F[k])
    OBVIOUS
  <2>1. IsSeq(history[k].parts)
    BY <1>0 DEF Attributed
  <2> QED BY <1>2, <2>1, KeptNumbers
<1>4. PICK c : /\ c[0] = <<>>
               /\ \A k \in 1..n : c[k] = c[k - 1] \o F[k]
               /\ \A k \in 0..n : IsSeq(c[k])
               /\ c[n] = FlattenSeq([i \in 1..n |-> F[i]])
  BY <1>0, <1>3, FlattenSteps
<1> DEFINE T == {k \in Nat : k <= n => MessagesTold(H[k], c[k])}
<1>5. 0 \in T
  <2>1. Blocked(<<>>) /\ MessageBlocks(<<>>) = <<>>
    <3> DEFINE s == [i \in DOMAIN <<>> |-> <<>>[i].content]
    <3>1. s = <<>>
      OBVIOUS
    <3> QED BY <3>1, FlattenNone, NoSeq DEF MessageBlocks, Blocked, HaveBlocks
  <2>2. NoMessages = [failed |-> FALSE, messages |-> <<>>]
    BY DEF NoMessages
  <2>3. NoMessages.failed = FALSE /\ NoMessages.messages = <<>>
        /\ NoMessages = [failed |-> NoMessages.failed, messages |-> NoMessages.messages]
    BY <2>2
  <2>4. MessagesTold(NoMessages, <<>>)
    BY <2>1, <2>3, CarriedNone DEF MessagesTold
  <2> QED BY <1>0, <1>4, <2>4
<1>6. ASSUME NEW k \in Nat, k \in T PROVE k + 1 \in T
  <2> SUFFICES ASSUME k + 1 <= n PROVE MessagesTold(H[k + 1], c[k + 1])
    OBVIOUS
  <2>1. k + 1 \in 1..n /\ (k + 1) - 1 = k /\ k <= n
    BY <1>0
  <2>2. MessagesTold(H[k], c[k])
    BY <1>6, <2>1
  <2>3. H[k + 1] = NextMessages(H[k], history, k + 1) /\ Attributed(history[k + 1])
    BY <1>0, <2>1
  <2>4. c[k + 1] = c[k] \o F[k + 1]
    BY <1>4, <2>1
  <2>5. c[k + 1] = c[k] \o Numbers(Kept(history[k + 1].parts, Presented(history[k + 1])))
    BY <1>2, <2>1, <2>4
  <2> QED BY <2>2, <2>3, <2>5, MessagesToldContent
<1> HIDE DEF T
<1>7. Nat \subseteq T
  BY <1>5, <1>6, SetInduction
<1>8. MessagesTold(H[n], c[n])
  BY <1>0, <1>7 DEF T
<1> QED BY <1>1, <1>4, <1>8 DEF H, n

LEMMA RolesKeptAppend ==
    ASSUME NEW history, RolesKept(history), NEW content, Attributed(content)
    PROVE  RolesKept(Append(history, content))
<1> DEFINE n == Append(history, content)
           L == Len(history)
<1>1. /\ IsSeq(n) /\ L \in Nat /\ Len(n) = L + 1 /\ n[L + 1] = content
      /\ \A i \in 1..L : n[i] = history[i] /\ Attributed(history[i])
  BY AppendFacts, SeqFacts DEF RolesKept
<1> HIDE DEF n, L
<1>2. ASSUME NEW i \in 1..Len(n) PROVE Attributed(n[i])
  <2>1. i \in 1..L \/ i = L + 1
    BY <1>1
  <2> QED BY <1>1, <2>1
<1>3. RolesKept(n)
  BY <1>1, <1>2 DEF RolesKept
<1> QED BY <1>3 DEF n

LEMMA OwnTurnAttributed == Attributed(OwnTurn)
<1>1. IsSeq(OwnTurn.parts) /\ DOMAIN OwnTurn.parts = {1} /\ OwnTurn.role = "user"
  BY SummaryFacts DEF OwnTurn
<1>2. OwnTurn.parts[1].kind = "text"
  BY <1>1, SummaryFacts DEF ToSet
<1>3. DOMAIN OwnTurn.parts = 1..Len(OwnTurn.parts)
  BY <1>1, SeqFacts
<1> QED BY <1>1, <1>2, <1>3 DEF Attributed, Kinds

LEMMA WithUserTurnRoles == ASSUME RolesKept(contents) PROVE RolesKept(WithUserTurn(contents))
<1>1. WithUserTurn(contents) \in {contents, Append(contents, OwnTurn)}
  BY DEF WithUserTurn, OwnTurn
<1> QED BY <1>1, OwnTurnAttributed, RolesKeptAppend

LEMMA AnthropicTells ==
    ASSUME RolesKept(contents), AnthropicPieces # <<>>
    PROVE  Carried(AnthropicPieces) = Expected(WithUserTurn(contents), Presentable)
<1> DEFINE h == WithUserTurn(contents)
           w == NormalizeConsecutiveMessages(h)[Len(h)]
<1>1. MessagesTold(w, Expected(h, Presentable))
  BY WithUserTurnRoles, MessagesToldHistory
<1>2. AnthropicPieces = IF Anthropic.ok THEN MessageBlocks(Anthropic.messages) ELSE <<>>
  BY DEF AnthropicPieces
<1>3. Anthropic.messages = w.messages /\ (Anthropic.ok => ~w.failed)
  BY DEF Anthropic, AnthropicRequest, ContentsToMessages
<1> HIDE DEF w
<1> QED BY <1>1, <1>2, <1>3 DEF MessagesTold

LEMMA SayRoles ==
    ASSUME LastNumber \in Nat, RolesKept(contents), NEW role, NEW parts, Voiced(role, parts),
           Say(role, parts)
    PROVE  RolesKept(contents')
<1> DEFINE P == Numbered(parts)
           c == [role |-> role, parts |-> P]
<1>1. /\ IsSeq(P) /\ Len(P) = Len(parts)
      /\ \A i \in 1..Len(parts) : P[i].kind = parts[i].kind
  BY NumberedTurn DEF Voiced
<1>2. DOMAIN parts = 1..Len(parts)
  BY SeqFacts DEF Voiced, Told
<1>3. contents' = Append(contents, c) /\ c.role = role /\ c.parts = P
  BY DEF Say
<1> HIDE DEF c, P
<1>4. Attributed(c)
  BY <1>1, <1>2, <1>3 DEF Attributed, Voiced
<1> QED BY <1>3, <1>4, RolesKeptAppend

LEMMA ResultsAreVoiced ==
    ASSUME NEW s, IsSeq(s), s # <<>>,
           \A i \in DOMAIN s : \E id, name, answers, found :
               s[i] = Result(id, name, answers, found)
    PROVE  Voiced("user", s)
<1>1. \A i \in DOMAIN s : /\ {"kind", "id", "answers"} \subseteq DOMAIN s[i]
                           /\ s[i].kind = "result"
  BY DEF Result
<1> QED BY <1>1 DEF Voiced, Told, Kinds

LEMMA CallIsVoiced ==
    ASSUME NEW id, NEW name, NEW native
    PROVE  Voiced("model", <<Call(id, name, native)>>)
<1> DEFINE p == Call(id, name, native)
<1>1. "kind" \in DOMAIN p /\ p.kind = "call" /\ "id" \in DOMAIN p
  BY DEF Call
<1> HIDE DEF p
<1>2. IsSeq(<<p>>) /\ <<p>> # <<>> /\ DOMAIN <<p>> = {1} /\ <<p>>[1] = p
  BY SingleFacts
<1>3. Voiced("model", <<p>>)
  BY <1>1, <1>2 DEF Voiced, Told, Kinds
<1> QED BY <1>3 DEF p

LEMMA InitRoles == Init => RolesStay
<1>1. IsSeq(<<>>) /\ Len(<<>>) = 0
  BY NoSeq
<1>2. \A i \in 1..Len(<<>>) : FALSE
  BY <1>1
<1>3. RolesKept(<<>>)
  BY <1>1, <1>2 DEF RolesKept
<1> QED BY <1>3 DEF Init, RolesStay

LEMMA TurnInFront ==
    ASSUME NEW x, NEW t, IsSeq(t)
    PROVE  /\ IsSeq(<<x>> \o t) /\ Len(<<x>> \o t) = Len(t) + 1
           /\ (<<x>> \o t)[1] = x
           /\ \A i \in 1..Len(t) : (<<x>> \o t)[1 + i] = t[i]
<1> DEFINE s == <<x>>
<1>1. IsSeq(s) /\ Len(s) = 1 /\ s[1] = x
  BY SingleFacts
<1> HIDE DEF s
<1>2. IsSeq(s \o t) /\ Len(s \o t) = Len(s) + Len(t)
  BY <1>1, ConcatFacts
<1>5. (s \o t)[1] = x
  BY <1>1, ConcatFacts
<1>6. ASSUME NEW i \in 1..Len(t) PROVE (s \o t)[1 + i] = t[i]
  <2>0. IsSeq(s)
    BY <1>1
  <2>1. \A j \in 1..Len(t) : (s \o t)[Len(s) + j] = t[j]
    BY <2>0, ConcatFacts
  <2> QED BY <1>1, <2>1
<1>3. Len(t) \in Nat
  BY SeqFacts
<1>4. /\ IsSeq(s \o t) /\ Len(s \o t) = Len(t) + 1
      /\ (s \o t)[1] = x
      /\ \A i \in 1..Len(t) : (s \o t)[1 + i] = t[i]
  BY <1>1, <1>2, <1>3, <1>5, <1>6
<1> QED BY <1>4 DEF s

LEMMA RolesKeptCompacted ==
    ASSUME NEW c, RolesKept(c), NEW k \in 2..(Len(c) - 1)
    PROVE  RolesKept(<<OwnTurn>> \o SubSeq(c, k + 1, Len(c)))
<1> DEFINE rest == SubSeq(c, k + 1, Len(c))
           L == Len(c)
<1>2. IsSeq(c) /\ L \in Nat /\ \A i \in 1..L : Attributed(c[i])
  BY SeqFacts DEF RolesKept
<1>3. IsSeq(rest) /\ \A i \in 1..Len(rest) : i + k \in 1..L /\ rest[i] = c[i + k]
  <2>1. c \in Seq(ToSet(c)) /\ k + 1 \in 1..L
    BY <1>2 DEF IsSeq
  <2>2. /\ rest \in Seq(ToSet(c))
        /\ Len(rest) = L - k
        /\ \A i \in 1..Len(rest) : rest[i] = c[i + k]
    BY <1>2, <2>1
  <2>3. k \in Nat
    BY <1>2
  <2> HIDE DEF rest
  <2>4. \A i \in 1..Len(rest) : i + k \in 1..L
    BY <1>2, <2>2, <2>3
  <2>5. IsSeq(rest)
    BY <2>2, AnySeq
  <2> QED BY <2>2, <2>4, <2>5
<1> HIDE DEF rest, L
<1> DEFINE now == <<OwnTurn>> \o rest
<1>4. Len(rest) \in Nat
  BY <1>3, SeqFacts
<1>6. /\ IsSeq(now) /\ Len(now) = Len(rest) + 1
      /\ now[1] = OwnTurn
      /\ \A i \in 1..Len(rest) : now[1 + i] = rest[i]
  BY <1>3, TurnInFront
<1> HIDE DEF now
<1>7. ASSUME NEW i \in 1..Len(now) PROVE Attributed(now[i])
  <2>1. CASE i = 1
    BY <1>6, <2>1, OwnTurnAttributed
  <2>2. CASE i # 1
    <3> DEFINE j == i - 1
    <3>1. j \in 1..Len(rest) /\ 1 + j = i
      BY <1>6, <1>4, <2>2
    <3> HIDE DEF j
    <3>2. now[i] = c[j + k] /\ j + k \in 1..L
      BY <1>3, <1>6, <3>1
    <3> QED BY <1>2, <3>2
  <2> QED BY <2>1, <2>2
<1>8. RolesKept(now)
  BY <1>6, <1>7 DEF RolesKept
<1> QED BY <1>8 DEF now, rest, L

LEMMA CompactRoles ==
    ASSUME RolesStay, Compact
    PROVE  RolesStay'
<1>1. PICK k \in 2..(Len(contents) - 1) :
        contents' = <<OwnTurn>> \o SubSeq(contents, k + 1, Len(contents))
  BY DEF Compact, OwnTurn
<1>2. RolesKept(contents')
  BY <1>1, RolesKeptCompacted DEF RolesStay
<1> QED BY <1>2 DEF RolesStay

LEMMA StepRoles == Answerable /\ RolesStay /\ [Next]_vars => RolesStay'
<1> SUFFICES ASSUME Answerable, RolesStay, [Next]_vars PROVE RolesStay'
  OBVIOUS
<1>1. ASSUME UNCHANGED contents PROVE RolesStay'
  BY <1>1 DEF RolesStay
<1>0. LastNumber \in Nat
  BY DEF Answerable
<1>a. ASSUME NEW role, NEW parts, Voiced(role, parts), Say(role, parts) PROVE RolesStay'
  BY <1>0, <1>a, SayRoles DEF RolesStay
<1>2. CASE UserSpeaks
  <2>1. PICK turn \in UserTurns \cup {<<Text("some", NoItem)>>} : Say("user", turn)
    BY <1>2 DEF UserSpeaks
  <2>2. Told(turn) /\ \A i \in DOMAIN turn : turn[i].kind \in {"text", "media"}
    <3>1. CASE turn \in UserTurns
      BY <3>1, TurnIsTold
    <3>2. CASE turn = <<Text("some", NoItem)>>
      BY <3>2, WordsAreTold
    <3> QED BY <2>1, <3>1, <3>2
  <2>3. Voiced("user", turn)
    BY <2>2 DEF Voiced, Kinds
  <2> QED BY <1>a, <2>1, <2>3
<1>3. CASE ModelSpeaks
  <2>1. PICK turn \in ModelTurns : Say("model", turn)
    BY <1>3 DEF ModelSpeaks
  <2>2. Told(turn) /\ \A i \in DOMAIN turn : turn[i].kind \in Kinds \ {"result"}
    BY TurnIsTold
  <2>3. Voiced("model", turn)
    BY <2>2 DEF Voiced
  <2> QED BY <1>a, <2>1, <2>3
<1>4. CASE ToolsAnswer
  <2>1. PICK count \in 1..Cardinality(Open) : \E pick \in [1..count -> Open] :
          Say("user", [i \in 1..count |-> Result(pick[i].id, pick[i].name, pick[i].n, <<>>)])
    BY <1>4 DEF ToolsAnswer
  <2>2. PICK pick \in [1..count -> Open] :
          Say("user", [i \in 1..count |-> Result(pick[i].id, pick[i].name, pick[i].n, <<>>)])
    BY <2>1
  <2> DEFINE s == [i \in 1..count |-> Result(pick[i].id, pick[i].name, pick[i].n, <<>>)]
  <2>3. count \in Nat \ {0}
    OBVIOUS
  <2>4. s \in Seq({s[i] : i \in 1..count}) /\ Len(s) = count
    BY <2>3
  <2>5. IsSeq(s) /\ s # <<>> /\ DOMAIN s = 1..count
    BY <2>3, <2>4, AnySeq, SeqFacts
  <2>6. \A i \in 1..count : s[i] = Result(pick[i].id, pick[i].name, pick[i].n, <<>>)
    OBVIOUS
  <2> HIDE DEF s
  <2>7. Voiced("user", s)
    BY <2>5, <2>6, ResultsAreVoiced
  <2> QED BY <1>a, <2>2, <2>7 DEF s
<1>5. CASE ModelSearches
  <2>1. Say("model", <<Call(LastNumber + 1, SearchTool, NoId)>>) /\ Open = {}
    BY <1>5 DEF ModelSearches, Asked
  <2> QED BY <1>a, <2>1, CallIsVoiced
<1>6. CASE SearchAnswers
  <2>1. PICK call, found : Say("user", <<Result(call.id, SearchTool, call.n, found)>>)
    BY <1>6 DEF SearchAnswers
  <2> DEFINE r == Result(call.id, SearchTool, call.n, found)
  <2>2. IsSeq(<<r>>) /\ <<r>> # <<>> /\ DOMAIN <<r>> = {1} /\ <<r>>[1] = r
    BY SingleFacts
  <2>3. Voiced("user", <<r>>)
    BY <2>2, ResultsAreVoiced
  <2> QED BY <1>a, <2>1, <2>3
<1>7. CASE ModelCalls
  <2>1. PICK t, namespace : Say("model", <<Call(LastNumber + 1, t, namespace)>>)
    BY <1>7 DEF ModelCalls
  <2> QED BY <1>a, <2>1, CallIsVoiced
<1>8. CASE Revoke \/ Grant \/ ApplicationLoads \/ UNCHANGED vars
  BY <1>1, <1>8 DEF Revoke, Grant, ApplicationLoads, vars
<1>9. CASE Compact
  BY <1>9, CompactRoles
<1> QED BY <1>2, <1>3, <1>4, <1>5, <1>6, <1>7, <1>8, <1>9 DEF Next

LEMMA RolesTell == RolesStay => NothingLostOrMoved
<1> SUFFICES ASSUME RolesStay PROVE NothingLostOrMoved
  OBVIOUS
<1>1. RolesKept(contents)
  BY DEF RolesStay
<1>2. VercelPieces # <<>> => Carried(VercelPieces) = Expected(contents, NotHidden)
  BY <1>1, VercelTells
<1>3. ResponsesPieces # <<>> => Carried(ResponsesPieces) = Expected(contents, Worthwhile)
  BY <1>1, ResponsesTells
<1>4. Chat.ok => ChatCarried(Chat.messages) = ChatExpected
  BY <1>1, ChatTells
<1>5. AnthropicPieces # <<>> =>
        Carried(AnthropicPieces) = Expected(WithUserTurn(contents), Presentable)
  BY <1>1, AnthropicTells
<1> QED BY <1>2, <1>3, <1>4, <1>5 DEF NothingLostOrMoved

\* In every reachable state the calls of the history are the model's and the
\* results the user's, so each converter gives a content the role of who said
\* it (Session's guards; anthropicconvert/request.go:37).
THEOREM HistoryKeepsRoles == Spec => []RolesStay
<1> QED BY InitRoles, StepRoles, HistoryStaysAnswerable, PTL DEF Spec

\* Whatever was said, in a history of any length, is on each of the four wires
\* once and in its order (vercel/request.go:57, openaiconvert/request.go:118,
\* chat.go:18, anthropicconvert/request.go:37).
THEOREM NothingIsLost == Spec => []NothingLostOrMoved
<1> QED BY HistoryKeepsRoles, RolesTell, PTL
==============================================================================
