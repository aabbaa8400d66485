--------------------------- MODULE SchemaProcessor_proofs ---------------------------
(* The tool schema processor and the tool choice that goes with it. For any *)
(* number of requests, any set of warnings and any capacity: the set and    *)
(* the queue of the diagnostic cache stay the same, and a warning comes     *)
(* back only after Cap newer ones. For every request, every conversion and  *)
(* cost of schemas, every order of hints and every limit: Anthropic's       *)
(* strict-mode budget holds and is dealt out in the caller's order; and for *)
(* every set of tools, each adapter sends the choice the caller asked for.  *)
EXTENDS WarnCache, PreparedTools, FiniteSetTheorems, SequenceTheorems,
        WellFoundedInduction, TLAPS

------------------------------------------------------------------------------
(* The diagnostic cache *)

Inside(r) == pc[r] \in {"look", "insert"}

\* The mutex is held exactly while one request is between look and insert,
\* so what that request read of the cache is still true when it inserts.
Exclusion ==
    /\ \A r \in Callers : Inside(r) => mu
    /\ \A r, q \in Callers : Inside(r) /\ Inside(q) => r = q
    /\ \A r \in Callers : pc[r] = "insert" => warning[r] \notin remembered

\* The queue's positions are ages: the last inserted warning has age 0.
QueueIsByAge == \A i \in 1..Len(order) : age[order[i]] = Len(order) - i

CacheIInv == TypeOK /\ Exclusion /\ CacheAgrees /\ QueueIsByAge /\ NotRepeatedEarly

\* The cache starts empty and unlocked.
LEMMA InitCacheIInv == CacheInit => CacheIInv
  <1> SUFFICES ASSUME CacheInit PROVE CacheIInv
    OBVIOUS
  <1>1. Len(order) = 0 /\ Cap \in Nat /\ order \in Seq(Warnings)
    BY CapAssumption DEF CacheInit
  <1>2. TypeOK
    <2>1. age \in [Warnings -> 0..Cap]
      BY <1>1 DEF CacheInit
    <2>2. pc \in [Callers -> States]
      BY DEF CacheInit, States
    <2>3. remembered \subseteq Warnings /\ reported \subseteq Warnings /\ mu \in BOOLEAN
      BY DEF CacheInit
    <2>4. warning \in [Callers -> Warnings]
      BY DEF CacheInit
    <2>5. Len(order) <= Cap
      BY <1>1
    <2> QED BY <1>1, <2>1, <2>2, <2>3, <2>4, <2>5 DEF TypeOK
  <1>3. Exclusion
    BY DEF CacheInit, Exclusion, Inside
  <1>4. CacheAgrees /\ QueueIsByAge
    BY <1>1 DEF CacheInit, CacheAgrees, QueueIsByAge
  <1>5. NotRepeatedEarly
    BY DEF CacheInit, NotRepeatedEarly
  <1> QED BY <1>2, <1>3, <1>4, <1>5 DEF CacheIInv

\* The queue once there is room for one more, and how many entries went.
Kept == Evict.order
Gone == Len(order) - Len(Kept)

\* What stays of the queue is what was there, one place earlier if the oldest
\* entry went, and the set loses the same entry.
LEMMA EvictedQueue ==
  ASSUME TypeOK, CacheAgrees
  PROVE  /\ Kept \in Seq(Warnings)
         /\ Len(Kept) \in Nat /\ Len(Kept) < Cap
         /\ Gone \in {0, 1} /\ (Gone = 1 <=> Len(order) = Cap)
         /\ Len(order) = Len(Kept) + Gone
         /\ \A i \in 1..Len(Kept) : Kept[i] = order[i + Gone]
         /\ Evict.seen = {Kept[i] : i \in 1..Len(Kept)}
  <1>1. order \in Seq(Warnings) /\ Len(order) \in Nat /\ Len(order) <= Cap /\ Cap \in Nat \ {0}
    BY CapAssumption DEF TypeOK
  <1>2. CASE ~Full
    <2>1. Kept = order /\ Evict.seen = remembered
      BY <1>2 DEF Evict, Kept
    <2>2. Gone = 0
      BY <1>1, <2>1 DEF Gone
    <2> QED BY <1>1, <1>2, <2>1, <2>2 DEF CacheAgrees, Full
  <1>3. CASE Full
    <2>1. Kept = Tail(order) /\ Evict.seen = remembered \ {Head(order)}
      BY <1>3 DEF Evict, Kept
    <2>2. Len(order) = Cap /\ order # <<>>
      BY <1>1, <1>3 DEF Full
    <2>3. /\ Kept \in Seq(Warnings) /\ Len(Kept) = Len(order) - 1
          /\ Head(order) = order[1]
          /\ \A i \in 1..Len(Kept) : Kept[i] = order[i + 1]
      BY <1>1, <2>1, <2>2
    <2>4. Gone = 1
      BY <1>1, <2>3 DEF Gone
    <2>5. \A w : w \in Evict.seen <=> \E i \in 1..Len(order) : i # 1 /\ w = order[i]
      BY <1>1, <2>1, <2>2, <2>3 DEF CacheAgrees
    <2>6. \A w : w \in Evict.seen <=> \E i \in 1..Len(Kept) : w = Kept[i]
      <3>1. ASSUME NEW i \in 1..Len(order), i # 1
            PROVE  i - 1 \in 1..Len(Kept) /\ Kept[i - 1] = order[i]
        <4>1. i - 1 \in 1..Len(Kept) /\ (i - 1) + 1 = i
          BY <1>1, <2>3, <3>1
        <4> QED BY <2>3, <4>1
      <3>2. ASSUME NEW j \in 1..Len(Kept)
            PROVE  j + 1 \in 1..Len(order) /\ j + 1 # 1 /\ Kept[j] = order[j + 1]
        BY <1>1, <2>3, <3>2
      <3> QED BY <2>5, <3>1, <3>2
    <2>7. Evict.seen = {Kept[i] : i \in 1..Len(Kept)}
      BY <2>6
    <2> QED BY <1>1, <2>2, <2>3, <2>4, <2>7
  <1> QED BY <1>2, <1>3

\* Every step of every request preserves the invariant.
LEMMA StepCacheIInv == CacheIInv /\ [CacheNext]_cacheVars => CacheIInv'
  <1> SUFFICES ASSUME CacheIInv, [CacheNext]_cacheVars PROVE CacheIInv'
    OBVIOUS
  <1> USE DEF CacheIInv
  <1>1. CASE UNCHANGED cacheVars
    BY <1>1 DEF cacheVars, TypeOK, Exclusion, Inside, CacheAgrees, QueueIsByAge, NotRepeatedEarly
  <1>2. ASSUME NEW r \in Callers, Insert(r) PROVE CacheIInv'
    <2> DEFINE w == warning[r]
    <2>1. /\ w \in Warnings /\ w \notin remembered
          /\ pc[r] = "insert" /\ pc' = [pc EXCEPT ![r] = "report"]
          /\ remembered' = Evict.seen \cup {w} /\ order' = Append(Kept, w)
          /\ age' = [v \in Warnings |-> IF v = w THEN 0
                                        ELSE IF age[v] < Cap THEN age[v] + 1 ELSE Cap]
          /\ mu' = FALSE /\ warning' = warning
          /\ reported' = reported \ {w}
      BY <1>2 DEF Insert, Kept, TypeOK, Exclusion
    <2>2. /\ Kept \in Seq(Warnings) /\ Len(Kept) \in Nat /\ Len(Kept) < Cap
          /\ Gone \in {0, 1} /\ (Gone = 1 <=> Len(order) = Cap)
          /\ Len(order) = Len(Kept) + Gone
          /\ \A i \in 1..Len(Kept) : Kept[i] = order[i + Gone]
          /\ Evict.seen = {Kept[i] : i \in 1..Len(Kept)}
      BY EvictedQueue
    <2>3. /\ order' \in Seq(Warnings) /\ Len(order') = Len(Kept) + 1
          /\ order'[Len(Kept) + 1] = w
          /\ \A i \in 1..Len(Kept) : order'[i] = Kept[i]
      BY <2>1, <2>2
    <2>4. /\ order \in Seq(Warnings) /\ Len(order) \in Nat
          /\ Cap \in Nat \ {0} /\ age \in [Warnings -> 0..Cap]
      BY CapAssumption DEF TypeOK
    <2>5. \A i \in 1..Len(Kept) : i + Gone \in 1..Len(order) /\ order[i + Gone] \in remembered
      <3>1. ASSUME NEW i \in 1..Len(Kept) PROVE i + Gone \in 1..Len(order)
        BY <2>2, <2>4
      <3> QED BY <3>1 DEF CacheAgrees
    <2>6. Evict.seen \subseteq remembered
      BY <2>2, <2>5
    <2>7. TypeOK'
      <3>1. age' \in [Warnings -> 0..Cap]
        BY <2>1, <2>4
      <3>2. remembered' \subseteq Warnings /\ reported' \subseteq Warnings
        BY <2>1, <2>6 DEF TypeOK
      <3>3. pc' \in [Callers -> States]
        BY <2>1 DEF TypeOK, States
      <3>4. Len(order') <= Cap
        BY <2>2, <2>3, <2>4
      <3> QED BY <2>1, <2>3, <3>1, <3>2, <3>3, <3>4 DEF TypeOK
    <2>8. Exclusion'
      <3>1. \A q \in Callers \ {r} : pc'[q] = pc[q] /\ ~Inside(q)
        BY <2>1 DEF Exclusion, Inside, TypeOK
      <3>2. pc'[r] = "report"
        BY <2>1 DEF TypeOK
      <3> QED BY <3>1, <3>2 DEF Exclusion, Inside
    <2>9. CacheAgrees'
      <3>1. remembered' = {order'[i] : i \in 1..Len(order')}
        BY <2>1, <2>2, <2>3, SMTT(30)
      <3>2. \A i, j \in 1..Len(Kept) : Kept[i] = Kept[j] => i = j
        <4> SUFFICES ASSUME NEW i \in 1..Len(Kept), NEW j \in 1..Len(Kept), Kept[i] = Kept[j]
                     PROVE  i = j
          OBVIOUS
        <4>1. i + Gone = j + Gone
          BY <2>2, <2>5 DEF CacheAgrees
        <4> QED BY <2>2, <4>1
      <3>3. \A i \in 1..Len(Kept) : Kept[i] # w
        BY <2>1, <2>2, <2>5
      <3>4. ASSUME NEW i \in 1..Len(order'), NEW j \in 1..Len(order'), order'[i] = order'[j]
            PROVE  i = j
        <4>1. /\ i \in 1..Len(Kept) \/ i = Len(Kept) + 1
              /\ j \in 1..Len(Kept) \/ j = Len(Kept) + 1
          BY <2>2, <2>3
        <4> QED BY <2>3, <3>2, <3>3, <3>4, <4>1
      <3> QED BY <3>1, <3>4 DEF CacheAgrees
    <2>10. QueueIsByAge'
      <3> SUFFICES ASSUME NEW i \in 1..Len(order') PROVE age'[order'[i]] = Len(order') - i
        BY DEF QueueIsByAge
      <3>1. CASE i = Len(Kept) + 1
        BY <2>1, <2>2, <2>3, <3>1
      <3>2. CASE i \in 1..Len(Kept)
        <4>1. order'[i] = order[i + Gone] /\ order[i + Gone] # w /\ order[i + Gone] \in Warnings
          BY <2>1, <2>2, <2>3, <2>5, <3>2 DEF TypeOK
        <4>2. age[order[i + Gone]] = Len(Kept) - i
          <5>1. age[order[i + Gone]] = Len(order) - (i + Gone)
            BY <2>5, <3>2 DEF QueueIsByAge
          <5> QED BY <2>2, <3>2, <5>1
        <4>3. Len(Kept) - i < Cap /\ (Len(Kept) - i) + 1 = Len(order') - i
          BY <2>2, <2>3, <2>4, <3>2
        <4> QED BY <2>1, <4>1, <4>2, <4>3
      <3> QED BY <2>2, <2>3, <3>1, <3>2
    <2>11. NotRepeatedEarly'
      <3> SUFFICES ASSUME NEW v \in Warnings, v \notin remembered' PROVE age'[v] = Cap
        BY DEF NotRepeatedEarly
      <3>1. v # w /\ v \notin Evict.seen
        BY <2>1
      <3>2. CASE v \notin remembered
        BY <2>1, <2>4, <3>1, <3>2 DEF NotRepeatedEarly
      <3>3. CASE v \in remembered
        <4>1. Gone = 1 /\ Len(order) = Cap
          <5>1. ASSUME Gone = 0 PROVE FALSE
            <6>1. PICK i \in 1..Len(order) : order[i] = v
              BY <3>3 DEF CacheAgrees
            <6>2. i \in 1..Len(Kept) /\ i + Gone = i
              BY <2>2, <5>1
            <6> QED BY <2>2, <3>1, <6>1, <6>2
          <5> QED BY <2>2, <5>1
        <4>2. PICK i \in 1..Len(order) : order[i] = v
          BY <3>3 DEF CacheAgrees
        <4>3. i = 1
          <5>1. i - 1 \notin 1..Len(Kept)
            <6>1. ASSUME i - 1 \in 1..Len(Kept) PROVE FALSE
              <7>1. (i - 1) + Gone = i
                BY <4>1
              <7>2. Kept[i - 1] = v
                BY <2>2, <4>2, <6>1, <7>1
              <7> QED BY <2>2, <3>1, <6>1, <7>2
            <6> QED BY <6>1
          <5> QED BY <2>2, <2>4, <4>1, <5>1
        <4>4. age[v] = Cap - 1
          BY <2>4, <4>1, <4>2, <4>3 DEF QueueIsByAge
        <4> QED BY <2>1, <2>4, <3>1, <4>4
      <3> QED BY <3>2, <3>3
    <2> QED BY <2>7, <2>8, <2>9, <2>10, <2>11
  <1>3. ASSUME NEW r \in Callers, Lock(r) \/ Known(r) \/ Miss(r) \/ Report(r) PROVE CacheIInv'
    <2>1. /\ remembered' = remembered /\ order' = order /\ age' = age /\ warning' = warning
      BY <1>3 DEF Lock, Known, Miss, Report
    <2>2. TypeOK'
      BY <1>3, <2>1 DEF Lock, Known, Miss, Report, TypeOK, States
    <2>3. Exclusion'
      BY <1>3, <2>1, SMTT(30) DEF Lock, Known, Miss, Report, Exclusion, Inside, TypeOK
    <2> QED BY <2>1, <2>2, <2>3 DEF CacheAgrees, QueueIsByAge, NotRepeatedEarly
  <1>4. ASSUME NEW r \in Callers, NEW w \in Warnings, Raise(r, w) PROVE CacheIInv'
    <2>1. /\ remembered' = remembered /\ order' = order /\ age' = age /\ mu' = mu
      BY <1>4 DEF Raise
    <2>2. TypeOK'
      BY <1>4, <2>1 DEF Raise, TypeOK, States
    <2>3. Exclusion'
      BY <1>4, <2>1, SMTT(30) DEF Raise, Exclusion, Inside, TypeOK
    <2> QED BY <2>1, <2>2, <2>3 DEF CacheAgrees, QueueIsByAge, NotRepeatedEarly
  <1> QED BY <1>1, <1>2, <1>3, <1>4 DEF CacheNext, Warn

-----------------------------------------------------------------------------

\* The whole invariant holds of every execution.
THEOREM CacheInvariant == CacheSpec => []CacheIInv
  <1> QED BY InitCacheIInv, StepCacheIInv, PTL DEF CacheSpec

\* Processor.warn's state stays well formed, and within its capacity.
THEOREM CacheTypeOK == CacheSpec => []TypeOK
  <1>1. CacheIInv => TypeOK
    BY DEF CacheIInv
  <1> QED BY CacheInvariant, <1>1, PTL

\* The set and the queue of remembered warnings never drift apart, however
\* many requests warn at once.
THEOREM CacheStaysConsistent == CacheSpec => []CacheAgrees
  <1>1. CacheIInv => CacheAgrees
    BY DEF CacheIInv
  <1> QED BY CacheInvariant, <1>1, PTL

\* A warning is repeated only after as many newer ones as the cache holds.
THEOREM WarningsAreDeduplicated == CacheSpec => []NotRepeatedEarly
  <1>1. CacheIInv => NotRepeatedEarly
    BY DEF CacheIInv
  <1> QED BY CacheInvariant, <1>1, PTL

\* A silenced warning was reported, or is being reported right now: nobody
\* is silenced by a request that gives up before it reports.
THEOREM SilenceIsJustified == CacheSpec => []RememberedIsReported
  <1>1. CacheInit => RememberedIsReported
    BY DEF CacheInit, RememberedIsReported
  <1>2. CacheIInv /\ RememberedIsReported /\ [CacheNext]_cacheVars => RememberedIsReported'
    <2> SUFFICES ASSUME CacheIInv, RememberedIsReported, [CacheNext]_cacheVars,
                        NEW w \in Warnings, w \in remembered'
                 PROVE  w \in reported' \/ \E r \in Callers : pc'[r] = "report" /\ warning'[r] = w
      <3>1. CacheIInv' => remembered' \subseteq Warnings
        BY DEF CacheIInv, TypeOK
      <3> QED BY <3>1, StepCacheIInv DEF RememberedIsReported
    <2>1. CASE UNCHANGED cacheVars
      BY <2>1 DEF cacheVars, RememberedIsReported
    <2>2. ASSUME NEW r \in Callers, Insert(r)
          PROVE  w \in reported' \/ \E q \in Callers : pc'[q] = "report" /\ warning'[q] = w
      <3>1. /\ remembered' \subseteq remembered \cup {warning[r]} /\ pc[r] = "insert"
            /\ pc' = [pc EXCEPT ![r] = "report"] /\ warning' = warning
            /\ reported' = reported \ {warning[r]}
        BY <2>2 DEF Insert, Evict
      <3> QED BY <3>1 DEF RememberedIsReported, CacheIInv, TypeOK
    <2>3. ASSUME NEW r \in Callers, Lock(r) \/ Known(r) \/ Miss(r) \/ Report(r)
          PROVE  w \in reported' \/ \E q \in Callers : pc'[q] = "report" /\ warning'[q] = w
      BY <2>3 DEF Lock, Known, Miss, Report, RememberedIsReported, CacheIInv, TypeOK
    <2>4. ASSUME NEW r \in Callers, NEW v \in Warnings, Raise(r, v)
          PROVE  w \in reported' \/ \E q \in Callers : pc'[q] = "report" /\ warning'[q] = w
      BY <2>4 DEF Raise, RememberedIsReported, CacheIInv, TypeOK
    <2> QED BY <2>1, <2>2, <2>3, <2>4 DEF CacheNext, Warn
  <1> QED BY CacheInvariant, <1>1, <1>2, PTL DEF CacheSpec

------------------------------------------------------------------------------
(* The strict budget and the tool choice *)

\* What the selection relies on. The budget counts the strict tools it has
\* come to; a strict tool it has not come to yet is still ahead in the order,
\* because only hinted tools are strict. Without that last fact a strict tool
\* could reach the wire uncounted.
Ahead(n) == \E i \in next..Len(StrictOrder) : StrictOrder[i] = n

Counted ==
    /\ IsFiniteSet(Names)
    /\ \A n \in Names : "strict" \in DOMAIN prepared[n]
    /\ seen \subseteq Names
    /\ spent.tools = Cardinality(seen \cap StrictTools)
    /\ Within(spent)

Declared ==
    phase = "declaring" =>
        /\ seen = {}
        /\ next \in Nat \ {0}
        /\ \A n \in Names : \E i \in 1..(next - 1) : i \in DOMAIN request.tools
                                                      /\ Declarations[i] = n

IInv ==
    /\ request \in Requests
    /\ phase \in {"declaring", "selecting", "ready", "failed"}
    /\ Counted
    /\ \A n \in StrictTools : IsHinted(n)
    /\ Declared
    /\ phase = "selecting" =>
         /\ next \in Nat \ {0}
         /\ \A n \in StrictTools : n \in seen \/ Ahead(n)
    /\ phase = "ready" /\ request.provider = "anthropic" => StrictTools \subseteq seen

\* The strict order is a sequence.
LEMMA OrderIsSequence ==
    ASSUME request \in Requests
    PROVE  /\ Len(request.tools) \in Nat
           /\ DOMAIN request.tools = 1..Len(request.tools)
           /\ Len(StrictOrder) \in Nat
           /\ DOMAIN StrictOrder = 1..Len(StrictOrder)
<1> DEFINE T == {request.tools[i] : i \in DOMAIN request.tools}
           H == {request.hints[i] : i \in DOMAIN request.hints}
<1>1. request.tools \in Seq(T)
  BY RequestsAssumption
<1>2. Len(request.tools) \in Nat /\ DOMAIN request.tools = 1..Len(request.tools)
  BY <1>1, LenProperties
<1>3. CASE Hints = NoHints
  <2>1. Declarations = [i \in 1..Len(request.tools) |-> request.tools[i].name]
    BY <1>2 DEF Declarations
  <2>2. Len(Declarations) = Len(request.tools) /\ DOMAIN Declarations = 1..Len(request.tools)
    BY <1>2, <2>1
  <2> QED BY <1>2, <1>3, <2>2 DEF StrictOrder
<1>4. CASE Hints # NoHints
  <2>1. Hints = request.hints
    BY <1>4 DEF Hints
  <2>2. request.hints \in Seq(H)
    BY <1>4, <2>1, RequestsAssumption
  <2> QED BY <1>2, <1>4, <2>1, <2>2, LenProperties DEF StrictOrder
<1> QED BY <1>3, <1>4

\* Before the first declaration.
LEMMA InvInit == Init => IInv
<1> SUFFICES ASSUME Init PROVE IInv
  OBVIOUS
<1> USE DEF Init
<1>1. Names = {} /\ StrictTools = {} /\ seen = {}
  BY DEF Names, StrictTools
<1>2. Counted
  BY <1>1, FS_EmptySet, LimitsAssumption DEF Counted, Within, Unspent
<1>3. Declared
  BY <1>1 DEF Declared
<1> QED BY <1>1, <1>2, <1>3 DEF IInv

\* A declaration is refused.
LEMMA RefuseInv == IInv /\ Refuse => IInv'
<1> SUFFICES ASSUME IInv, Refuse PROVE IInv'
  OBVIOUS
<1> USE DEF Refuse, Names, StrictTools
<1>1. Counted'
  BY DEF IInv, Counted, Within
<1>2. \A n \in StrictTools' : IsHinted(n)'
  BY DEF IInv, IsHinted, Hints
<1> QED BY <1>1, <1>2 DEF IInv, Declared

\* A declared tool is strict only if hinted, and nothing is counted yet.
LEMMA DeclareInv == IInv /\ Declare => IInv'
<1> SUFFICES ASSUME IInv, Declare PROVE IInv'
  OBVIOUS
<1> DEFINE tool == request.tools[next]
           conversion == Conversion(request, tool.schema)
<1> USE DEF Names
<1>1. /\ phase = "declaring" /\ phase' = phase /\ request' = request
      /\ spent' = spent /\ seen' = seen /\ next' = next + 1
      /\ next \in DOMAIN request.tools /\ tool.name \notin Names
  BY DEF Declare, Declaring, Refused
<1>2. /\ Names' = Names \cup {tool.name}
      /\ prepared'[tool.name].strict = (Compatible(conversion) /\ IsHinted(tool.name))
      /\ "strict" \in DOMAIN prepared'[tool.name]
      /\ \A n \in Names : prepared'[n] = prepared[n]
  BY <1>1 DEF Declare
<1>3. \A n : IsHinted(n)' <=> IsHinted(n)
  BY <1>1 DEF IsHinted, Hints
<1>4. ASSUME NEW n \in StrictTools' PROVE IsHinted(n)'
  <2>1. n \in Names' /\ prepared'[n].strict
    BY DEF StrictTools
  <2>2. CASE n = tool.name
    BY <1>2, <1>3, <2>1, <2>2
  <2>3. CASE n \in Names
    BY <1>2, <1>3, <2>1, <2>3 DEF IInv, StrictTools
  <2> QED BY <1>2, <2>1, <2>2, <2>3
<1>5. Counted'
  <2>1. seen = {} /\ IsFiniteSet(Names')
    BY <1>1, <1>2, FS_AddElement DEF IInv, Counted, Declared
  <2>2. seen \cap StrictTools = {} /\ seen' \cap StrictTools' = {}
    BY <1>1, <2>1
  <2>3. \A n \in Names' : "strict" \in DOMAIN prepared'[n]
    BY <1>2 DEF IInv, Counted
  <2> QED BY <1>1, <2>1, <2>2, <2>3 DEF IInv, Counted, Within
<1>6. Declared'
  <2>1. next \in Nat \ {0} /\ next' = next + 1 /\ Declarations' = Declarations
    BY <1>1 DEF IInv, Declared, Declarations
  <2>2. Declarations[next] = tool.name
    BY <1>1 DEF Declarations
  <2>3. ASSUME NEW n \in Names'
        PROVE  \E i \in 1..(next' - 1) : i \in DOMAIN request'.tools /\ Declarations'[i] = n
    <3>1. CASE n = tool.name
      BY <1>1, <2>1, <2>2, <3>1
    <3>2. CASE n \in Names
      <4>1. PICK i \in 1..(next - 1) : i \in DOMAIN request.tools /\ Declarations[i] = n
        BY <1>1, <3>2 DEF IInv, Declared
      <4> QED BY <1>1, <2>1, <4>1
    <3> QED BY <1>2, <3>1, <3>2
  <2> QED BY <1>1, <2>1, <2>3 DEF IInv, Declared
<1> QED BY <1>1, <1>4, <1>5, <1>6 DEF IInv

\* Every strict tool is ahead in the order the selection starts with.
LEMMA AllDeclaredInv == IInv /\ AllDeclared => IInv'
<1> SUFFICES ASSUME IInv, AllDeclared PROVE IInv'
  OBVIOUS
<1> USE DEF Names
<1>1. /\ phase = "declaring" /\ next' = 1
      /\ phase' = IF request.provider = "anthropic" THEN "selecting" ELSE "ready"
      /\ request' = request /\ prepared' = prepared /\ spent' = spent /\ seen' = seen
  BY DEF AllDeclared
<1>2. /\ StrictTools' = StrictTools /\ StrictOrder' = StrictOrder
      /\ \A n : IsHinted(n)' = IsHinted(n)
  BY <1>1 DEF StrictTools, StrictOrder, Declarations, Hints, IsHinted
<1>3. Counted'
  BY <1>1, <1>2 DEF IInv, Counted, Within
<1>4. ASSUME NEW n \in StrictTools PROVE \E i \in 1..Len(StrictOrder) : StrictOrder[i] = n
  <2>1. DOMAIN StrictOrder = 1..Len(StrictOrder)
    BY OrderIsSequence DEF IInv
  <2>2. IsHinted(n) /\ n \in Names
    BY DEF IInv, StrictTools
  <2>3. CASE Hints = NoHints
    <3>1. PICK i \in 1..(next - 1) : i \in DOMAIN request.tools /\ Declarations[i] = n
      BY <1>1, <2>2 DEF IInv, Declared
    <3>2. i \in DOMAIN Declarations /\ StrictOrder = Declarations
      BY <2>3, <3>1 DEF Declarations, StrictOrder
    <3> QED BY <2>1, <3>1, <3>2
  <2>4. CASE Hints # NoHints
    BY <2>1, <2>2, <2>4 DEF IsHinted, StrictOrder
  <2> QED BY <2>3, <2>4
<1>5. \A n \in StrictTools' : Ahead(n)'
  BY <1>1, <1>2, <1>4 DEF Ahead
<1> QED BY <1>1, <1>2, <1>3, <1>5 DEF IInv, Declared

\* A name passed over is not a strict tool that was not seen.
LEMMA SkipInv == IInv /\ Skip => IInv'
<1> SUFFICES ASSUME IInv, Skip PROVE IInv'
  OBVIOUS
<1> USE DEF Names
<1>1. /\ phase = "selecting" /\ phase' = phase /\ next' = next + 1 /\ next \in Nat \ {0}
      /\ request' = request /\ prepared' = prepared /\ spent' = spent /\ seen' = seen
      /\ ~Candidate(StrictOrder[next])
  BY DEF Skip, Selecting, IInv
<1>2. /\ StrictTools' = StrictTools /\ StrictOrder' = StrictOrder
      /\ \A n : IsHinted(n)' = IsHinted(n)
  BY <1>1 DEF StrictTools, StrictOrder, Declarations, Hints, IsHinted
<1>3. Counted'
  BY <1>1, <1>2 DEF IInv, Counted, Within
<1>4. ASSUME NEW n \in StrictTools, n \notin seen PROVE Ahead(n)'
  <2>1. PICK i \in next..Len(StrictOrder) : StrictOrder[i] = n
    BY <1>1, <1>4 DEF IInv, Ahead
  <2>2. Candidate(n)
    BY <1>4 DEF Candidate, StrictTools
  <2>3. i # next
    BY <1>1, <2>1, <2>2
  <2>4. Len(StrictOrder) \in Nat
    BY OrderIsSequence DEF IInv
  <2> QED BY <1>1, <1>2, <2>1, <2>3, <2>4 DEF Ahead
<1> QED BY <1>1, <1>2, <1>3, <1>4 DEF IInv, Declared

\* A granted tool is counted once.
LEMMA TakeInv == IInv /\ Take => IInv'
<1> SUFFICES ASSUME IInv, Take PROVE IInv'
  OBVIOUS
<1> USE DEF Names
<1> DEFINE name == StrictOrder[next]
           total == With(spent, Cost(prepared[name].wire))
<1>1. /\ phase = "selecting" /\ phase' = phase /\ next' = next + 1 /\ next \in Nat \ {0}
      /\ request' = request /\ prepared' = prepared
      /\ spent' = total /\ seen' = seen \cup {name}
      /\ Candidate(name) /\ Within(total)
  BY DEF Take, Selecting, IInv
<1>2. /\ StrictTools' = StrictTools /\ StrictOrder' = StrictOrder
      /\ \A n : IsHinted(n)' = IsHinted(n)
  BY <1>1 DEF StrictTools, StrictOrder, Declarations, Hints, IsHinted
<1>3. name \in StrictTools /\ name \in Names /\ name \notin seen
  BY <1>1 DEF Candidate, StrictTools
<1>4. Counted'
  <2>1. seen' \cap StrictTools' = (seen \cap StrictTools) \cup {name}
    BY <1>1, <1>2, <1>3
  <2>2. IsFiniteSet(seen \cap StrictTools)
    BY FS_Subset DEF IInv, Counted
  <2>3. Cardinality((seen \cap StrictTools) \cup {name}) = Cardinality(seen \cap StrictTools) + 1
    BY <1>3, <2>2, FS_AddElement
  <2>4. spent'.tools = spent.tools + 1
    BY <1>1 DEF With
  <2>5. Within(spent)'
    BY <1>1 DEF Within
  <2> QED BY <1>1, <1>3, <2>1, <2>3, <2>4, <2>5 DEF IInv, Counted
<1>5. ASSUME NEW n \in StrictTools, n \notin seen' PROVE Ahead(n)'
  <2>1. n \notin seen /\ n # name
    BY <1>1, <1>5
  <2>2. PICK i \in next..Len(StrictOrder) : StrictOrder[i] = n
    BY <1>1, <2>1 DEF IInv, Ahead
  <2>3. i # next
    BY <2>1, <2>2
  <2>4. Len(StrictOrder) \in Nat
    BY OrderIsSequence DEF IInv
  <2> QED BY <1>1, <1>2, <2>2, <2>3, <2>4 DEF Ahead
<1> QED BY <1>1, <1>2, <1>4, <1>5 DEF IInv, Declared

\* A denied tool is no longer strict, and costs nothing.
LEMMA DenyInv == IInv /\ Deny => IInv'
<1> SUFFICES ASSUME IInv, Deny PROVE IInv'
  OBVIOUS
<1> USE DEF Names
<1> DEFINE name == StrictOrder[next]
           denied == [[prepared[name] EXCEPT !.strict = FALSE]
                        EXCEPT !.reason = "request_budget"]
<1>1. /\ phase = "selecting" /\ phase' = phase /\ next' = next + 1 /\ next \in Nat \ {0}
      /\ request' = request /\ spent' = spent /\ seen' = seen \cup {name}
      /\ name \in Names /\ name \notin seen /\ prepared[name].strict
  BY DEF Deny, Selecting, Candidate, IInv
<1>2. prepared' = [prepared EXCEPT ![name] = denied]
  BY DEF Deny
<1>3. Names' = Names /\ prepared'[name] = denied /\ \A n \in Names \ {name} : prepared'[n] = prepared[n]
  <2> HIDE DEF denied
  <2> QED BY <1>1, <1>2
<1>4. denied.strict = FALSE /\ "strict" \in DOMAIN denied
  <2>1. "strict" \in DOMAIN prepared[name]
    BY <1>1 DEF IInv, Counted
  <2> HIDE DEF name
  <2> QED BY <2>1
<1> HIDE DEF denied
<1>5. StrictTools' = StrictTools \ {name}
  <2>1. ASSUME NEW n \in Names, n # name PROVE prepared'[n].strict <=> prepared[n].strict
    BY <1>3, <2>1
  <2>2. ~prepared'[name].strict
    BY <1>3, <1>4
  <2> QED BY <1>3, <2>1, <2>2 DEF StrictTools
<1>6. StrictOrder' = StrictOrder /\ \A n : IsHinted(n)' <=> IsHinted(n)
  BY <1>1 DEF StrictOrder, Declarations, Hints, IsHinted
<1>7. Counted'
  <2>1. seen' \cap StrictTools' = seen \cap StrictTools
    BY <1>1, <1>5
  <2>2. \A n \in Names' : "strict" \in DOMAIN prepared'[n]
    BY <1>3, <1>4 DEF IInv, Counted
  <2> QED BY <1>1, <1>3, <2>1, <2>2 DEF IInv, Counted, Within
<1>8. ASSUME NEW n \in StrictTools', n \notin seen' PROVE Ahead(n)'
  <2>1. n \in StrictTools /\ n \notin seen /\ n # name
    BY <1>1, <1>5, <1>8
  <2>2. PICK i \in next..Len(StrictOrder) : StrictOrder[i] = n
    BY <1>1, <2>1 DEF IInv, Ahead
  <2>3. i # next
    BY <2>1, <2>2
  <2>4. Len(StrictOrder) \in Nat
    BY OrderIsSequence DEF IInv
  <2> QED BY <1>1, <1>6, <2>2, <2>3, <2>4 DEF Ahead
<1>9. \A n \in StrictTools' : IsHinted(n)'
  BY <1>5, <1>6 DEF IInv
<1> QED BY <1>1, <1>7, <1>8, <1>9 DEF IInv, Declared

\* At the end of the order nothing is ahead, so every strict tool was seen.
LEMMA AllSelectedInv == IInv /\ AllSelected => IInv'
<1> SUFFICES ASSUME IInv, AllSelected PROVE IInv'
  OBVIOUS
<1> USE DEF Names
<1>1. /\ phase = "selecting" /\ phase' = "ready" /\ next = Len(StrictOrder) + 1
      /\ request' = request /\ prepared' = prepared /\ spent' = spent /\ seen' = seen
  BY DEF AllSelected
<1>2. StrictTools' = StrictTools /\ \A n : IsHinted(n)' <=> IsHinted(n)
  BY <1>1 DEF StrictTools, Hints, IsHinted
<1>3. Counted'
  BY <1>1, <1>2 DEF IInv, Counted, Within
<1>4. StrictTools' \subseteq seen'
  <2>1. Len(StrictOrder) \in Nat
    BY OrderIsSequence DEF IInv
  <2>2. \A n : ~Ahead(n)
    BY <1>1, <2>1 DEF Ahead
  <2> QED BY <1>1, <1>2, <2>2 DEF IInv
<1> QED BY <1>1, <1>2, <1>3, <1>4 DEF IInv, Declared

\* Nothing else touches the selection.
LEMMA StutterInv == IInv /\ UNCHANGED vars => IInv'
<1> SUFFICES ASSUME IInv, UNCHANGED vars PROVE IInv'
  OBVIOUS
<1>1. /\ request' = request /\ phase' = phase /\ next' = next
      /\ prepared' = prepared /\ spent' = spent /\ seen' = seen
  BY DEF vars
<1>2. /\ Names' = Names /\ StrictTools' = StrictTools /\ StrictOrder' = StrictOrder
      /\ Declarations' = Declarations
      /\ \A n : IsHinted(n)' <=> IsHinted(n)
  BY <1>1 DEF Names, StrictTools, StrictOrder, Declarations, Hints, IsHinted
<1>3. Counted' /\ Declared'
  BY <1>1, <1>2 DEF IInv, Counted, Declared, Within
<1>4. \A n : Ahead(n)' <=> Ahead(n)
  BY <1>1, <1>2 DEF Ahead
<1> QED BY <1>1, <1>2, <1>3, <1>4 DEF IInv

\* The counters hold in every reachable state of Prepare.
THEOREM SelectionInv == Spec => []IInv
<1>1. Init => IInv
  BY InvInit
<1>2. IInv /\ [Next]_vars => IInv'
  BY RefuseInv, DeclareInv, AllDeclaredInv, SkipInv, TakeInv, DenyInv, AllSelectedInv,
     StutterInv DEF Next
<1> QED BY <1>1, <1>2, PTL DEF Spec

------------------------------------------------------------------------------
(* The order of the grants *)

\* The smaller of two numbers, as a relation on the naturals.
Below == {p \in Nat \X Nat : p[1] < p[2]}

\* A set with zero and, of each of its numbers, the next holds all numbers.
LEMMA SetInduction ==
    ASSUME NEW T, 0 \in T, \A n \in Nat : n \in T => n + 1 \in T
    PROVE  Nat \subseteq T
<1>1. IsWellFoundedOn(Below, Nat)
  BY NatLessThanWellFounded DEF OpToRel, Below
<1>2. SUFFICES ASSUME Nat \ T # {} PROVE FALSE
  OBVIOUS
<1>3. PICK n \in Nat \ T : \A m \in Nat \ T : ~(<<m, n>> \in Below)
  BY <1>1, <1>2, WFMin
<1>4. n # 0 /\ n - 1 \in Nat /\ <<n - 1, n>> \in Below
  BY <1>3 DEF Below
<1>5. n - 1 \in T
  BY <1>3, <1>4
<1> QED BY <1>3, <1>4, <1>5

\* f is the function that Totals defines.
SumsUp(f, positions, cost, length) ==
    f = [k \in 0..length |->
            IF k = 0 THEN Unspent
            ELSE IF k \in positions THEN With(f[k - 1], cost[k]) ELSE f[k - 1]]

\* There is one for every length.
LEMMA TotalsExist ==
    ASSUME NEW positions, NEW cost
    PROVE  \A n \in Nat : \E f : SumsUp(f, positions, cost, n)
<1> DEFINE T == {n \in Nat : \E f : SumsUp(f, positions, cost, n)}
<1>1. 0 \in T
  <2> DEFINE g == [k \in 0..0 |-> Unspent]
  <2>1. SumsUp(g, positions, cost, 0)
    BY DEF SumsUp
  <2> QED BY <2>1
<1>2. ASSUME NEW n \in Nat, n \in T PROVE n + 1 \in T
  <2>1. PICK f : SumsUp(f, positions, cost, n)
    BY <1>2
  <2> DEFINE g == [k \in 0..(n + 1) |->
                      IF k # n + 1 THEN f[k]
                      ELSE IF k \in positions THEN With(f[n], cost[k]) ELSE f[n]]
  <2>2. \A k \in 0..n : f[k] = IF k = 0 THEN Unspent
                               ELSE IF k \in positions THEN With(f[k - 1], cost[k]) ELSE f[k - 1]
    BY <2>1 DEF SumsUp
  <2>3. \A k \in 0..(n + 1) : k = n + 1 \/ k \in 0..n
    OBVIOUS
  <2>4. \A k \in 0..n : g[k] = f[k]
    OBVIOUS
  <2>5. \A k \in 1..(n + 1) : g[k - 1] = f[k - 1]
    BY <2>4
  <2>6. \A k \in 0..(n + 1) : g[k] = IF k = 0 THEN Unspent
                               ELSE IF k \in positions THEN With(g[k - 1], cost[k]) ELSE g[k - 1]
    BY <2>2, <2>3, <2>4, <2>5
  <2>7. g = [k \in 0..(n + 1) |-> g[k]]
    OBVIOUS
  <2> HIDE DEF g
  <2>8. SumsUp(g, positions, cost, n + 1)
    BY <2>6, <2>7 DEF SumsUp
  <2> QED BY <2>8
<1> HIDE DEF T
<1>3. Nat \subseteq T
  BY <1>1, <1>2, SetInduction
<1> QED BY <1>3 DEF T

\* Each position adds its cost to the total, or nothing.
LEMMA TotalsFacts ==
    ASSUME NEW positions, NEW cost, NEW length \in Nat
    PROVE  /\ Totals(positions, cost, length)[0] = Unspent
           /\ \A k \in 1..length : Totals(positions, cost, length)[k] =
                IF k \in positions THEN With(Totals(positions, cost, length)[k - 1], cost[k])
                ELSE Totals(positions, cost, length)[k - 1]
<1> DEFINE f == CHOOSE g : SumsUp(g, positions, cost, length)
<1>1. SumsUp(f, positions, cost, length)
  BY TotalsExist
<1>2. Totals(positions, cost, length) = f
  BY DEF Totals, SumsUp
<1>3. \A k \in 0..length : f[k] = IF k = 0 THEN Unspent
                          ELSE IF k \in positions THEN With(f[k - 1], cost[k]) ELSE f[k - 1]
  BY <1>1 DEF SumsUp
<1> HIDE DEF f
<1> QED BY <1>2, <1>3

\* Totals agree as long as the positions and their costs do.
LEMMA TotalsAgree ==
    ASSUME NEW P, NEW Q, NEW c, NEW d, NEW length \in Nat, NEW top \in 0..length,
           \A k \in 1..top : (k \in P <=> k \in Q) /\ (k \in P => c[k] = d[k])
    PROVE  \A k \in 0..top : Totals(P, c, length)[k] = Totals(Q, d, length)[k]
<1> DEFINE T == {k \in Nat : k <= top => Totals(P, c, length)[k] = Totals(Q, d, length)[k]}
<1>1. 0 \in T
  BY TotalsFacts
<1>2. ASSUME NEW k \in Nat, k \in T PROVE k + 1 \in T
  <2> SUFFICES ASSUME k + 1 <= top
               PROVE  Totals(P, c, length)[k + 1] = Totals(Q, d, length)[k + 1]
    OBVIOUS
  <2>1. k + 1 \in 1..length /\ k + 1 \in 1..top /\ (k + 1) - 1 = k
    OBVIOUS
  <2>2. Totals(P, c, length)[k] = Totals(Q, d, length)[k]
    BY <1>2
  <2>3. Totals(P, c, length)[k + 1] =
          IF k + 1 \in P THEN With(Totals(P, c, length)[k], c[k + 1]) ELSE Totals(P, c, length)[k]
    BY <2>1, TotalsFacts
  <2>4. Totals(Q, d, length)[k + 1] =
          IF k + 1 \in Q THEN With(Totals(Q, d, length)[k], d[k + 1]) ELSE Totals(Q, d, length)[k]
    BY <2>1, TotalsFacts
  <2>5. (k + 1 \in P <=> k + 1 \in Q) /\ (k + 1 \in P => c[k + 1] = d[k + 1])
    BY <2>1
  <2> QED BY <2>2, <2>3, <2>4, <2>5
<1> HIDE DEF T
<1>3. Nat \subseteq T
  BY <1>1, <1>2, SetInduction
<1> QED BY <1>3 DEF T

\* Spending grows, along the order, by the cost of each granted tool.
SpendingAddsUp ==
    /\ Spending[0] = Unspent
    /\ \A k \in 1..Len(StrictOrder) : Spending[k] =
         IF k \in Granted THEN With(Spending[k - 1], CostAt(k)) ELSE Spending[k - 1]

LEMMA SpendingFacts == request \in Requests => SpendingAddsUp
<1> SUFFICES ASSUME request \in Requests PROVE SpendingAddsUp
  OBVIOUS
<1> DEFINE cost == [i \in Granted |-> CostAt(i)]
<1>1. Len(StrictOrder) \in Nat
  BY OrderIsSequence
<1>2. \A k \in Granted : cost[k] = CostAt(k)
  OBVIOUS
<1>3. Spending = Totals(Granted, cost, Len(StrictOrder))
  BY DEF Spending
<1> HIDE DEF cost
<1> QED BY <1>1, <1>2, <1>3, TotalsFacts DEF SpendingAddsUp

\* What the order of the grants relies on. A tool that could not be strict is
\* told apart from one the budget denied; the names seen are those offered
\* strict mode before the present position; and the counters are the costs
\* of the tools granted it there.
Offered(n) == n \in Names /\ prepared[n].reason \in {"compatible", "request_budget"}

Reasoned ==
    \A n \in Names :
        /\ "reason" \in DOMAIN prepared[n]
        /\ prepared[n].strict \in BOOLEAN
        /\ prepared[n].strict <=> prepared[n].reason = "compatible"

Fits(i) == Within(With(Spending[i - 1], CostAt(i)))

Dealt(i) == Considered(i) => (StrictOrder[i] \in StrictTools <=> Fits(i))

Dealing ==
    /\ next - 1 \in 0..Len(StrictOrder)
    /\ \A n : n \in seen <=> Offered(n) /\ \E j \in 1..(next - 1) : StrictOrder[j] = n
    /\ \A n \in Names : prepared[n].reason = "request_budget" => n \in seen
    /\ spent = Spending[next - 1]
    /\ \A i \in 1..(next - 1) : Dealt(i)

PInv ==
    /\ Reasoned
    /\ phase = "declaring" =>
         /\ spent = Unspent
         /\ \A n \in Names : prepared[n].reason # "request_budget"
    /\ phase = "selecting" => Dealing
    /\ phase = "ready" /\ request.provider = "anthropic" =>
         /\ spent = Spending[Len(StrictOrder)]
         /\ \A i \in 1..Len(StrictOrder) : Dealt(i)

\* Before the first declaration.
LEMMA PriorityInit == Init => PInv
BY DEF Init, PInv, Reasoned, Names

\* Whatever depends on the request and the prepared tools alone stays with
\* them.
LEMMA SameTools ==
    ASSUME request' = request, prepared' = prepared
    PROVE  /\ Names' = Names /\ StrictTools' = StrictTools
           /\ StrictOrder' = StrictOrder /\ Spending' = Spending
           /\ Reasoned' <=> Reasoned
           /\ \A i : Considered(i)' <=> Considered(i)
           /\ \A i : Dealt(i)' <=> Dealt(i)
           /\ \A n : Offered(n)' <=> Offered(n)
<1>1. Names' = Names /\ StrictOrder' = StrictOrder
  BY DEF Names, StrictOrder, Declarations, Hints
<1>2. StrictTools' = StrictTools
  BY <1>1 DEF StrictTools
<1>3. \A i : Considered(i)' <=> Considered(i)
  BY <1>1 DEF Considered
<1>4. Granted' = Granted
  BY <1>1, <1>2, <1>3 DEF Granted
<1>5. \A i : CostAt(i)' = CostAt(i)
  BY <1>1 DEF CostAt
<1>6. Spending' = Spending
  <2>1. [i \in Granted' |-> CostAt(i)'] = [i \in Granted |-> CostAt(i)]
    BY <1>4, <1>5
  <2> QED BY <1>1, <1>4, <2>1 DEF Spending
<1>7. \A i : Dealt(i)' <=> Dealt(i)
  BY <1>1, <1>2, <1>3, <1>5, <1>6 DEF Dealt, Fits
<1> QED BY <1>1, <1>2, <1>3, <1>6, <1>7 DEF Offered, Reasoned

\* A declared tool that could be strict is strict until the budget is dealt.
LEMMA PriorityDeclare == IInv /\ PInv /\ Declare => PInv'
<1> SUFFICES ASSUME IInv, PInv, Declare PROVE PInv'
  OBVIOUS
<1> DEFINE tool == request.tools[next]
           compatible == Compatible(Conversion(request, tool.schema)) /\ IsHinted(tool.name)
           reason == StrictReason(tool.name, Compatible(Conversion(request, tool.schema)))
<1>1. phase = "declaring" /\ phase' = phase /\ spent' = spent
  BY DEF Declare, Declaring
<1>2. /\ Names' = Names \cup {tool.name}
      /\ prepared'[tool.name].strict = compatible
      /\ prepared'[tool.name].reason = reason
      /\ "reason" \in DOMAIN prepared'[tool.name]
      /\ \A n \in Names : n # tool.name => prepared'[n] = prepared[n]
  BY DEF Declare, Names
<1>3. /\ compatible \in BOOLEAN
      /\ compatible <=> reason = "compatible"
      /\ reason # "request_budget"
  BY DEF StrictReason, Compatible
<1> HIDE DEF tool, compatible, reason
<1>4. Reasoned'
  BY <1>2, <1>3 DEF PInv, Reasoned
<1>5. \A n \in Names' : prepared'[n].reason # "request_budget"
  BY <1>1, <1>2, <1>3 DEF PInv
<1> QED BY <1>1, <1>4, <1>5 DEF PInv

\* The dealing starts with nothing spent and nobody seen.
LEMMA PriorityAllDeclared == IInv /\ PInv /\ AllDeclared => PInv'
<1> SUFFICES ASSUME IInv, PInv, AllDeclared PROVE PInv'
  OBVIOUS
<1>1. /\ phase = "declaring" /\ next' = 1
      /\ phase' = IF request.provider = "anthropic" THEN "selecting" ELSE "ready"
      /\ request' = request /\ prepared' = prepared /\ spent' = spent /\ seen' = seen
  BY DEF AllDeclared
<1>2. /\ Names' = Names /\ StrictOrder' = StrictOrder /\ Spending' = Spending
      /\ Reasoned' <=> Reasoned
  BY <1>1, SameTools
<1>3. Spending[0] = Unspent /\ Len(StrictOrder) \in Nat
  BY SpendingFacts, OrderIsSequence DEF IInv, SpendingAddsUp
<1>4. seen = {} /\ spent = Unspent /\ \A n \in Names : prepared[n].reason # "request_budget"
  BY <1>1 DEF IInv, Declared, PInv
<1>5. Dealing'
  BY <1>1, <1>2, <1>3, <1>4 DEF Dealing
<1>6. phase' = "selecting" \/ (phase' = "ready" /\ request'.provider # "anthropic")
  BY <1>1
<1> QED BY <1>2, <1>5, <1>6 DEF PInv

\* The position of a name passed over is not one where a tool's turn comes.
LEMMA PrioritySkip == IInv /\ PInv /\ Skip => PInv'
<1> SUFFICES ASSUME IInv, PInv, Skip PROVE PInv'
  OBVIOUS
<1> DEFINE name == StrictOrder[next]
<1>1. /\ phase = "selecting" /\ phase' = phase /\ next' = next + 1 /\ next \in Nat \ {0}
      /\ request' = request /\ prepared' = prepared /\ spent' = spent /\ seen' = seen
      /\ ~Candidate(name) /\ next \in DOMAIN StrictOrder
  BY DEF Skip, Selecting, IInv
<1>2. /\ Names' = Names /\ StrictOrder' = StrictOrder /\ Spending' = Spending
      /\ \A i : Dealt(i)' <=> Dealt(i)
      /\ \A n : Offered(n)' <=> Offered(n)
      /\ Reasoned' <=> Reasoned
  BY <1>1, SameTools
<1>3. Len(StrictOrder) \in Nat /\ DOMAIN StrictOrder = 1..Len(StrictOrder)
  BY OrderIsSequence DEF IInv
<1>4. Dealing /\ Reasoned
  BY <1>1 DEF PInv
<1>5. name \in seen \/ ~Offered(name)
  BY <1>1, <1>4 DEF Candidate, Offered, Dealing, Reasoned
<1>6. ~Considered(next)
  <2>1. CASE name \in seen
    <3>1. \E j \in 1..(next - 1) : StrictOrder[j] = name
      BY <1>4, <2>1 DEF Dealing
    <3> QED BY <3>1 DEF Considered
  <2>2. CASE ~Offered(name)
    BY <2>2 DEF Considered, Offered
  <2> QED BY <1>5, <2>1, <2>2
<1>7. Spending[next] = Spending[next - 1]
  <2>1. next \notin Granted
    BY <1>6 DEF Granted
  <2> QED BY <1>1, <1>3, <2>1, SpendingFacts DEF IInv, SpendingAddsUp
<1>8. Dealing'
  <2>1. ASSUME NEW n PROVE n \in seen <=> Offered(n) /\ \E j \in 1..next : StrictOrder[j] = n
    <3>1. \A j \in 1..next : j = next \/ j \in 1..(next - 1)
      BY <1>1
    <3>2. 1..(next - 1) \subseteq 1..next
      BY <1>1
    <3> QED BY <1>4, <1>5, <3>1, <3>2 DEF Dealing
  <2>2. \A i \in 1..next : Dealt(i)
    <3>1. Dealt(next)
      BY <1>6 DEF Dealt
    <3>2. \A i \in 1..next : i = next \/ i \in 1..(next - 1)
      BY <1>1
    <3> QED BY <1>4, <3>1, <3>2 DEF Dealing
  <2>3. next' - 1 = next /\ next \in 0..Len(StrictOrder)
    BY <1>1, <1>3
  <2>4. spent = Spending[next] /\ \A n \in Names : prepared[n].reason = "request_budget" => n \in seen
    BY <1>4, <1>7 DEF Dealing
  <2> QED BY <1>1, <1>2, <2>1, <2>2, <2>3, <2>4 DEF Dealing
<1> QED BY <1>1, <1>2, <1>4, <1>8 DEF PInv

\* At the turn of a candidate, its name does not stand earlier in the order.
LEMMA CandidatesTurn ==
    ASSUME Reasoned, Dealing, Candidate(StrictOrder[next])
    PROVE  Considered(next)
<1>1. Offered(StrictOrder[next]) /\ StrictOrder[next] \notin seen
  BY DEF Candidate, Reasoned, Offered
<1>2. \A j \in 1..(next - 1) : StrictOrder[j] # StrictOrder[next]
  BY <1>1 DEF Dealing
<1> QED BY <1>1, <1>2 DEF Considered, Offered

\* A candidate that fits is granted strict mode, and counted.
LEMMA PriorityTake == IInv /\ PInv /\ Take => PInv'
<1> SUFFICES ASSUME IInv, PInv, Take PROVE PInv'
  OBVIOUS
<1> DEFINE name == StrictOrder[next]
<1>1. /\ phase = "selecting" /\ phase' = phase /\ next' = next + 1 /\ next \in Nat \ {0}
      /\ request' = request /\ prepared' = prepared /\ seen' = seen \cup {name}
      /\ Candidate(name) /\ next \in DOMAIN StrictOrder
      /\ Within(With(spent, CostAt(next))) /\ spent' = With(spent, CostAt(next))
  BY DEF Take, Selecting, IInv, CostAt
<1>2. /\ Names' = Names /\ StrictOrder' = StrictOrder /\ Spending' = Spending
      /\ \A i : Dealt(i)' <=> Dealt(i)
      /\ \A n : Offered(n)' <=> Offered(n)
      /\ Reasoned' <=> Reasoned
  BY <1>1, SameTools
<1>3. Len(StrictOrder) \in Nat /\ DOMAIN StrictOrder = 1..Len(StrictOrder)
  BY OrderIsSequence DEF IInv
<1>4. Dealing /\ Reasoned
  BY <1>1 DEF PInv
<1>5. Considered(next) /\ name \in StrictTools /\ Offered(name)
  BY <1>1, <1>4, CandidatesTurn DEF Candidate, StrictTools, Reasoned, Offered
<1>6. Spending[next] = With(spent, CostAt(next))
  <2>1. next \in Granted
    BY <1>1, <1>5 DEF Granted
  <2>2. spent = Spending[next - 1]
    BY <1>4 DEF Dealing
  <2> QED BY <1>1, <1>3, <2>1, <2>2, SpendingFacts DEF IInv, SpendingAddsUp
<1>7. Dealing'
  <2>1. ASSUME NEW n
        PROVE  n \in seen \cup {name} <=> Offered(n) /\ \E j \in 1..next : StrictOrder[j] = n
    <3>1. \A j \in 1..next : j = next \/ j \in 1..(next - 1)
      BY <1>1
    <3>2. 1..(next - 1) \subseteq 1..next /\ next \in 1..next
      BY <1>1
    <3> QED BY <1>4, <1>5, <3>1, <3>2 DEF Dealing
  <2>2. \A i \in 1..next : Dealt(i)
    <3>1. Dealt(next)
      BY <1>1, <1>4, <1>5 DEF Dealt, Fits, Dealing
    <3>2. \A i \in 1..next : i = next \/ i \in 1..(next - 1)
      BY <1>1
    <3> QED BY <1>4, <3>1, <3>2 DEF Dealing
  <2>3. next' - 1 = next /\ next \in 0..Len(StrictOrder)
    BY <1>1, <1>3
  <2>4. \A n \in Names : prepared[n].reason = "request_budget" => n \in seen'
    BY <1>1, <1>4 DEF Dealing
  <2> QED BY <1>1, <1>2, <1>6, <2>1, <2>2, <2>3, <2>4 DEF Dealing
<1> QED BY <1>1, <1>2, <1>4, <1>7 DEF PInv

\* A candidate that does not fit is denied, and nothing before it changes.
LEMMA PriorityDeny == IInv /\ PInv /\ Deny => PInv'
<1> SUFFICES ASSUME IInv, PInv, Deny PROVE PInv'
  OBVIOUS
<1> DEFINE name == StrictOrder[next]
           denied == [[prepared[name] EXCEPT !.strict = FALSE]
                        EXCEPT !.reason = "request_budget"]
<1>1. /\ phase = "selecting" /\ phase' = phase /\ next' = next + 1 /\ next \in Nat \ {0}
      /\ request' = request /\ spent' = spent /\ seen' = seen \cup {name}
      /\ Candidate(name) /\ next \in DOMAIN StrictOrder
      /\ ~Within(With(spent, CostAt(next)))
  BY DEF Deny, Selecting, IInv, CostAt
<1>2. prepared' = [prepared EXCEPT ![name] = denied]
  BY DEF Deny
<1>3. Len(StrictOrder) \in Nat /\ DOMAIN StrictOrder = 1..Len(StrictOrder)
  BY OrderIsSequence DEF IInv
<1>4. Dealing /\ Reasoned
  BY <1>1 DEF PInv
<1>5. Considered(next) /\ name \in StrictTools /\ Offered(name) /\ name \in Names
  BY <1>1, <1>4, CandidatesTurn DEF Candidate, StrictTools, Reasoned, Offered
<1>6. /\ denied.strict = FALSE /\ denied.reason = "request_budget" /\ denied.wire = prepared[name].wire
      /\ "reason" \in DOMAIN denied
  <2>1. "strict" \in DOMAIN prepared[name] /\ "reason" \in DOMAIN prepared[name]
    BY <1>4, <1>5 DEF IInv, Counted, Reasoned
  <2> HIDE DEF name
  <2> QED BY <2>1
<1>7. /\ Names' = Names /\ prepared'[name] = denied
      /\ \A n \in Names : n # name => prepared'[n] = prepared[n]
  <2> HIDE DEF denied
  <2> QED BY <1>2, <1>5 DEF Names
<1>8. StrictOrder' = StrictOrder
  BY <1>1 DEF StrictOrder, Declarations, Hints
<1> HIDE DEF denied
<1>9. StrictTools' = StrictTools \ {name}
  <2>1. ASSUME NEW n \in Names, n # name PROVE prepared'[n].strict <=> prepared[n].strict
    BY <1>7, <2>1
  <2>2. ~prepared'[name].strict
    BY <1>6, <1>7
  <2> QED BY <1>7, <2>1, <2>2 DEF StrictTools
<1>10. Reasoned'
  BY <1>4, <1>6, <1>7 DEF Reasoned
<1>11. prepared[name].reason = "compatible"
  BY <1>1, <1>4, <1>5 DEF Candidate, Reasoned
<1>12. \A n : Offered(n)' <=> Offered(n)
  BY <1>5, <1>6, <1>7, <1>11 DEF Offered
<1>13. \A i : Considered(i)' <=> Considered(i)
  BY <1>8, <1>12 DEF Considered, Offered
<1>14. ASSUME NEW i, StrictOrder[i] \in Names PROVE CostAt(i)' = CostAt(i)
  BY <1>6, <1>7, <1>8, <1>14 DEF CostAt
<1>15. \A i \in DOMAIN StrictOrder : i # next /\ Considered(i) => StrictOrder[i] # name
  <2>1. ASSUME NEW i \in DOMAIN StrictOrder, i # next, Considered(i), StrictOrder[i] = name PROVE FALSE
    <3>1. i \in Nat /\ i >= 1 /\ next \in Nat /\ (i \in 1..(next - 1) \/ next \in 1..(i - 1))
      BY <1>1, <1>3, <2>1
    <3> QED BY <1>5, <2>1, <3>1 DEF Considered
  <2> QED BY <2>1
<1>16. Granted' = Granted \ {next}
  BY <1>5, <1>8, <1>9, <1>13, <1>15 DEF Granted
<1>17. \A k \in 0..(next - 1) : Spending'[k] = Spending[k]
  <2> DEFINE c == [i \in Granted |-> CostAt(i)]
             d == [i \in Granted' |-> CostAt(i)']
  <2>1. \A k \in 1..(next - 1) : (k \in Granted' <=> k \in Granted) /\ (k \in Granted' => d[k] = c[k])
    <3>1. \A k \in Granted : StrictOrder[k] \in Names
      BY DEF Granted, Considered
    <3>2. \A k \in 1..(next - 1) : k # next
      BY <1>1
    <3> QED BY <1>14, <1>16, <3>1, <3>2
  <2>2. Spending = Totals(Granted, c, Len(StrictOrder))
    BY DEF Spending
  <2>3. Spending' = Totals(Granted', d, Len(StrictOrder))
    BY <1>8 DEF Spending
  <2>4. next - 1 \in 0..Len(StrictOrder)
    BY <1>4 DEF Dealing
  <2> HIDE DEF c, d
  <2> QED BY <1>3, <2>1, <2>2, <2>3, <2>4, TotalsAgree
<1>18. Spending'[next] = spent
  <2>1. request' \in Requests /\ SpendingAddsUp'
    <3>1. request' \in Requests
      BY <1>1 DEF IInv
    <3>2. (request \in Requests)' => SpendingAddsUp'
      BY SpendingFacts, PTL
    <3> QED BY <3>1, <3>2
  <2>2. next \notin Granted' /\ next \in 1..Len(StrictOrder) /\ next - 1 \in 0..(next - 1)
    BY <1>1, <1>3, <1>16
  <2>3. Spending'[next] = Spending'[next - 1]
    BY <1>8, <2>1, <2>2 DEF SpendingAddsUp
  <2>4. spent = Spending[next - 1]
    BY <1>4 DEF Dealing
  <2> QED BY <1>17, <2>2, <2>3, <2>4
<1>19. ASSUME NEW i \in 1..(next - 1) PROVE Dealt(i)'
  <2>1. Dealt(i) /\ i \in DOMAIN StrictOrder /\ i # next /\ i - 1 \in 0..(next - 1)
    BY <1>1, <1>3, <1>4 DEF Dealing
  <2>2. Spending'[i - 1] = Spending[i - 1]
    BY <1>17, <2>1
  <2>3. CASE Considered(i)
    <3>1. StrictOrder[i] \in Names /\ StrictOrder[i] # name
      BY <1>15, <2>1, <2>3 DEF Considered
    <3>2. Fits(i)' <=> Fits(i)
      BY <1>14, <2>2, <3>1 DEF Fits, Within
    <3> QED BY <1>8, <1>9, <2>1, <2>3, <3>1, <3>2 DEF Dealt
  <2>4. CASE ~Considered(i)
    BY <1>13, <2>4 DEF Dealt
  <2> QED BY <2>3, <2>4
<1>20. ASSUME NEW i, i = next PROVE Dealt(i)'
  <2>1. Spending'[i - 1] = spent
    <3>1. i - 1 \in 0..(next - 1)
      BY <1>1, <1>20
    <3> QED BY <1>4, <1>17, <1>20, <3>1 DEF Dealing
  <2>2. CostAt(i)' = CostAt(next)
    BY <1>5, <1>14, <1>20
  <2>3. ~Fits(i)'
    BY <1>1, <2>1, <2>2 DEF Fits, Within
  <2>4. StrictOrder'[i] \notin StrictTools'
    BY <1>8, <1>9, <1>20
  <2> QED BY <2>3, <2>4 DEF Dealt
<1>21. Dealing'
  <2>1. ASSUME NEW n
        PROVE  n \in seen \cup {name} <=> Offered(n) /\ \E j \in 1..next : StrictOrder[j] = n
    <3>1. \A j \in 1..next : j = next \/ j \in 1..(next - 1)
      BY <1>1
    <3>2. 1..(next - 1) \subseteq 1..next /\ next \in 1..next
      BY <1>1
    <3> QED BY <1>4, <1>5, <3>1, <3>2 DEF Dealing
  <2>2. \A i \in 1..next : Dealt(i)'
    <3>1. \A i \in 1..next : i = next \/ i \in 1..(next - 1)
      BY <1>1
    <3> QED BY <1>19, <1>20, <3>1
  <2>3. next' - 1 = next /\ next \in 0..Len(StrictOrder)
    BY <1>1, <1>3
  <2>4. \A n \in Names : prepared'[n].reason = "request_budget" => n \in seen'
    BY <1>1, <1>4, <1>7 DEF Dealing
  <2> QED BY <1>1, <1>7, <1>8, <1>12, <1>18, <2>1, <2>2, <2>3, <2>4 DEF Dealing
<1> QED BY <1>1, <1>10, <1>21 DEF PInv

\* When the order is at its end, it has been dealt to the end.
LEMMA PriorityAllSelected == IInv /\ PInv /\ AllSelected => PInv'
<1> SUFFICES ASSUME IInv, PInv, AllSelected PROVE PInv'
  OBVIOUS
<1>1. /\ phase = "selecting" /\ phase' = "ready" /\ next = Len(StrictOrder) + 1
      /\ request' = request /\ prepared' = prepared /\ spent' = spent
  BY DEF AllSelected
<1>2. /\ StrictOrder' = StrictOrder /\ Spending' = Spending
      /\ \A i : Dealt(i)' <=> Dealt(i)
      /\ Reasoned' <=> Reasoned
  BY <1>1, SameTools
<1>3. Len(StrictOrder) \in Nat
  BY OrderIsSequence DEF IInv
<1>4. next - 1 = Len(StrictOrder)
  BY <1>1, <1>3
<1> QED BY <1>1, <1>2, <1>4 DEF PInv, Dealing

\* A refused request, and a step of something else.
LEMMA PriorityRest == PInv /\ (Refuse \/ UNCHANGED vars) => PInv'
<1> SUFFICES ASSUME PInv, Refuse \/ UNCHANGED vars PROVE PInv'
  OBVIOUS
<1>1. /\ request' = request /\ prepared' = prepared /\ spent' = spent /\ seen' = seen
      /\ next' = next /\ (phase' = phase \/ phase' = "failed")
  BY DEF Refuse, vars
<1>2. /\ Names' = Names /\ StrictOrder' = StrictOrder /\ Spending' = Spending
      /\ \A i : Dealt(i)' <=> Dealt(i)
      /\ \A n : Offered(n)' <=> Offered(n)
      /\ Reasoned' <=> Reasoned
  BY <1>1, SameTools
<1>3. Dealing' <=> Dealing
  BY <1>1, <1>2 DEF Dealing
<1> QED BY <1>1, <1>2, <1>3 DEF PInv

\* The budget is dealt out in order in every reachable state of Prepare.
THEOREM PriorityInv == Spec => []PInv
<1>1. Init => PInv
  BY PriorityInit
<1>2. IInv /\ PInv /\ [Next]_vars => PInv'
  BY PriorityDeclare, PriorityAllDeclared, PrioritySkip, PriorityTake, PriorityDeny,
     PriorityAllSelected, PriorityRest DEF Next
<1> QED BY <1>1, <1>2, SelectionInv, PTL DEF Spec

\* A prepared Anthropic request is within its strict-mode budget, and the
\* budget counts exactly its strict tools, each at its cost.
THEOREM StrictBudget == Spec => []StrictBudgetHolds
<1>1. IInv /\ PInv => StrictBudgetHolds
  <2> SUFFICES ASSUME IInv, PInv, phase = "ready", request.provider = "anthropic"
               PROVE  /\ Within(spent)
                      /\ spent = Spending[Len(StrictOrder)]
                      /\ spent.tools = Cardinality(StrictTools)
    BY DEF StrictBudgetHolds
  <2>1. seen \cap StrictTools = StrictTools
    BY DEF IInv
  <2>2. spent = Spending[Len(StrictOrder)]
    BY DEF PInv
  <2> QED BY <2>1, <2>2 DEF IInv, Counted
<1> QED BY <1>1, SelectionInv, PriorityInv, PTL

\* A compatible tool goes without strict mode only if it does not fit beside
\* the tools that the caller's order put before it.
THEOREM GrantsFollowTheOrder == Spec => []GrantedByPriority
<1>1. IInv /\ PInv => GrantedByPriority
  <2> SUFFICES ASSUME IInv, PInv, phase = "ready", request.provider = "anthropic",
                      NEW i \in DOMAIN StrictOrder, Considered(i)
               PROVE  StrictOrder[i] \in StrictTools <=> Fits(i)
    BY DEF GrantedByPriority, Fits
  <2>1. i \in 1..Len(StrictOrder)
    BY OrderIsSequence DEF IInv
  <2> QED BY <2>1 DEF PInv, Dealt
<1> QED BY <1>1, SelectionInv, PriorityInv, PTL

------------------------------------------------------------------------------
(* Tool choice *)

\* What the restriction of a choice may be.
LEMMA RestrictionFacts ==
    ASSUME NEW allowed \in Restrictions
    PROVE  /\ Len(allowed) \in 0..2
           /\ allowed = << >> <=> Len(allowed) = 0
           /\ ToSet(allowed) \subseteq Names
           /\ ToSet(<< >>) = {}
<1>1. allowed = << >> \/ (\E a \in Names : allowed = <<a>>) \/ (\E a, b \in Names : allowed = <<a, b>>)
  BY DEF Restrictions
<1> QED BY <1>1 DEF ToSet

\* What is asked of Claude beside a forced call: no thinking, and no effort that
\* belongs to adaptive thinking.
Quiet(r, asked) == r.thinking = "unset" /\ (asked.thinking = "adaptive" => ~r.effort)

\* Nothing is, once thinking is suppressed or if it was never on the wire.
LEMMA QuietReasoning ==
  ASSUME NEW asked
  PROVE  Quiet(Suppressed(asked), asked) /\ Quiet(NoReasoning, asked)
<1>1. Quiet(NoReasoning, asked)
  BY DEF Quiet, NoReasoning
<1>2. Suppressed(asked).thinking = "unset"
  BY DEF Suppressed
<1>3. ASSUME asked.thinking = "adaptive" PROVE ~Suppressed(asked).effort
  BY <1>3 DEF Suppressed
<1> QED BY <1>1, <1>2, <1>3 DEF Quiet

\* The gateway's options follow the mode and leave the rest of the wire alone.
LEMMA OptionsBeside ==
  ASSUME NEW ok, NEW tools, NEW choice, NEW only, NEW reasoning, NEW options,
         NEW v, v = [ok |-> ok, tools |-> tools, choice |-> choice, only |-> only,
                     reasoning |-> reasoning, options |-> NoReasoning],
         NEW w, w = [v EXCEPT !.options = options]
  PROVE  /\ w.ok = ok /\ w.tools = tools /\ w.choice = choice /\ w.only = only
         /\ w.reasoning = reasoning /\ w.options = options
OBVIOUS

\* So do the Messages fields.
LEMMA ReasoningBeside ==
  ASSUME NEW ok, NEW tools, NEW choice, NEW only, NEW reasoning,
         NEW v, v = [ok |-> ok, tools |-> tools, choice |-> choice, only |-> only,
                     reasoning |-> NoReasoning, options |-> NoReasoning]
  PROVE  [v EXCEPT !.reasoning = reasoning] =
           [ok |-> ok, tools |-> tools, choice |-> choice, only |-> only,
            reasoning |-> reasoning, options |-> NoReasoning]
OBVIOUS

\* Through each of the four adapters, for every set of tools, restriction and
\* thinking asked for: a forced call is asked for as one, of an allowed tool, and
\* neither the Messages fields nor the gateway's options ask for thinking beside
\* it, while any other mode keeps what was asked for; and no adapter but
\* Anthropic's hands out an excluded tool in any mode.
THEOREM ForcedChoice == Spec => []ForcedChoiceHonoured
<1>1. ForcedChoiceHonoured
  <2> SUFFICES ASSUME NEW adapter \in Adapters, NEW mode \in Modes, NEW allowed \in Restrictions,
                      NEW asked \in Reasonings
               PROVE  LET wire == ToolWire(adapter, mode, allowed, Names, asked)
                          permitted == IF mode = "none" THEN {}
                                       ELSE IF allowed = << >> THEN Names ELSE ToSet(allowed)
                          quiet(r) == r.thinking = "unset" /\ (asked.thinking = "adaptive" => ~r.effort)
                      IN wire.ok =>
                           /\ mode = "any" => MustCall(wire)
                           /\ mode = "any" \/ adapter # "anthropic" => Callable(wire) \subseteq permitted
                           /\ mode = "any" => quiet(wire.reasoning) /\ quiet(wire.options)
                           /\ mode # "any" => wire.options = asked
                           /\ mode # "any" /\ adapter = "anthropic" => wire.reasoning = asked
    BY DEF ForcedChoiceHonoured
  <2> DEFINE w == ToolWire(adapter, mode, allowed, Names, asked)
             options == ForcedTools(asked, mode)
             permitted == IF mode = "none" THEN {}
                          ELSE IF allowed = << >> THEN Names ELSE ToSet(allowed)
             Honoured == /\ mode = "any" => MustCall(w)
                         /\ mode = "any" \/ adapter # "anthropic" => Callable(w) \subseteq permitted
  <2>1. mode \in {"unset", "auto", "any", "none"}
    BY DEF Modes
  <2>2. /\ mode = "any" => Quiet(options, asked)
        /\ mode # "any" => options = asked
    BY QuietReasoning DEF ForcedTools
  <2>3. SUFFICES /\ w.ok => Honoured
                 /\ w.ok => w.options = options
                 /\ w.ok /\ mode = "any" => Quiet(w.reasoning, asked)
                 /\ w.ok /\ mode # "any" /\ adapter = "anthropic" => w.reasoning = asked
    BY <2>2, <2>3 DEF Quiet
  <2> HIDE DEF options
  <2>4. CASE adapter = "anthropic"
    <3> PICK v : v = AnthropicChoice(mode, allowed, Names)
      OBVIOUS
    <3> PICK r : r = MessagesReasoning(v, asked)
      OBVIOUS
    <3>1. w = [[v EXCEPT !.reasoning = r] EXCEPT !.options = options]
      BY <2>4 DEF ToolWire, AnthropicToolWire, options
    <3> HIDE DEF w
    <3>2. CASE Len(allowed) > 1 \/ mode = "unset"
      <4>1. v.ok = FALSE /\ DOMAIN v = {"ok", "tools", "choice", "only", "reasoning", "options"}
        BY <2>1, <3>2 DEF AnthropicChoice, Rejected, Wire
      <4>2. w.ok = FALSE
        BY <3>1, <4>1
      <4> QED BY <4>2
    <3>3. CASE ~(Len(allowed) > 1 \/ mode = "unset")
      <4>1. Len(allowed) <= 1
        BY <3>3, RestrictionFacts
      <4> DEFINE choice == CASE mode = "none" -> "omitted"
                             [] mode = "auto" -> "auto"
                             [] mode = "any"  -> IF allowed = << >> THEN "any" ELSE "tool"
                 only == IF mode = "any" THEN allowed ELSE << >>
      <4>2. v = Wire(TRUE, Names, choice, only)
        BY <2>1, <3>3, <4>1 DEF AnthropicChoice
      <4> HIDE DEF choice, only
      <4>3. PICK ok : v = [ok |-> ok, tools |-> Names, choice |-> choice, only |-> only,
                           reasoning |-> NoReasoning, options |-> NoReasoning]
        BY <4>2 DEF Wire
      <4>4. [v EXCEPT !.reasoning = r] =
              [ok |-> ok, tools |-> Names, choice |-> choice, only |-> only,
               reasoning |-> r, options |-> NoReasoning]
        BY <4>3, ReasoningBeside
      <4>5. /\ w.tools = Names /\ w.choice = choice /\ w.only = only
            /\ w.reasoning = r /\ w.options = options
        BY <3>1, <4>4, OptionsBeside
      <4>6. IsForcedToolUse(v) <=> mode = "any"
        BY <2>1, <3>3, <4>3 DEF IsForcedToolUse, choice
      <4>7. /\ mode = "any" => Quiet(r, asked)
            /\ mode # "any" => r = asked
        BY <4>6, QuietReasoning DEF MessagesReasoning
      <4>8. Honoured
        BY <2>1, <2>4, <3>3, <4>5, RestrictionFacts DEF MustCall, Callable, choice, only
      <4> QED BY <4>5, <4>7, <4>8
    <3> QED BY <3>2, <3>3
  <2>5. CASE adapter = "responses"
    <3> PICK v : v = ResponsesToolWire(mode, allowed, Names)
      OBVIOUS
    <3>1. w = [v EXCEPT !.options = options]
      BY <2>5 DEF ToolWire, options
    <3> HIDE DEF w
    <3>2. PICK ok, tools, choice, only :
            /\ v = [ok |-> ok, tools |-> tools, choice |-> choice, only |-> only,
                    reasoning |-> NoReasoning, options |-> NoReasoning]
            /\ tools = Names
            /\ choice = CASE mode \in {"unset", "auto"} -> IF allowed = << >> THEN "omitted" ELSE "auto"
                          [] mode = "none" -> "none"
                          [] mode = "any" -> "required"
            /\ only = IF mode = "none" THEN << >> ELSE allowed
      BY <2>1 DEF ResponsesToolWire, Wire
    <3>3. v = [ok |-> ok, tools |-> tools, choice |-> choice, only |-> only,
               reasoning |-> NoReasoning, options |-> NoReasoning]
      BY <3>2
    <3>4. /\ w.tools = tools /\ w.choice = choice /\ w.only = only
          /\ w.reasoning = NoReasoning /\ w.options = options
      BY <3>1, <3>3, OptionsBeside
    <3>5. Honoured
      BY <2>1, <3>2, <3>4, RestrictionFacts DEF MustCall, Callable
    <3> QED BY <2>5, <3>4, <3>5, QuietReasoning
  <2>6. CASE adapter \in {"chat", "vercel"}
    <3> PICK v : v = IF adapter = "chat" THEN ChatToolWire(mode, allowed, Names)
                                         ELSE VercelToolWire(mode, allowed, Names)
      OBVIOUS
    <3>1. w = [v EXCEPT !.options = options]
      BY <2>6 DEF ToolWire, options
    <3> HIDE DEF w
    <3>2. PICK ok, tools, choice, only :
            /\ v = [ok |-> ok, tools |-> tools, choice |-> choice, only |-> only,
                    reasoning |-> NoReasoning, options |-> NoReasoning]
            /\ ok => /\ tools \subseteq (IF allowed = << >> THEN Names ELSE ToSet(allowed))
                     /\ only = << >>
                     /\ choice = CASE mode \in {"unset", "auto"} -> "auto"
                                   [] mode = "any" -> "required"
                                   [] mode = "none" -> "none"
      <4>1. CASE adapter = "chat"
        BY <2>1, <4>1 DEF ChatToolWire, Rejected, Wire
      <4>2. CASE adapter = "vercel"
        BY <2>1, <4>2 DEF VercelToolWire, Wire
      <4> QED BY <2>6, <4>1, <4>2
    <3>3. /\ w.ok = ok /\ w.tools = tools /\ w.choice = choice /\ w.only = only
          /\ w.reasoning = NoReasoning /\ w.options = options
      BY <3>1, <3>2, OptionsBeside
    <3>4. w.ok => Honoured
      BY <2>1, <2>6, <3>2, <3>3, RestrictionFacts DEF MustCall, Callable
    <3> QED BY <2>6, <3>3, <3>4, QuietReasoning
  <2> QED BY <2>4, <2>5, <2>6 DEF Adapters
<1> QED BY <1>1, PTL
==============================================================================
