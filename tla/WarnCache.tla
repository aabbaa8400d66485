----------------------------- MODULE WarnCache -----------------------------
(***************************************************************************)
(* The diagnostic cache of toolschema.Processor.  One Processor belongs to *)
(* a model instance and is shared by its concurrent requests: each of them *)
(* prepares its tools and reports every enforcement the provider will not  *)
(* give.  A warning that is still remembered is not reported again; the    *)
(* oldest one is forgotten when the cache is full.  The mutex covers the   *)
(* lookup and the update, not the caller's Warn callback.                  *)
(***************************************************************************)
EXTENDS Integers, Sequences, FiniteSets

CONSTANTS
    Callers,    \* goroutines inside Prepare
    Warnings,   \* the distinct warnings they can raise
    Cap         \* warnings remembered at once: 256 in the code

ASSUME CapAssumption == Cap \in Nat \ {0}

VARIABLES
    mu,         \* p.mu: nobody (FALSE) or somebody (TRUE) holds it
    remembered, \* p.seen
    order,      \* p.order, oldest first
    pc,         \* where each request stands
    warning,    \* the warning each request is dealing with
    reported,   \* history: remembered warnings whose report is complete
    age         \* history: insertions since the warning's own, up to Cap

cacheVars == <<mu, remembered, order, pc, warning, reported, age>>

States == {"idle", "wait", "look", "insert", "report"}

\* loss, or Prepare itself, has found something to warn about.
Raise(r, w) ==
    /\ pc[r] = "idle"
    /\ pc' = [pc EXCEPT ![r] = "wait"]
    /\ warning' = [warning EXCEPT ![r] = w]
    /\ UNCHANGED <<mu, remembered, order, reported, age>>

\* Fault: the cache is used without its mutex.
Unguarded(r) ==
    /\ pc[r] = "wait"
    /\ pc' = [pc EXCEPT ![r] = "look"]
    /\ UNCHANGED <<mu, remembered, order, warning, reported, age>>

\* p.mu.Lock()
Lock(r) ==
    /\ pc[r] = "wait"
    /\ ~mu
    /\ mu' = TRUE
    /\ pc' = [pc EXCEPT ![r] = "look"]
    /\ UNCHANGED <<remembered, order, warning, reported, age>>

\* Already remembered: unlock and return.
Known(r) ==
    /\ pc[r] = "look"
    /\ warning[r] \in remembered
    /\ mu' = FALSE
    /\ pc' = [pc EXCEPT ![r] = "idle"]
    /\ UNCHANGED <<remembered, order, warning, reported, age>>

Miss(r) ==
    /\ pc[r] = "look"
    /\ warning[r] \notin remembered
    /\ pc' = [pc EXCEPT ![r] = "insert"]
    /\ UNCHANGED <<mu, remembered, order, warning, reported, age>>

Full == Len(order) = Cap

\* Fault: the cache evicts one entry too early.
EvictEarly ==
    IF Len(order) >= Cap - 1 /\ order # <<>> THEN [seen |-> remembered \ {Head(order)}, order |-> Tail(order)]
    ELSE [seen |-> remembered, order |-> order]

\* Room for one more: the oldest warning goes when the cache is full.
Evict ==
    IF Full THEN [seen |-> remembered \ {Head(order)}, order |-> Tail(order)]
    ELSE [seen |-> remembered, order |-> order]

\* Fault: a warning that pushes another one out is only remembered.
InsertQuietlyWhenFull(r) ==
    /\ pc[r] = "insert"
    /\ remembered' = Evict.seen \cup {warning[r]}
    /\ order' = Append(Evict.order, warning[r])
    /\ mu' = FALSE
    /\ pc' = [pc EXCEPT ![r] = IF Full THEN "idle" ELSE "report"]
    /\ reported' = reported \ {warning[r]}
    /\ age' = [w \in Warnings |-> IF w = warning[r] THEN 0
                                  ELSE IF age[w] < Cap THEN age[w] + 1 ELSE Cap]
    /\ UNCHANGED warning

\* Remember the warning, unlock, and go on to report it.
Insert(r) ==
    /\ pc[r] = "insert"
    /\ remembered' = Evict.seen \cup {warning[r]}
    /\ order' = Append(Evict.order, warning[r])
    /\ mu' = FALSE
    /\ pc' = [pc EXCEPT ![r] = "report"]
    /\ reported' = reported \ {warning[r]}
    /\ age' = [w \in Warnings |-> IF w = warning[r] THEN 0
                                  ELSE IF age[w] < Cap THEN age[w] + 1 ELSE Cap]
    /\ UNCHANGED warning

\* The Warn callback, or the log record, outside the mutex.
Report(r) ==
    /\ pc[r] = "report"
    /\ pc' = [pc EXCEPT ![r] = "idle"]
    /\ reported' = reported \cup {warning[r]}
    /\ UNCHANGED <<mu, remembered, order, warning, age>>

CacheInit ==
    /\ mu = FALSE
    /\ remembered = {}
    /\ order = <<>>
    /\ pc = [r \in Callers |-> "idle"]
    /\ warning \in [Callers -> Warnings]
    /\ reported = {}
    /\ age = [w \in Warnings |-> Cap]

Warn(r) == Lock(r) \/ Known(r) \/ Miss(r) \/ Insert(r) \/ Report(r)

CacheNext ==
    \/ \E r \in Callers : Warn(r)
    \/ \E r \in Callers, w \in Warnings : Raise(r, w)

CacheSpec == CacheInit /\ [][CacheNext]_cacheVars

-----------------------------------------------------------------------------
(* Properties *)

\* The variables keep to their domains; the queue never outgrows the capacity.
TypeOK ==
    /\ mu \in BOOLEAN
    /\ remembered \subseteq Warnings
    /\ order \in Seq(Warnings)
    /\ Len(order) <= Cap
    /\ pc \in [Callers -> States]
    /\ warning \in [Callers -> Warnings]
    /\ reported \subseteq Warnings
    /\ age \in [Warnings -> 0..Cap]

\* The set and the queue remember the same warnings, each once, whatever the
\* requests' interleaving.  A queue with a duplicate would forget a warning
\* twice and silence or repeat another.
CacheAgrees ==
    /\ remembered = {order[i] : i \in 1..Len(order)}
    /\ \A i, j \in 1..Len(order) : order[i] = order[j] => i = j

\* A warning can be reported again only after Cap newer ones were.
NotRepeatedEarly == \A w \in Warnings : w \notin remembered => age[w] = Cap

\* A request that keeps silent relies on a report that was made, or that
\* another request is about to make.
RememberedIsReported ==
    \A w \in remembered : w \in reported \/ \E r \in Callers : pc[r] = "report" /\ warning[r] = w
=============================================================================
