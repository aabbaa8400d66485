---------------------------- MODULE StrictSelection ----------------------------
(* Processor.Prepare for one request: the declared tools are converted one  *)
(* by one, then Anthropic's request-wide strict-mode budget is dealt out in *)
(* the caller's order. What a schema converts to and what it costs are      *)
(* parameters; ToolSchema defines them.                                     *)
EXTENDS Integers, Sequences, FiniteSets

CONSTANTS
    Requests,           \* [provider, gateway, lossy, hints, tools]; a tool is [name, schema]
    NoName,             \* FunctionDeclaration.Name == ""
    NoHints,            \* Config.StrictModeHints == nil
    Conversion(_, _),   \* request, schema: [ok, wire, plan, strict]
    Cost(_),            \* of a converted schema: [optional, unions]
    MaxTools, MaxOptional, MaxUnions

ASSUME LimitsAssumption ==
    MaxTools \in Nat /\ MaxOptional \in Nat /\ MaxUnions \in Nat

ASSUME RequestsAssumption ==
    \A r \in Requests :
        /\ r.tools \in Seq({r.tools[i] : i \in DOMAIN r.tools})
        /\ r.hints # NoHints => r.hints \in Seq({r.hints[i] : i \in DOMAIN r.hints})

VARIABLES
    request,
    phase,      \* "declaring", "selecting", then "ready" or "failed"
    next,       \* the position in the declarations, later in the strict order
    prepared,   \* name -> [schema, wire, plan, strict, reason]
    spent,      \* anthropicStrictBudget
    seen        \* names the strict order has come to

vars == <<request, phase, next, prepared, spent, seen>>
------------------------------------------------------------------------------

\* Only Anthropic's processor has hints.
Hints == IF request.provider = "anthropic" THEN request.hints ELSE NoHints
Names == DOMAIN prepared
IsHinted(name) == Hints = NoHints \/ \E i \in DOMAIN Hints : Hints[i] = name

Declarations == [i \in DOMAIN request.tools |-> request.tools[i].name]
StrictOrder == IF Hints = NoHints THEN Declarations ELSE Hints

\* strictCompatible's own limit: one tool may not spend the whole budget.
Compatible(conversion) ==
    /\ conversion.strict
    /\ request.provider = "anthropic" => Cost(conversion.wire).optional <= MaxOptional

StrictReason(name, compatible) ==
    IF ~IsHinted(name) THEN "not_requested"
    ELSE IF compatible THEN "compatible" ELSE "schema_incompatible"

Unspent == [tools |-> 0, optional |-> 0, unions |-> 0]

Init ==
    /\ request \in Requests
    /\ phase = "declaring"
    /\ next = 1
    /\ prepared = << >>
    /\ spent = Unspent
    /\ seen = {}

Declaring == phase = "declaring" /\ next \in DOMAIN request.tools

Refused(tool) ==
    \/ tool.name = NoName
    \/ tool.name \in Names
    \/ ~Conversion(request, tool.schema).ok

Refuse ==
    /\ Declaring
    /\ Refused(request.tools[next])
    /\ phase' = "failed"
    /\ UNCHANGED <<request, next, prepared, spent, seen>>

Declare ==
    /\ Declaring
    /\ LET tool == request.tools[next]
           conversion == Conversion(request, tool.schema)
       IN /\ ~Refused(tool)
          /\ prepared' = [name \in Names \cup {tool.name} |->
                IF name # tool.name THEN prepared[name]
                ELSE [schema |-> tool.schema,
                      wire   |-> conversion.wire,
                      plan   |-> conversion.plan,
                      strict |-> Compatible(conversion) /\ IsHinted(name),
                      reason |-> StrictReason(name, Compatible(conversion))]]
    /\ next' = next + 1
    /\ UNCHANGED <<request, phase, spent, seen>>

AllDeclared ==
    /\ phase = "declaring"
    /\ next = Len(request.tools) + 1
    /\ phase' = IF request.provider = "anthropic" THEN "selecting" ELSE "ready"
    /\ next' = 1
    /\ UNCHANGED <<request, prepared, spent, seen>>

Selecting == phase = "selecting" /\ next \in DOMAIN StrictOrder

\* anthropicStrictOrder passes over absent names, duplicates and tools that
\* are not strict.
Candidate(name) == name \in Names /\ name \notin seen /\ prepared[name].strict

Skip ==
    /\ Selecting
    /\ ~Candidate(StrictOrder[next])
    /\ next' = next + 1
    /\ UNCHANGED <<request, phase, prepared, spent, seen>>

With(budget, cost) ==
    [tools |-> budget.tools + 1, optional |-> budget.optional + cost.optional,
     unions |-> budget.unions + cost.unions]

Within(budget) ==
    budget.tools <= MaxTools /\ budget.optional <= MaxOptional /\ budget.unions <= MaxUnions

Take ==
    /\ Selecting
    /\ LET name == StrictOrder[next]
           total == With(spent, Cost(prepared[name].wire))
       IN /\ Candidate(name)
          /\ Within(total)
          /\ spent' = total
          /\ seen' = seen \cup {name}
    /\ next' = next + 1
    /\ UNCHANGED <<request, phase, prepared>>

\* Fault: the denied tool is changed in a copy that is not stored.
DenyUnstored ==
    /\ Selecting
    /\ LET name == StrictOrder[next]
       IN /\ Candidate(name)
          /\ ~Within(With(spent, Cost(prepared[name].wire)))
          /\ seen' = seen \cup {name}
    /\ next' = next + 1
    /\ UNCHANGED <<request, phase, prepared, spent>>

\* Fault: the selection ends with the first tool that does not fit.
DenyTheRest ==
    /\ Selecting
    /\ LET name == StrictOrder[next]
       IN /\ Candidate(name)
          /\ ~Within(With(spent, Cost(prepared[name].wire)))
          /\ prepared' = [n \in Names |->
                IF Candidate(n)
                THEN [prepared[n] EXCEPT !.strict = FALSE, !.reason = "request_budget"]
                ELSE prepared[n]]
          /\ seen' = Names
    /\ next' = next + 1
    /\ UNCHANGED <<request, phase, spent>>

\* A tool the budget cannot hold is sent without strict mode, at no cost.
Deny ==
    /\ Selecting
    /\ LET name == StrictOrder[next]
       IN /\ Candidate(name)
          /\ ~Within(With(spent, Cost(prepared[name].wire)))
          /\ prepared' = [prepared EXCEPT ![name].strict = FALSE,
                                          ![name].reason = "request_budget"]
          /\ seen' = seen \cup {name}
    /\ next' = next + 1
    /\ UNCHANGED <<request, phase, spent>>

AllSelected ==
    /\ phase = "selecting"
    /\ next = Len(StrictOrder) + 1
    /\ phase' = "ready"
    /\ UNCHANGED <<request, next, prepared, spent, seen>>

Next == Refuse \/ Declare \/ AllDeclared \/ Skip \/ Take \/ Deny \/ AllSelected

Spec == Init /\ [][Next]_vars
------------------------------------------------------------------------------

StrictTools == {name \in Names : prepared[name].strict}

\* The positions of the strict order where a tool's turn comes: its schema
\* allows strict mode, and its name does not stand earlier.
Considered(i) ==
    /\ StrictOrder[i] \in Names
    /\ prepared[StrictOrder[i]].reason \in {"compatible", "request_budget"}
    /\ \A j \in 1..(i - 1) : StrictOrder[j] # StrictOrder[i]

Granted == {i \in DOMAIN StrictOrder : Considered(i) /\ StrictOrder[i] \in StrictTools}
CostAt(i) == Cost(prepared[StrictOrder[i]].wire)

\* What the tools at some positions cost, summed up along an order.
Totals(positions, cost, length) ==
    LET total[k \in 0..length] ==
          IF k = 0 THEN Unspent
          ELSE IF k \in positions THEN With(total[k - 1], cost[k]) ELSE total[k - 1]
    IN total

Spending == Totals(Granted, [i \in Granted |-> CostAt(i)], Len(StrictOrder))

\* What Anthropic receives is within all three limits, whatever the order,
\* duplicates and unknown names of the hints; and the counters that say so
\* count each strict tool of the request, once and at its cost (strict.go:42,
\* 55).
StrictBudgetHolds ==
    phase = "ready" /\ request.provider = "anthropic" =>
        /\ Within(spent)
        /\ spent = Spending[Len(StrictOrder)]
        /\ spent.tools = Cardinality(StrictTools)

\* A compatible tool is denied strict mode exactly if it does not fit beside
\* the tools before it that were granted it: a tool too large for what is
\* left costs the tools after it nothing (strict.go:42, 55).
GrantedByPriority ==
    phase = "ready" /\ request.provider = "anthropic" =>
        \A i \in DOMAIN StrictOrder :
            Considered(i) =>
                (StrictOrder[i] \in StrictTools <=> Within(With(Spending[i - 1], CostAt(i))))
==============================================================================
