# A verification project for adk-models-go

`adk-models-go` gives Google's Agent Development Kit three more providers behind
its `model.LLM` interface: Anthropic's Messages API, OpenAI's Responses and Chat
Completions APIs, and the Vercel AI Gateway's own Language Model V4 protocol.
One call of `GenerateContent` is a Go push iterator: the adapter runs inside the
caller's `range` loop, hands over partial responses and one complete response,
and the caller's loop body (which runs tools, and may run for minutes) executes
while the adapter is suspended in `yield`.

This directory holds TLA+ models of that code, the TLC configurations that check
them, and TLAPS proofs of what matters most. `PROJECT.json` has the machine
readable side: the runs, the lines every definition models, the hazards with the
properties that cover them, and for every property a mutant: a plausible bug in
one definition (the operators commented `Fault:`) under which TLC must find the
property violated.

To run something: `tlc -config TimeoutGuard.cfg TimeoutGuard`,
`tlapm TimeoutGuard_proofs.tla`. A `.cfg` is named after its module, except
`AnthropicCutTool.cfg` (module `AnthropicStream`) and `OpenAIBuffer.cfg`
(module `OpenAIStream`), which show the two findings below. The run of the whole
conversation is `tlc -config MCSession.cfg MCSession`, the one of tool schemas
`tlc -config MCToolRequest.cfg MCToolRequest`.

## 1. The system

### Components

| Component | Code | State it keeps | Operations |
|---|---|---|---|
| Timeout wrapper | `internal/timeout.go` | per call: the derived context and its timer, the complete response taken from the adapter | `GenerateWithTimeout` |
| Anthropic adapter | `anthropic/`, `internal/anthropicconvert/response.go` | per call: attempt counter, SSE stream, accumulated message, `yielded` | `generateContent`, `generate`, `generateStream`, `streamOnce`, `accumulateMessage`, `SalvageInterruptedMessage` |
| OpenAI adapter, Responses | `openai/openai.go`, `openai/stream.go`, `internal/openaiconvert/response.go` | per call: SSE stream, builders of call arguments by item id, item identities, the terminal event's response | `generateContent`, `generate`, `generateStream`, `streamTranslator.process` |
| OpenAI adapter, Chat | `openai/chat.go`, `internal/openaiconvert/chat.go` | per call: the SDK's chat accumulator | `generate`, `stream`, `ChatToLLMResponse` |
| Native Vercel adapter | `vercel/model.go`, `stream.go`, `response.go` | per call: response body, assembled content, open text and reasoning blocks by id | `post`, `generate`, `generateStream`, `streamState.convert` |
| Vercel HTTP retry | `vercel/retry.go` | per `RoundTrip`: attempt counter, request and response bodies | `RoundTrip` |
| Request conversion | `internal/anthropicconvert/request.go`, `internal/openaiconvert/request.go`, `vercel/request.go`, the cache files | per call: call/response pairing, cache breakpoints, merged messages | conversation to wire messages |
| Tool schema processor | `toolschema/` | per model, shared by all its requests: remembered warnings under a mutex; per call: prepared schemas with their omission plans | `Prepare`, `warn`, `RestoreOmissions` |
| Native tool discovery | `internal/discovery/`, `tooldiscovery/` | per call: a plan recomputed from the whole history | `New`, `OpenAIWire`, `AnthropicWire`, `VercelWire`, `Annotate` |
| Structured output | `structuredoutput/json.go` | none | `ExtractJSON` |
| Families, gateway options, metadata | `internal/family/`, `internal/gateway/`, `internal/metadata/`, `config.go` | none | pure mappings |

### How they interact

```
caller's range loop
   | iter.Seq2                                    ResponseStream  (the contract)
GenerateWithTimeout                               TimeoutGuard
   | iter.Seq2, callCtx
RestoreOmissions <- Responses(plan.Annotate)      inside VercelStream
   | iter.Seq2
adapter: Anthropic | OpenAI | native Vercel       AnthropicStream, OpenAIAdapter, VercelStream
   |  from the history: contents -> messages       Session: AnthropicRequest, OpenAIRequest,
   |                    plan -> wires, cache marks          VercelRequest, Discovery, PromptCache
   |  from the tools:   Prepare, tool choice       ToolRequest: PreparedTools, StrictSelection,
   |                                                            ToolSchema, ToolChoice
   | HTTP / SSE
vendor SDK, or retryTransport -> base transport   RetryTransport
```

Everything on one call runs on one goroutine: the layers are coroutines, and
control passes between them through `yield` and its boolean result. What is
concurrent are contexts (a cancellation or a timer strikes between any two
steps), the provider's events, the base HTTP transport, and the
requests that share one model instance, which meet only in the schema
processor's diagnostic cache.

Across calls the adapters keep nothing: every request is computed anew from the
history the application holds. What one turn left in the history (ids, namespaces,
message identities, signatures) is all the next turn has, so a conversation is a
protocol the adapter speaks with its own past. `Session` models it as one: the
history grows step by step, and every state is read as the requests it makes.

### What is hard in it

* **Three parties look at one deadline.** The caller's context, the budget of
  the request and the adapter's own error can all be pending at one moment; the
  wrapper decides which the caller reads.
* **The complete response releases everything first.** The caller runs tools
  while it holds the complete response; a stream, a body or a timer still alive
  then would fail or starve that work.
* **Streams end anywhere**: cleanly, by an error event, by a failed read, in the
  middle of a tool call's JSON, before the terminal event, after it.
* **Retry against visibility.** An overload inside an accepted stream is
  retried, but not once the caller has seen a delta, and not when the SDK has
  already retried the refusal.
* **Interleaved blocks.** Deltas of several items arrive interleaved and end in
  any order; ids may be absent or repeated.
* **Two assemblies of one answer.** What is shown comes from deltas, what is
  kept comes from a final event or from the adapter's own accumulation.
* **Sharing.** Parts are pointers that partial and complete responses share,
  and the response pipeline writes to them.
* **A shared cache** whose lock does not cover the report it decides about.
* **Histories nobody wrote a test for**: parallel calls without ids, turns of
  another agent or provider, results split over contents, tools revoked and
  granted again, a compacted start. Four converters read them, each by rules of
  its own.
* **One budget for many tools**, and an encoding of optional inputs that has to be
  undone without knowing which `null` was said and which was asked for.

### What makes each component correct

* *Wrapper:* one terminal item; the error names what really failed; the caller's
  own cancellation wins; nothing is alive behind a complete response; a budget
  ends the call.
* *Anthropic:* retries are invisible; streams are closed; cut tool input is never
  executed; hidden thoughts stay hidden without emptying a turn; usage is
  monotone.
* *OpenAI Responses:* every call handed over carries its own arguments and id;
  text and reasoning of the complete response are what was shown; an incomplete response
  never becomes an executable call with cut arguments; a stream without its terminal
  event is an error.
* *OpenAI Chat:* the same for the chat accumulator, a refusal included; no complete
  response without a finish reason.
* *Native Vercel:* the assembled response is what was shown; a signature covers
  the whole block; parts already handed over do not change; calls are unwrapped
  once and lose the placeholders the schema forced.
* *HTTP retry:* bodies are neither leaked nor reused; only refusals are repeated;
  a dead context ends a pause.
* *Request conversion:* nothing said is lost, repeated or moved; results reach their
  own calls; messages keep their identity and signed thinking its message; what the
  provider cached of an earlier request is not rewritten by a later one.
* *Schema processor:* cache and queue agree; no warning is lost or repeated early;
  preparation followed by restoration gives back the arguments the original
  schema describes; strict tools keep within their budgets, dealt out in the
  caller's order.
* *Discovery:* the model can call every tool that is defined and executable and is
  offered no other; namespaces and references on the wire resolve.
* *Structured output:* the text decoded is the message a replay calls the answer.

## 2. The modules

| Module | Role |
|---|---|
| `ResponseStream` | the abstract contract of an iterator: partials, at most one terminal item, the end |
| `TimeoutGuard`, `TimeoutGuard_proofs` | the wrapper around *any* adapter |
| `AnthropicStream`, `AnthropicStream_proofs` | the Anthropic adapter's side of a call |
| `AnthropicInvocation` | wrapper and Anthropic adapter composed |
| `OpenAIStream` | the OpenAI adapter's side of a Responses call |
| `ChatStream` | the OpenAI adapter's side of a Chat Completions call |
| `OpenAIAdapter`, `OpenAIAdapter_proofs` | an OpenAI model over whichever of the two APIs it was made for |
| `VercelStream`, `VercelStream_proofs` | the native Vercel adapter's side of a call, with the response pipeline |
| `RetryTransport`, `RetryTransport_proofs` | one `RoundTrip` of the retrying transport |
| `VercelInvocation`, `VercelInvocation_proofs` | wrapper, Vercel adapter and transport composed |
| `WarnCache`, `MCWarnCache` | the shared diagnostic cache |
| `CallTracker` | the history's parts, and the tracker that pairs results with calls |
| `VercelRequest`, `OpenAIRequest`, `AnthropicRequest` | the history as each provider's messages (`OpenAIRequest`: both APIs) |
| `Discovery` | the plan of native tool discovery, and its three wires |
| `PromptCache` | where the history's cache breakpoints go |
| `StructuredOutput` | which text of a turn is decoded |
| `Session`, `MCSession`, `SessionWalks`, `Session_proofs` | a conversation, turn by turn, and the properties of its requests |
| `StrictSelection` | `Prepare`: declaring tools and dealing out the strict-mode budget |
| `ToolSchema` | schemas: normal form, adaptation to a target, omission encoding and its restoration, cost, and what a schema means |
| `ToolChoice` | the four readings of a tool choice |
| `PreparedTools` | what may be said of prepared tools whatever a schema is: the order of the grants, the forced choice |
| `ToolRequest`, `MCToolRequest` | the tools of a request with real schemas, and what the arguments that come back mean |
| `SchemaProcessor_proofs` | the theorems about `PreparedTools` and `WarnCache`, the two halves of `toolschema/` |

In all stream modules `it` is where the iterator stands between the adapter and
whoever ranges over it: `idle`, `running` (the adapter has control), an item
(`partial`, `final`, `error`: the adapter is suspended in `yield`), `stop` (the
consumer's loop body returned false) and `returned`. `pc` is the point the
adapter's functions have reached. Both together are the Go stack of the call.
A consumer that reads on after a terminal item is allowed in `AnthropicStream`
and `OpenAIStream` (their functions return then), as Go allows it; `VercelStream`
is read the way the wrapper reads it, because its loop would go on reading.

### TimeoutGuard (`internal/timeout.go` 20-64)

`outer` is the iterator the caller ranges over, `inner` the adapter's. The
adapter is *any* generator: it may yield anything in any order, even after a
terminal item, and stop at any point. `Arm` derives `callCtx`, `Refuse` is the
early check at line 37, `RelayError`, `RelayPartial` and `TakeFinal` are the
three ways through the loop body, `FinishFailed` and `Finish` what follows the
loop, `Return` the deferred cancel. `TimerFires` and `CallerContextDies` may
come between any two steps. `Failure` is the closure of line 28.

### AnthropicStream (`anthropic/anthropic.go`, `errors.go`, `anthropicconvert/response.go`)

The provider sends any well-formed event sequence and may be cut off at any
point; `"malformed"` stands for what the SDK's accumulator refuses. `message` is
the accumulated message. Of every block the model keeps its kind, how much of a
tool's JSON the SDK holds (`input`) and how much was sent (`sent`: `empty`, `cut`,
`whole`), whether it is signed and whether it was stopped; one usage counter
stands for the four the code treats alike. `SDKAccumulate` is the SDK's
`Accumulate`, as the adapter depends on it: it replaces a cut input by `{}` when the
block stops, which is why `accumulateMessage` steps in. `ShowDelta` and
`ReadEvent` are an iteration of `streamOnce`, `Interrupted`, `FailsLate`,
`EarlyFailure`, `Complete` its ends, `Retry`, `WakeUp`, `BackoffAborted` and
`FailsEarly` the retry loop of `generateStream`.

### OpenAIStream (`openai/openai.go`, `stream.go`, `openaiconvert/response.go`)

`output` is the provider's output: items with a kind, an id and the number of
their deltas. `functionArgs` holds, for each builder of the translator, *which
item* every delta in it came from, so mixing up two calls is visible;
`identity` stands for `itemToCallID` and `itemToName`, which are written and
deleted together. One action per event type of `process`; `TerminalEvent` is
`response.completed` and `response.incomplete`, which differ in what they leave
unfinished; `RefusalDelta` falls into the `default` of the switch and shows nothing.
`Cut` is a call whose arguments were begun and not finished;
arguments that were not begun convert to `{}` in this code, which is a hazard
noted in `PROJECT.json`. `payload \in {<<>>, Sent(i)}` is `json.Unmarshal` on
what was found: nothing stands for `{}`, and anything that is not the whole text
does not parse (`StreamFails`).

### ChatStream, OpenAIAdapter (`openai/chat.go`, `openaiconvert/chat.go` 256-290)

`reply` is the SDK's accumulator: deltas of text and refusal, calls with how far
their arguments have come, the finish reason. A chunk of text is shown at once, a
call only in the complete response. `Finished` and `CallsParse` are the two
conditions of `ChatToLLMResponse`. Arguments of a call that never began are no JSON
object here, so this API does not have the hazard of the Responses converter.
`OpenAIAdapter` lets `NewModel` choose the API and shares iterator, stream and
result, so one contract is checked over both.

### VercelStream (`vercel/model.go`, `stream.go`, `response.go`, the response pipeline)

Parts of any kind and id come in any order, also ends without a start, repeated
starts and repeated ends. `content` counts the deltas each part holds and the
deltas its signature encodes. The maps hold part indexes where the code holds
pointers, and a part that content and partial response share is one element of
`content`, so what the pipeline writes to one is written to both. Every item passes `Annotate` and `Restore`, in place or
on a copy as the code does it; `history` remembers what the caller was handed.

### RetryTransport (`vercel/retry.go`)

`bodies` says who holds each attempt's request body (`ours` until it is given to
the base transport, which closes it, perhaps later), `responses` which response
bodies are open. `Rewind` is clone, `GetBody`, close of the refused answer;
`Wake` and `SleepAborted` are the two branches of the `select`, and both are
possible when both channels are ready. How long a pause is (`retryDelay`) is
abstracted: `Wake` is never fair.

### WarnCache (`toolschema/schema.go` 364-390)

One process per request: `Lock`, `Known` or `Miss`, `Insert` with eviction,
`Report` outside the lock. `age` and `reported` are history variables.

### Session (`vercel/request.go`, `openaiconvert/`, `anthropicconvert/request.go`, `internal/discovery/`)

A content of the history has a role and parts; a part has a kind, what the
converters tell apart (words present, blank or empty; a message identity; an id or
none; who signed a thought) and a number no converter reads. Every piece of a request
carries the numbers of the parts it was made of (`of`), which is how the
properties say *lost*, *moved* and *answers*. The converters walk contents and
parts, as the code's loops do: `VercelContent`, `ItemsContent`, `ChatContent` with
the flush of a pending message as an operator of its own, `MessageOf` and
`AddMessage` for Anthropic's two passes, which the model takes together: what the second
does with a message depends on the earlier ones only. The walks are folds or recursive functions
(`ChatWalk`, `ChatHistory`, `NormalizeConsecutiveMessages`: the state after the first *k*
steps, which is what the proofs speak of). A conversion that the code refuses is
`failed`; a property then says nothing of that wire.

`agent` is an ordinary one, whose history may hold the turns of several providers,
or one with native discovery for OpenAI or Anthropic. The actions are the
application's and the model's: `UserSpeaks`, `ModelSpeaks`, `ToolsAnswer` (some of
the open calls, in any order), `ModelSearches`, `SearchAnswers`, `ModelCalls`, and
between turns `Revoke`, `Grant`, `ApplicationLoads`, `Compact`. `ModelCalls` is
guarded by `Authorised`, the test with which `Annotate` refuses calls.

`TurnsAssumption` says what a model may answer: the calls of one turn have different ids
or none, as the providers' APIs promise. Three histories are left out, because the code gives them no meaning: a named call
that is answered twice; an id-less call left open while other calls are made
(results without id go to the oldest pending call, whatever its name); tool results
an application dropped from a turn that it kept.

### ToolRequest (`toolschema/`, the tool choice of each converter)

`StrictSelection` is `Prepare` tool by tool, then the strict order, with the
conversion of a schema and its cost as constants. `ToolSchema` supplies both as
recursive operators over schemas (`PreparedTools` goes without them, so that it can be
proved about): functions from keywords to what they say. A
schema also has a meaning (`Valid`, JSON Schema's), so that what the encoding does can be
judged against it. `ToolChoice` has one operator per adapter, and what a provider makes of
the result (`Callable`, `MustCall`). Thinking and effort are on a wire twice, as the code
puts them there: in the Messages fields (`MessagesReasoning`) and in the gateway's
provider options, for a Claude model behind any of the four adapters (`ForcedTools`).

### Compositions

`AnthropicInvocation` instantiates the wrapper with `inner <- it` and the
adapter with `ctxDead <- Guard!CallDead`: the adapter's context *is* the
wrapper's `callCtx`. `VercelInvocation` adds the transport under `post`, with
`http.NewRequestWithContext` as `RequestContext`; the base transport's late
closing of a body is left to RetryTransport's own run.

## 3. The runs

| Run | Distinct states | What it asks |
|---|---|---|
| `timeout_guard` | 273 | the wrapper with any adapter, caller and cancellation |
| `anthropic_stream` | 425 260 | the Anthropic adapter by itself |
| `anthropic_invocation` | 125 312 | is the adapter the generator the wrapper assumes |
| `anthropic_cut_tool` | violation | finding 1 |
| `warn_cache` | 2 328 | concurrent requests on one cache |
| `retry_transport` | 7 634 | one `RoundTrip` against every answer |
| `vercel_stream` | 80 888 | the Vercel adapter by itself |
| `vercel_invocation` | 166 252 | wrapper, adapter and transport together |
| `openai_stream` | 188 630 | the OpenAI adapter over either API |
| `openai_buffer` | violation | finding 2 |
| `session` | 40 643 | what every provider is told of a conversation |
| `tool_schemas` | 4 228 | what becomes of the tools of a request, and of the arguments that come back |

**TimeoutGuard.** `FinalIsDetached`: behind a complete response the adapter has
returned and no timer runs. `ErrorHasACause`: the error tells the truth.
`CancellationSurfaces` (liveness): a caller whose context died while the wrapper was at
work gets exactly that error, whatever else was ready. `BudgetEndsTheCall` (liveness): a
timeout ends the call even if the provider never stops. `ContractHolds`: the wrapper
implements `ResponseStream`.

**AnthropicStream.** `RetryIsInvisible`: all the caller was shown is from the
attempt under way, every earlier attempt had been accepted, and there are no more
attempts than the limit. `StreamsAreClosed`: never two streams, none during a
pause, none after the call. `CutInputNeverExecutes`: a cut input is not handed over as a
call, in a complete response or among salvaged parts, and not retried.
`HiddenThoughtsStayHidden`: hiding removes every unsigned thought, keeps provider
state, and never empties a turn. `ContractHolds`.

**AnthropicInvocation.** `ImplementsGuard`: the composition refines
`TimeoutGuard`, fairness included, so what was shown of *any* generator that
honours its context holds of this one: one terminal item, no silent end, no open stream
while the caller works on the complete response.

**OpenAIAdapter.** `StreamedCallsAreTheirOwn`: however the deltas of calls
interleave, a call handed over has its own id and exactly its own arguments.
`KeptIsWhatWasShown`: the complete response, which comes from the terminal event or from the
accumulator, holds exactly the text and the reasoning that were shown, and no hidden
reasoning; a refusal is in it whole, shown before over Chat Completions and not over
Responses (section 6).
`UnfinishedNeverExecutes`: over Chat Completions only a reply with a finish reason and whole
calls completes; over Responses only a stream that reached its terminal event does, and
no call whose arguments were begun and not finished is in it. An incomplete response may
be complete otherwise: that is the code's way to hand over what there is.
`ContractHolds`.

**VercelStream.** `FinalIsWhatWasShown`: part for part the deltas shown.
`SignaturesAreWhole`: a signature encodes all its part received. `PartialsAreStable`:
a call already handed over does not change. `CallsAreExecutable`: calls of a
complete response are unwrapped once and carry no placeholder. The first two
leave out a part whose block the provider ended twice: a second end finds no
builder and seals an empty state over the first (a hazard, `stream.go` 170).

**VercelInvocation.** `ImplementsGuard` as above. `CallerContract`: from outside, one
terminal item, and never a silent end. `NothingHeld`: behind a complete
response and after the call no answer is open and no request body is pending.

**RetryTransport.** `NothingLeaks`, `OnlyRefusalsAreRepeated` (no success, veto
or unrepeatable body is sent again), `CancellationIsPrompt` (liveness: a dead context
ends the call without the pause running out).

**WarnCache.** `CacheAgrees`: set and queue hold the same, once. `NotRepeatedEarly`:
a warning returns only after as many newer ones as the cache holds.
`RememberedIsReported`: whoever keeps silent relies on a report that was made or
is under way.

**Session.** Of every state, for every request it makes:
`NothingLostOrMoved` - each part a provider may see is on its wire once, in order.
`ResultsReachTheirCalls` - a result carries the id of the call it answers, made up or
not. `ChatIsSettled` - a chat request answers an assistant's calls, each once, before
anything else. `AnthropicTurnsHold` - roles alternate, signed thinking stays in a
message of its own, results follow their calls, the adapter's filler never
follows a tool use. `MessageIdentityKept` - fragments share a message exactly if the
provider said so, and the answer structured output decoded is the final message of the replay.
`LoadedToolsStayCallable` - with native discovery, every defined and executable tool is
offered in one form, and no other tool is. `WireResolves` - namespaces and references on the
wire name what was introduced before, once. `CachedPrefixKept` - while the catalogue stays and nothing
falls back, each request extends all earlier requests of the conversation, and an OpenAI
request marks its predecessor's latest boundary again: the README's "Native
discovery preserves the cached prefix" (`src/README.md:411`). Of the tools this asks that they
stay the same ones in their order, with the breakpoint on the same one (`Marked`), and that
no definition changes but that of a deferred tool no reference has loaded yet: a search puts
its result on the description of the first tool it loads (`FirstFeedback`), which the code
relies on to be "outside the initial cached prefix" (`discovery/wire.go` 117-120). Once the
reference has been sent the description stays.

**ToolRequest.** `StrictBudgetHolds`: Anthropic's strict tools stay within all limits,
and the counters count them. `GrantedByPriority`: a compatible tool is denied exactly
if it does not fit beside the granted ones before it. `ArgumentsMeanTheSame`: the arguments
handed over, restored from whatever the sent schema allows, are those the application's
schema allows - all of them, and none besides unless the caller accepted a loss; section 6 names the
schemas (`Entangled`) and the route this excepts.
`ForcedChoiceHonoured`: through every adapter a forced call is sent as one, limited to the
allowed tools, and neither the Messages fields nor the gateway's options then ask for
thinking or for the effort of adaptive thinking (`src/README.md:276`); every other mode
keeps what was asked for and, but for Anthropic's, hands out no excluded tool.

### Bounds, and why they are enough

* `TimeoutGuard` has none: its state space is finite as it is.
* `anthropic_stream`: 3 attempts (the code's own `streamMaxAttempts`), 2 blocks and 6
  events per attempt, usage 0..1. Two blocks show a cut call beside an intact
  block and a hidden thought beside a visible part; six events are a whole
  message with two short blocks (start, delta, stop, start, stop, and a
  `message_delta`) or a whole one-block message with a repeated `message_delta`;
  two usage values tell growing from shrinking.
* `anthropic_invocation`: 2 attempts, one block, three events: the first attempt is
  retried or not, the block is cut or not; the adapter's data is covered by the
  run above.
* `openai_stream`: 2 items, 7 events, two ids: both items added, a delta each (a message's
  may be text or refusal),
  both calls done, and the terminal event, in every order; over the chat API 2 calls and
  7 chunks: text, two calls interleaved, the finish.
* `vercel_stream`: 2 ids, 2 parts, 5 stream parts: two interleaved blocks, or one that
  starts, ends and starts again under the same id.
* `vercel_invocation`: one id, one part, two stream parts, two attempts of the transport.
* `retry_transport`: three attempts, the code's own number (`LastAttempt = 2`).
  `CHECK_DEADLOCK FALSE`, because `RoundTrip` is a function that returns: after that
  nothing happens.
* `warn_cache`: three requests, four warnings, capacity 2 (256 in the code): the
  cache fills, evicts, and two requests race for one warning while a third
  changes the queue. Requests and warnings are symmetric; all its properties
  are invariants, for which symmetry is sound.
* `session`: histories grow until they have 7 parts (6 with discovery), so the last turn
  may go beyond. That is a turn of three parts, its results in several contents, and
  another turn; or two searches, a call of what they loaded, and a revocation or
  compaction between them. The nine model turns are the cases the converters tell apart:
  fragments of two messages, signed and foreign thinking, parallel calls with ids and without,
  empty and blank text, text around a call. One of two deferred tools can be loaded
  while the other is withdrawn. `CHECK_DEADLOCK FALSE`: at its bound the
  history no longer grows.
* `tool_schemas`: 18 schemas, one for each case the processor treats differently (nesting,
  shared and recursive definitions, value-or-null, nullable enums in both spellings, `oneOf`,
  patterns, missing references), each for 4 targets, both routes, with and without permission to lose
  something; and all triples of four schemas against limits of 2 tools, 3 optional
  inputs and 2 unions (20, 24 and 16 in the code), under hints that are absent,
  empty, reordered, repeated or unknown. The values tried against a schema are built from it to
  its own depth. `CHECK_DEADLOCK FALSE`: `Prepare` returns.

### Fairness, and why the code justifies it

* The wrapper's steps, the adapter's own steps between two provider answers
  (`RunsOn`), and the timer are fair: they are straight-line Go code and a
  runtime timer on a running scheduler.
* The caller's loop body ends (`WF(Caller)`). A caller that never comes back is
  outside any iterator's power; nothing says whether it continues or leaves.
* `Honour` in `TimeoutGuard` is the wrapper's documented demand (`timeout.go`
  14-19): once `callCtx` is dead the adapter ends or reports it. For the
  Anthropic and the Vercel adapter it is not assumed but *shown* (`ImplementsGuard`),
  from weaker facts: reads and requests under a dead context fail
  (`HonoursContext`, `Answer` under a dead context), which `net/http` promises.
* The provider's events, its answers, the end of a pause and the caller's
  cancellation are never fair. `BudgetEndsTheCall` therefore holds against a
  provider that hangs or babbles.
* `OpenAIAdapter`, `WarnCache`, `Session` and `ToolRequest` check safety only and state no
  fairness.

## 4. The proofs

The theorems hold for every value of the constants under the named assumptions of
the modules (`MaxAttempts` and `Cap` positive, the other bounds natural,
`TurnsAssumption` for `Session`). Each
proof is an inductive invariant (`IInv`, where a module has one): `Init => IInv`,
`IInv /\ [Next]_vars => IInv'` with a step per action, `IInv => Inv`.

The library's induction theorems take an operator as parameter, which no installed prover can
instantiate. Where a proof needs induction over a sequence, it is over a *set*: the lengths for
which the statement holds contain zero and with each number the next (`SetInduction`, from
the well-foundedness of `<` on the naturals). That reaches recursive *functions*
(`Kept`, `Totals`, `ChatWalk`, `VercelWalk`, `ItemsWalk` and their histories, `BlocksUpTo`,
`NormalizeConsecutiveMessages`), which is why the models have these
instead of the community modules' folds where a theorem needs them. `FlattenSeq` is itself a
recursive function: `FlattenFacts` and `FlattenAppend` say what it yields for sequences of any
length, and `FlattenHolds` where its elements come from.

* **TimeoutGuard_proofs** - `GuardTypeOK`, `GuardFinalIsDetached`, `GuardCleanExit`,
  `GuardErrorHasACause`, and `GuardImplementsContract`: the wrapper refines the
  contract's step relation whatever the adapter does. `IInv` adds what the
  wrapper's control point says about the adapter (`AdapterInStep`) and the timer
  (`TimerInStep`), and that a cause once true stays true while the caller reads it
  (`ErrorInStep`); `FinalIsDetached` alone is not inductive, since nothing in it
  says where the adapter is before the loop ends.
* **AnthropicStream_proofs** - two layers. The control: `RetriesAreInvisible`, `NoStreamIsLeft`,
  `StreamImplementsContract`, for any attempt limit. `Control` ties `pc` to `it`,
  `StreamInStep` the open stream to the attempt, `HistoryInStep` says that what was
  shown implies `yielded`, and `ResultInStep` that a result exists exactly from the
  terminal item on; the message is opaque there.
  The content, on top of it: `CutInputStaysOut` and `ThoughtsStayHidden`, for messages of any
  length. `ContentInStep` says that an input that was sent cut is also held as cut
  (`CutIsKnown`, within `MessageOK`: what `accumulateMessage` is for, since the SDK alone would
  replace it), that no message with one is retried, and what of a message reached the parts; the lemmas `AccumulateOK`,
  `KeptFacts`, `ConvertedFacts` and `VisibleFacts` follow a block through accumulation,
  salvage, conversion and hiding.
* **OpenAIAdapter_proofs** - both APIs in one module.
  `CallsAreTheirOwn` (the Responses stream) and `AdapterCallsAreTheirOwn`: under `ItemsAreNamed`
  (the provider gives every item an id) a call handed over in the stream has its own id and
  all its own arguments, with any number of items and events. `BooksAgree` is the heart:
  ids name one item, the builder of an id nobody has is empty, and the
  builder of a call in progress holds exactly what was sent for it;
  `CallsAreFinished` keeps handed-over calls true, since nothing is sent for a
  finished item. `openai_buffer` shows that the assumption is needed.
  `AdapterImplementsContract`: whichever API, every step is a step of the contract or none.
  `WhatIsKeptWasShown` and `UnfinishedStaysOut` need no assumption: `ResponsesInStep`
  relates the deltas shown to the output item by item (`ShownAgrees`) up to the
  terminal event, `ChatInStep` the parts shown to the SDK's accumulator. Refusal deltas
  change the output and nothing shown (`RefusalUpdates`). Both theorems say per API what
  section 3 says of the runs, no more: a Responses refusal is kept unseen, and an incomplete
  Responses reply may complete.
* **VercelStream_proofs** - `FinalShown`, `Signatures`, `Partials`, `Executable`, for any
  ids, any number of parts and any order of stream parts. `Faithful` relates a part to what
  was received, shown and ended of it: a thought sealed once is whole, one not yet sealed is
  unsigned. It is not inductive without `ReasoningBlock`, which ties the builder an id holds
  to that part (level with it and not ended; without a builder, ended before), nor without
  the last part of `Blocks`, that no two ids share a thought, or one block's end would seal the
  other's text. Each stream part changes one part or adds one (`Only`); the lemmas about that
  step carry the others over.
* **VercelInvocation_proofs** - the composition of wrapper, adapter and transport, for any
  attempts, ids and parts. `InvocationStepsAreGuarded`: every step is one of `TimeoutGuard` or
  leaves the wrapper alone, the safety half of `ImplementsGuard`: the adapter over its
  transport *is* a generator as the wrapper assumes it. `InvocationImplementsContract` and
  `InvocationHoldsNothing`. `IInv` locates the three control points relative to each other
  (`AdapterInStep`, `WrapperInStep`) and says which request body can still be the transport's
  (`HeldBody`).
* **Session_proofs**, of the invariants in `SessionWalks` - `HistoryInvariant`: the calls of a
  turn keep different ids or none however the history grows, is revoked or compacted.
  `ChatRequestsAreSettled`: `ChatIsSettled` for histories of any length and any turns. The argument is an invariant of the *walk* over the history:
  `Settled(m, P)` says of the messages so far and the ids pending that every assistant's calls are
  answered by the tool messages right behind it, but for the last assistant, which still waits for
  exactly `P` (`Answering`). A call content starts a run, each result shortens it
  (`Without`), and any other message comes only while nothing pends. It needs that no two
  calls of a content share an id, made-up ids included, which is what `HistoryHolds` and
  `MadeUp` give. Writing the proof showed that `CASE` arms in the models of the converters
  overlapped (TLC takes the first, the logic either); they are disjoint now.
  `AnthropicTurns`: `AnthropicTurnsHold` for histories of any length, under the hypothesis
  `UsersSaySomething` on the constant `UserTurns`: no user turn is made of empty text alone (section
  6 says what happens to one). It takes two invariants. `TurnsKept`, of the walk over the
  contents: roles alternate, the messages are the contents' in their order and none that has a
  block is lost, a message with signed thinking is one content, and what follows a tool
  use is not the adapter's own. A content either says nothing (`TurnsSkip`), opens a message
  (`TurnsAppend`), is kept apart by the continuation (`TurnsContinue`) or joins the last
  message (`TurnsJoin`). `HistoryInOrder`, of the conversation (`HistoryStaysInOrder`): calls are the
  model's, results the user's, and a call's number is no other part's. The first gives
  the roles and the thinking; that results come with the *next* message needs both
  (`ResultsComeNext`): a message in between would be the assistant's, made of a content between
  the call's and the result's, where the history had the user alone.
  `HistoryStaysAnswerable` and `ResultsReach`: `ResultsReachTheirCalls` on all four wires, for
  histories of any length. `Answerable` is the invariant of the conversation: read from its
  start, each call has a new number and an id no open call has, each result is that of one open
  call, the oldest one if it has no id (`Follows`, over the set `Open` of the calls not
  answered yet). The walk of a converter then keeps `Tracks`: the calls the
  tracker has pending are the open ones, in their order, under the ids they have on the wire
  (`Waiting`), and the last thing sent under such an id is that call (`Linked`). A made-up id
  is new because it is below every earlier one; a provider's id may return once its call is
  answered, which is why `Linked` speaks of the *last* piece and not of the only one.
  Anthropic makes up no ids, so its results are linked part by part (`Links`) and
  carried over the normalisation by the invariant of its walk. The three tracked walks have
  one step lemma per kind of part; what a failed conversion left behind is never sent.
  `HistoryKeepsRoles` and `NothingIsLost`: `NothingLostOrMoved` on all four wires, for any turns
  and histories of any length. Each walk carries what it was told: the pieces so far, the one
  being built and the items that wait, name exactly the parts a provider may see of what was
  read, once and in order (`VercelTold`, `ItemsTold`, `ChatTold`, `MessagesTold`). A step adds a
  piece for the part, widens the last one (a text that joins a text) or adds nothing, and then
  the part is one nobody may see. In a chat request the order is the wire's, a content's calls
  behind its words and results, so its walk keeps the two apart until the message is written. Only
  Anthropic's messages may hold more, a filler that says nothing of the history. It needs
  `RolesStay`, that calls are the model's and results the user's: what a part becomes,
  and whether it is sent at all, depends on the role of its content. What is expected is
  read off the history by a recursive function (`Kept`), so the lemmas about it go one part
  at a time, like the walks (`KeptNumbers`, `NumbersSteps`, `CarriedAppend`).
* **SchemaProcessor_proofs** - about `PreparedTools`: `StrictBudget`: for any tools, conversion,
  cost, hints and limits, `StrictBudgetHolds`. `Counted` says that `spent` counts the strict tools the
  order has come to and is within the limits; `Declared` and the last two parts of `IInv`, that a
  strict tool not yet come to is still ahead, because only hinted tools are strict. Without
  them a strict tool could reach the wire uncounted. `GrantsFollowTheOrder`: `GrantedByPriority`
  with the budgets added up position by position (`SpendingAddsUp`), each denial
  keeping its reason (`Reasoned`). `ForcedChoice`: `ForcedChoiceHonoured` on all four wires, for any tools and all a level can
  ask for; Anthropic's wire hands out excluded tools in the other modes, and is excepted there.
  About `WarnCache`: `CacheTypeOK`, `CacheStaysConsistent`,
  `WarningsAreDeduplicated`, `SilenceIsJustified`, for any number of requests and any
  capacity. `Exclusion` is the mutex (what a request read is still true when it
  inserts); `QueueIsByAge` says that positions in the queue are ages, without
  which `NotRepeatedEarly` is not inductive: the evicted warning must be the one
  with age `Cap - 1`.
* **RetryTransport_proofs** - `TransportLeaksNothing`, `TransportRepeatsOnlyRefusals`,
  `TransportAttemptsStartClean`, for any number of attempts. `HeldBody` and
  `OpenResponse` say which single body and response the transport can own at each
  point; `PauseIsJustified` carries the judgement over the pause.

Only model-checked:

* everything temporal under fairness, which is beyond the prover (`CancellationSurfaces`,
  `BudgetEndsTheCall`, `CancellationIsPrompt`, the fairness half of `ImplementsGuard`);
* `ImplementsGuard` of `AnthropicInvocation`;
* the other properties of `Session`: message identity (`MessageIdentityKept`), discovery
  (`LoadedToolsStayCallable`, `WireResolves`) and caching (`CachedPrefixKept`). Each relates the
  converter's walk to another one (who said it, what is loaded, what the last
  request was) and needs an invariant of the two side by side;
* `ArgumentsMeanTheSame`: schemas are recursive data, and `ToolSchema` has `RECURSIVE`
  operators, which the prover cannot open.

`GuardTypeOK`, `GuardCleanExit`, `CacheTypeOK`, `TransportAttemptsStartClean`,
`InvocationStepsAreGuarded` and the invariants themselves are proved and not part of a run.

## 5. Findings

1. **A tool call that never began is executed** (`anthropic_cut_tool`).
   `streamOnce` knows a cut tool input by its JSON. When the connection ends
   cleanly after a tool call's `content_block_start` and before its first input
   delta, the input is still the `{}` of the start, which is valid: the stream
   is taken for complete and the caller gets an executable call with no arguments.
   `src/anthropic/anthropic.go:340-341` says incomplete tool input "must remain an
   interruption, never an executable call or retry".
2. **Arguments without an item id are lost** (`openai_buffer`). `buffer` keeps
   deltas without an id under `"default"`, `emitFunctionCall` looks for them under
   `""`. If the done event does not repeat the arguments, the call is handed over with
   `{}`. `src/openai/stream.go:153-156` promises "the complete, buffered function
   arguments (either from the done event or our functionArgs map)" and that they are
   cleaned up.

## 6. Seen while modelling

Where the code does something a reader may not expect, and no run is about it:

* *Pairing.* A result without id answers the oldest pending call, its name
  is not looked at (`vercel/request.go` 217-227). An id-less call that was abandoned
  shifts every later pairing.
* *Compaction.* A summary that drops a search while a later call of a tool it loaded is kept, and the
  tool is withdrawn, leaves that call with a namespace nothing on the wire introduces, without
  fallback: `NeedsFallback` looks at calls of loaded tools only. `WireResolves` is
  therefore about loaded tools.
* *Searches without id* become a `tool_search_call` whose output is an ordinary
  function output. Discovering agents have ids in `Session`.
* *Foreign and unsigned thoughts.* Anthropic is sent unsigned assistant thoughts as ordinary
  text and another provider's signed thoughts as thinking; OpenAI and Vercel
  drop the first and refuse the second; Chat refuses both.
* *A user who says nothing to Anthropic.* `maybeAppendUserContent` "ensures the conversation ends
  with a user message" (`anthropic/anthropic.go` 598) by the role of the last content. If all
  parts of that content are dropped in conversion (empty text, or thoughts of
  another agent, `anthropicconvert/request.go` 113-115), its message disappears and the request
  ends with the assistant's. The turns of `session` have something to say; the theorem names
  this as its hypothesis.
* *Refusals over Responses.* `response.refusal.delta` is no event the translator knows
  (`openai/stream.go` 133-136), while the complete response has the refusal
  (`openaiconvert/response.go` 157-160): a caller who shows partial responses shows a refusal
  only when it is complete. Over Chat Completions it is streamed. No text in the repository says
  otherwise, so it is not a finding; `KeptIsWhatWasShown` says it as it is.
* *Anthropic and tool choice.* Mode `NONE` sends no choice, so tools stay callable; `AUTO`
  ignores the restriction. `ForcedChoiceHonoured` excepts Anthropic there.
* *The cross-family route* through the Anthropic adapter encodes omissions and never restores
  them (`anthropic.go` 182; `optional.go` 21-23).
* *Unions and optional inputs* in OpenAI's encoding: a definition used both by an optional
  input and inside a union gets placeholders that no plan removes in the union
  (`optional.go` 37-61), and an object `anyOf` of `required` alternatives is satisfied by
  placeholders that restoration then removes (75-90). `Entangled` sets these apart in
  `ArgumentsMeanTheSame`.

## 7. Not modelled

* Wording, logging, provider metadata, exact numbers of tokens, the length of
  pauses: data no property tells apart.
* Model families, reasoning levels and gateway options: tables from names to values, which a
  specification would only repeat. `ToolChoice` has the three things a level can ask of a
  Claude model; thinking and effort an application writes into provider options itself are
  left out.
* Generation parameters, response formats and sampling options, which are copied.
* `json.Unmarshal` of structured output, and messages with a phase but no id.
* The vendor SDKs beyond what the adapters depend on: the Anthropic SDK's
  accumulator (`SDKAccumulate`) and its retries of refused requests
  (`overloaded_529`) appear as the adapters rely on them.
* The live test matrix and the release scripts.
* Memory-level data races: apart from the diagnostic cache, which is locked, no
  state is shared between requests.

## 8. What is left

* The wrapper with an OpenAI adapter, as `AnthropicInvocation` and `VercelInvocation` have it:
  the wrapper's theorems hold for any adapter, but that the OpenAI SDK honours a dead context is
  not shown from weaker facts.
* A history in which calls are answered late, across turns, as a reference for the pairing of
  id-less calls.
* Theorems about the rest of `Session`, first `MessageIdentityKept`, an invariant of the walk that
  builds the items; and the step half of `ImplementsGuard` for `AnthropicInvocation`.
