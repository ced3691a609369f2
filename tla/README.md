# Formal models of Jarvis Brain

TLA+ models of the Brain service (`src/src/jarvis_brain`), the TLC runs that
check them on small instances and the proofs that TLAPS checks for instances of
any size. Source paths below are relative to `src/src/jarvis_brain/`.

## 1. The system

A request reaches the Brain through an HTTP route or through a spoken
conversation. `BrainEngine.process_input` resolves what is asked, plans it if
need be, stops at an approval gate for risky actions, and hands tasks to tools.
Spoken requests are *turns* of a conversation: the turn runtime starts them,
cuts them off and publishes what becomes of them. Replies are generated by
language models behind a gateway that chooses among routes and falls back from
one to the next. Agents, briefings and world intelligence are services beside
the engine.

| Component | State it keeps | Operations | Interacts with |
|---|---|---|---|
| Brain engine (`engine/brain_engine.py`, `engine/state_machine.py`, `routes/brain.py`) | state machine per engine; shared task, approval and plan managers | `process_input`, approvals, rejections, plan steps, tool dispatch, `fork_for_conversation` | every other part |
| Intent and planning (`engine/planner.py`, `engine/*intent*`, `engine/llm_*`) | none | keyword resolvers, plan templates, validators of model output | engine |
| Turn runtime (`requests/coordinator.py`, `manager.py`, `context_pipeline.py`, `turn.py`, `events.py`, `metrics.py`) | active turns, a turn per session, history, semaphore, cancellation tokens | `execute`, `cancel_turn`, `cancel_session`, `publish_event` | event bus, executor threads |
| Conversation manager (`conversation/manager.py`) | contexts by user and conversation: lock, fork of the engine, last exchanges | `respond`, `release`, `cancel_session`, eviction | turn runtime, engine |
| Queues and provider bridge (`requests/queues.py`, `requests/streaming.py`) | bounded queue, producer thread | put with four overflow policies, get, `iterate` | event loop and threads |
| Gateway: OmniRoute (`llm/omniroute/`) | circuit breaker, route registry | `allow_request`, `record_success`, `record_failure`, route policy | providers |
| Router and observatory (`llm/intelligence_router.py`, `routing_observatory.py`, `router_telemetry.py`) | route records, counters | `generate`, `generate_stream`, terminal states of a route | gateway, providers |
| LLM service (`llm/safe_llm_service.py`, providers, classifiers, consensus) | none across requests | sentence release, redaction, local response | router, turn |
| Agent lifecycle and stream (`agents/agent_lifecycle_manager.py`, `agent_event_broadcaster.py`, `agent_stream_service.py`) | four stores of agents; subscriber queues | spawn, update, complete, fail, archive, subscribe, publish | HTTP stream |
| Swarm and agent runtime (`agents/swarm_*`, `agent_runtime.py`) | per request | delegate, collect | engine |
| Orchestrator (`orchestrator/`) | per request | proposal, validation, deterministic fallback | LLM service |
| Daily briefing (`briefing/`) | delivery store | collect with a deadline, deliver once per window | read-only queries |
| World intelligence (`world/`) | records in a repository | one cycle: analyse, score, suggest, save | engine |
| Ports, application, routes (`ports/`, `app.py`, `adapters.py`, `routes/`) | module singletons | wiring | all |

### What is hard

* **Interleaving.** `POST /brain/think` is a synchronous endpoint: requests run
  in a thread pool on one shared engine. Conversations run on forks of it, in
  executor threads, with the task, approval and plan managers shared.
* **Two calls that belong together.** An approval is read and decided in two
  calls, created and linked to its task in two; a plan step's task, approval and
  status are updated one after the other.
* **Partial failure.** `process_input` answers any exception and leaves the state
  machine where it was.
* **Cancellation.** A turn can be superseded, interrupted, abandoned by its
  caller or cut off by its deadline, at each of its awaits, also after what it
  waited for has arrived. Its thread cannot be stopped and goes on.
* **Bounded resources.** A semaphore of turns, a pool of threads, an LRU store of
  contexts, bounded queues and histories.
* **Streams** that end without saying so, consumers that leave early, records of
  routes updated by whoever comes late.

`PROJECT.json` lists these as hazards, at the line where each one bites, with the
properties that would catch it.

### What makes each part correct

* Engine: nothing that needs approval runs without it; what is approved runs
  once; what is rejected never runs; an engine can always take the next request.
* Turns: the registries hold the turns that have not ended; a session's newest
  turn is the only one that goes on; no permit is lost; every turn ends.
* Conversations: live turns never share a fork; a turn's history stays current;
  what it says stops with it; every call returns.
* Understanding: an answer of a model that is missing, malformed or refused leaves
  what the rules say; no model settles an approval or starts a plan.
* Gateway: nothing leaves the machine unauthorized; circuits stay consistent under
  late reports; every announced route gets one terminal entry; a candidate that was
  heard is not followed by another; every request ends.
* Bridge: items keep their order and none is lost or doubled; the thread and the
  reader both come to an end.
* Agents: an agent is in one collection; a stream ends up with the newest state.
* Briefing: nothing that happened falls between two briefings, nothing is told
  twice, and every briefing is delivered.
* World intelligence: a stored suggestion has its analysis; an urgent one stands
  for an event that is not disputed, not false and not of low confidence.

## 2. Modules

| Module | Models | Composed of |
|---|---|---|
| `ApprovalGate` | what the approval gate promises | |
| `BrainEngine` | requests on engines, with the managers they share | refines `ApprovalGate` |
| `SessionTurns` | what the turn runtime promises a session | |
| `TurnCoordinator` | `AsyncTurnCoordinator`, semaphore, deadline, tokens | refines `SessionTurns` |
| `Conversation` | `ConversationManager`, its contexts and threads | extends `TurnCoordinator` |
| `Understanding` | what a request is taken for: rules, orchestrator, assisted resolver and planner | |
| `RoutePolicy` | classification, route policy and candidates, as operators | |
| `Gateway` | requests to language models, circuits, observatory | extends `RoutePolicy` |
| `StreamBridge` | `SyncIteratorBridge` with its thread, its queue and its reader | |
| `AgentLifecycle` | agents, the requests that change them, broadcaster and event streams | |
| `Briefing` | `DailyBriefingService` with its collectors and `BriefingStore` | |
| `WorldCycle` | `ProactiveEventLoop.run_once` with its rules and its repository | |
| `MC...` | constants of the instances that TLC checks | |
| `...Proofs` | theorems of the module they are named after, `ServiceProofs` of `Understanding` and `WorldCycle` | extends that module; `ConversationProofs` also `TurnCoordinatorProofs` |

### BrainEngine

`sm[e]` is the `BrainStateMachine` of engine `e`; `tasks`, `approvals`,
`planStatus` and `stepStatus` are the managers that `fork_for_conversation`
shares. The rest are the local variables of the thread `w` that runs a request:
`pc` is the next call it makes on something shared, `todo` the `transition_to`
calls before it. `transition_to` looks at the engine's state and assigns it without a
lock, which is two steps: `CheckTransition` lets the transition pass (`passed`) or
`InvalidTransition` raises and ends the request in `process_input`'s handler, and
`TransitionTo` assigns, over whatever state another thread has put the engine in
meanwhile. Besides these, a step is one call on something shared, or one test of the
state by a flow that depends on it; the engine's other attributes are left out
(section 5), and what remains between two steps touches only the thread's own objects.

Requests are of the kinds that `process_input` dispatches to different flows. All
that complete through `_complete_simple_response_flow` are one kind, all that
look at the state machine first (`_complete_context_response_flow`) another;
which words lead to which kind is left open, so every order of kinds is
explored. A tool call has the outcomes the code tells apart: `success`, another
status, no driver, an exception. Plans are known by the ids that `planner.py`
derives from the goal, the same in every session; saving a plan again replaces
the saved one.

The approval, task and plan managers come from another package. They are modelled
from how the engine uses them, and one assumption about them is a constant:
`Checked` says that `approve` and `reject` raise for an approval that has been
decided. The engine itself does not look again between
`_get_next_pending_approval` and `approve`. The branch of `_handle_execution_plan`
for a plan without steps is not reachable, as every plan of `planner.py` has some.

### TurnCoordinator

A step is what an asyncio task does between two awaits that suspend it. The
coordinator's own `asyncio.Lock` is never held across such an await, so acquiring
it never suspends anybody, and `_register` and `_unregister` belong to the step
that calls them. A turn is suspended at the semaphore (`created`; `granted` once it has been
woken), in the context pipeline (`preparing_context`) and in its processor
(`running`).

The semaphore is asyncio's, as Python 3.11 has it, the oldest version that
`pyproject.toml` allows. `locked()` is true not only when no permit is free but also
while somebody waits, or was woken and has not resumed (`Locked`); who comes then queues,
even if a permit is free, and is woken by the one who resumes (`WokenOnward`) or by one
who gives a permit back (`Woken`). Later versions wake as many waiters as permits are
free at once, where 3.11 wakes one and he the next.

`hits[t]` holds the calls of `task.cancel()` that the task has not met yet: by
whoever cancels it (`cancel_turn`, a new turn of the session, the caller) or by
`asyncio.timeout` (`deadline`). A task that is cancelled meets the cancellation
when it resumes, even if what it waited for has arrived meanwhile; therefore
`ContextReady`, `ProcessorReturns` and `ProcessorFails` are not possible while a
hit is outstanding. `asyncio.timeout` makes a `TimeoutError` of it only if nobody
else cancelled the task (`TimesOut`, `IsCancelled`). The timer starts after the
semaphore. The token is cancelled separately (`token[t]` is its reason): threads
see it, and so does the coordinator when the processor returns.
The runtime takes `CancellationToken` from `jarvis_platform.cancellation`;
`requests/cancellation.py` is this repository's class of that name, and the one that
`map` names. `SyncIteratorBridge`, which a processor may read a provider's stream
through (`adapters.py`), cancels the token alone (`CloseStream`); `process_input`,
the processor of `Conversation`, does not use it.
The priority of a turn is recorded in it and plays no part in the code.

### Conversation

`Respond` looks the context up (`_context`: most recently used last, least
recently used dropped, in use or not), queues for its lock and, if it is free,
enters `execute` in the same step. `CallBrain` hands `process_input` to the
executor of `asyncio.to_thread`, in which `PoolSize` threads run. A turn that is
cut off withdraws a call that has not begun; a thread that runs goes on, on the
same fork, after the lock is released. It says whole sentences, three events
each, looking at the token before each of them (`Speak`, `Publish`), and ends
when it likes or, its token cancelled, by `raise_if_cancelled`: as
`TurnCancelledError` is not an `Exception`, no handler of `process_input` stops it.
A context is named by the call that created it, so that a context created anew
is not the one that was evicted.

`BrainEngine` and `Conversation` are not composed: the first allows any number of
threads on an engine, which includes what the second shows about forks.
`BrainSessions` is the normal case, one thread per fork, and `BrainShared` that
of two threads on one engine.

### Understanding

The rules run first, then up to three answers of models may come in: a proposal
(`Orchestrate`), a candidate (`Assist`) and the draft of a plan (`Plan`). Each is
missing, malformed or parsed to any value of the shape the parser lets through; the
validators (`ProposalHolds`, `CandidateHolds`, `DraftHolds`) are the code's.
`heeded` remembers which were accepted, `outcome` is the flow of `process_input`
that handles the request. Words are abstracted to what the rules look for: a phrase,
whether it came without punctuation, whether an action or a goal is part of it, and
what the request is about if no rule matches. The flows themselves are the requests
of `BrainEngine`, which takes any of them in any order.

Seen on the way, and modelled as it is: approvals are looked up with their
punctuation ("Yes." is no confirmation) while status and briefing are not; an
accepted proposal that classifies a "yes" as approval becomes `approval_response`,
which no branch handles, so that it is answered conversationally; a briefing phrase
has no branch either, as `routes/briefing.py` serves it.

### RoutePolicy and Gateway

`RoutePolicy` translates the classifiers, the policy's hard filter, the score that
ranks what passed it, and the fallback chains; scores are ten-thousandths. A request
of `Gateway` is begun with its candidates, and each of its steps is what happens
between two waits: it offers the request to the next candidate that is available
(`Offer`), calls it (`Call`), and gets an answer, a failure, a malformed answer, or,
for a stream, tokens, the done event, an error or an end that says nothing
(`SilentEnd`). `circuit[i]` is the `GatewayCircuitBreaker` of route `i`, shared by
all requests; time is whether the recovery time has passed (`Elapse`). `record` and
`history` are the observatory's. `Abandon` is what no handler sees: an exception of
another kind, or a consumer that closes the stream.

The policy ranks with what the router gives it, no measured health and no discovered
models. A request of class `cloud_required` never passes the filter for cloud
routes, which is for `cloud_allowed`. The slot of the registry named "ollama" holds
whatever provider is configured; it is modelled as Ollama, whose stream may end
silently.

Seen on the way, and modelled as it is: the classifier looks for voice, then for the
words "long context", and only then for the mark of a system command (`Category`). A
system command that is spoken is therefore a voice conversation, and is served by the
gateway's routes, the cloud's included if the server allows it; `CloudNeedsAuthority` says
so, and the messages of `requests` have the same command typed and spoken.

### StreamBridge

The maker is the worker thread (`produce`, `push`), the reader the coroutine
(`iterate` and the adapter), `put` the one put under way on the loop. `push` looks at
the token before it looks at its put, so a put may be given up and still have been
made; the queue tells marks from items. The iterator is made outside `produce`'s `try`
(`FactoryRaises`), closing it may raise (`CloseRaises`), and a cancellation raised inside
it is no `Exception` (`Abandon`). The providers of this repository are generators, whose
making does not raise and whose closing can only while they are suspended at an item, that
is with the token set; the model is of any iterator.
The token and the reader's task are cancelled together (`CancelTurn`), the task alone, by
the turn's deadline or its caller (`CancelTask`), or the token alone, by another bridge of
the turn (`SetToken`). An error item, or a turn that closes the stream, leaves the
generator of `iterate` at its `yield`: its `finally` runs later, in a task of the loop's
hook for generators (`Drop`, `Finalize`).

So a reader may be stranded at `queue.get`: the thread is over and has pushed no mark,
because it raised where nobody catches it or found the token set, and nobody has cancelled
the reader's task. Nothing in the bridge ends that wait. The deadline of the turn that
runs it does (`Deadline`), which is assumed as fairness; `execute_stream` under a caller
that sets none would wait for ever.

### AgentLifecycle

A request runs the operations of its route in their order (`Script`, in which both
routes are one list of lines, the reset of the demo with one group of lines for each
agent) on a manager without a lock. An operation is split where another thread can come
between: it finds the record, takes it out of its collections, stores it, reports the
event and publishes the record. An envelope is handed to each subscriber on the loop
(`calls`), put in its queue, where the oldest is discarded if it is full (`box`), and
read by its stream; a stream subscribes before it reads its snapshot. The events one
operation reports with the same record stand for one.

### Briefing

`generate` is split at the points where its threads can interleave: the time is
taken, the window is fixed and the collectors are submitted, each collector reads
its source at a moment of its own, the futures are taken in order, each with its
timeout, the executor is joined, and the briefing is recorded; the store appends and
trims in two steps. Sources change meanwhile: what happens is stamped first and
stored later, an agent that ends is in no collection in between. Sections, items,
counts, deduplication and priorities are the code's; wording is not.

### WorldCycle

A run gathers and scores, analyses and suggests, and saves row by row; a commit may
fail and a process may end between any two. A loop without a repository is shared by
any number of runs, a loop with one has a run at a time, and several may share the
database. Scores are hundredths, texts are the set of words the rules look for.
Seen on the way: events of the categories technology and news that should alert are
advised to be ignored unless they are escalated, and a severe event of cybersecurity
that is known to be false still leads to a task of high priority (never to an urgent
suggestion).

### MCServices

`MCServices` extends the five modules above other than `RoutePolicy` and `Gateway`,
that share no state. A behaviour runs one `part` and leaves the others as they began,
so the numbers of states add up instead of multiplying.

## 3. Runs

Every property of a run has a mutant in `PROJECT.json`: a change of one
definition, kept beside it in the module, under which the run finds the property
violated.

| Run | Instance | Shows |
|---|---|---|
| `brain_sessions` | 2 forks, 1 thread each, 2 asks, tools may fail or raise | `ApprovedBeforeRun`, `RunsAtMostOnce`, `RejectedNeverRuns`, `OpenApprovalHasOpenTask`, `SettledTasksStay`, refinement of `ApprovalGate` |
| `brain_session` | 1 fork, all kinds, 2 plans, 3 asks | `WaitingHasApproval`, `WaitingPlanHasApproval`; under fairness `RequestReturns` and the gate's liveness |
| `brain_shared` | 2 threads on one engine, 5 kinds, 2 asks | `EngineAtRest` |
| `sessions_waiting` | 2 forks | violated: an engine waits with no approval of its own open |
| `step_failed` | 1 fork, a tool that fails | violated: a plan step is completed although its task was cancelled |
| `turns` | 4 turns, 2 sessions, 2 permits | `Registered`, `PermitsKept`, refinement of `SessionTurns` |
| `conversations` | 2 calls, 2 contexts of which 1 is retained, 2 threads, 2 sentences | `LiveTurnsApart`, `HistoryStaysCurrent`, `CompletedTold`, `OneSentenceMore` |
| `conversation_ends` | 3 calls of 2 sessions in a given order, 2 contexts of which 1 is retained, 1 permit, 1 thread | under fairness `EveryCallReturns`, `TurnsEnd` |
| `requests` | 2 requests of 5 kinds, a cloud and a local route, threshold 2, 2 attempts, streams of 1 token | `CloudNeedsAuthority`, `CircuitConsistent`, `AttemptsAccounted`, `OutputKeepsRoute`; under fairness `RequestsAnswered` |
| `silent_end` | 1 streamed request, streams of up to 2 tokens | violated: a fallback after visible output |
| `services`, bridge | streams of up to 3 items of 4 kinds, queue of 2 | `ItemsInOrder`; under fairness `BridgeEnds` |
| `services`, agents | 2 requests at a time and no stream, or 2 one after the other and 1 stream; 2 agents each, queues of 2 | `OneCollection`, `ClientCatchesUp` |
| `services`, briefing | 2 callers, 1 record kept, 5 set-ups: overlapping briefings with 1 or 2 dated sources, slow or failing, and all the other sources, connected or not | `NothingUntold`, `ToldOnce`; under fairness `BriefingDelivered` |
| `services`, world | 1 loop with 2 runs, 2 loops that share the database, 4 events | `SuggestionHasAnalysis`, `UrgentIsCredible` |
| `services`, understanding | every utterance, 8 names for actions, 3 listed tools | `DegradesToRules`, `OnlyWordsCommit` |
| `briefing_hangs` | the briefings of `services` with a source that may hang | violated: a briefing is not delivered |

**Bounds.** `MaxAsks` bounds requests that create tasks or save a plan; requests
that only answer or converse are not bounded. Two asks suffice for two approvals
to be open at a time and for two sessions to decide each other's; three let a
session ask again after a rejection and a failure. The runs of several threads leave out
kinds of requests whose steps others take: on the shared engine, `world` has the
transitions of `simple` and `context` and catches what they raise besides, a tool
that fails takes the way of one that succeeds unless it has no driver; the theorem
`EnginesComeToRest` is for all kinds and for both.
Four turns and two permits are what it takes for a permit to be free behind a turn that
was woken and has not resumed, with a newcomer queuing behind it. With one permit, the
second call of `conversation_ends` waits for the first's, of another session, and the
third supersedes the first (`OrderedSpec`); which call comes first and which session it
is of makes no other difference between calls.
Two calls in two contexts of one session with one context retained are what it
takes for an eviction under a live turn, a second context for the same
conversation, and a supersession across the two. Two sentences of three events
separate "one more" from "any number". `HistoryLimit` is reached by the second turn.
Two requests are what it takes for a late report to meet a circuit that another call
has opened or closed; threshold and attempts of 2 make "one failure" differ from
"enough". A queue of 2 for 3 items makes the maker wait for room with an item in hand.
Two agents and queues of 2 fill a subscriber's queue within one script. One kept
record and two callers are what it takes for a trim to lose the other's record. No
behaviour of `Briefing` outlasts the recent window of the first briefing
(`BriefingConstantsOK`; twelve hours in the code), as a fact from before it is meant to
be left out; a set-up wires at least one collector, as the code does. The
feed has an event for each way a severe or interesting one may be doubtful.

**Deadlock.** It is checked in the runs of `BrainEngine`, where another request can
always come. The runs of the turn runtime say `CHECK_DEADLOCK FALSE`: a call is
made once and the number of calls is finite, so the instance stops when all have
returned; that they do return is `TurnsEnd` and `EveryCallReturns`. So do those of
`Gateway` and `MCServices`, whose requests, items, runs and briefings are finitely
many; that they end is `RequestsAnswered`, `EveryBridgeEnds`, `EveryBriefingDelivered`.

**Symmetry** is used in `brain_sessions` (the two sessions with their engines),
`brain_shared` (the threads), `turns` (turns; sessions) and `conversations` (calls;
contexts), which check no liveness.

**Fairness.** `BrainEngine`: a thread that runs a request is scheduled until the
request returns (weak fairness of `Step(w)`; the tools it calls are assumed to
return, as they are called in process with no wait of their own); nobody is
obliged to send another request. Turn runtime: the event loop runs what is
ready, timers fire, a lock that is released passes to its first waiter
(`ConvFairness`); nothing is assumed of context stages, processors and threads, which is
why the deadline is what ends turns. `Gateway`: every call of a provider has a timeout
and a stream is read to its end (weak fairness of `Progress(r)`). `StreamBridge`: the
provider's iterator answers within its own time limit, the loop runs what is ready, the
turn reads on or closes, and its deadline cancels a wait for an item (`asyncio.timeout`
in `execute`). `Briefing`: a request goes on by itself; that its sources answer is
assumed in `services` and not in `briefing_hangs`.

### Disagreements between code and documentation

* `sessions_waiting`: `_get_next_pending_approval` takes the oldest approval of all
  conversations, although `fork_for_conversation` is described as a session-local
  request-state boundary. A "yes" in one conversation decides another's approval,
  and the other engine stays in `WAITING_APPROVAL` with nothing to answer. In one
  conversation alone `WaitingHasApproval` holds (`brain_session`).
* `step_failed`: a tool that answers with a failure cancels its task and returns
  normally, so the plan step is marked completed. Only an exception reaches
  `_mark_plan_step_failed`.
* `silent_end`: `generate_stream` promises a fallback only before visible output. A
  stream of Ollama that ends without a done line goes to the next candidate although
  tokens have been handed on; after an error it would not.
* `briefing_hangs`: a collector that times out becomes an unavailable section, and the
  briefing is still to be delivered. The executor's `with` block waits for the thread
  that hangs, and `generate` with it.

## 4. Proofs

All theorems hold for every value of the constants that satisfies the named
assumptions (`ConstantsOK`, `TurnConstantsOK`, `ConversationConstantsOK`,
`GatewayConstantsOK`, `UnderstandingConstantsOK`, `BridgeConstantsOK`,
`AgentConstantsOK`, `BriefingConstantsOK`, `WorldConstantsOK`), which TLC evaluates in
every run of their modules. A theorem with a further hypothesis names it.

* `TypeCorrect` (`BrainEngineProofs`): `Spec => []TypeOK`. `TypeOK` says among other
  things that no task, approval or plan step index dangles, and this is not
  inductive: that `task[w]` may be used as an index depends on where the request
  is. The strengthening `TypeInv` adds `Shape`, which says for every label what the
  request is and which of the worker's variables are set there, and `TaskShape`, that
  a task of a plan belongs to one of its steps. One lemma per action, on top of
  lemmas about updates of the managers' sequences and about `Goto` and `Return`.
* `GateRefined`: `Checked = TRUE => (Spec => ImplementsGate)`. The inductive invariant
  is `TypeInv /\ GateInv`: an approval that ran is approved and ran once; a worker
  between its approval and the dispatch owns an approved approval that has not run;
  no two of them own the same one. The last conjunct is where `Checked` is needed.
  Every step is then one step of the gate or none.
* `GatedTasksApproved`, `NothingRunsTwice`, `RejectedStaysUnrun`, `OpenApprovalsOpen`,
  `SettledForGood`, under the same hypothesis: what the gate says of approvals, said of
  the *tasks* that run. An approval is created before its task points to it
  (`approval_id` is set by a later call), and in between other threads may have found,
  decided and even executed it. `LinkInv` therefore speaks of the way back, from the
  approval to the task it names, which is there at once: the task of an approval that
  has not run has not run either, and is open unless the approval is rejected; an
  approval is the only one of its task. `HoldingInv` and `DecidingInv` say which task
  and approval belong together for a worker that is about to attach one or has just
  decided one, `ApartInv` that no two workers hold the same task, and `RunInv` what
  each task that ran or is about to run owes to its approval.
* `EnginesComeToRest`: `"raises" \notin Outcomes /\ PlansAsPlanned => (Spec =>
  []EngineAtRest)`, for any number of workers on an engine. `RestInv` says that an engine
  that is not at rest has a worker that carries it on (`Carries`): its next transition is
  allowed from the state the engine is in, or has been let pass already and will be made
  from any state. The last is what two threads that pass the same check need: the one that
  assigns last carries the engine on, whatever the other finds. Both hypotheses are
  needed: the handler of `process_input` answers an exception of a tool and resets
  nothing; and a plan that has a step that needs approval behind one that ran asks for
  it in EXECUTING, from which WAITING_APPROVAL is not allowed, and leaves the engine
  there. No plan of `planner.py` is of that form (`PlansAsPlanned`): `lock_door` comes
  first, and what comes later lists, sums up, drafts or turns off a light. That a draft
  needs no approval is for the risk classifier of another package to say. Plans of a
  model are shown and not carried out.
* `WaitingIsForApproval`: `OneRequest => (Spec => []WaitingHasApproval)`. `AskInv` follows
  the one request from the question to its approval and from the decision to the
  transition that leaves WAITING_APPROVAL. That it needs one request at a time is what
  `sessions_waiting` shows.
* `WaitingPlanIsAsked`: `WaitingPlanHasApproval`, under `OneRequest` and the hypotheses of
  `EnginesComeToRest`. `PlanInv` adds to `RestInv` that nothing raises between the question
  and its approval, nor between the decision and the status it gives the plan
  (`DecisionRight`). With two requests another session may decide the approval before its
  task knows of it, and with an exception the approved flow may leave the plan waiting.
* `TurnInvariant`, `RegistriesExact`, `TurnTypes` (`TurnCoordinatorProofs`).
  `Registered` is not inductive: that a turn which has lost its session's entry can be
  cancelled only follows if its *task* was cancelled too, and that a new turn
  starts clean only if nobody cancels a turn before it starts. `TurnInv` says both.
* `NewestTurnGoesOn`: `TurnSpec => NewestTurnOnly`, the refinement of `SessionTurns`.
  From `TurnInv`, a turn that starts dooms the live turns of its session because there
  is at most one, the session's entry; every ending is one that the abstract turn may
  take.
* `NoPermitLost`: `TurnSpec => []PermitsKept`, for any number of permits. That all are held
  while anybody waits would be false of two or more: a newcomer queues behind a turn that
  was woken and has not resumed, though a permit is free. What is never lost is the chain:
  whoever waits is behind a full house, or behind a woken turn that will wake the next
  when it resumes, or hand its permit on if it is cancelled first. The proof needs that the
  waiters are totally ordered and finitely many (`QueueOrder`, and that only finitely
  many turns ever started), so that there is a first one to be woken; the number of
  holders is a cardinality that each step changes by one at most.
* `ConversationProofs`. `ConvSpec` is not an instance of `TurnSpec`: locks decide when a
  turn starts, and threads publish its events whenever they like. Each step of it is shown
  to be a step of the coordinator or one that leaves the coordinator's invariants
  alone, so that `ConversationsKeepTurns` and `ConversationsKeepPromise` carry registries,
  permits and the refinement over. `LiveTurnsKeptApart`: a turn that has started and not
  ended is first in the line for its context's lock (`LockHeld`). `ThreadRight`: a turn
  has a thread once its context is ready, which says nothing before the turn is running
  or after it has returned, and whose token is cancelled if it outlives its turn.
  `HistoryKept` follows, since only such a turn's thread adds to the exchanges.
  `CompletedInFull` and `OneSentenceAtMost` relate the events published for a turn to
  the place of its thread (`ToldRight`): a sentence is one started and one completed
  event with the tokens between; what was published is two events and three for each
  sentence, less what is left of the one under way, and after the final event there
  is at most such a rest.
* `StreamHandedOn` (`StreamBridgeProofs`): `BridgeSpec => []ItemsInOrder`. The line
  that the invariant keeps (`LineRight`): while the reader goes on, every item of the
  queue and of the put under way is in its place, and none is missing between what was
  taken and what the maker holds.
  It holds whoever sets the token and however the maker ends; a stream that was broken
  off by a cancellation inside the iterator does look like one that ended well
  (`abandoned`), with every item yielded handed on.
* `OneCollectionAtATime` (`AgentLifecycleProofs`): `OneCollection` is true between any
  two steps, although an operation finds, takes out, stores and tells of an agent in
  separate steps and nothing locks. The invariant (`PlaceRight`, `HomeRight`): an agent
  is nowhere until the line of its request that creates it is stored, among the completed
  or failed only after the line that ends it is stored, and no longer among the active
  while its request is about to store that.
* `StreamsCatchUp`: `AgentSpec => []ClientCatchesUp`, for any streams and sizes of
  queues. `PagesRight` keeps the envelopes of a stream in the order of the reports:
  what waits in calls, then in the queue, then what was read, ends with the newest.
  `CalmRight` is about histories without overlap: a client *will know* of an agent what
  the store says of it (`WillKnow`) once it has read what waits, whether it learns it
  from an envelope or from the snapshot, which is read agent by agent while
  requests go on.

* `GatewayProofs`, five theorems. `CircuitsConsistent`: consistency is inductive once
  the circuits are typed, since each report leaves a sound circuit sound, whoever makes
  it and when; `GatewayTypes` comes with it. `CloudIsAuthorized`: the candidates of a
  request are those its message leads to (`Candidates`), and a route among them passed
  the filter. `FailureKeepsRoute`: something was heard of a candidate only in a stream
  whose record says so (`Heard`), and every step that reports a failure ends such a
  request. `HistoryAddsUp`: the strengthening (`Account`) relates the routes announced
  for a request, its entries and where it is; concluding a route adds exactly one
  entry. The counts are cardinalities of sets of positions of the history.
* `NothingFallsBetween` (`BriefingProofs`): `BriefSpec => []NothingUntold`, for any
  number of overlapping requests, any order of the collectors and any size of the store.
  The window of a briefing begins where a returned one ended, or before any fact:
  records, and the copy of them that a request is about to put in their place, are
  times of returned briefings, however many are lost. So each moment before the end
  of a returned briefing is in some briefing's window (`WindowsMeet`). `Owed` says which
  facts a look has to tell, and no step adds to what a look until now owes (`Frame`): a
  fact is stamped at the present, and one on its way when its source is read is late.
  A section names the facts it owes when its collector reads them (`SectionOfFacts`,
  collector by collector) or owns up, and putting the sections in order, dropping
  repeated ids and composing loses none of them (`ComposeFacts`).
* `EachThingOnce`: `BriefSpec => []ToldOnce`. `_deduplicate` keeps the first place of
  each id (`Fresh`, `AllItemsFacts`), and the priorities are those places again,
  weight by weight (`PrioritiesApart`), so neither names a thing twice, whatever the
  collectors found. Lists are put together with `FlattenSeq`, a recursive function;
  what it yields is shown at the least place where it could be wrong (`NatMin`, from the
  well-foundedness of the naturals), as induction theorems that take an operator
  cannot be instantiated. `Picked` stands for the sequences module's `SelectSeq`, which
  the provers cannot expand.
* `RulesDecide` and `WordsCommit` (`ServiceProofs`). The invariant says of each
  place on the way what is still open there: no answer accepted means that the intent
  is the one of the rules, and an accepted one has none of the three types that commit,
  because neither `LegacyIntentType` nor `AllowedActions` yields them.
* `SuggestionsBacked` and `UrgencyIsEarned` (`ServiceProofs`). A loop with a
  repository has a run at a time, so while a run saves analyses each suggestion of its
  loop has its analysis stored or still to be saved, and while it saves suggestions all
  analyses are stored; failures and restarts only stop saving. A doubtful event has a
  relevance of 40 at most, as doubt has the last word in the score, and nothing below
  90 is urgent.
* Four theorems say that nobody waits for ever for lack of a step that is possible,
  which is what the liveness runs need besides fairness. `ENABLED` is out of reach, so each
  spells out the guards of the steps that are fair in its component, as one operator
  beside the theorem, and shows that one of them holds until everything has ended.
  * `BridgeNeverStuck` (`StreamBridgeProofs`, `SomeoneGoesOn`): the maker waits for room
    only while the queue is full, and the reader waits with an empty queue only while the
    maker has yet to push, or for ever but for its deadline where the maker ended without
    a mark (`Stranded`, spelled out in the statement). That needs `EndRight`: the mark of
    the end is the last thing pushed, behind all items, so a reader that took it waits
    for a thread that is over or about to be.
  * `TurnsNeverStuck` (`TurnCoordinatorProofs`, `SomeTurnGoesOn`): who waits for a permit
    waits for a holder (`NoPermitLost`: a full house or a woken turn), and a holder can be
    served or has its deadline ahead. `TokenWithTask` excludes the one turn for which
    neither would be true: granted its permit, its token cancelled, its task not.
  * `CallsNeverStuck` (`ConversationProofs`, `SomeCallGoesOn`): the same with the locks of
    contexts in front of the permits. It rests on `LinesExact`: the line for a
    lock holds exactly the calls of its context that have not returned, each once, so its
    first can take the lock, or has a turn that lives. A call that never
    left its line would shut its context for good.
  * `EachBriefingGoesOn` (`BriefingProofs`, `EachRequestGoesOn`), request by request:
    each of them or one of its own collectors can go on, so requests do not wait for
    one another. `AllThreadsRight` says that a request has a thread for each wired
    collector and no other.

Only model-checked:

* liveness (`RequestReturns`, `ImplementsFairGate`, `TurnsEnd`, `EveryCallReturns`,
  `RequestsAnswered`, `EveryBridgeEnds`, `EveryBriefingDelivered`) and everything that
  needs `ENABLED`, which are out of the prover's reach. For turns, conversations,
  the bridge and the briefing the theorems above leave to TLC only that steps which are
  always possible and fair lead to the end;
* what of `BrainEngine` rests on a hypothesis above, where the hypothesis does not hold:
  its runs are instances that satisfy it, and `sessions_waiting` shows one that does not.

Every invariant and every safety property of a passing run is stated by a theorem.

## 5. What is not modelled

The wording of requests and replies, redaction, logging, audit entries, metrics
and voice style have no influence on the control that is modelled.
`_current_input_metadata` and `_current_input_secret_notice`, attributes of an
engine that a second request overwrites, influence only the response. Numbers of
turn events are left out; events are ordered by publication.

* **Queues.** Nothing in this repository puts an item into the `TurnQueues` of
  `requests/manager.py`, which the voice service uses; the policies of
  `BoundedAsyncQueue` that drop are configured for those only. The blocking policy is
  part of `StreamBridge`.
* **Language models.** HTTP, discovery and `refresh_omniroute_registry`, the preview of
  a route, the pages of catalog and snapshot, telemetry counters (which are added to
  without a lock), release of sentences and redaction in `SafeLLMService`, consensus.
* **Agents.** `archive_agent` and `terminate_agent`, which nothing calls, narration,
  names, and the list of recent events, which only the read routes show.
* **Briefing.** Flags a user sets on a recorded briefing, greeting, spoken summary.
* **World intelligence.** The LLM-assisted engine with its validator, and the queries
  of the repository.
* **Planning.** The steps that `planner.py` finds for a goal; `BrainEngine` takes any
  plan. The orchestrator's agent team, graph and events, of which the code reads no
  more than the number.
* **Swarm and agent runtime** pass messages within one request, without state that
  outlives it; their effect on a plan step is part of `Dispatch`.
* **Ports, application and routes** are wiring, where they are not part of a module
  above.

## 6. Plan

The order was that of what matters most: the engine and its gate; turns and
conversations; the gateway; the bridge; agents; briefing and world intelligence; the
understanding of a request. All of these are modelled. What is left:

* the LLM-assisted engine of world intelligence with its validator, which stands beside
  the rules of `WorldCycle` as the assisted resolver does beside those of
  `Understanding`;
* the routes of the language models (`routes/llm.py`) with the refresh of the registry
  while requests are under way;
* for `BrainEngine`, the engine's waiting with several sessions: a pending approval is
  everybody's, so that any second session may decide it, overlapping or not
  (`sessions_waiting`), and `OneRequest` cannot be weakened to requests that do not overlap.
  What holds instead would be a property of approvals of one's own session, which the
  code does not have;
* for `Briefing`, a bound on how late a fact can be: one that was on its way when its
  window was read may be told by no briefing, which is why `NothingUntold` leaves
  `late` facts out.
