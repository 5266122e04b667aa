# Asante, verified: a TLA+ development beside the multi-agent property manager

Asante lets an authenticated operator ask a team of language-model agents to
look after a property: read reservations, open maintenance orders, write to
guests, give service credits. The agents are not trusted. Whatever they ask for
passes a delegation check and a policy (the Ruhusa library), and credits above a
limit wait for a human. This directory states what that machinery promises and
checks it: with TLC on small instances, with TLAPS for every value of the
constants.

All paths below are relative to `src/src/asante_secure_multi_agent/` unless they
start with `src/`.

## 1. Inventory

| Component | State it keeps | Operations | Talks to |
| --- | --- | --- | --- |
| Approval store (`approvals/store.py`) | rows in SQLite: status, subject, decider, stored result; one lock | `create_credit_request`, `find_credit_request`, `require`, `decide`, `mark_executed` | called by endpoints, executor, the request tool |
| Approved-credit executor (`tools/approved_credit.py`) | none | `execute`: status gate, admission, revalidation, provider call, `complete` / `mark_unknown`, `mark_executed` | Ruhusa, ledger, store |
| Approval endpoints (`main.py`) | none; plain functions, so a thread of the pool each | approve, deny, list, get | store, executor |
| Credit ledger (`tools/guest_credit.py`, `GuestCreditLedger`) | list of credits, map of idempotency keys, in the process | `issue` | called by both credit paths |
| Automatic credit path (`tools/guest_credit.py`, `reliability/`) | none | `issue_credit`: admission, revalidation, bounded retry, completion | Ruhusa, ledger |
| Delegation and policy (`security/`) | tool registrations, policy rules, the grant and execution stores of Ruhusa | issue a chain, decide, begin, revalidate, complete | called by every tool |
| MCP boundary (`mcp/`, `context.py`) | the `TrustedTaskRegistry` of running tasks | `register`, `require`, `unregister`; one handler per tool; clients with a filter, a time limit and retries | agents, tools |
| Agent run (`main.py`, `agents/`) | one task and its five chains per run | `run_agent`, `dev_issue_credit` | registry, MCP clients |
| Reservation reads (`tools/reservation.py`, `cache/`) | TTL cache under no lock | authorize, look up, fetch, put; eviction on read | Ruhusa, provider |
| Guest operations (`tools/guest_operations.py`) | work orders and outbox with keys, in the process | maintenance order, guest message, request of an approval | Ruhusa, approval store |
| Telemetry bridge (`telemetry/`) | spans of running traces, under a lock | trace and span start, end, shutdown | the agents SDK |
| Identity (`identity/`) | a static table | verify a token, look a workload up | endpoints |
| Release gate (`evals/`) | a report | run scenarios, compare with thresholds | everything, in tests |

How they interact. One process runs an event loop and a thread pool.
`run_agent`, the MCP clients, the MCP server and `dev_issue_credit` share the
loop; no tool handler awaits, so a tool call runs to its end before the loop does
anything else, and even the retry loop's `time.sleep` blocks it. The approve and
deny endpoints, `dev_get_reservation` and the listings are plain functions and run
in pool threads, at the same time as each other and as the loop. Approvals are on
disk and outlive the process; the ledger, the registry, the cache and the stores
of guest operations do not.

What is hard, and what makes each component correct:

- *Approvals*: threads race to decide and execute one record; a record is used
  after the lock that protected it was released; the process stops between the
  credit and the row that says so. Correct when a credit exists only for a record
  an approver approved, once per logical credit, when decisions are final, when
  replies are true, and when nothing gets stuck.
- *Automatic credits*: a late answer makes the client send a call again; the
  provider fails before, after or at an unknown point of its write; authority ends
  at any time. Correct when repetition never credits twice, an answer is true, a
  call that outlives its run has no effect, and stale authority is of no use.
- *Delegation and policy*: amount bands must meet at 25 and 100 with neither gap
  nor overlap, below the delegated limits.
- *Reservation reads*: a hit never saves the authorization; an eviction must not
  drop a newer entry; a delayed reader must not store an older one.
- *MCP boundary*: a call acts with the chain that belongs to its tool, in its run and
  under its specialist's label. A late one has no effect; one that is entitled is
  not refused.
- *Guest operations*: orders and messages requested again must be deduplicated, and
  only those: whoever is told of an order is told of the one asked for.
- *Telemetry*: every span that is started is ended once, and stands under its parent,
  whatever the order of callbacks and shutdown.
- *Release gate*: passes when every threshold is met; its attacks fail because they
  attack.

`PROJECT.json` lists every component with its status, and every hazard at its
line with the properties that watch it.

## 2. Modules

| Module | What it is |
| --- | --- |
| `ApprovalLifecycle` | abstract specification of an approval: requested, decided once, credited at most once, executed |
| `ApprovalWorkflow` | store, endpoints, executor and ledger, threads and restarts; refines `ApprovalLifecycle` |
| `MCApprovalWorkflow` | its instances for TLC |
| `ApprovalWorkflow_proofs` | its theorems |
| `CreditExecution` | an automatic credit: run, registry, MCP client, tool, bounded retry, provider |
| `MCCreditExecution` | its instances for TLC |
| `CreditExecution_proofs` | its theorems, `CreditContract` included |
| `OperationContract` | abstract specification of the tool boundary: an operation at most once, in its run, under a permit, reported only if performed |
| `CreditContract` | `CreditExecution` implements it |
| `Authorization` | workloads, scopes, delegation chains, tools, policy rules, and the decision on a request, as operators |
| `Authorization_proofs` | which amounts each chain allows, for all limits and all ended grants; what no chain allows, for all requests |
| `AgentRun` | the MCP boundary with all clients, handlers and tools, and the stores of guest operations |
| `AgentRun_proofs` | its theorems |
| `AgentRunContract`, `AgentRunContract_proofs` | `AgentRun` implements `OperationContract` |
| `ReleaseScenarios`, `ReleaseScenarios_proofs` | scenarios of the release gate against `Authorization`, and its thresholds; its theorems |
| `MCAgentRun` | the instance of `AgentRun` and `ReleaseScenarios` for TLC |
| `TelemetryBridge`, `TelemetryBridge_proofs` | the trace processor, threads and shutdown; its theorems |
| `MCTelemetryBridge` | its instance for TLC |
| `ReservationCache` | secured reads over the TTL cache, by several threads under a clock |
| `MCReservationCache` | its instances for TLC |
| `ReservationCache_proofs` | its theorems |

`AgentRun` extends `Authorization` and `ReleaseScenarios` extends `AgentRun`. The
two contract modules instantiate `OperationContract`, as `ApprovalWorkflow` does
`ApprovalLifecycle`.

Definitions whose comment begins with *Mutant* are plausible bugs of the
definition that follows them. Nothing uses them; each shows that a property
notices the bug.

### ApprovalWorkflow

The rows are `status`, `subject`, `decidedBy`, `stored`; the provider is
`credits`, `keys`; each pool thread has a program counter, the call it serves, the
record it holds (`seen`), the executor's result and its answer. A step is the code
between two points where another thread may see or change shared state: a locked
section of the store, a Ruhusa call, an access to the ledger.

| Action | Code |
| --- | --- |
| `RequestCredit` | `request_guest_credit` and `create_credit_request`: search and insertion under the lock |
| `TakeCall` | entry of approve or deny, with the scope check (403) |
| `Require` | approve's first read: 404, or the replay of an executed record |
| `Decide`, `Reread` | `decide`: the update under the lock; the record it returns is read after the lock is released |
| `Execute`, `Revalidate` | the executor's status gate with admission, and its revalidation |
| `Lookup`, `Record` | `issue`: the key is looked up, then the credit appended and its key recorded |
| `MarkExecuted` | `complete` succeeded; `mark_executed` under the lock |
| `ProviderRefuses`, `FailAfterIssue` | exceptions that end in a 500, before or after the credit exists |
| `Refresh` | the final read and the answer |
| `Crash` | a restart, or `lifespan` closing the database under running threads |

Two constants choose the provider. `LedgerAtomic` says that it tests and records a
key in one step, `LedgerDurable` that it survives a restart. `GuestCreditLedger`
does neither; the contract the executor needs asks for both. Ruhusa's verdicts and
failures are choices of the environment.

### CreditExecution

`StartRun` and `EndRun` are `run_agent`'s registration and its `finally`;
`EndAuthority` is a revocation or an expiry, at any moment, the retry loop's sleep
included. `CallTool`, `Resend` and `GiveUp` are the MCP client; `wire` holds
requests sent and not delivered, which may arrive in any order, after the client
gave up, or after the run ended. `Deliver` is the tool's entry with the registry
look-up and admission; `DirectCredit` is `dev_issue_credit`. `Revalidate`, `Issue`,
`Transient`, `Backoff`, `TransientExhausted`, `UnknownOutcome` and `Settle` are the
steps of `issue_credit`. While the tool runs (`pc # "idle"`) only it and
`EndAuthority` can move, since the loop is blocked. A request never delivered is
one that was lost. `ProviderKeyed` says whether the provider honours keys.
`applied` is history: the credits the current invocation caused.

### ReservationCache

A reader is a thread inside `get_reservation`: the event loop for the Reservations
specialist, a pool thread for each `dev_get_reservation`. The cache has no lock, so
a step is the code between two accesses to what others may change.

| Action | Code |
| --- | --- |
| `Begin`, `Revalidate` | admission (`begin`) and `revalidate_before_execution` |
| `Get`, `Check`, `Evict` | `InMemoryCacheStore.get`: the entry is looked up, its time checked, an expired one popped |
| `Fetch`, `FetchFails` | the provider's answer, or its exception |
| `Put` | `InMemoryCacheStore.put` |
| `Tick`, `EndAuthority`, `Change` | the clock, Ruhusa's grants, the reservation system behind the provider |

`complete()` ends each granted read and may refuse. It touches nothing another
reader sees, so it belongs to the step before it. A reservation has versions, 0
meaning that there is none. Three variables are history: `since` (when a version
came to be), a value's `fetched`, and `late` (authority had ended before the
read was revalidated). The in-memory provider never changes a reservation; `Change`
stands for the external system that `ReservationProvider` abstracts, without which
nothing could be stale.

### Authorization

Nothing here has state: a chain is a sequence of grants, a request names a
principal, a task, an action, an amount and a tool, and `Authorize` decides. Scopes,
chains, tools, limits and rules are those of `security/`, one operator for each
function. How Ruhusa combines them (`ChainValid`, `Covers`, `Within`, `Matches`,
`PolicyEffect`) is external and taken from what the code relies on. The chain leads
from the task's human to the executing principal, is for this task and alive, never
widens and covers the request; the first rule that matches decides, since otherwise
the rule that asks for approval up to 100 dollars would hold up the small credits
that precede it. Amounts are in tenths of a cent, fine enough for what lies around
25 and 100 dollars and around half a cent. Grants that ended are a parameter.

### AgentRun

| Action | Code |
| --- | --- |
| `StartRun`, `EndRun` | `run_agent`: five chains (`Context`) and `register`; `unregister` in the `finally` |
| `CallTool`, `Resend`, `GiveUp` | the MCP clients: `ToolFilter` is what each shows, `Label` what it writes into the metadata |
| `Deliver` | the handler: `_require_specialist`, `require`, the chain (`TrustedChain`), the checks of the arguments (`WellFormed`), admission |
| `Revalidate`, `Perform`, `PerformFails`, `Settle` | `_execute`: revalidation, the operation, its exception, `complete` |
| `EndAuthority` | a grant is revoked or expires, at any moment |

`done` is the work orders, the messages, the credits and the requests for approval
together, in the order they came into being, each with its key, what the provider
stored, and (as history) the call that made it. `receipt` is history too: the entry a
call was told of. A text is a sequence of lines and a mark for surrounding blanks,
since that is what the keys depend on: `strip` removes the blanks, and a key joins
its parts with line breaks. `Cents` is `f"{amount:.2f}"`; how a float half way
between two cents prints is in the set `TiesUp`, and the theorems hold for every
such set. A credit is performed in one step here: its retry loop is in
`CreditExecution`, the row behind a request for approval in `ApprovalWorkflow`, the
cache behind a read in `ReservationCache`.

### TelemetryBridge

A mirror is the OpenTelemetry span of a trace or span of the SDK. A callback starts
and ends its mirror outside the lock, so each locked section and each start and end
is a step: `TraceStart`, `TraceInsert`, `TracePop`, `SpanLookup`, `SpanStart`,
`SpanInsert`, `SpanPop`, `End`. `Shutdown` clears both dictionaries under the lock
and `ShutdownEnd` ends what it took, spans first. `under` is what a mirror was
started under.

### ReleaseScenarios

Of the 24 scenarios of `evals/runner.py` sixteen are decided by decisions of Ruhusa on
chains: ten of normal work and six attacks, one of which makes four attempts. Six of
them go on with what the first call left: `Execute` is a second execution of an
approved credit, or the execution of a denied one, and `ReadBy` a second read with its
look-ups and provider calls counted. `Results` are their `EvalResult`s and
`GatePasses` is the comparison with `EvalThresholds`; the pass rate of no results is
zero. For each attempt of an attack there is its twin without the attack. The scenario
`delegation_limit_bypass_blocked` asks for 40 dollars and asserts only that it is
blocked. The chain's limit blocks it, but without that limit the policy would, by
asking for approval: that scenario does not guard the limit, `AutomaticBand` does.

## 3. Runs

| Run | Instance | Shows |
| --- | --- | --- |
| `approval_contract` | 2 approvals, 2 subjects, 2 threads, an approver and a clerk, 2 faults, 2 restarts, an atomic and durable provider | `CreditOnlyAfterApproval`, `OneCreditPerSubject`, `ExecutedMeansCredited`, `HonestReplies`, `DecisionsAreFinal`; refinement of `ApprovalLifecycle`; the inductive invariant |
| `approval_deployed` | 1 approval, 3 threads, 1 fault, 1 restart, `GuestCreditLedger` as it is | `DuplicatesOnlyByOverlap`: at most one credit per thread that overlapped (`CreditOnlyAfterApproval` and `DecisionsAreFinal` hold of this provider too: section 4) |
| `approval_liveness` | 1 approval, 2 threads, 2 faults, 2 restarts, fair | `ThreadsNeverStuck`: no thread is ever without a next step; `StoppedOnlyByFailure`: an approve call that leaves its record approved was stopped by a failure of its own time; every call is answered; an approved credit is executed in the end |
| `approval_double_credit` | 2 threads, `GuestCreditLedger` as it is | violated: `OneCreditPerSubject` |
| `approval_conflict` | 2 threads, atomic provider | violated: `ConflictOnlyIfDenied` |
| `credit_execution` | 1 run, 2 calls, 1 client retry, 2 attempts, an allowed and a forbidden amount, fair | `OneCreditPerKey`, `HonestAnswers`, `NoCreditAfterTheRun`, `RevokedIsFinal`, `CallsNeverStuck`, `EveryToolCallAnswered`; refinement of `OperationContract`; the inductive invariant |
| `agent_run` | 1 run, all four clients and the legacy one, 2 calls, 1 client retry, 12 requests (orders that differ in one text, one with the key of another, a message with the key of one for another reservation, amounts at and around the limit, a blank message), a grant that may end | `LeastPrivilege`, `AnswersKeepTheirRequest`, `AmountsAreKept`, `RefusedOnlyWithReason`, `EveryCreditHasOnePath`, `ReleaseGatePasses`, `AttacksFailForTheirReason`; refinement of `OperationContract`; the inductive invariant |
| `telemetry_bridge` | 2 traces, 3 spans, one nested, a shutdown, fair | `OneOwner`, `Lineage`, `EveryMirrorEnds` |
| `credit_unkeyed` | 2 runs of 1 call, 3 attempts, a provider without keys | `OneEffectPerInvocation`, `OneCreditPerRequest`: the retry loop is safe by itself, and a second credit takes a second request |
| `credit_stale_permit` | 1 run, 1 call | violated: `AttemptsAreAuthorized` |
| `reservation_cache` | 2 readers, 1 task, 2 reservations of 2 versions, TTL of one tick, 2 ticks | `EndedAuthorityReadsNothing`, `GenuineDisclosure`, `DisclosureIsRecorded`, `BoundedStaleness`; the inductive invariant |
| `cache_live_eviction` | 2 readers, 1 reservation | violated: `OnlyExpiredEvicted` |

Why the bounds are enough. The races of an approval are between two calls for one
record; two threads exhibit each, and a third shows that the bound in
`DuplicatesOnlyByOverlap` is one credit per thread and not two in all. Two approvals
and two subjects let a subject be requested again after a decision. A fault before and
one after the credit, around a restart, is the longest recovery the code
distinguishes; a further one repeats it. For automatic credits, two calls of one run,
each sent twice, give the model's repetition and the client's at once, in every order
of delivery; two attempts are the default budget (`ASANTE_CREDIT_MAX_ATTEMPTS`) and a
single client retry is the default too. Runs do not share anything but the provider,
whose keys include the task. `MaxFaults`, `MaxCrashes`, `MaxCalls` exist to bound the
state space; `MaxRetries` and `MaxAttempts` are parameters of the code. For the cache,
the races over an entry are between two readers, one that evicts or fills and one that
reads; two reservations can be confused, a third adds nothing; a second version makes
the first stale; with a TTL of one tick, two ticks let an entry expire, be filled
again and expire again. `MaxTime` and `MaxVersion` only bound the state space. For
`AgentRun` every property relates at most two calls and two entries of one run, and
every pair of requests occurs in both orders, each sent up to twice and delivered late
or never. The one grant that may end is the specialist's of the credit chain, so that
the other chain of the same specialist stays alive; runs have nothing in common that a
property could confuse, and the theorems cover any number of them. The two scenario
properties look at no state but whether a run exists: TLC evaluates them, for the
constants of the code. For the bridge, a nested span, its parent and a span of another
trace are every relation two items can have. `Asks`, `MaxCalls` and `Endings` are
bounds; the theorems of section 4 are free of all these bounds.

`CHECK_DEADLOCK FALSE` is set for `CreditExecution` and `AgentRun`, where a run ends
and is never started again, and for `TelemetryBridge`, where every span is started
and ended once: the behaviour stops.

Fairness. `ApprovalWorkflow` assumes that a pool thread which took a call is
scheduled until it answers (`Scheduled(w)`, weak fairness of `Serve(w)`: the code has
no wait besides the store's lock, which is held for one step), and, for
`ApprovedIsExecuted` only, that an operator who still sees an approved record
tries again (`Persistent(a)`, strong fairness of `Retry(a)`: other calls may keep
taking the threads). The code has no background executor, so without that operator an
approved credit may indeed stay unexecuted. `CreditExecution` assumes that the
synchronous tool runs on (`ToolRuns`, weak fairness of `Serve`) and that a waiting
client times out (`TimesOut(c)`, weak fairness of `Resend` or `GiveUp`, per call, since
each has a clock of its own). Deliveries, faults, the
model and the end of authority are not fair. `TelemetryBridge` assumes that a
callback and a shutdown that began return (they wait for the lock only, and never
while they hold it), and that the SDK ends each trace and span it started, which it
does in a `finally` or the exit of a context manager; no trace, span or shutdown need
ever start. `ReservationCache` and `AgentRun` have safety properties only and assume
none.

### Findings

1. `GuestCreditLedger.issue` (`tools/guest_credit.py:55`) looks a key up and
   records it without a lock, and approve calls run in threads: two overlapping
   calls credit a guest twice, where `tools/approved_credit.py:48` says exactly
   once (`approval_double_credit`).
2. An approve call whose first read saw a pending record, overtaken by another that
   executes it, is answered 409 instead of being replayed (`main.py:596`), where
   `src/README.md:232` says that repetition is idempotent (`approval_conflict`).
3. The automatic path revalidates before the first attempt only. Authority that
   ends during the backoff does not stop the next attempt
   (`reliability/credit.py:91`), where `src/README.md:78` says that Ruhusa is
   checked immediately before protected execution (`credit_stale_permit`).
4. `InMemoryCacheStore.get` pops what is stored under the key by then
   (`cache/store.py:67`), so a thread that looked at an expired entry removes the
   fresh one another thread has put, where `cache/store.py:58` says that it evicts
   expired entries (`cache_live_eviction`). It costs a second provider read and
   never a wrong answer, as the other properties of the module show.

## 4. Proofs

`tlapm` on the eight modules `*_proofs.tla` checks everything below, for all sets,
bounds and budgets. They assume only the named
assumption on the constants (`ConstantsAssumption` of each module) and what a
theorem's own ASSUME says.

In `ApprovalWorkflow_proofs`: `TypeCorrect`, `Inductive`, `Approved`
(`CreditOnlyAfterApproval`), `Final` (`DecisionsAreFinal`) and `Overlap`
(`DuplicatesOnlyByOverlap`) hold for every provider. `OneCredit`
(`OneCreditPerSubject`) needs an atomic one, `Executed` and `Honest` a durable one,
and `Refinement` (`ImplementsLifecycle`) both.

The properties are not inductive by themselves. That a credited record is approved
does not say that a thread about to credit it found it approved, and that remains
so. `IndInv` adds, for each point of a thread's program, what it knows of its record
and which later changes cannot falsify that: from `execute` on, the row is approved
or executed for good; at `settle` the credit exists; `seen` is `approved`, or
`executed` and then so is the row. `StoreInv` adds that two rows never share a
subject, `LedgerInv` that keys and credits agree. There is one lemma per group of
actions. `Overlap` rests on an invariant of its own: each credit beyond the first
uses up a thread that passed the look-up before the key was recorded, counted with
the cardinality theorems of the library.

`OneThreadKeepsPromises` is the other side of findings 1 and 2: where one thread
serves the endpoints, `OneCreditPerSubject` and `ConflictOnlyIfDenied` hold with
every provider, the ledger as it is included. So both take two threads, and the two
violation runs show that two are enough.

`CallsAnswered` (`EveryCallAnswered`) is a liveness theorem, for any number of
threads and approvals: if the pool schedules its threads and none is ever left
without a next step, every call is answered or dies in a restart. `CallMoves` is the
argument: a call never goes back, whatever other threads, failures and restarts do,
and a step of its own thread takes it on; `StepEnds` and `CallEnds` make liveness of
it. That no thread is without a next step (`ThreadsNeverStuck`) says ENABLED, of
which the prover knows nothing. So it is a hypothesis of the theorem, and the run
`approval_liveness` checks it as an invariant.

`ApprovalsComplete` (`ApprovedIsExecuted`) goes on from there, again for any number of
threads and approvals: every approved record is executed in the end. Its hypotheses
besides `FairSpec` are

- `ThreadsNeverStuck`, as above, and `RetryPossible`: a free thread can take the call
  of an operator who approves an approved record again. It is what the guards of
  `TakeCall` and `Retry` say, said with ENABLED. That the call, once taken, is not
  turned away is no hypothesis but the theorem `StaysOpen`;
- `FailuresCease`: from some moment on nothing fails and nothing restarts. In the model
  the bounds `MaxFaults` and `MaxCrashes` make it so, which takes an induction over a
  number to see. Of the program it is what has to be assumed, as an application that
  is restarted for ever executes nothing;
- the weak fairness of the threads a second time, in the form `[]AllScheduled`. It says
  no more than `FairSpec` does, since weak fairness that holds once holds for ever, but
  the prover cannot take the box out of the quantifier.

`StaysOpen` (`StoppedOnlyByFailure`) is what keeps an approved record from being stuck
after a failed execution. `decide` refuses a record that is decided, but not one that
is decided the same way; so an approve call that ends, or is blocked, with its record
still approved does so in the very step of a failure, a denial or a restart.

The argument of `ApprovalsComplete`: while the record is approved some thread is free
again and again (`CallsAnswered`), so by `Persistent(a)` the operator's attempts never
stop. An attempt after the last failure goes, step by step, all the way to
`mark_executed`, and other threads can only overtake it (`OwnStep`, `OthersStep`,
`TryLeads`, `TryEnds`). A record that left the state `approved` can only have been
executed (`StaysApproved`).

In `CreditExecution_proofs`: `TypeCorrect`, `Inductive`, `OneEffect`
(`OneEffectPerInvocation`), `Honest` (`HonestAnswers`) and `WithinTheRun`
(`NoCreditAfterTheRun`) hold for
every provider, and `OneCredit` (`OneCreditPerKey`) for one that honours its keys.
`IndInv` has three parts. `ClientInv`: only running runs are registered, requests on
the wire have a definite credit, answers are true. `ToolInv`: the position of the
tool, the attempt counter and the run's phase fit together, and nothing was applied
before `settle`. `ProviderInv`: a key is known exactly when its credit exists, which
is why a key known to a provider cannot lead to a second credit.
`OneCreditForARequest` (`OneCreditPerRequest`) says what is left when keys do not
help: with any provider a logical credit is issued at most as often as a request for
it was sent. The invariant it needs, `RequestInv`, sharpens the bound to the requests
that were sent, have arrived, and are not the one the tool is still taking to the
provider; a request joins that set when its credit is issued or refused, and never
leaves it. TLC was run on `RequestInv` with both kinds of provider before it was
proved.

`ToolCallsAnswered` (`EveryToolCallAnswered`) is the liveness of this path, for the
budgets `reliability/config.py` accepts (`ConfiguredBudgets`: one to four attempts, up
to three client retries). `StepsLeft` counts the steps that separate the tool from its
answer, at most nine, and every step of the tool lowers it (`ToolAdvances`,
`OnlyTheTool`); so the loop is free again and again (`ToolEnds`), and a client that
waits sends again at most three times and then gives up (`WaitEnds`). There may be any
number of runs and calls. Endless traffic could starve a client that is weakly fair,
since its timer has no chance while the tool blocks the loop, so the theorem asks for
strong fairness of a timeout (`TimesOutAgain`): asyncio runs its timers in the order
they are due, and one that is due is run when the loop is free. With finitely many
runs weak fairness is enough, which is what the run assumes. `CallsNeverStuck` is the
hypothesis about ENABLED, and the run checks it.

In `ReservationCache_proofs`: `TypeCorrect`, `Inductive`, `NothingWithoutAuthority`
(`EndedAuthorityReadsNothing`), `Disclosed` (`GenuineDisclosure`), `Recorded`
(`DisclosureIsRecorded`) and `Staleness` (`BoundedStaleness`), for any number of
readers, tasks, reservations and versions and any TTL. The idea of `IndInv` is that
a value is genuine wherever it is held: in the cache, in the entry a reader has in
its hand, in an answer. Genuine means that it is a version its reservation had when
it was fetched, and that every later version came to be after that. `History` is the
lemma that the environment never rewrites the past, so that what is genuine stays
so; `EntriesStay` the one that nobody else's step disturbs an entry. `Staleness` then
is arithmetic: a live entry was created less than a TTL ago, and a version that
replaced it is not older than its fetch. The bound is therefore the TTL plus the
time between fetch and put, and not the TTL alone: a delayed reader stores an old
value over a newer one, with a full TTL. TLC finds the bound tight, as one tick
more in `Expired` breaks it.

In `Authorization_proofs`: `AutomaticBand`, `RequestBand`, `ApprovedBand` and
`SpecialistBand` say of each chain the code issues for exactly which amounts and
ended grants it allows its action, for every task, amount and limit. Each has two
halves: the chain is valid (`IssuedChainValid`, `ExecutorChainValid`), and the rules
allow (`PolicyAllows`, from `MatchingRules`, the set of rules a request matches, and
`FirstRuleDecides`). Three theorems say what no chain is good for, for every request
there can be, forged, replayed and exchanged ones included: `OnlyTheDelegatedAct` (a
chain the application issued lets through, or passes on to a human, only requests of
its specialist, in its task, for its human, within both scopes, while both grants
live), `WidenedChainIsDead` and `RulesCapCredits` (whatever chain is presented).

In `ReleaseScenarios_proofs`: `GateIsStrict`, for every sequence of results, that the
thresholds of a release let it pass exactly if there is a result, every one has passed
and none is of an unauthorized effect; `ReleaseGateHolds` (`ReleaseGatePasses`) and
`AttacksHaveTheirReason` (`AttacksFailForTheirReason`). These two do not evaluate the
scenarios. They follow, scenario by scenario, from the bands and from
`OnlyTheDelegatedAct` and `WidenedChainIsDead`: each attack is blocked by
the law it attacks.

In `AgentRun_proofs`, for any number of runs and calls and any texts and amounts:
`Inductive`, `TypeCorrect`, `SpecialistsKeepToTheirTools` (`LeastPrivilege`),
`AnswersAreForTheRequest` (`AnswersKeepTheirRequest`), `AmountsKept`
(`AmountsAreKept`), `NothingRefusedInVain` (`RefusedOnlyWithReason`),
`CreditsHaveOnePath` (`EveryCreditHasOnePath`) and, for every integer amount and not
only those of an instance, `OnePathForEveryAmount`. `IndInv` again has three parts:
what the clients know, what the tool knows at each step of the request it serves, and
what each entry of `done` tells about the call that made it; above all, that an
entry's key is the key of its call's request, and that no two entries share one. The
answers then follow from what a key tells apart: `KeyTellsTexts` (the lines of a key
determine the reservation and the texts when `OneLine` holds) and `SameCents` (two
amounts with the same cents differ by at most a cent). `RefusedOnlyWithReason` is not
implied by that invariant. It needs `ReasonInv`: a running run is registered, and only
calls of a running run wait, so that no answer to a waiting call can be
"unavailable".

`BoundaryKeepsContract` (`AgentRunContract_proofs`) and `CreditKeepsContract`
(`CreditExecution_proofs`, for a provider that honours its keys) show that both tool
paths implement `OperationContract`, step by step, from their inductive invariants.
The mapping: an operation is an idempotency key, it is permitted while the tool is
between its revalidation and the provider's call, its count is the number of entries
with its key, and a call is told when it has its answer. A permit may outlive the
authority it was given under, which is what finding 3 is about.

What the contract comes to is proved from the contract alone and then holds of what
implements it. For `AgentRun`: `OperationsOnce` (`OnceAndTruly`: every operation at
most once, and nobody is told of one that was not performed), `NothingAfterTheRun`
(`EndedRunsRest`) and `RevokedIsNeverPerformed` (`RevocationHolds`). The last is the
one that no invariant states: from any moment at which an operation has neither been
performed nor permitted, if its run has no authority for it from then on, it is never
performed, however late or often a request for it arrives. Having no authority from
the start is the special case of an operation outside the mandate.
`RevokedIsNeverIssued` (`RevokedIsFinal`) says the same of `CreditExecution`, whose
other consequences are `OneCredit`, `Honest` and `WithinTheRun`.

In `TelemetryBridge_proofs`, for any traces, spans and nesting: `BridgeInv`,
`MirrorsHaveOneOwner` (`OneOwner`), `MirrorsKeepLineage` (`Lineage`) and `MirrorsEndOnce`:
a mirror that has ended is never ended again. `StepInv` ties the position of an
item's callbacks to the dictionary, callback or shutdown that owns its mirror.

What stays with TLC:

- `ThreadsNeverStuck`, `RetryPossible` and `CallsNeverStuck`, the hypotheses of the
  liveness theorems, since the prover has no rules for ENABLED. The first and the last
  are invariants of a run; `RetryPossible` follows by reading `TakeCall`.
- `ApprovedIsExecuted` without the hypothesis that failures cease, and
  `EveryToolCallAnswered` under the weak fairness of `FairSpec` and for larger budgets:
  there the argument counts (faults that are left, requests that may still be sent) and
  needs an induction over a number.
- `EveryMirrorEnds`: a trace taken by `shutdown` waits until the last span that was
  taken has ended, an induction over a finite set.
- The four violated properties, which are counterexamples.

## 5. What is abstracted and what is not modelled

- Reasons, notes, timestamps and the schema are left out. In `ApprovalWorkflow` and
  `CreditExecution` a logical credit is a model value; amounts, and the rounding of an
  amount in the idempotency key (`reliability/credit.py:67`), are in `AgentRun`. They
  are integers, tenths of a cent: a float that is not one of these lies between two.
- The key of an order or a message joins the reservation, which is any text, and the
  texts with line breaks (`tools/guest_operations.py:39` and `138`), and `Key` does the
  same. Two different requests of one run can therefore share a key, and the second is
  answered with the first: two orders if the category of one, or two messages if the
  reservation of one, runs over several lines (`MCAsks` has a pair of each).
  `AnswersKeepTheirRequest` is stated, and proved, for requests whose reservation, and
  the category of an order, have one line.
- A span whose mirror is inserted after `shutdown` cleared the dictionaries
  (`telemetry/bridge.py:90`) is not ended by `shutdown` but by its own end, if the SDK
  still calls back. `EveryMirrorEnds` holds because the SDK does; the processor alone
  would not ensure it.
- The legacy MCP client (`mcp/client.py:116`) is used by no agent of the application.
  `AgentRun` has it as a client all the same, since the server cannot tell.
- Ruhusa, the agents SDK, FastAPI and SQLite are outside the repository. Verdicts are
  nondeterministic (`ApprovalWorkflow`), the conjunction of live authority and an
  allowed amount (`CreditExecution`), or computed from chains and rules
  (`Authorization`); committed rows survive; `complete` may refuse.
- The agents are prompts: a model may call any tool it is shown, at any time.
- The two credit paths share the ledger but not its keys, and no property relates
  their credits, so the modules are not composed.
- `delete` and `clear` of the cache are called by nothing in the application; its
  count of look-ups only feeds diagnostics. Values are copied in and out, so a value
  is immutable in the model.
- Authority that ends after the revalidation of a read, but before its answer, does
  not stop the disclosure: Ruhusa's check and the answer are not one step. The
  property is about authority that ended before the check.
- Human identity (`identity/human.py`, `dev_token.py`): the verification of a token is
  sequential, keeps no mutable state, and its content is the JWT library's. Its
  results appear as the operators of `ApprovalWorkflow` and the `initiated_by` of a
  task.
- Release gate: the scenarios about retries and a repeated credit are behaviours of
  `CreditExecution`, where they are checked in every interleaving; those about
  schemas, the version in cache
  keys and prompts compare texts; writing the report is I/O.
- Agents: prompts and wiring. What a model does with an answer, and what a specialist
  tells the supervisor, is free.
- API models and examples (data), metrics and telemetry set-up (counting and
  configuration), tests and packaging.

## 6. Plan

Done, in this order: the approval workflow and its abstract life cycle; the automatic
credit path; the reservation cache; `Authorization`; `AgentRun` with the guest
operations; `OperationContract` and its two implementations; the release scenarios;
the telemetry bridge. Each has its runs and its theorems. Then the theorems about
delegation at large and the release gate, the bound on credits without keys, what one
thread keeps, that calls are answered and approvals executed, and what the contract
comes to.

What could be added, in order of worth:

1. One composition of `AgentRun` with `ApprovalWorkflow`: a request for approval made
   by a run, decided and executed by threads after the run ended. Today they meet in
   `RequestCredit` and in the key of a request only, and `EveryCreditHasOnePath` says
   that the amounts fit.
2. The three scenarios of the release gate about retries and repeated credits as
   short behaviours of `CreditExecution`.
3. For the spans of `TelemetryBridge`, a theorem in the manner of `ToolCallsAnswered`;
   for the traces it would need the induction over the spans that `shutdown` took.
4. Identity, should it come to keep state (a key cache with expiry, revoked tokens).
