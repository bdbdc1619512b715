# Formal models of the AI base service

This directory holds TLA+ models of the service under `src/src` (a NestJS
process that lets language-model agents read and write a business back end for
many tenants), the TLC configurations that check them and the theorems that
TLAPS proves about them.

## The system

A request reaches the service over HTTP or MCP. The orchestrator talks to a
language model, which proposes tool calls. Reading tools run at once. A
writing tool builds a *preview*: the write is suspended under a token,
the user confirms the token (twice for a risky write), and only then does the
tool reach the back end. `cancelOrder` and `cancelPurchaseOrder` build none and
write at once (`cancel-order.tool.ts:58`). Around this path stand an idempotency table, a
circuit breaker, a short revocation window and, for longer work, execution
plans and graphs that stop at a suspended write and go on after it.

| Part | State it keeps | Operations | Hard behaviours |
|---|---|---|---|
| `brain/write-guard.service.ts` | token records in Redis (or a `Map`), a 5 s lock per token | suspend, confirm, cancel, resetToPending, expiry | concurrent confirm/cancel, a lock that expires while its holder is running, Redis failing between two statements |
| `brain/confirmation.service.ts` | `executedMap`: operations that can be revoked for 3 min | confirmAndExecute, registerExecuted, canRevoke, markRevoked, cleanupExpired | a replay that registers a second operation, a window that closes during the rollback |
| `tools/tool-executor.ts` | none | executeToolCall | order of breaker, gate, execution, completion; crash in between |
| `tools/idempotency-gate.service.ts` | `t_ai_idempotency`, Redis keys | check, complete, cleanupExpired | unique-key races, stale reads, fail-open, lost completion |
| `tools/circuit-breaker.service.ts` | per tool: failures, openedAt, halfOpen | canProceed, recordSuccess, recordFailure, reset | late results of calls admitted before the breaker opened |
| `brain/rollback-executor.service.ts` | none | executeRollback | two revocations at once |
| `brain/agent/task-runner.service.ts` | plan rows: state and steps | run, approve, reject, cancel, mark executed | two runs of one plan, decisions while a token is live |
| `brain/graph/*` | checkpoints in Redis, or object references in a `Map` | start, resume, node execution | resume while the write is still running, two requests on one object, an old checkpoint in Redis |
| `brain/review/review-task.service.ts` | review rows | create, approve, reject | concurrent decisions |
| `ops/dead-letter-*.ts` | Redis stream, consumer group, terminal stream | enqueue, consume, ack | crash between insert and ack, several instances |
| `evolution/evolution-version.service.ts`, `brain/evolution-autonomy.scheduler.ts` | version rows, a counter of automatic activations | stage, activate, rollback, evaluate, close, cron rounds | whole-row save after long awaits, overlapping rounds |
| `common/rate-limiter.ts` | token buckets | tryAcquire | Redis/in-process fallback |
| `brain/memory-manager.service.ts` | conversation history in Redis | save, clear | WATCH on a shared connection, conflicts and retries |
| `brain/employee/*`, `brain/proactive/*` | tasks, todos, notices | dispatch, done, remind | push before mark |

The remaining parts (model providers, retrieval, tenancy, operations, the tool
definitions, text processing) are listed in `PROJECT.json` with the reason why
they have no model.

### How the parts interact

* The orchestrator, the task runner and the graph executor call tools through
  `ToolExecutor.executeToolCall`. It asks the circuit breaker (`canProceed`),
  passes a confirmed write through the idempotency gate (`check`), runs the
  tool, and reports to both (`complete`, `recordSuccess`, `recordFailure`).
  Everything between two `await`s is atomic; nothing across one is.
* A preview becomes a token (`WriteGuardService.suspend`). The confirm endpoint
  calls `ConfirmationService.confirmAndExecute`: `confirm` under the token's
  lock, then the tool with `confirm = true`, then `resetToPending` if it
  failed or `registerExecuted` if it succeeded, and at last
  `TaskRunnerService.markStepExecutedByToken`, which looks for a plan that
  waits for this token.
* Shared state lies in MySQL rows (idempotency table, plans, reviews, versions,
  dead letters), in Redis (tokens, locks, prefilter, dead-letter stream,
  checkpoints) and, when Redis fails, in a `Map` of each process.
* Side effects that may fail without failing the request go through
  `bestEffort`, which turns an exception into a dead letter.

### What makes each part correct

| Part | It is correct when |
|---|---|
| Idempotency gate | one claim at a time per key; every second write has a nameable cause; a replayed answer belongs to a write that happened; a recorded success is taken back only by a late result; no key stays blocked |
| Write guard | one execution per confirmation round, two confirmations for a risky write, none after a cancellation; it behaves like an indivisible state machine |
| Circuit breaker | it opens on evidence only, keeps its cool-down, forgets what a success forgives, tries again |
| Task runner | a write step is successful only if written; a suspended step can be found by its token; a cancelled plan starts nothing |
| Dead letters | a letter leaves the queue only written or given up on; it does not stay for ever; second rows have a cause |
| Revocation | who is told "revoked" has a cancelled document; an operation is offered for revocation only while that makes sense; no token is stuck without a fault |
| Graph, reviews | nothing is passed over that was not confirmed or reviewed; a write is done once per start; every request ends |
| Memory | a saved round is there unless something explains why not; a round is written over only by a save whose connection lost its watch |
| Evolution versions | at most one active version per artifact, and one that exists stays; the daily limit holds up to overlapping rounds and activations whose answer was lost |

## Modules

| Module | Models | Extends / uses |
|---|---|---|
| `IdempotencyGate` | `IdempotencyGateService` as `ToolExecutor` drives it | |
| `IdempotencyGateProofs` | theorems about it | `IdempotencyGate`, `TLAPS` |
| `WriteToken` | abstract: what a write token promises | |
| `WriteGuard` | `WriteGuardService` and the order of steps in `confirmAndExecute` | `INSTANCE WriteToken` |
| `CircuitBreaker` | `CircuitBreakerService`, one tool | |
| `WritePathProofs` | theorems about the guard and the breaker, the two parts every write passes on its way out | `WriteGuard`, `CircuitBreaker`, `TLAPS` |
| `ExecutionPlan`, `ExecutionPlanProofs` | `TaskRunnerService`, `SelfHealLoop`, one plan | |
| `DeadLetters`, `DeadLettersProofs` | sink, replay stream and its rounds | |
| `Revocation`, `RevocationProofs` | `executeConfirmed`, `executedMap`, the revoke endpoint and its rollback | token and gate reduced to what `WriteToken` and `IdempotencyGate` show |
| `GraphExecution`, `GraphExecutionProofs` | `GraphExecutorService`, `CheckpointerService`, `ReviewTaskService`, one session | tokens seen from outside |
| `SessionMemory`, `SessionMemoryProofs` | `MemoryManager.saveHistory` and `clearHistory`, one conversation | |
| `EvolutionVersion`, `EvolutionVersionProofs` | `EvolutionVersionService` and the scheduler, one artifact | |
| `MC*` | instances for TLC: symmetry sets, plan shapes, home processes | the module named |

### IdempotencyGate

A *call* is one execution of a write tool. Its program counter `pc` names the
statement it waits for: `redis` (the `SET NX` prefilter), `select` / `reselect`
(`findRow` before and after the INSERT), `insert`, `reclaim` (the conditional
UPDATE of a failed row), `execute` (the tool) and `complete`. `rows` is the
table with its unique key; `redis` the prefilter; `cleaner` the 03:00 job, whose
two statements (`CleanupMark`, `CleanupDelete`) are separate steps. Ages are
reduced to the two comparisons the code makes: `overdue` (ten minutes since
`firstSeenAt`) and `expired` (thirty days since `createdAt`). Every statement
may fail, with or without effect, and then the code's fail-open branch is
taken; `MaxFaults` bounds the failures. `effects`, `unstored`, `timedOut` and
`purged` are history variables.

`Prompt = TRUE` states that an execution ends before the in-flight timeout.
The code does not enforce it (the timeouts of the HTTP client and of the chat
loop are shorter, but the approved nodes of a graph run without the latter), so
both values are checked, with different properties: `OneClaimPerRow` and
`SecondWriteExplained` need it, `DoubleClaimNeedsTimeOut` and
`SuccessLostOnlyLate` say what is left without it.

### WriteGuard and WriteToken

One token, its lock, and the requests of users. A request goes through
`Begin` (`acquireTokenLock`), `Load`, `Write` (`doConfirm` / `doCancel`),
`Release`, and, if it was granted, `Execute` and the two halves of
`resetToPending`, which takes no lock. `store` is the record in Redis, `mem[p]`
the copy in the `Map` of process `p`, which is read and written when a
statement fails or once the connection has reported an error; a record that
was read from the `Map` is an alias, and `SaveAlias` keeps that. A failing write leaves Redis
as it was, or has been applied while its answer was lost (the `MULTI` of
`saveRecord()`); the `Map` takes the new record either way. `LockHolds`
states that operations end within the five seconds of the lock, `Failing` which
statements may fail. `WriteToken` is the same token as one indivisible state
machine; `IsWriteToken` says that `WriteGuard` implements it, with
`status <- store` and `granted <- the requests that were told to execute`.

### CircuitBreaker

One tool and slots for overlapping calls. `failedAt` holds the ages of
`failureTimestamps`; ages grow with `Tick` and are capped where the code stops
to tell them apart (`Window`, `Cooldown`). The branches of `canProceed()` are
the actions `Refuse`, `TryAgain`, `Trip` and `Admit`; the results are `Succeed`,
`Fail` and `Intercept` (the gate answered in place of the tool, nothing is
recorded). `streak` and `tripped` are history variables.

### ExecutionPlan

One plan and slots for requests: runs, approvals, rejections, cancellations
and confirmations of tokens. Each works on a copy `mem[p]` of the row; `seen[p]`
is the state its UPDATE expects. `Update` / `Mismatch` / `Reread` are the three
ways of `savePlan()`; `Saved` and `Conflict` say what the caller does next, so
a program counter names the place of the save. A run that has saved
`saveRunning` executes the step (`ToolStep`, `DirectStep`, `AgentStep`,
`PlainStep`, `Heal`, `Create`). A `write` step has a tool with a preview; a
`direct` one has a tool without (`cancelOrder`): it writes when the run comes to
it, and the self-heal loop may make it write again. Tokens are seen from outside: `new`, `live`, `used` (the write was
executed) or `gone`. `written`, `healed` and `halted` are history variables;
`requests` is a bound.

### DeadLetters

Letters go through the sink (`SinkInsert`, `LateInsert`: the insert that was
given up on still succeeds, `Enqueue`) into a stream of positions; `first` is
where the stream starts after trimming, `read` the last position that was
delivered, `pel` the pending list. A round of `consume()` is `EnsureGroup`,
`ReadPending`, `ReadFresh` and then, for each letter of its batch, `Take` and
`Insert` or `Terminal`, then `Ack`. An insert succeeds, fails, or writes the row
while its answer is lost (`lost`), which the round takes for a failure. Counters of attempts and back-offs belong to
a process and are lost in a `Restart`; all processes read as one consumer, as
in the code. The connected form (a Redis server) is modelled, not the
in-process replacement of the desktop form.

### Revocation

The way from a confirmed token to a revoked document. A confirmation goes
through `Check` (the gate claims, replays, refuses or lets pass), `Execute` (the
tool writes, fails, or writes and the answer is lost), `Complete`, then
`Register` or `Reset`. `op[c]` is the entry of `executedMap` that confirmation
`c` registered; two entries may stand for one document when a replay answered.
A revocation reads `CanRevoke`, runs the rollback (`ExecuteRollback`) and marks
the outcome (`MarkRevoked`, `MarkRevokeFailed`), while the window may close
(`CloseWindow`), the clean-up may run and the document may be shipped (`Ship`).
`Guided` are the keys of tools whose rollback is only advice. `lost` and
`stranded` are history variables.

### GraphExecution

One session. A request is a runner `r` with an object `obj[r]` of the `heap`:
a load from Redis makes a new object, a load from the `Map` takes the object
another request may still use. `connected` is `redisAvailable`, which is decided
when the process starts; without it the `Map` holds every checkpoint and costs no
fault. `pc` names the await: `load`, `review` and `token` (the two branches of a
resumed graph), `leave` and `fail` (a node that is going to succeed or to fail),
`ask` and `create` (the review task, the token of a suspended write), `save` and
`clear`; `run` is the turn of the loop, and `after` says what follows a save.
What the code reads before an await and uses after it is kept in `ticket` (the
review or the token it asks for) and `at` (the node of the turn); everything else
it reads from the object again. A node is `read`, `write`, `direct` (a writing tool node whose own
arguments say confirm; an approved review lets it write at once, and otherwise
the executor takes the confirm back and it previews like any other; `cancelOrder`,
which has no preview and whose high risk forces a review, is a `direct` node too),
`agent` or `condition`. Nodes are numbered, a condition may lead to any. Tokens
and their confirmation are seen from outside; their own model is `WriteGuard`.
`starts`, `overlapped`, `shared` and `stale` are history variables.

### SessionMemory

One conversation; a round is named after the save that appends it. Redis keeps
what a `WATCH` watches per *connection*, and all saves of a process share one,
so `watching` and `dirty` are sets of processes. `Exec`, `Unwatch` and a new
connection end the watch of the whole process (`Drop`), and so do the saves of
every other conversation, which share the connection and are an action of their
own. An EXEC may be applied while its answer is lost. `disturbed`, `lost` and
`left` are history variables: saves that lost their watch, the rounds a save
overwrote unread, and the rounds that left in a regular way.

### EvolutionVersion

One artifact. A client is an administration request or a round of the cron job;
rounds may overlap, since the scheduler does not wait. An evaluation is `Load`,
`ReadBaseline`, `Evaluate` (all model calls, the verdict and the first statement
of TypeORM's `save()`, which compares the entity with the row) and `Save` (the
second, which writes the columns that differed). `Decide` follows the policy,
which an administrator may switch in between. The two UPDATEs of
`activate()` are one step (`Transaction`) on the assumption that MySQL runs
InnoDB with repeatable reads, where the first one locks the index range of the
artifact and a second transaction waits. What follows the commit is another step:
a round counts the activation (`CountActivation`), unless the answer to the
commit was lost (`ActivateUnanswered`), which it takes for a failure; `MaxLost`
bounds how often that happens on a day.
`revived` and `excused` record what stale saves and rollbacks did.

## Runs

| Run | Question | Bounds |
|---|---|---|
| `gate_prompt` | does the gate arbitrate the races between calls, faults, crashes, expiry and clean-up? | 3 calls, 2 keys, 2 rows, 1 fault, symmetric |
| `gate_slow` | what remains when executions outlast the timeout, and does a key ever stay blocked? | 3 calls, 1 key, 1 row, 1 fault; liveness, no symmetry |
| `guard_locked` | with a reliable Redis, is the lock enough to make the token indivisible? | 4 requests |
| `guard_faulty` | what do failing statements, lost connections and restarts cost? | 3 requests, 2 processes, 2 faults |
| `breaker` | all five properties of the breaker | 3 overlapping calls, threshold 2, window 3, cool-down 2 |
| `plan_mixed` | do stale copies invent successes, orphan suspended steps or survive a cancellation? | 4 requests, 2 at a time, 2 tokens, plans of every step kind |
| `dl_batch` | is every letter behind the start of the group settled in the end? | 2 letters, batch 1, 2 attempts, trimming at 1, 1 fault |
| `dl_shared` | do rounds of two instances lose a letter or write it without cause? | 1 letter, two rounds of one instance and one of another, 2 attempts, 1 fault |
| `revoke_window` | do confirmations that share a key, revocations and the clean-up keep the map, the documents and the answers in agreement? | 2 tokens, 2 confirmations, 2 revocations, 2 keys, 1 fault |
| `graph_session` | can a node be passed over unconfirmed or unreviewed, is a write done again, does a request end? | 3 requests, 2 at a time, 4 graphs of two nodes, with and without Redis, 2 reviews with any number of overlapping decisions, 2 tokens, 3 steps, 1 fault |
| `memory_saves` | can saves lose each other's rounds? | 3 saves, 2 processes, 2 rounds kept, 1 retry, 2 faults, symmetric |
| `evolution_rounds` | how many versions are active, how many does a day activate? | 2 clients, 2 versions, accuracies 0 and 100, limit 1, 1 lost answer, symmetric |

Why these bounds suffice to meet the interesting cases: the races of the gate
are between two claims of one key plus a third call that reads in between; a
second key shows that keys do not mix. A token is decided by one request, a
second can hold a stale read, and the other two make up the second
confirmation of a risky write. The breaker's list exceeds its threshold only
with overlapping calls, and three calls with threshold two do that. Two
requests at a time are the shortest way to a stale copy of a plan; four in a row
make suspend, confirm, cancel and one more run. With a batch of one, a second
letter waits behind a pending one; lost answers to an insert need no bound of
their own, since each uses up an attempt. A revocation needs a second one, or a second
entry for the same document, to be surprised. Two graph requests at a time share
an object when Redis is not used, a third comes after a restart; three steps make a two-node graph go
round, and two reviews are two starts that ask for one node. Two saves of one process and one of
another are needed for a watch to be lost and for its loss to be used. Two versions are the fewest with two activations; accuracies
of 0 and 100 give each verdict, and the band between is left to the theorems,
which hold for every set of accuracies. Every action and every disjunct is taken in
some passing run, and every property is refuted by some plausible bug in the
code it is about (`mutants` in `PROJECT.json`).

Deadlock is checked wherever the system goes on for ever. It is switched off
where it may stop: all calls are done, the budget of requests is used up.

### Fairness

* `IdempotencyGate!FairSpec` (`gate_slow`): the event loop runs a started call
  on (`WF` on its step), time passes (`TimeOut`), and the cron job comes round
  (`CleanupMark`, `CleanupDelete`). A call may die at any step; nothing is
  assumed about Redis expiry.
* `CircuitBreaker!FairSpec`: time passes, a call returns (`ServiceClient` has a
  timeout), and users go on asking for the tool. The last is strong fairness,
  since a slot is busy in between; without callers a breaker rightly stays open.
* `DeadLetters!FairSpec`: the scheduler starts rounds, a round goes on, and
  back-offs elapse. Nothing is assumed about MySQL, which may refuse every insert.

* `Revocation!FairSpec`: the clock closes windows (`CloseWindow`) and the
  clean-up of the registry comes round every five minutes (`CleanupExpired`).
  Requests need not go on.
* `GraphExecution!FairSpec`: the event loop runs a started request on (`WF` on
  each `Run(r)`). Tools end because the executor gives up on them after a time-out; the tool
  of a node that a review approved runs without it
  (`graph-executor.service.ts:348`) and ends because every request of
  `ServiceClient` has a time-out. Redis commands either answer or throw. Users need not do anything.

`WriteGuard`, `ExecutionPlan`, `SessionMemory` and `EvolutionVersion` promise no progress that the code could
guarantee (they wait for users), so their specifications are safety only.

## Proofs

TLAPS proves the following for every value of the constants that satisfies the
named assumption of the module (`GateAssumption`, `WriteGuardAssumption`, `BreakerAssumption`,
`PlanAssumption`, `LettersAssumption`, `SessionMemoryAssumption`,
`EvolutionAssumption`, `RevocationAssumption`, `GraphAssumption`). Each proof is `Init => IInv`,
`IInv /\ [Next]_vars => IInv'`, one step per action, and `IInv => Inv`.

* `IdempotencyGateProofs`: `Typing`, `ClaimsAreExclusive` (`OneClaimPerRow`),
  `SuccessesAreLostLate` (`SuccessLostOnlyLate`), `OnlyTheTimeOutSharesAClaim`
  (`DoubleClaimNeedsTimeOut`), `ReplaysAreGenuine`, `SecondWritesAreExplained`.
  Typing needs `KeyOK`, a running call has a well-formed key, since rows are
  keyed by it. Exclusiveness is not inductive alone: it needs `HeldInFlight` (a
  claimed row is `in_flight`, so that no conditional UPDATE matches it) and
  `IdsOK` (the auto-increment counter is beyond every row and handle, so that
  a new row is never one that somebody holds). `Prompt` enters where the
  clean-up job could time out a claimed row; without it the same argument
  covers every row that has not been timed out (`InFlightTillTimedOut`), which
  gives `DoubleClaimNeedsTimeOut` and, as a success is only ever written over by
  whoever holds the row, `SuccessLostOnlyLate`. What the table remembers is `Memory`: a
  stored success is the success of a write of the row's key (`Stored`), a call
  works on a row of its own key and no two rows share one (`Keyed`), and a call
  writes after it was let through and reports after it wrote (`Past`). For
  `SecondWriteExplained` one more fact is inductive with these: the row of a
  running call, or of a write that was recorded, stays until it is purged
  (`Kept`). Two recorded writes of one key would then share a live row, which
  exclusiveness forbids.
* `WritePathProofs`, the write guard: `GuardTyping`, `LockIsExclusive`
  (`LockExcludes`), `ImplementsToken` (`IsWriteToken`), `CancelIsFinal`
  (`NoGrantAfterCancel`), `FaultsCostOneEach` (`FaultsAreBounded`). `GuardInv`
  adds to the types that the answer of a request agrees with where it is
  (`Progress`), that nothing is stored or asked before `suspend()` (`Empty`),
  and that the lock names whoever was told to have it (`OwnerLocks`), which
  makes `LockExcludes` inductive.
  The refinement and the cancellation hold when Redis is `Reliable` (nothing
  fails and operations are faster than their lock); then the record is in Redis
  only, and whoever reads or writes it has the lock (`OneStore`); what a request
  has read as grantable is still so when it writes; and while somebody is busy
  with the write, including its unlocked reset, the token is confirmed or has
  lapsed (`Indivisible`). With that, each action is a step of `WriteToken` or a
  stutter (`TokenStep`).
  What faults cost is counted. `Debt` is the number of grants, plus one for
  each way in which one more can still come about: a grantable record in Redis
  or about to be written by the owner of the lock (`StoreDue`), one in the `Map`
  of a process (`MemDue`), a request about to change such a record by reference
  (`Aliased`), one that goes on without the lock (`Unlocked`), an owner whose
  process has lost Redis (`CutOff`). `Allowance` is what the protocol pays
  for: `suspend()` and every undone execution, or, for the second
  confirmation of a risky write, every first one. `StepsPay` shows, action by
  action, that no step adds more debt than allowance and faults together; so
  `DebtBounded` is an invariant, and `FaultsAreBounded` follows. The same
  argument serves both bounds, with the set of statuses as its parameter.
* `WritePathProofs`, the circuit breaker: `BreakerTyping`, `OpensOnEvidence`
  (`CutOffIsJustified`), `CooldownsHold` (`CooldownIsKept`), `StampBound`. The
  invariant `Evidence` says that there are no more listed failures than the
  streak explains, and that `tripped` agrees with `openedAt`; it makes
  `CutOffIsJustified` inductive and gives the action property
  `CooldownIsKept`. `StampBound` counts stamps and calls in flight with the
  cardinality theorems of the library.
* `ExecutionPlanProofs`: `Typing`, `EarnedSuccess`, `SuspendedWithToken`,
  `CancellationStops`. `SuccessIsEarned` speaks of the row only, but any copy
  may be written back later; so `PlanInv` says that *every* copy of the row is
  `Good`: its successful writes are earned and its suspended steps name a token
  that was issued for them. Besides, tokens not yet issued belong to no step,
  and a callback has seen its write. `HaltInv`, for the cancellation, says that
  the row of a halted plan has the state `skipped` and that no run expects or
  writes this state.

* `DeadLettersProofs`: `Typing`, `DeliveredIsSettled`, `SecondRowsExplained`.
  Typing needs `Queue` (a letter not yet enqueued has no position, and nothing
  is delivered beyond the end of the stream) and `Busy`. `LeavesSettled` needs
  `Counted`: the counter of no process exceeds the failed inserts, so that a
  round acknowledges only what is written or used up; and `FreshTakesAll`: a
  read of the oldest entries never moves past one it does not take.
  `RowsExplained` follows from a budget: the rows of a letter and the number of
  rounds that may still write it never exceed one row for each round and
  fault, and one for each insert whose answer was lost. Writing spends a round; a
  lost answer pays for the row it leaves; only a fault gives rounds back. It needs
  `Holding` (rounds hold only what was delivered, and a round does not meet
  the letter it works on again).

* `SessionMemoryProofs`: `Typing`, `Kept` (`RoundsKept`). `Typing` needs
  `Attempts` (a save that goes round again has had a conflict, and not too
  many). `RoundsKept` needs `WatchHolds`: a save between `WATCH` and `EXEC`
  whose connection is still watching and unmarked has read exactly what is
  stored, which is the promise of Redis and the heart of the matter; besides, a
  round that is not written yet appears nowhere (`FreshRounds`), no list holds
  one twice (`NoneTwice`), and what was written is accounted for (`Accounted`).
* `EvolutionVersionProofs`: `Typing`, `SingleActive` (`OneActive`), `DailyLimit`
  (`CapKept`). `OneActive` is inductive together with typing. The limit needs
  `CapInv`, two counts made with the cardinality theorems: what the counter has
  and the closures still under way (`InFlight`) stay below the limit plus the
  number of clients, whichever way the counter was passed; and what was
  activated is counted, lost or about to be counted (`Counting`).
* `RevocationProofs`: `Typing`, `NoTokenStuck` (`NoDeadEnd`),
  `RevokedMeansCancelled`, `OffersExplained`. `TypeInv` adds to the types that a
  confirmation past its start has a token and a key, that only requests that are
  done have registered an operation, and that a revocation works on a registered
  one. `RevokedIsCancelled` needs `RollInv`: a rollback that is going to report
  success has cancelled the document already (`Rolled`), however many
  revocations run at once; a request that has not written has no document
  (`Unwritten`), and a cancelled document belongs to a registered operation
  (`Cancelled`), so that a later write cannot be the one that was cancelled.

* `GraphExecutionProofs`: `Typing`, `NothingPassedOver` (`DoneWasConfirmed`),
  `ReviewComesFirst` (`ReviewedFirst`). Both speak of what is done, but a request
  may go on from any copy of the state: so `SafeInv` says that *every* copy, the
  one in Redis and every object, is `Good`: what it lists as approved or done was
  earned, and the review or the token it waits for belongs to the node where it
  is, never both. `Placed` carries this over an await: what a request has read
  (`ticket`, `at`) still agrees with its object, which holds because two requests
  have two objects (`Alone`) as long as nothing is `shared`. `Marked` and `Grown`
  say that an approval and a confirmation are never taken back, whatever a late
  rejection writes over the status.

  `WritesOncePerStart` (`WrittenOncePerStart`) needs a count. A node's *usable*
  tokens (`Usable`: those neither unborn nor gone) bound its written ones, but
  "usable tokens <= starts" alone is not inductive: the next `CreateToken` could
  break it. So a state *is ahead* of the nodes for which it may still get a token
  (`Ahead`: those after its node, and its own node while it holds no token or one
  that is gone), and *fits* if, for each node, the usable tokens and the one that
  may follow are paid for by `starts` (`Fits`). A start raises the bound for all
  nodes; a new token uses up the place of the node that was ahead; a token that
  goes gives its place back; every other step moves forward (`LessAhead`).
  `Once` says which state fits: the object of the one request that runs, or else
  the checkpoint the next request will find (`Stored`). A request that finds its
  review undecided saves nothing, and for it `Once` says that its object still
  equals the checkpoint. The premises of the property are premises of the
  invariant (`OnceInv == SafeInv /\ (Linear => Once)`), and a state that meets
  them was reached through states that met them (`LinearBefore`).

Liveness (`ClaimsEnd`, `TriedAgain`, `QueuedSettles`, `EntriesLeave`,
`RequestsEnd`) is checked by TLC only: it is beyond the prover. Every safety
property that a run checks is also a theorem.

## Disagreements met while modelling

What the code does differently from what it says, or in a way its authors would
want to know. The models follow the code; the properties name the exception.

* `cancel()` answers success although the DEL failed, and the record in Redis
  can still be confirmed (`NoGrantAfterCancel` is checked with a reliable Redis).
* The self-heal loop retries a failed write call; the retry returns a preview,
  which counts as success, so the step is successful with nothing confirmed and
  nothing written (`SuccessIsEarned` names healed steps).
* `savePlan()` compares the state only. Two runs that are both `running`
  overwrite each other's steps.
* The consumer group is created at `$` by the first round, so letters added
  before are never delivered (`QueuedSettles` speaks of those behind the start).
* `saveHistory()` uses `WATCH` so that no concurrent round is lost (comment at
  `memory-manager.service.ts:197`), but a watch belongs to the connection that
  all requests of a process share: `RoundsKept` says exactly when a round is
  lost. After the retry limit the comment at line 201 promises to write the last
  snapshot; the code drops the round. In the desktop form the client has no
  `watch()`, so nothing is saved at all.
* `markRevoked()` may refuse because the window has closed during the rollback;
  the refusal is ignored and the user is told success, rightly: the document is
  cancelled.
* A stale save of an evaluation can make a retired version active again, so that
  two are, or overwrite an activation, so that none is (`OneActive` names both).
* An overlap of two rounds can pass the daily limit of automatic activations, and
  so does an activation that is committed while its answer is lost: the scheduler
  catches the error and does not count it (`CapKept` allows for both).
* `complete()` updates by id (`idempotency-gate.service.ts:176`): the late failure
  of an execution that the clean-up job took for dead overwrites the success of
  the one that followed, and the next confirmation writes again. Nothing makes
  executions end in time (`SuccessLostOnlyLate` says that this is the only way).
* `cancelOrder` and `cancelPurchaseOrder` have no preview. Whoever calls them
  without passing through a confirmation writes at once: a run of a plan does
  (`DirectStep`), and its self-heal loop calls them again after a failure, even
  if the first call reached the back end.
* When Redis is not used, two requests that resume one graph work on one object.
  Each then marks as approved, or passes over as written, whatever node the other
  has moved the object to: a node is executed that nobody approved, or skipped
  (`ReviewedFirst` and `DoneWasConfirmed` name this case with `shared`).
* A graph takes a token that was confirmed once, or whose write is still running
  or failing, for executed and goes on. A written token that has expired makes a
  resumed graph fail, and the request after it write again. A rejection can
  overwrite an approval the graph has acted on. An agent node with `needsReview`
  is never reviewed. A GET that finds no key does not look into the `Map`, where
  a newer checkpoint may be.

Other observations made on the way, without a run of their own:

* Gate: a write whose answer was lost is recorded as failed and done again by
  the next confirmation; `SecondWriteExplained` names this case.
* Breaker: half open, it admits every call and not one; the late success of a
  call that was admitted before closes an open breaker.
* Guard: when operations outlast the five seconds of the lock, two second
  confirmations of a risky write can both be granted.
* Task runner: a resumed run repeats failed steps; `runAgentStep` ignores the
  `failed` answer of a suspension; `rejectStep` and `cancelPlan` leave the token
  live; `approveStep` keeps it too, so that a step can have two live tokens; a
  save that matched no row counts as done if the state has been changed back in
  between; a callback finds only the newest fifty plans; a run that meets a
  suspended step leaves the plan `running`. `CancelStops` ends with the next
  decision on a step: after an approval the plan may be made to go on.
* Dead letters: a pending entry that was trimmed comes back without fields, and
  `toFields` throws, so that every later round fails (it takes more than ten
  thousand letters; `QueuedSettles` excepts it). All instances use one consumer
  name, so they do process the same pending entries. A failed XACK after
  `Terminal` gives the letter a new budget of attempts. XACK does not delete, so
  XLEN is not the backlog. A late insert of the sink and a replay make two rows.

## Not modelled

The reasons are in `PROJECT.json`, component by component. In short: what a
language model answers, the text around it and read-only analyses have no state
to check; controllers and connections appear as the faults and the requests of
the parts that use them; the arguments of tools, the audit trail, metrics and
logs are data no property speaks about.

## Plan

Modelled so far: the path every write takes (gate, guard, breaker) and its way
back (revocation), the two engines that suspend work on a write (plans and
graphs, with reviews), the buffer for what fails (dead letters), the history of
a conversation, and the versions of an artifact. Next, in this order:

1. `ScheduleReminder` with the notice bridge (`schedule-reminder.service.ts:132`:
   a reminder is pushed before it is marked), and the tasks of the digital
   employees.
2. `RateLimiter`: the token bucket script, its in-process fallback, and
   `redisAvailable`, which is never set back after a failure.
3. The router of the model providers: the order of fallbacks and its cool-downs.
