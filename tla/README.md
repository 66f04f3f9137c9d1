# SAPM: verification models

TLA+ models, TLC runs and TLAPS proofs for the Sovereign Agentic Prediction
Market: Move contracts that hold the money, an aggregator that agrees on models,
an orchestrator that brings agents up, and a front end with a copilot.

## Inventory

| Component | State | Operations | Interacts with | Correct when |
|---|---|---|---|---|
| `prediction_market.move` | markets (status, outcome, breaker flag, two pools, share totals), positions, fee configurations | create, open position, resolve, trip, halt, cancel, redeem, cancel position, set fees | front end and trader through transactions | pools are backed, money is conserved, refunds are covered, closed markets are frozen |
| `incentives.move` | stakes, registries, risk parameters | stake, slash, reward, record report, request unstake, unstake | administrator's transactions | the ledger balances, reputations are explained, slashes are bounded |
| `Registry.move`, `sapm_data.move` | a vector of keys; data records | add and remove key; submit data | administrators' transactions | an overtaken removal hits nothing older than it was meant for |
| aggregator `server.js` | rounds, model, registry, update buffer, replay cache, five files | `/updates`, `/propose`, `/vote`, `/register`, restart | agents by HTTP, chain by RPC, disk | an applied model has a quorum; memory, files and chain tell one story |
| `reputation-tracker.js`, `incentives-engine.js` | scores and report counts in memory | feedback of a round, record report, adjust, slash, register | rounds and market outcomes | scores are bounded and rises are earned |
| `go-hybrid-provider.js` | readiness cache, life cycle, restart budget, counters | derive session, health check, stop | orchestrator and discovery call it; it runs `kexcli` | calls end, an active life cycle was checked, restarts are limited |
| `orchestrator.js` | boot state S0..S3, attestation, keys | initialize with three transitions | host, peer, provider | keys are made over the digest measured in this boot, and an exit code tells how far it got |
| discovery | peers, sessions | register, heartbeat, establish session, clean up | provider | a session belongs to a live peer and to one negotiation |
| `task-manager.js` | tasks, agents, assignments, capacities | create, batch, assign, auto-assign, complete, fail | agents send results | slots are held by work |
| front end `circuit-breaker.ts` | state, failure count, trial slots | execute | `sui-integration.ts` wraps the model service and the wallet in it | the state agrees with the results |
| copilot `copilot-bridge.ts` | queue of cards, executions, state of a run, one abort handle, local storage | plan, execute with time-outs and retries, run all, pause, resume, cancel, clear, persist, reload | panel's buttons; handlers by request and result events | an index kept across awaits stays right, a card is not at work twice, a run ends |
| trade execution `TradeExecution.tsx`, `wallet-standard.ts` | keys of trades under way, stages of trades, counted positions; the wallet's open requests | execute a trade with checks, wallet requests, time-outs, retries and polling; leaving the page | trade form; wallet; chain by RPC | what is shown was executed, and a trade is executed once |
| intent queue `a2ui-intent-queue.ts` | queue, rate windows per user | enqueue, process | user interface | no user exceeds the rate |
| `circuit-breakers.js`, `position-limits.js` | breaker state and history | check, trigger, reset | trader | an alarm is passed over only when the breaker is known to be open |
| `ttl-manager.js` and feeds | cached entries, their times of access | set, get, clean up, invalidate, evict | trader, front end | bounded, every entry can be evicted, expiry is explained |
| trader, forecasting agents | portfolio, episodes | forecast, trade, archive | contracts, feeds | accounts agree with trades |
| Rust datapath, Go cryptography, scripts, k8s, Lean files | none kept between calls, or outside the program's logic | | | |

What is hard here. The contracts are sequential (one transaction is one step),
and their difficulty is long sequences of legal calls and truncated arithmetic.
The aggregator, the provider, discovery, the breaker, the intent queue, trades and the copilot are
single-threaded JavaScript whose handlers interleave at every `await`; in the aggregator file
writes overlap and the process may crash anywhere, and the copilot's page may be reloaded
anywhere while its requests time out and are tried again under handlers that are still at work.
A trade's wallet request goes on in the wallet when the page has stopped waiting for it.
The task manager, the risk breaker, the cache and the reputations do not wait for anything:
there the long sequences of legal calls are hard. `PROJECT.json` lists the hazards line by line.

## Modules

| Module | Role |
|---|---|
| `PredictionMarket` | the contract, one action per entry function |
| `MarketEscrow` | what a market promises about money, abstractly |
| `MCPredictionMarket` | instance for TLC, and what the documentation says of winners |
| `PredictionMarketProofs` | TLAPS proofs about `PredictionMarket` |
| `Sums`, `SumTheorems` | sums over finite sets and powers, defined by counting, and their laws; induction and recursion over numbers |
| `UpdateBuffer`, `MCUpdateBuffer` | the aggregator's update buffer and replay cache |
| `TradeExecution` | a trade from the button to the chain, with the wallet's open requests |
| `MCRequests` | the instance for TLC of `UpdateBuffer` and `TradeExecution` |
| `RequestsProofs` | TLAPS proofs about `UpdateBuffer` and `TradeExecution` |
| `Incentives`, `MCIncentives` | the incentives contract and its instance, and what the documentation says of slashing |
| `MCContracts` | the instance for TLC of the two contracts |
| `IncentivesProofs` | TLAPS proofs about `Incentives` |
| `AggregatorRounds`, `MCAggregatorRounds` | propose, vote, register, files, crash; three instances |
| `AggregatorRoundsProofs` | TLAPS proofs about `AggregatorRounds` |
| `HybridProvider`, `MCHybridProvider` | the provider's shared state and its callers |
| `HybridProviderProofs` | TLAPS proofs about `HybridProvider` |
| `Copilot`, `MCCopilot` | the copilot's bridge, its panel's buttons, and the handlers' answers |
| `CopilotProofs` | TLAPS proofs about `Copilot` |
| `CircuitBreaker` | the front end's breaker |
| `TaskManager`, `Discovery`, `Boot` | the orchestrator's tasks, peers and sessions, and boot sequence |
| `IntentQueue` | the front end's intents of agents |
| `RiskControls`, `TtlCache` | the risk breaker and the market-data cache |
| `Reputation` | the tracker, under the aggregator and under the incentives engine |
| `Registry` | the contract of registered keys |
| `MCServices` | the composition of the nine modules from `CircuitBreaker` to `Registry`, and its instance for TLC |
| `ServicesProofs` | TLAPS proofs about the nine, and about their composition |

Conventions. Definitions keep the source's names. A definition with *Mutant* in
its comment is not used by any specification: it is a plausible slip in the code
that the properties are tested against. Variables marked *history* are not in the
code; they record what the properties speak about.

### How state and actions correspond to the code

**PredictionMarket.** An object id indexes the fields of the object. A failed
`assert!`, an underflow, or a `balance::split` beyond the balance aborts the
transaction, so it is a guard. Nothing checks that a position is presented to its
own market, or which market a capability belongs to, and the model allows
both; `mispresented` remembers the markets that were given a foreign position,
because refunds are only covered in the others. `FeeOn` is the truncated division of
the code. `u64` overflow cannot be reached by positions of bounded stake and the
`u128` product in `redeem_position` is wide enough, so integers are unbounded here.

**Incentives.** `AgentStake` and `IncentivesCap` have only the ability `key` and are
transferred to the sender, so a transaction can use a stake only if its agent sends it.
`slash_agent`, `reward_honest_agent` and `record_report` need stake and capability in one
transaction, so they reach only stakes of capability holders (`Authorised`, which is the rule of the
platform, not a check of the code; the finding `PenaltyReachesAll` is what it means for penalties). Also:
`max_slash_amount_percent` is stored and never read, and `available *
total_slashes_applied` is computed, can overflow `u64` and abort, and is
otherwise unused; the model has this as a guard with `MAX_U64`. The `RiskParameters` object
is assumed to exist from the start, with one registry per administrator.

**AggregatorRounds.** `pc[h]` is the `await` a handler is stopped at. `Truncate` and `Put`
are the two halves of `fs.writeFile`; the payload is what the handler serialised after
`mkdir`. Requests arrive with valid proofs: the signature, time-to-live and replay checks
come before any change of state. Votes `accept` and `reject` count alike in the code.
Re-proposing a model with the same time stamp gives the same round id and a new object, so
`object[r]` holds several objects of a round and `rounds[r]` says which one is in the map.
`LeastQuorum` is the quorum that a key may have been counted against: the registry only grows, so that of the
registry at the start, but a process that starts with an empty registry (66% of `AGG_COUNT`) asks only the first key as soon
as it is registered (66% of one, and at least one), as does one whose `registry.json` was torn by a crash.
The commitment file, which nothing reads, and crashes inside start-up are left out. The
chain is configured; with `REQUIRE_ONCHAIN_COMMIT` start-up insists on it.

**UpdateBuffer.** An accepted proof is a *mark*, numbered in the order of acceptance; the buffer holds the
marks of its updates, so one request replayed is two marks. `Update` is the whole handler up to
the `await` of `persistRounds`, and `RoundsSaved` the rest. All updates of a buffer are arrays, so
`aggregateUpdates` always returns a vector and `if (agg)` is always taken. The cache is `Kept` when it
overflows; with `SEEN_CACHE_LIMIT` 1 the code keeps everything (`slice(-0)`), and the bound in
`TypeOK` is stated for larger limits. A request's timestamp leaves its time to live at any moment (`Expire`).
Restarts (the buffer is lost, the cache is read back from `seen.json`) are left out here.

**HybridProvider.** Between two awaits JavaScript is not interrupted, and everyone who awaits
a promise continues before the next event, so one step settles a check and resumes all its
waiters. `checkedSinceStop` and `restarts` are history; a restart is known by
its call, its retry and its time. The retry back-off is positive, as it
is by default. The outcome of the command is any category of `classifyProviderError`. `ChecksAreCurrent`
says of every caller that executes that its check succeeded after the last stop it could know of, and of
the cache that it never holds a check that ended badly. `TypeOK` includes that the provider's counters add up.

**CircuitBreaker.** `Execute` is `execute` up to its `await`, and `RecordSuccess` and `RecordFailure`
are the rest. A call may report its result long after the breaker has changed state. The second
branch of `recordFailure` is part of `Opens`; `ClosedBelowThreshold` shows that it is never needed.

**Copilot.** A card is the number of its creation. `bridge.executions` are the calls of `executeAction`
that are awaiting, each with the index into the queue that it keeps; `run` holds the locals of
`executeQueuedActions`. `Executed` is `executeAction` up to its first `await`, `Settled` what follows the end of
a request, and `Returned` and `Continued` what the loop of a run then does in the same step. An
assignment beyond the end of the array leaves holes, which break the panel (`Shown`) and stored
queues. The sort has one result, as it is stable (`sortQueue`). When several requests wait for one card, their listeners run in any
order (`SettledInTurn`). Handlers are external, but that the panel starts one on each request event, and that a result
event settles every request that waits for the card, is the code's. `displaced` and `gaveUp` are history.
Insights, transcripts and payloads of cards are left out.

**TradeExecution.** A request is the attempt it belongs to and its number in `signAndExecuteWalletTransaction`, which asks by
the modern feature, by the library's helper and by the legacy feature as long as there is no result; `Settle` is what follows the end
of one. A time-out only stops the waiting (`openRequests`), so the user may still approve (`LateDecision`). An error is
`retryable` if `isRetryableError` recognises its message; a time-out's ("timed out") is not. `submitted` and `confirmed` follow each
other without an await and are one stage. A call keeps the refs and setters of the component it was made from, so after `Unmount` it
neither frees a key nor counts (`mounted`). `givenUp` is history: requests without an answer that says what became of them. What the
transaction contains is left out.

**TaskManager.** `AssignInOrder` is `assignTask` for one task or for a batch that stops at the first refusal, with
the earlier ones assigned. `completeTask` refuses only completed tasks and `markTaskFailed` none, so a late result may
end a task that was handed to another agent. Progress, deadlines and dependencies are left out: no operation reads them.

**Discovery.** A session object is known by the attempt that made it. `bereft` (history) are the attempts whose session
was in the map when another attempt for the peer failed. The provider is healthy or not and answers or not;
`HybridProvider` has its insides.

**Boot.** `initialize` is one sequence; what the TPM, the network, the peer and the provider answer is chosen
at each step. A certificate is what the checks can tell of it, a chain has at most two. An exit ends the process.
`tpmMeasurement` is the local of `transitionToS1`, kept afterwards as history: it becomes `attestationData` once the chain has been checked.
The chain comes from a file, and neither code nor model relates it to the measurement.

**IntentQueue.** `enqueue` is split at the `await` of the signature. Time is counted only for the sliding window.

**RiskControls.** `checkMarket` is the main breaker's three checks with `triggerCircuitOpen`, for a market over or
under each threshold. **TtlCache.** One key per market; a kind of data is its time to live. The entry that is evicted among those of one
time is any, where the code takes its map's first.

**Reputation.** `owner` says which of the two trackers is explored; they are separate objects. `FedBack` goes through the agents of a round
in their order, each adjustment on the tracker that the one before left. Confidence is counted in steps
of 20 of 100, the bonus being that number of points. Which updates a round selects depends on distances, so any selection of the
right size may happen. Slash counts, edges, stakes and rewards are left out: no decision reads them.
**Registry.** Entries are known by the number of their addition; an administrator reads an index, signs a removal and
sends it later.

**MCServices.** These services run in processes of their own, or in one process with no state in common, and none calls
another. Their interleavings would multiply states and show nothing, so a behaviour of `ServicesSpec` is a behaviour of one of
them, chosen in `service`; each service's actions leave the rest unchanged. **MCRequests** does the same with the update buffer
and trades, which run on different machines, and **MCContracts** with the two contracts, no entry of which is given an object of the other.

## Runs

| Run | Question | Bounds | Result |
|---|---|---|---|
| `Contracts`: markets | do pools, refunds, totals and the escrow hold through every sequence of entries? | 2 markets, 3 positions, 2 fee configurations, 1 trader; stakes just below and at both limits; fee at and above its cap | holds |
| `Contracts`: incentives | do ledger, reputation and slash bounds hold? | 1 administrator, 1 agent with 15 SUI each, 2 stakes of 10, 3 slashes of 2, 11 rewards of 0 or 5, 1 report per stake | holds |
| `WinnersRedeemable` | can every winner redeem? | as in `Contracts` | violated: a finding |
| `AggregatorRounds` | is there a quorum and a commitment behind what memory, files and chain say? | 2 rounds, 2 handlers, 4 keys registered at the start of which 2 vote, a fifth registered late, 1 crash | holds |
| `QuorumFinalizes` | does a quorum lead to finalization, or to a refusal, while the process stays up? | 1 round with 2 objects, 2 handlers, 3 keys of which 2 vote, a fourth registered late, commitments required that may fail, no crash | holds |
| `FailedRoundNotApplied` | is a model applied only if its commitment succeeded? | 1 round, 1 handler | violated: a finding |
| `Requests`: updates | is the buffer bounded, does an update count once, what does a replay need? | 3 handlers, 4 updates and 1 other proof, rounds of 2, cache of 4, 7 acceptances | holds |
| `Requests`: trades | does what is shown and counted agree with the chain, and what else was executed? | 2 trades, 1 or 2 orders, wallets with either or both features, 1 retry, 1 request given up, 1 unmount | holds |
| `TradedOnce` | is a trade executed at most once? | the same with 2 requests given up | violated: a finding |
| `NoUpdateLost` | is every accepted update in the buffer or in a round? | as in `Requests` | violated: a finding |
| `PenaltyReachesAll` | can the holder of a cap slash every stake? | as in `Contracts` | violated: a finding |
| `HybridProvider` | do shared checks, stops and budget keep their promises; does every call end? | 3 calls, 1 probe, 2 checks at a time, 1 retry, budget 1 per window, clock to 3 | holds |
| `Copilot` | does an index kept across awaits stay right, when may two handlers be at work on a card, does a run end? | 2 cards of which one is urgent and needs the preflight, 1 retry, 1 leftover handler, queue of 2 | holds |
| `Services`: breaker | does the state agree with the results, and is a half-open breaker decided? | 5 calls, threshold 2, 2 trials, timeout 1, clock to 3 | holds |
| `Services`: tasks | are slots held by work? | 2 tasks, 2 agents, capacity 1 | holds |
| `Services`: discovery | is the session in the map that of the attempt begun last? | 2 peers, 3 attempts, clock to 1 | holds |
| `Services`: intents | is the rate limit kept in every window? | 4 intents, 2 users, 2 per window of 1, clock to 2 | holds |
| `Services`: risk | when is an alarm passed over? | 2 openings, cooldown 2, clock to 5 | holds |
| `Services`: cache | bounded, evictable, expiry explained? | 3 keys, size 2, times to live 1, 2, 3, clock 1 to 5 | holds |
| `Services`: boot | are keys made over the digest measured in this boot, and does the exit code tell how far it got? | 2 digests, chains of up to 2 certificates, every answer | holds |
| `Services`: reputation | is every rise earned? | 2 agents, rounds of 3, least and most confidence, 7 reports per agent | holds |
| `Services`: registry | what may an overtaken removal hit? | 2 administrators, 4 additions | holds |

Why the bounds suffice. Two markets and three positions are the least that let a
position be presented to the wrong market while two more remain in one. With
`AGGREGATE_COUNT` and registry of four the quorum is two, so two voters in two handlers
reach it together or one after the other, and every pair of awaits is crossed; the
late key changes the registry between a handler's quorum and its count. In `QuorumFinalizes` it raises the quorum from one to two, so
that a round has its quorum, loses it by the registration and gets it again by a vote; two voters reach either. Eleven
rewards carry a reputation from 50 to its clamp at 100. Three calls suffice for
one to stop the life cycle, one to await a check and one to be executing; two checks
allow a late one beside its successor. Three handlers let two save rounds while a third buffers, and
seven acceptances overflow a cache of four and replay what it forgot.
Two trades of one order meet at the guard, before and after the page was left; one request given up is enough for a second execution
(`TradesAccounted` also holds with two, in six million states without symmetry).
Five calls open the breaker (2), leave two late
results, and try it again. Two cards are the least where a new one moves to the front of another, where a run has a card left
when it is cancelled, and where a click and a run execute at the same time; one retry and one leftover handler let a late answer
settle the request that replaced it. Three attempts on one peer let a late failure hit one session while a third begins. Four intents fill two
windows. A clock of 5 outlasts a cooldown of 2 and an opening after a reset; it also lets an entry be read and outlive its own time. Seven
reports carry an agent from 50 to Byzantine and down to 0, and beyond. Four additions leave entries on both
sides of the two that are removed. Every invariant
and action property of these runs is also proved for all values of the constants. Deadlock is checked in `Contracts` and off in the other passing runs, where the
bounds on crashes, calls and time, or the absence of requests, let the system stop.

### Fairness

- `AggregatorRounds`: the event loop resumes a handler whose I/O completed, the thread pool
  serves each operation, and an RPC call ends. Nobody has to send requests and nothing has to crash.
  `QuorumFinalizes` excludes crashes: after a restart the votes loaded from disk are
  not counted until somebody votes again. It also excludes a registry that starts empty (see Findings).
- `HybridProvider`: the command has a timeout (`SAPM_HYBRID_KEX_TIMEOUT_MS`), readiness checks run
  short commands, and a timer ends the back-off. Nobody has to make calls.
- `CircuitBreaker`: `predictOutcome` aborts its fetch after a timeout, so the calls of the model
  breaker end. For the wallet's breaker the user may never confirm, and the liveness property
  is not claimed.
- `Copilot`: the timers fire: of a request, of the back-off, of the poll of a paused run. A handler, which may be waiting for
  the user's wallet, need not answer, and the user need not do anything; `RunEnds` is about runs that are not left paused.
- The other services state no fairness; `CircuitBreaker`'s is that of `ServicesSpec`, and speaks of its calls alone.
- The contracts state no fairness: nobody is obliged to send a transaction.

## Findings

1. `WinnersRedeemable`: a winner is owed a share of both pools, but fee and payout are split from
   the winning pool alone. As soon as the losing pool is larger than what is left in the winning one the
   transaction aborts, and the losers' stakes never leave their pool (`EscrowBacked`).
2. `FailedRoundNotApplied`: the vote handler applies the model before the commitment that
   `REQUIRE_ONCHAIN_COMMIT` demands, and leaves it applied when it answers 502.
3. `NoUpdateLost`: the `/updates` handler empties the buffer after its `await`, so of two overlapping
   handlers the later one drops what was buffered after the earlier one emptied it. Overlapping handlers also
   put one update into two rounds, which is why `ExactlyOnceUnlessOverlapped` has its premise.
4. `TradedOnce`: after a time-out or an error `signAndExecuteWalletTransaction` asks the wallet again, by the same feature or another,
   and `executeOnchainTransaction` may repeat all of it, although the request before may have been or may yet be executed. One trade
   becomes several transactions and counts once. `TradesAccounted` states what is true instead: any execution the page does not show
   comes from a request that was given up.
5. `PenaltyReachesAll`: `stake` transfers the stake to its agent, so that only the agent's own transactions can be given it. A holder of a cap
   can slash, reward and judge no stake but its own, where `agents/onchain-registry/README.md` calls the stake shared (19) and says that a
   Byzantine agent is penalized (63). `MAINNET_LAUNCH_REPORT.md:59` calls it owned, as the code has it. What the runs and proofs say of
   slashes, reports and reputations is therefore about agents that judge themselves, as long as stakes are owned.

Met on the way, without a run of their own (some are allowed for in the properties named):

- `server.js:617`: with an empty registry the quorum is that of `AGGREGATE_COUNT`, and the first registration lowers it to one. A round whose
  votes are enough only since then is answered without being finalized until somebody votes on it again, where
  `agents/aggregator/README.md:11` says that `/vote` finalizes when the quorum is reached. `QuorumFinalizes` speaks of registries that do not
  start empty (`RegistrationsRaiseQuorum`).
- `orchestrator.js:47` says of the first transition that it proves `Hash(AttestationData(N)) = Verify(IdentityKey, Nonce)`. The code checks a chain
  of certificates from a file (57) that nothing relates to the measurement, which may be a fixture or a mock; there is no nonce, and whoever
  signed the last certificate, or the only one, is not asked. `KeysBoundToMeasurement` claims only what relates keys and measurement.
- `task-manager.js:130`: a reassigned task keeps its slot with the former agent (`SlotsAreWork`).
- `manager.js:73`: a failing session set-up removes a younger one's good session (`SessionIsLatest`).
- `circuit-breakers.js`: after the cooldown the breaker is never armed again without a reset and passes alarms over
  (`AlarmPassedOver`); the price thresholds compare a percentage with a fraction; the volume check never
  fires, because `calculateStdDev` is called without the mean.
- `ttl-manager.js`: a read gives every entry the same time to live, which shortens long ones, where the comment says it extends them
  (`CacheAccounted`).
- `reputation-tracker.js:129`: a score of 0 reads as 50 (`RiseIsEarned`); four reports are enough to be trapped, where a correct
  report costs more than it earns. Registering again starts over. `incentives-engine.js:86`: slashing an agent without a stake gives it one
  of 800 (`|| 1000`).
- `reputation/engine.js`: the window of predictions is not filtered by agent, so the errors of others lower a reputation.
- `a2ui-intent-queue.ts`: the queue is empty after every call, so the priority decides nothing (`IntentsLimited`).
- `copilot-bridge.ts:482`: a cancel ends only the request whose abort handle is set; during the back-off of a retry there is none (620), so a
  cancelled run dispatches its card once more. `frontend/tests/unit/copilot-bridge.test.ts:185` expects a cancel to abort the dispatch.
- `TradeExecution.tsx`: a transaction that failed on chain is shown as finalized and counted, since only the presence of a status is
  looked at (446); leaving the page forgets which trades are under way (494), so the same order can be sent beside them; after a user's
  rejection the wallet is asked once or twice more.
- `incentives.move:192`: the unused product overflows `u64` after enough slashes of a registry, and then aborts every slash of a large stake.
- `copilot-bridge.ts`: clearing the queue during an execution leaves holes, on which the panel breaks; running a completed card again does nothing.
- `portfolio_tracker`: `exitPosition` throws at line 338 (`trankingState`) once `peakEquity` is set.

## Proofs

Each theorem holds for every value of the constants that the named assumption of its module admits. Those say that
amounts, limits and bounds are natural numbers (positive where the code divides by them or would keep nothing), that markers such
as `Unminted` or `None` are not values, and that what is counted or summed (positions, stakes, agents, markets, keys, calls, handlers,
trades) is finite in number, as it is on a chain or in a process. TLC evaluates all of them. Every inductive
invariant below that is not a run's own was checked by TLC on the instance of its run before it was proved.

**`PredictionMarketProofs`.** `TypeOK` is not inductive by itself: that
pools stay natural numbers needs the guards of redemption and refund, and that fees
are no more than what they are taken from needs the bound on the rate and a lemma on truncated
division. The inductive invariant is `TypeOK /\ EscrowBacked`. Each action
has a lemma that it preserves both. `ClosedMarketsAreFrozen` (of `ClosedMarketFrozen`) follows step by step;
`ImplementsEscrow` maps each entry to opening, closing, depositing, releasing or a stutter, where a deposit
being positive rests on the fee being smaller than the stake. `NoSuiIsMadeOrLost` (of `SuiConserved`) is that each entry moves
what it takes from a wallet to one pool, fee included, and back. `RefundsAreCovered` (of `RefundsCovered`) is inductive with `TypeOK`
and `EscrowBacked`: a refund removes a position and its shares together, and in a market that is not yet mispresented the shares
outstanding on a side are those of the positions that point to it.

**`SumTheorems`.** The library's induction over finite sets takes an operator, which no installed prover can instantiate, so a
fold's laws cannot be proved. `SumOver(f, S)` is instead the cardinality of the set of units of all `f[x]`,
and `Power(b, n)` that of the functions from `1..n` to `1..b`. What is needed of them (that a sum changes by what
one element changes, is the sum of its parts, or a product when all elements are equal; that a power grows by its base) follows
from the library's theorems about cardinality of unions, differences, products and bijections. The library's theorems on induction
over numbers take an operator, too. `UpTo` states induction up to `n` for membership in a set; it follows from `WFMin`, which is about
sets. `Recursion` states by it that a function exists that starts at a base and goes on by a step, which is what a recursive
function of a model needs for its definition to mean anything.

**`IncentivesProofs`.** `Judged` says what any transaction may do to a stake: keep the agent, let the
record grow, and move the reputation by no more than the record grew. Each entry is shown to be `Judged`
once; `IncentivesTypeOK` and `ReputationExplained` follow from that. `LedgerIsBalanced` (of `LedgerBalances`) is inductive with the fact that an object that was never minted holds no deposit.
`StakesSurviveSlashes` compares `stake * 5^k` with `deposit * 4^k`, where a slash takes at most a fifth: `SlashSurvived` is the step
from `k` to `k + 1`, by `PowerNext`.

**`RequestsProofs`**, updates: `BufferBounded` is inductive with `TypeOK`: the handler that fills the buffer starts to save,
so the bound grows with the buffer. `OnceInv` strengthens
`ExactlyOnceUnlessOverlapped`: while one handler saves, the buffer is full and is
exactly the round it made, so whoever pushes then overlaps. `CacheInv` does it for
`ReplayNeedsEviction`: the cache holds the last acceptances in order, hence what an overflow
drops is at least half a limit old. Trades: `TradesAreAccounted` rests on `Sound`, what holds of one trade
(the requests that were made are those of earlier attempts and of this one up to its number; each is answered, open or given up), and
on `PageInv`: of the calls made from the page that is mounted, at most one per order goes on, it holds the order's key, and the
page has counted those that were confirmed.

**`AggregatorRoundsProofs`.** `TypeCorrect` needs that the file a handler is writing decides what its payload is (`HandlersOK`). `SafetyInv`
carries a decision from the count of votes to the chain, memory and the two files: votes that any object,
snapshot on its way to disk or file holds were cast (`VotesCast`, through torn files, reloads and
re-proposals); a handler's quorum is never below `LeastQuorum` (`QuorumsKept`), because the registry in memory, on disk and in every write
of it keeps the first keys unless a restart lost them (`KeysKept`); and whoever carries a decided round
carries one with a quorum (`Decided`). `QuorumCorrect` and `CommitmentFirst` follow for every interleaving and any number of crashes.

**`HybridProviderProofs`.** `CallInv` gives `TypeOK` and `ChecksAreCurrent`: who is at a check awaits one that
is pending, and the check in the cache is pending or succeeded after the last stop. `BudgetInv` gives `RestartsBounded`: the restarts since the window
began and those of one window's length before it are each within the budget, and any window of that length overlaps only these.
Because each call takes one restart per retry (`OncePerRetry`), the set of restarts counts them.

**`ServicesProofs`.** For the front end's breaker, `CallsTyped` is its part of `ServicesTypeOK`, and `ClosedIffBelow`, `NoSlotLeaks` and
`AdmissionsAreEarned` are its three properties. The inductive invariant adds `OpeningIsOver` to `TypeOK`,
`ClosedBelowThreshold` and `SlotsAreTrials`: a closed breaker has recovered since its
last opening, and a half-open one has recovered or waited out the timeout. That is what
`AdmissionsAreEarned` needs to know about the past. The step for `SlotsAreTrials` counts
a finite set: a new trial is one more element, and a transition to half-open starts a period in
which no older call is a trial. Then one theorem for each of the other services:

- `BreakerCorrect`: a breaker that is neither active nor cooling down was last triggered a cooldown ago.
- `CacheCorrect`: `CacheAccounted` is inductive; an entry's bookkeeping is touched by its own operations alone.
- `BootCorrect` (of `KeysBoundToMeasurement`): the invariant says in which state each step of `initialize` runs, and what each state has
  recorded; a proof over another digest than the one measured leads to an exit, whatever the configuration was left with.
- `DiscoveryCorrect`: the attempt begun last for a peer holds the peer's session, or is waiting, or failed or lost it.
- `RegistryCorrect`: entries are in the order of their addition and none stands behind its number, so a removal that was overtaken finds
  a younger one at its index, or none.
- `SlotsCorrect`: only created tasks have a status and an assigned task has an agent.
- `IntentsCorrect`: a user's history holds all acceptances that the window still counts, so what any window counts was under the limit
  when its last intent was accepted.
- `RisesAreEarned` (of `RiseIsEarned`): what a round feeds back is a recursive function over the agents of the round, which exists and is what its definition says by
  induction up to their number; from there, one adjustment and one report at a time.

`ServicesCorrect` puts them together: a step of `ServicesSpec` is a step of one service and a stutter of the others, so all
invariants of the run hold of the composition.

**`CopilotProofs`.** `Inv` says of the bridge, whatever happens, that at most one execution is the run's, the abort handle is that of a request that is waited
for, and an execution that backs off has a retry left (`WellFormed`). While the queue is not replaced during an execution,
it says three things more. The index of each execution leads to its card, which is marked running, and a card so marked has an execution
(`Indexed`). The cards the run has yet to take are executed by nobody (`Pending`): that is why the run takes only cards that do not
run, and why a click is refused while all run. And a card of which no request was given up has one handler at work if one of its
executions waits, and none otherwise (`Handled`). Each action preserves `Inv`; `IndexStaysRight` (of `RunningIsExecuted`) and `OverlapsAreExplained` (of
`OverlapOnlyAfterGivingUp`) follow. Filtering the queue and settling requests in turn are recursive functions, whose laws (`FilteredCards`, `TurnsTaken`) are
proved up to their length by `UpTo` and `Recursion`; that the sort loses and doubles no card is `SortedCards`.

Model-checked only: liveness under fairness (`QuorumFinalizes`, `EveryCallEnds`, `HalfOpenIsDecided`, `RunEnds`), which these
provers do not reach, and the five findings, which are
counterexamples.

## Plan

Every module planned exists, and every invariant and action property that a run checks is proved. What liveness rests on is proved
as far as it is safety: a run that executes has an execution (`TypeOK` of `Copilot`, in `IndexStaysRight`), and a call that awaits a check awaits
one that is pending (`CallInv`). What could still be stated is an abstract specification of exactly-once counting that `UpdateBuffer`
implements while handlers do not overlap, and one of a page that shows what the chain holds, for `TradeExecution`.

## Not modelled

- `sapm_data.move`: records that nothing reads or changes, for a fee that goes to the treasury whole.
- The orchestrator's `reputation/engine.js` and `reputation-manager.js`: floating-point scores with exponential decay.
- `tasks/manager.js`, `core/orchestrator-manager.js` and `discovery/discovery-service.js`: maps of records, filled and read without an
  await or a bound; a property would restate an assignment.
- Trader: `executeWithValidation` is always a dry run, nothing outside a test adds or exits a position, the execution of the
  multi-market orchestrator is a placeholder, as is the portfolio manager's allocation.
- Forecasting agents, analyzers, aggregation of vectors: floating-point statistics.
- `position-limits.js`: does not parse (line 276).
- The webhook handler: exports an average and keeps nothing.
- User interface (other components, hooks, layout), HTTP adapters, connecting a wallet: presentation and I/O. They are most of the repository's
  lines, and hold no state of the kind a property could be about; what the copilot's panel enables and disables is in `Copilot`.
- Rust datapath, Go cryptography, build and deployment: no state between calls; the key-exchange command is an
  external step of `HybridProvider`.
- Within modelled parts: `/delta`, the on-chain registry cache and vectors of `server.js`; restarts in `UpdateBuffer`; the test-only resets of the
  provider; copilot insights and what each handler does for its card; in trades the blind-signing fallback, which is off by default, and building
  the transaction.
