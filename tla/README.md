# Runner Watch: specifications, model checking and proofs

TLA+ models of the parts of Runner Watch (`src/`) whose correctness depends on the
order in which processes, remote calls and database transactions happen. TLC checks them
on small instances; TLAPS proves what matters most for every value of the constants.
`PROJECT.json` maps every definition to the lines it models and lists components,
runs, mutants, hazards, findings and theorems.

    tlc -config MCPaperTrader.cfg MCPaperTrader      # any run of the table below
    tlapm TradingBooksProofs.tla                     # and LiveTraderProofs, PaperTraderProofs, TopUpsProofs,
                                                     # PartsProofs, BackgroundProofs, SwarmProofs, SumTheorems

## 1. Inventory

Runner Watch is a FastAPI web application with background workers on one SQLite or
Postgres database (and Redis), a separate trading service, a peer-to-peer "swarm" node, a
desktop shell and scanners. What follows lists the components with state that several actors
write; everything else (pages, scanners, statistics, rendering, the desktop shell, the Rust
ranker, the Cloudflare router) reads, computes or formats, and is listed as `not_modelled`
in `PROJECT.json` with its reason.

| Component | State it keeps | Operations | Interacts with | What is hard | What makes it correct |
| --- | --- | --- | --- | --- | --- |
| Trading ledger `runner_trading/ledger.py`, `schema.py` | accounts, orders, positions, signals, ledger rows | `reserve_buy`, `queue_exit`, `fail_order`, `fill`, `pause` | called by both traders and the operator | late settlements, limits checked long before they bind, CHECK constraints that can refuse what has already happened | reservations exact, limits hold over open and pending together, one stake per token, settled once, books add up |
| Account lease, `ledger.py` | token and expiry | `acquire`, `locked`, `release` | fences every write of the live trader | leases that lapse under live holders; times read long before use | books behave as if one process wrote them |
| Live trader `engine.py`, `live.py` | signed bytes and expiry of orders, position of the cycle | `recover`, `reconcile`, `monitor`, `orders`, `signals`, `prepare`, `settle`, `review` | ledger, lease, Solana RPC, Jupiter | crash between save and send, lost answers, forks, expiry races, nodes that lag | what is booked is what landed; nothing signed is lost or booked twice; signed orders resolve |
| Paper trader `engine.py`, `strategy.py` | marks, equity anchor | the same cycle with simulated fills | ledger | quotes that go stale between reads, retries, pauses mid-order | no buy beside an unmarked position; alarms only for real losses; exits are eventually made |
| API credits `api_credits.py` | account row, request rows | `account`, `reserve`, `finish`, `prune` | web handlers, job worker, top-ups | handlers racing the cleanup, day and month rollover | no credit lost or made up; every reservation ends |
| API top-ups `api_payments.py` | top-up rows, payment claims | `order`, `settle` | x402 payment service, credits | lost answers after money moved, leases outlived, two payments with one receipt | a payment is credited once, and held until it is |
| API admission and jobs `api_limits.py`, `api_data.py` | Redis counters, job claims, provider budget | admit, `run_pending` | credits | several web machines | limits are global; two running jobs |
| Telegram outbox `telegram_outbox.py` | outbox rows, channel slots, delivery history | `enqueue`, `deliver_outbox`, `reserve_channel_slot` | Telegram, desk jobs | lost acknowledgements, slow senders declared uncertain | a post appears once at most, and what is recorded of it is true |
| Desk research jobs `dash_jobs.py`, `dash_research.py` | leased rows, checkpoints, results | claim, checkpoint, finish, release | outbox | leases outlived by runners that work on | a result comes with its post; stale runners store nothing |
| Memecoin replays `memecoin_replay_store.py` | requested and processed times, leases | queue, claim, render, answer | object storage | a request renewed while it is rendered | no request is passed over |
| Paid reports and their queue `main.py`, `shared_state.py` | report rows, Redis lists, worker leases | create, enqueue, dequeue, recover, complete, fail | Flash wallet, Redis | workers that die, lose their lease or are told to stop while their threads go on; answers of Redis that are lost | no job lost; charged only for what is delivered |
| Flash wallet and memecoin Calls `flash_wallet.py`, `memecoin_calls.py`, `memecoin_fast_prices.py`, `memecoin_store.py` | balance and entries, orders, Calls, quotes | claim, open, close, fill, expire | price workers | two price workers and a sweep settling what a caller is closing | every stake in one place; the balance is the sum of its entries |
| Provider budget `memecoin_evidence.py` | credits of each day in three lanes | reserve, release | Helius | pages settled after midnight, or never | ceilings hold; what was spent is covered |
| Wallet backfill `wallet_backfill.py` | leased cursors | page, park, resume | provider budget, Helius | pages that outlive leases; a wait for the budget | cursors never go back; histories are read to their end |
| Swarm peer store `peer_store.py` | claims, revocations, bans | `ingest`, `ban`, `revoke`, prune | peers, operator | arrival in any order, forgetting | what is withdrawn stays withdrawn |
| Swarm key rotation `key_rotation.py` | decisions on rotations | accept, reject, revoke, resolve | local trust store | long legal sequences | rotations are single-valued and acyclic, both ways of walking them agree |

The full list of hazards, each at the line where it bites and with the properties that would
catch it, is in `PROJECT.json`.

## 2. Modules

| Module | Models | Extends |
| --- | --- | --- |
| `TradingBooks` | every transaction on the trading tables | |
| `TradingLease` | the lease of a trading account | |
| `LiveTrader` | live cycle, execution adapter, crashes, chain | `TradingBooks`, `TradingLease` |
| `PaperTrader` | paper cycle, quotes, marks, risk limits | `TradingBooks` |
| `ApiCredits` | one customer's account and requests | |
| `TopUps` | payments into that account | `ApiCredits` |
| `LeasedWork` | abstract: what a lease on a row of a table promises | |
| `TelegramOutbox` | the outbox of channel posts | |
| `DashJobs` | desk research jobs, whose answers are posts; implements `LeasedWork` | `TelegramOutbox` |
| `ReplayJobs` | memecoin replays; implements `LeasedWork` | |
| `ProviderBudget` | the provider's daily credits | |
| `WalletBackfill` | wallet histories; implements `LeasedWork` | |
| `ResearchReports` | paid reports, their Redis queue, workers | |
| `FlashCalls` | the Flash wallet and staked Calls of one caller | |
| `KeyRotation` | the operator's decisions on rotations | |
| `PeerClaims` | the store of signed claims | |
| `MCTradingBooks`, `MCPaperTrader`, `MCLiveTrader`, `MCApiCredits`, `MCTopUps` | constants and sums for TLC | the module they name |
| `MCParts` | the background work and the swarm's stores, one part to a behaviour | the nine modules from `TelegramOutbox` on |
| `SumTheorems` | lemmas: sums over finite sets, smallest counterexamples | |
| `TradingBooksProofs`, `LiveTraderProofs`, `PaperTraderProofs` | theorems | the module they name, `SumTheorems` |
| `TopUpsProofs` | theorems about the account and top-ups | `TopUps`, `SumTheorems` |
| `BackgroundProofs` | theorems about replays, provider budget, wallet histories, reports and Calls, in a part each | the five modules, `SumTheorems` |
| `SwarmProofs` | theorems about rotations and claims | `KeyRotation`, `PeerClaims`, `SumTheorems` |
| `PartsProofs` | theorems about the outbox and the desk jobs, and about the parts side by side | `MCParts`, `BackgroundProofs`, `SwarmProofs` |

### TradingBooks

One action is one database transaction. `acct` is the account row, `orders`, `positions`,
`signals` and `book` (the settlement row of each order) are the tables. A signal names its buy
order and the position the buy opens, since `trading_orders` has one buy per signal; `Exits`
are the identities sells may take. `reserve_buy`, `queue_exit`, `fail_order`, `fill` and
`pause` carry the code's names; `MarkPrepared`, `MarkChecking` and `MarkReview` are the status
writes of `live.py`, `Observe` and `Skip` those of `engine.py`, `RequestExit` the operator's.
The CHECK constraints and the two partial unique indexes are the guards `AccountCheck`,
`PendingOn` and `OpenOn`: a transaction that would break one does not happen. What callers decide (when to
buy, at what price, whether to fail an order) is left open, so whatever holds here
holds for both traders. Audit events and marks are left out: no modelled transaction reads them.

### TradingLease and LiveTrader

A lease has an owner and may have lapsed; there is no clock, a lease may lapse at any
moment. `locked` accepts a lapsed lease whose token still matches, because the code
compares `lease_until` with a time the caller read earlier.

`LiveTrader` splits the live cycle into one action per remote call or transaction. A worker's
record `wk[w]` holds where it is and everything it has read and still uses: the
slot, the height and whether the signature is known (`Live.recover`), the account row
`reconcile` read, and the orders, positions and signals still to visit. The chain is external:
`tx`, `tip`, `fin`, `sent`, `expiry`. A sent transaction lands at most once before its expiry, may fail,
may be undone by a fork until finalized, or may be odd (it moved something the order does not
allow, which sends the order to review). `Lagging` lets every remote call be answered by a node of its own.
A write refused by `locked` ends the cycle (`LeaseLost`); `Crash` may happen at any step; `ReadFails` is
a remote call that raised. Slots and block heights are one counter.

### PaperTrader

The cycle of `engine.py` in paper mode, with one action per quote or transaction: `StartCycle`, `Mark`,
`QueueExit`/`KeepPosition` (`monitor`), `RiskLimits` before and after the orders, `PassOver`/`TakeUp`/`DropEntry`,
`Fill`/`QuoteFails`, `MarkEntry`/`MarkEntryLate` (`orders`), `ObserveSignals`, `Enter`, `PassUp` (`signals`).
`trader` holds the step and what the cycle has read: the positions for which an exit was asked for when the
cycle began, the orders to visit, and whether there were issues. A mark is `missing`, `fresh` or `old`
(`MarkAges`), an order is `ready` when its `ready_at` is past, and `BreakOff` ends a cycle anywhere,
since `service.main` catches what a cycle raises. `risk` keeps the equity anchors and, as a
ghost, whether a limit has paused the account. Quotes and evidence are choices.

### ApiCredits

`acct`, `requests` are the rows. `account()` writes the account row first, so transactions of
one account are serial and each is one action; its time `at` may lag by `Late` days behind
`today`, for it is read before the wait for that row. `month` is always the month of `day`,
both being written from one time. `refund` serves both a handler's `finish(error=...)` and `prune`,
which make the same call. The ghost variables `spent` and `bought` make the conservation law
expressible. `claim` is `run_pending`'s. A request that is not there (`none`) may be reserved again after `forget`,
which is the code's seven-day deletion taken after at least one day.

### TopUps

`settle()` is split where it calls the payment service: `Begin` (first transaction), `Verify`,
`Reject`/`Proceed`/`Pend` (status writes that name neither status nor lease), `SettleOk`/`SettleFails`,
`CreditOrder` (last transaction). The payment service is external: it verifies no payment
that has been made, and settles a made payment again with the same transaction or fails.
`Stalls` says whether a 90-second lease may lapse under a handler still at work; without it
the lease lapses only when no handler works on the order, which is what two calls of at most 30
seconds give. `CreditOrder` uses `ApiCredits!Credit`, so the account is part of it.

### LeasedWork

Three tables are worked off under a token and a `lease_until`. What they have in common is the
abstract specification: a task is taken by a worker, perhaps from one that is
thought to be gone (`Take`); a worker saves progress only while it holds the task and only on
top of the progress it last saw (`Commit`); one that stops, or finds that it has lost the task,
changes nothing (`Stop`); the table may end tasks or start them afresh (`Retire`). `JobLease`, `ReplayLease` and
`WalletLease` instantiate it: the holder is the row's token, what is saved is the status with the
checkpoint, `processed_at`, or the cursor, and what was seen is what the worker's process remembers.

### TelegramOutbox and DashJobs

`deliver_outbox()` is `ChoosePost` or `ChooseNothing` (the first transaction, which also gives up
claims of five minutes ago and posts that are too old or expired), `Send` (external: Telegram takes
the post, refuses it, or the answer is lost after it took it or not), and `SaveAnswer`.
Times are what they make true of a row: `late`, `old`, `expired`, `due`. `history` is the mirrored
`telegram_alert_deliveries`/`telegram_channel_posts`; it takes an answer even when the row
was given up meanwhile (`Saved`), as the code does. Which kind goes first, and that a ticker has
been posted a short while ago, is a choice.

A desk job is taken for five minutes without renewal (`TakeJob`, with the sweep that `claim()` begins with), checkpointed
(`Checkpoint`), released or finished. `FinishJob` writes the result and queues the answer's post in one
transaction; `QueueNote` is the second, idempotent enqueue of `post_dash_desk_note`. `AgeJob` is the day after which a
pending job is given up, and the two weeks after which a complete one is dropped.

### ReplayJobs

A request is the stamp of the evidence collected: `queue_replay` keeps the newest. A renderer
claims the stamp it sees (`ClaimReplay`), loads all evidence there is by then (`LoadEvidence`), and
stores `processed_at` as the stamp it claimed (`Answer`), so that a newer request stays pending. `shown` is the
evidence on which the last answer rests. Answers that hold no replay (`evidence_pending`,
`archive_capacity`) are `Answer` too. Revisions in object storage and their capacity are left out.

### ProviderBudget and WalletBackfill

`budget` holds the rows of today and yesterday, `used` what the provider counted. A wallet page
reserves its highest cost and gives the rest back to the day it was charged to
(`release_wallet_credits`), which `Midnight` may have ended; `PageLost` gives nothing back.
`WalletBackfill` sees of it only whether a page fits (`room`). `advance_wallet()` is one action for
each transaction or call: `ClaimWallet`, `Reserve`, `PageRead`/`PageFailed`, `SavePage`, `PutOff` (a minute
after a failure, midnight when the budget is reached), `LostWallet`. `resume_budget_waits` wakes what waits once a page fits again.

### ResearchReports

The web process charges and inserts a report in one transaction (`CreateReport`). `web` is its place in
`_enqueue_created_research_report`: the push is heard (`enqueue_research_job`), refused (`EnqueueFails`), or carried out by Redis and
not heard of (`EnqueueUnheard`), after which the client may push again; a refused or unheard push is followed by a transaction of
its own that fails and refunds the report without a look at its status (`FailEnqueue`). The process may die in between.

The queue and the list of each worker's jobs in work are sequences; every Redis command or
script is one action. A worker starts by reading its own list, looks at its peers, puts its list
back (`Requeue`), and then polls: peers, touch, pop, status, report, acknowledge. `Kill` is a
process that dies. `Shutdown` cancels the tasks, but a call to Redis under way and the report are threads, so they go on
after `release_research_worker` gave the lease up, until they are over or the process ends (`EndProcess`): one blocked in the pop may
still take a job into the list (`PopInVain`). A lease runs out when its process has ended (`LapseWorker`), or under a worker at
work whose heartbeats fail (`HeartbeatsFail`). `AnswerUnheard` gathers the commands whose answer was lost or that Redis refused.
Workers are names: one that is started again under its name puts its own list back. `WORKER_INSTANCE_ID` or `FLY_MACHINE_ID` give
such a name; without them a worker is called after its host and process id (`main.py:525-529`), a name that need not come again.

### FlashCalls

One caller's wallet (`flash`: the balance and the entries, unique by kind and reference), orders, and Calls
on coins. A request reads the caller's Call, then writes in a second step (`AskOpen`, `create_memecoin_call`; `AskClose`,
`close_memecoin_call`); the two price workers save quotes and fill orders, one at a time because of the advisory lock (`StartFill`);
the sweep reads a Call that has run out and settles it in a later step (`SweepRead`, `expire_memecoin_calls`), while a fill may close
it. A Call has the identity of the order that opened it; legacy Calls have no stake. `Net`
and `Payout` compute what the code computes, on prices that the configuration gives. A pass over several orders is
one transaction in the code; here it may stop between two orders, which allows more.

### KeyRotation and PeerClaims

`latest` is the last decision on each rotation; `accept`, `reject`, `revoke` have the code's guards,
`resolve` walks forwards and `continuity_node_ids` backwards. `LocalTrustStore` replays decisions in their
order, so a restart changes nothing.

The state of a claim (`active`, `retracted`, `superseded`, `expired`, `revoked`) is recomputed from all
rows before every use, and so is an operator of the rows, the revocations and the time
(`StateAmong`). `ingest` inserts and prunes in one transaction; `Prune` drops what has been inactive
for long and then what is too much. `heard` is a ghost: what was ever accepted, less what was
evicted for want of room.

## 3. Runs

| Run | Question | Bounds |
| --- | --- | --- |
| `books_paper` | do limits, reservations, stakes and finality hold in any order of transactions; does the trader buy, alarm and exit as it should? | 4 signals, 2 of them on one token, 2 exits; limits that bind; the trader sees 2 signals |
| `books_live` | does the ledger explain the account, with prepared and checking orders and failures that cost a fee? | 3 signals on 2 tokens, 2 exits, 2 amounts |
| `live_two` | do two processes behave as one (`BooksSpec`, a refinement), and book only what landed? | 1 token, 2 processes, 1 fault |
| `live_pair` | are settlements exact, always possible and reconcilable with the wallet? | 2 tokens, 1 process |
| `live_fair` | does every signed order resolve? | 1 token, 1 fault |
| `live_lagging` | *violated*: an order released as expired has not landed | as above, lagging nodes |
| `credits_days` | is every credit accounted for while handlers race the cleanup, and does every reservation end? | 2 reads, 1 job, 4 days in 2 months |
| `credits_midnight` | *violated*: every pending request can be refunded | times that lag by a day |
| `topups_retries` | are credits added once, for one order, for money that moved, in the end for all of it if the customer retries and the service answers, on the account `ApiCredits` describes? | 2 orders, 3 proofs (2 with one transaction), 2 handlers, 1 request |
| `topups_stalled` | *violated*: credits are added once | 1 order, leases outlived |
| `parts` | see below | see below |
| `reports_charged` | *violated*: a customer is charged for a report exactly when it is not failed | 1 report, 2 workers, 1 stop or lapse, every answer heard |

**`books_paper`** runs either the transactions of `TradingBooks` by anybody, in any order, or the
cycle of `PaperTrader` (`caller`). The trader sees two signals, and its prices stand still
(a swap returns 2), so that losses come from fees alone and `AlarmsAreReal` is about how the
parts of the equity are written one after the other, not about prices. Days end between cycles, with no position
open.

**`parts`** asks one question of each of nine modules, which share no state but the posts: `PartsInit` picks
a part, that part runs, and the others rest. So the states of the parts add up instead of
multiplying, and one formula asks liveness of each (`WorkEnds`).

| Part | Bounds | Property |
| --- | --- | --- |
| `posts`, `race` | 2 cards and 1 sender, 1 card and 2 senders; one post a day; one card has a history and expires | `PostsTruthful`, `WorkEnds` |
| `answers` | 1 job, 2 runners, 1 checkpoint, 1 sender | `PostsTruthful`, `WorkIsLeased`, `WorkEnds` |
| `replays` | 1 coin, 3 requests, 2 renderers | `ReplayUpToDate`, `WorkIsLeased`, `WorkEnds` |
| `budget` | 2 pages at a time; 4 credits, 3 of them for other reads, 3 for wallets | `BudgetKept` |
| `wallets` | 1 history of 3 pages, 2 readers | `WorkIsLeased`, `WorkEnds` |
| `reports`, `deaf` | 1 report, 2 workers, 1 end of a worker or of the lease of one at work; in `deaf`, answers of Redis are lost | `NothingLost`, `WorkEnds` (not when deaf) |
| `rotations` | 3 identities, 5 rotations: two chains that could close a circle | `ContinuityAgrees` |
| `claims` | 4 claims of 2 issuers, room for 2, a horizon of 7, retention 4 | `WithdrawnStays`, `RowsFit` |
| `bets`, `legacy` | 1 coin, 2 orders that race to open, or 1 and a legacy Call; 1 close order, quotes at 3 times (prices 5, 2, 5), 1 claim day | `StakesKept`, `WorkEnds` |

`RowsFit` is the type invariant of all parts, with the bound on the claims stored. `StakesKept` is what orders, Calls and the
wallet must agree on: each stake is waiting, at risk, or back, and the balance is the sum of its entries.

Why the bounds are enough. Two tokens or two signals on one token are the fewest for which
limits and indexes relate distinct orders; `MaxPositions`, `MaxExposure` and the cash are chosen
so that each limit is the one that binds in some state. `books_paper` keeps the
ratio of the default policy, `MinSol = MaxPositions * MaxFee / 2` (`config.py:45,62,63`), and has costs of half of `MaxFee`,
which the reserve carries: `TraderExits`, too, is about such costs. A second sell (`books_paper`) covers a retried exit.
`LastSlot` and `LastExpiry` give a transaction `Window` slots to land in and leave slots after
expiry in which it is released; `Amounts`, `Fees` and `GasCosts` are single values where only sums
matter. `MaxFaults = 1` allows one crash or one lapse under a live worker: the second worker
then acts beside a stale one, which is the hazard. Bounds act as guards of `Land`, `EmptySlot`
and `Sign`, of `Credit` (`MaxBought`), of `Midnight` (`LastDay`) and of the faults, and cut nothing else.
`LastDay = 3` with two days to a month has a day turn within a month and one across. In `parts`, two
workers to a task are a holder and one that outlived its lease; three requests are one claimed, one that comes
before the evidence is loaded and one after; three pages are a first, a middle and a last one; one stop is a
worker that ends, is told to, or loses its lease beside the one that recovers its job (the theorems allow any number); the claims' horizon is
long enough for the retraction to be forgotten while the claim could still live if retention were shorter; three
price times with a low one between let a Call win, lose and
break even. `MaxStops`, `MaxRequests`, `MaxQuotes`, `MaxDays`, `MaxProgress`, `Length` and `Horizon`
guard the step they count.

Processes are symmetric in `live_two`; no liveness run uses symmetry. `parts` and
`reports_charged` switch deadlock checking off, because stops, requests, quotes and the clock's
horizon come to an end; every other run checks deadlock.

Fairness. `service.main` runs cycles for ever, so each step of a cycle is weakly fair; a dead
process's lease lapses; the chain grows and finalizes; reads may fail but not always, so each
is strongly fair. For the paper trader, in the end cycles are not broken off any more (`<>[][~BreakOff]`), orders become due,
and a sell whose quote is asked for again and again is filled (strong). The API worker calls `prune` every few seconds:
weak fairness of the refund. For `topups_retries` only leases that lapse and
handlers that go on (`FairTopUpsSpec`) are assumed to be fair. That the customer retries a pending order, as the 503 answer tells him to, and that
the payment service tells of the settlement in one of these attempts, are hypotheses of `PaidIsCredited` (`Retried`, `Answered`): the code cannot
bring them about. When they fail, the order stays pending and `docs/developer-api.md:137-141` leaves it to operations to
reconcile; what the code does guarantee then is `PaidIsHeld`: an order whose money moved is still there, settling or pending, never pruned or
rejected. For reports, a worker goes on and is started again under its name, and leases of those that are not run out; that leases
lapse under workers at work, and that workers end, is bounded by `MaxStops`, and that the database answers is taken for granted. In `parts`, the loops of
senders, runners, renderers, readers, workers, price workers and the sweep run for ever, and leases lapse and days pass: weak. What
may fail and is tried again is strong: a replay loaded and answered within its
lease, a page granted, answered and saved, an order filled, a Call settled by the sweep. A history
whose credits are used up again and again need not end (`WalletsEnd` says so). Crashes are
never fair, and no run assumes that they stop, apart from the paper trader's
cycles and where a bound ends them (`MaxFaults`, `MaxStops`).

## 4. Where code and documents disagree

* `live_lagging`: `Live.recover` says that observing expiry before asking for absence closes
  the race with a landing. It compares the slot of the status answer with that of the first
  call, but the height and the receipt come with no slot that is compared. Nodes that lag
  differently let a landed order be failed as expired. With consistent reads
  (`Lagging = FALSE`) `SettledAsLanded` holds.
* `credits_midnight`: the time of a transaction is read before it waits for the account row.
  Around midnight a late one turns the day back, clears the free use already counted,
  and makes the refund of a request of the new day break a CHECK, which also stops `prune` until that day is over or as many free credits are in use again. The
  model lets a time lag at any hour of a day by a whole day; the steps of the counterexample only need the instant
  around midnight.
* `topups_stalled`: a handler at work after its lease overwrites a complete order with
  `pending`, and a retry adds the credits again. It needs a handler that is paused, or a service that
  answers slower than its timeouts allow, for 90 seconds.
* `reports_charged`: a worker loses its lease because its heartbeats fail, which is only logged, or gives it up when it is told
  to stop, while the thread that writes its report goes on (`fly.toml` allows it 30 seconds). Another worker takes the job and writes
  the report too. The last writes of both name no status, so one may fail and refund what the other completes.

Smaller ones that the models contain or leave aside, and no run is about:

* Paper account. `docs/solana-trading.md:45-46` says that the SOL reserve pays the costs. `reserve_buy` keeps
  `min_sol_lamports` back and a `max_fee_lamports` for each pending buy, but `Policy` relates neither to `max_positions`. By default
  (`config.py:45,62,63`) 10,000,000 lamports stand behind four exits of up to 5,000,000. If costs reach that, the
  third exit is refused by `CHECK(sol_lamports>=0)`; `orders` catches no error of the database (`engine.py:366`), so the cycle breaks
  off there, and so does each one after it, without the retry that `solana-trading.md:35` promises. `SettlementNeverBlocked` says what holds
  under any policy: as long as no cost exceeds some `f` that the reserve and the settlements owed carry, none is refused. By
  default `f` = 2,500,000 is always carried, and 5,000,000 only while three settlements are owed.
* Paid reports. Two more ways to a wrong price or a job out of sight. The web process pushes a job whose answer is lost
  (`EnqueueUnheard`), and fails and refunds the report in a later transaction; a worker that found it running in between completes
  it, and one worker is enough. And a worker that is told to stop while its thread waits in Redis gives its lease up, another one
  forgets it, and the thread then takes a job (`PopInVain`) into a list that nobody looks at until a worker of the same name
  starts, while `src/README.md:231` and `tests/test_shared_state.py:138-141` have the job return when the lease is gone. One ordered by a machine (`charge=False`) is refunded when it fails all the same; a
  crash of the web process between charging and queueing leaves a report `running` for ever (`WebCrash`); a job
  whose `brpoplpush` answer was lost stays in the list of a live worker until that worker restarts (`PopUnheard`,
  which is why `WorkEnds` leaves `deaf` out). Not modelled: if the database fails while a worker reads the row (before the
  `try` of `_run_research_commission`) or writes its end, the job is acknowledged and the report stays `running`; a report completed may still be failed
  and refunded when its row cannot be read back.
* Outbox. `_mirror` runs after an UPDATE that found nothing, so the history may say `retry` or `failed` of
  a post whose row is `uncertain`; it never says `sent` of one that is not there (`OutboxTruthful`).
* Provider budget. The first wallet page of a day is not compared with the wallets' ceiling; the model assumes
  a ceiling that one page fits.
* Peer store. An overflow may evict the claim that superseded another and bring that one back to life, while a test speaks of
  "permanent supersession" (`tests/test_swarm_peer_store.py`); `inactive_retention` may be set
  shorter than the life of an observation, which `PeerClaimsAssumption` excludes. `LocalTrustStore` drops a decision that
  equals an earlier one in rotation, status, time and reason, and refuses a revocation when it is full.
* Calls. Settling cancels the Call's pending orders before the close order is marked `filled`, so a close order that
  settled is stored as `cancelled` (`CloseBet`); the sweep's `awaiting_quote` UPDATE names no status and may
  mark a Call that another transaction has just closed; a close request is dropped silently while an open order waits on the coin.

## 5. Proofs

All theorems hold for every value of the constants that satisfies the named assumptions: any finite number
of signals, orders, requests, rows or claims, any number of workers, any prices, limits and bounds. The shape is the same
everywhere: an inductive invariant, one lemma for each action (or group of actions) that preserves it,
and a temporal step at the end. Each inductive invariant was run through TLC before it was proved. `LiveKeepsBooks` and `PaperKeepsBooks` carry what is
proved of the books over to the two traders, by the refinements.

| Property | Theorem | Assumes |
| --- | --- | --- |
| `ReservationExact`, `LimitsHold`, `OneStakePerMint`, `ExitsMatchPositions`, `SettlementsAreFinal`, `LedgerExplainsAccount` | `TradingBooksProofs` | |
| `SettlementNeverBlocked` | `SettlementsNeverBlocked` | of gas, in paper mode: costs that the reserve carries (`ReserveCarries`, in the property) |
| `LiveSpec => BooksSpec` | `LiveImplementsBooks` | |
| `SavedBeforeSent`, `BuysAreSignedAlone`, `LandedIsBookable`, `LiveTypeOK` | `LiveTraderProofs` | |
| `SettledAsLanded`, `BooksMatchWallet` | `LiveTraderProofs` | `~Lagging` |
| `ReleasedNeverLanded` | `ReleasedNeverLandedHolds` | `~Lagging`, `0 \notin Fees` |
| `PaperSpec => BooksSpec`; `EntriesNeedMarks`, `AlarmsAreReal`, `PaperTypeOK` | `PaperTraderProofs` | |
| `CreditsConserved`; `TopUpsSpec => CreditsSpec`; `TopUpsTypeOK` | `TopUpsProofs` | |
| `FreeUseExact`, `RefundNeverBlocked` | `TopUpsProofs` | `Late = 0` |
| `CreditedOnce`, `CreditsArePaid`, `RejectedIsUnpaid`, `PaidIsHeld`, `PaymentFundsOneOrder` | `TopUpsProofs` | `~Stalls` |
| `OutboxTruthful`, `PostsTruthful` | `PartsProofs` | |
| desk jobs, replays, wallet histories implement `LeasedWork` (`WorkIsLeased`) | `JobsImplementLease`, `ReplaysImplementLease`, `WalletsImplementLease`; `WorkIsAlwaysLeased` | |
| `ReplayUpToDate`, `BudgetKept`, `NothingLost`, `StakesKept` | `BackgroundProofs` | |
| `ChargedAsTold` | `ChargedAsToldHolds` | one worker name, every push heard (`HeardSpec`) |
| `ContinuityAgrees`, `WithdrawnStays`, `ClaimsTypeOK` | `SwarmProofs` | |
| `RowsFit` | `RowsAlwaysFit` | |

The hypotheses in the last column are the conditions under which the code is right, and a run shows for
each what happens without it: `live_lagging` (nodes that lag), `credits_midnight` (times that lag), `topups_stalled`
(leases outlived), `reports_charged` (a worker beside one that lost its lease); §4 tells what an unheard push
and costs above what the reserve carries do. `0 \notin Fees` only says that every transaction on the chain costs a fee, by which the
books tell a failed landing from a release.

**Sums and recursive functions.** The library's induction theorems take an operator as a parameter, which these
provers cannot instantiate. A set of counterexamples is not an operator: `SumTheorems` takes a smallest subset (or,
`SmallestNumber`, a smallest number) for which a claim fails and derives a contradiction. This gives what a sum over a finite
set does when an element is added, removed or changed, on which every accounting theorem rests, and, in
`SwarmProofs`, that the recursive functions of `KeyRotation` and `PeerClaims` exist and what they yield.

**Books.** The assumptions are `UniverseAssumption` (signals and exits are finite and disjoint), `PolicyAssumption`
(what `config.py` accepts) and `AmountAssumption` (amounts positive, fees within the policy).
`BooksInv` adds to the properties what makes them inductive: an order keeps the shape of its
insert (`OrderShape`), a position costs what was reserved (`CostIsEntry`, without which exposure
could not be added up), rows belong to resolved orders (`RowsAreResolved`), the pending index
covers buys and sells alike (`OnePendingPerMint`, without which a sell could close a
position another sell names), and, for any bound `f` on the costs, the reserve and an `f` for each settlement owed (one per open position, two per
pending buy) are at hand but for one `f` per position allowed (`GasCovers`, which says how far the reserve reaches without relating the policy's fields). The counting
in `LimitsHold` rests on cardinalities of sets that gain or lose one element.

**Live trader.** `LiveInv` says of every worker, also of one whose lease has been taken over, that what it has read
stays true (`WorkHolds`: a finalized landing stays landed, an expiry that was observed before an absence
makes the order dead), and of the lease's owner alone that it knows the state of the rows it will write (`OwnerKnows`: the
order it is about to sign is queued, and no other order is signed). `ChainHolds` says that only saved
bytes are sent and only sent ones land; `BookedAsLanded` ties each settlement row to the finalized chain. `OwnerKnows` is
what the lease is for: without it the refinement fails at the writes of `live.py` that name no status.
`BooksMatchWallet` adds the rows up, by `SumTheorems`, to what the wallet lost and gained.

**Paper trader.** `PaperInv` adds to the books the shape of the cycle (`CycleShape`), that marks which let a buy be taken
up are there when it fills (`EntryMarked`), that the peak is at least the day's anchor and the first deposit (`AnchorsHold`),
and that an order given up cost nothing (`FailuresAreFree`). That a step lowers the equity only by money
spent is then a fact about four sums (`LossExplainsEquity`), and `AlarmsAreReal` follows.

**Account and top-ups.** `CreditsConserved` needs only the types. The counters of free use need `FreeInv`: no request
is charged to a day that is still to come (`NoneAhead`, where late times break it), and the month's counter
covers what the month's requests hold (`MonthCoversCharges`; it may be more, for a completed request is forgotten). `TopUpsInv` adds
to the properties that an order has one handler, which holds it (`OneHandler`, `HandlerHoldsOrder`), that a proof's claim and the
order that carries it agree (`ClaimsMatchOrders`), that whatever was paid is held by an order (`PaidIsHeld`), and
that a granted order holds its transaction (`GrantHoldsTransaction`). `BoughtFromOrders` needs no lease, and with the refinement
`AccountIsPaidFor` carries the conservation law over: what is held, reserved and spent is what orders were granted.

**Outbox and jobs.** `OutboxInv` adds `OneSenderPerPost` and `SenderTruthful`: the post of a sender at work is claimed, or
given up as uncertain so that nobody takes it again; before the call it is in no channel, and after it
the answer is true. `DashInv` adds that a runner that holds its job has seen the saved checkpoint (`HolderHasSeen`), and that a
result has its post (`ResultHasPost`), which needs that posts are never deleted before their answer is stored.

**Background work.** `ReplayInv` adds `Reads`: the request a renderer claimed is still
there, its evidence includes it, and while it holds the coin nobody else has saved. `BudgetInv` adds `PagesCovered`: on the day it
was charged to, every page under way is covered over and above what was spent; without it a
reply could give back what another page still needs. `WalletInv` says that a reader that holds a wallet has read the cursor that
is saved. `ReportsInv` adds to `NothingLost` that whoever is about to
acknowledge a job has seen it end, and that what is in a list, or in the hands of a worker that puts it back, was handed to Redis. `FlashInv` adds to `StakesKept` that one price
worker at most has a batch, that an order in it which opens a Call still waits, and that orders and Calls that have begun know their
coin; without the first two a stake could be refunded by one worker and put at risk by the other.

**The price of a report.** `ChargedAsToldByOneWriter` says that a second writer of one report is the only way in which the
customer is told a wrong price: as long as there is none (`OneWriter`: no second worker, and no web process that does not know that its job is
queued), a report that is being written is `running` (`ChargeInv`), so nobody has given its price back, whatever crashes, lapses
or goes unheard. With one worker name there is no second worker, and where every push is heard the web process fails no report that is queued: this is
`ChargedAsToldHolds`. Both conditions are needed: TLC finds two writers with two workers and one lapse (`reports_charged`), and under `ReportsSpec` with a
single worker that nothing stops, when one push is not heard.

**Swarm.** `RotationInv` says that an identity has one accepted successor at most and that there is a rank on identities that falls
along accepted rotations. A new rotation keeps it because `accept` refuses one that closes a circle. A walk
cannot be longer than there are identities (a pigeonhole argument on ranks), so `resolve` ends, and walking forwards
and backwards relate the same identities. `ClaimsInv` says that what was heard and not evicted for want of room, and is
no longer stored, expired before the cutoff (`Forgotten`). A withdrawal lives as long as what it withdraws could be sent
again, because retention is at least the life of an observation. `ClaimsFit` counts: `Only` keeps distinct rows distinct
(`OnlyDistinct`), so as many are evicted as are too many (`EvictedMany`).

**The parts together.** `MCParts` lets one part run while the others rest, so its step is a step of each part or leaves it alone
(`PartsStep`), and `PartsInv` joins their invariants. Where only the outbox runs, the desk's jobs stay what they were
and no post is deleted (`OutboxStepKeepsDash`). `PartsKeepPromises` says of the whole what the run `parts` checks.

Only model-checked:

* liveness (`SignedResolves`, `TraderExits`, `ReservationsEnd`, `PaidIsCredited`, `WorkEnds`), which this prover
  does not reach: every other property of the runs that pass is a theorem.

## 6. Not modelled

The repository has about a hundred thousand lines, of which the models cover those where steps of several actors
meet: leases, ledgers, queues, budgets, stores of claims. Most of the rest is routes, pages and their texts, prompts, statistics,
rankings, and fetching and parsing of market data: sequential code that reads, computes and formats, whose mistakes
are a test's business and not those of an interleaving. The share of the code covered is therefore small and
would not grow by much.

Inside the modelled parts: evidence and strategy predicates, quotes, instruction validation and cryptography are
choices. The database is taken at its word: a transaction is atomic and isolated, which
SQLite's single writer and the row, or the advisory lock, each Postgres transaction takes first justify; where a
transaction reads without locking, the read is a step of its own. Reports that a customer's own local model writes (the edge route, `_recover_completed_edge_reports`), and deployments without Redis, are left out. Replay revisions and archive capacity, and the rotation of
kinds and the quiet time of tickers in the outbox are choices or left out.

Components with state that are not modelled: API keys, Redis rate limits and idempotent replies of `api_limits.py` and
`api_routes.py`; the job and provider budgets of API jobs; the Telegram bot's chats; billing webhooks and
sessions; stock Calls, sports picks, forecasts and their settlement, which use the wallet through the two
functions that `FlashCalls` models; the swarm's transport and runtime.

## 7. Plan

Further models, if the code grows there: idempotent API replies, billing webhooks, settlement of stock Calls.
