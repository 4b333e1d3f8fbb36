# Pearl infrastructure: a verification project

This directory holds TLA+ models of the parts of `pearl-infra` that move money,
account for it, or decide about it; the TLC runs that check them on small
instances; and theorems proved with TLAPS for every value of the constants. Paths
below are relative to the repository.

## The system

| Component | State it keeps | Operations | Talks to |
|---|---|---|---|
| Block indexer `services/pearl-indexer` (`block-poller`, `postgres-sink`, `main`) | `pearl_blocks`, `indexer_state.next_height`, next height in memory | poll, fetch and save a block, unwind a fork by one block, resume | pearld by RPC, PostgreSQL |
| Scanner and watches (`funding-scanner`, `watched-address-repository`, `watched-address-http`) | `watched_addresses`, `address_observations`, `address_spends` | match outputs and inputs of a block, classify, confirm, detach; register and close watches | called by the poller for every block; HTTP for the product services |
| Base escrow `PrlUsdcEscrow.sol` | trades by id, USDC, owner, pause | create, deposit, release, refund, cancel, pause, transfer ownership | buyers, owner |
| Bridge `PearlBridge.sol`, `WrappedPearl.sol` | claims, exits, caps, mint window, roles, pauses, wPRL | claim a deposit, request, process and refund an exit, administer | relayers, operators, holders |
| Settlement worker `services/settlement-worker` | decisions in memory, broadcast attempts in a file | list trades, read both legs, decide, write the trade, sign, send | trade table, indexer, Base RPC, pearld |
| Trade API `services/otc-api` (`trade-service`, `repository`): the trade row | trades, events | accept a quote, transition, presign, revoke, manual review | the same trade table as the worker; indexer watches |
| Trade API: orders, quotes, prefund | orders, quotes, links, allocations, sweeps | place, quote, accept; observe, sweep, refund and cut off a prefund | trades, the indexer's watches and observations |
| Trade API: side effects and support alerts | `otc_side_effects`, rate limit buckets in memory | submit a signed transaction, record evidence, alert, replay an alert | pearld, the alert sinks |
| Trade API: accounts | users, wallets, challenges, referrals, points | challenge, register, link, sign in, award points | trades and orders (points) |
| Notifications | profile, preferences, tokens, deliveries | verify an address, enqueue, send, retry, unsubscribe | mail provider |
| Bridge service `services/bridge-service` | Igra events, exits, checkpoint | poll events, merge exits, match reserve spends, attestations, policy, reconciliation | Igra RPC, indexer |
| Packages (`pearl-sdk`, `pearl-escrow`, `pearl-script`, `pearl-rpc`, `usdc-escrow-client`) | none | state table, scripts, encoding, RPC | used by the services |
| `apps/otc-web`, deployment scripts | browser state | | HTTP API |

What makes each of them hard, and what makes it correct:

* **Indexer.** Forks arrive while an earlier fork is being unwound, one block per
  poll; a crash can fall between any two transactions. Correct: the canonical
  rows are one branch without holes that ends at `next_height`, whatever happens;
  the loop catches up; what an observation says agrees with the chain.
* **Base escrow.** All deposits share one balance, and some paths are closed by
  the pause and some are not. Correct: what is held is what is owed, each trade
  is paid out once, nobody's deposit can be locked.
* **Bridge contract.** Two assets and three kinds of liabilities move in different
  functions. Correct: wPRL is backed and capped, an exit settles once, no key
  has two powers.
* **Settlement.** Worker and API write the same row without a lock or a version,
  each from a copy read earlier; the two chains are read at different moments;
  attempts survive a crash and decisions do not. Correct: no PRL leaves before
  the USDC is locked, no end is recorded that was not observed, what is signed is
  sent, stalled sellers get their refund, disagreement is flagged.
* **Orders.** Acceptances of several quotes of one order overlap; escrow, trade,
  fill and watch are written by different statements and services; sweeps compute
  from rows read before. Correct: fills add up, a trade has its own escrow and
  both signatures, an answered trade is watched, sweeps for the trades of an order
  stay within its deposit.
* **Bridge service.** Events are replayed and reordered, two chains settle the
  same exit, and relayers may lie. Correct: a row says no more than the chains,
  nothing is skipped or stuck, nothing is prepared that no correct relayer has seen.
* **Notifications.** Rounds overlap, answers get lost, users change their mind.
  Correct: mail to proven addresses only, hardly any after an unsubscription, no
  delivery retried for ever by a worker that has a provider.
* **Side effects.** Rows and effects cannot be one transaction. Correct: one key,
  one send; what the program records happened; no alert it has answered is silently
  dropped.
* **Accounts.** Reads, inserts and points are separate statements of overlapping
  calls. Correct: a signature lets one call through, points have their cause.

The full list of hazards, each at its line, is in `PROJECT.json`.

## Modules

| Module | Models | Abstract specification | Proofs |
|---|---|---|---|
| `PearlIndexer` | indexer, scanner, watches, pearld | `ChainFollower` (refined by `LiveBlocks`) | `PearlIndexerProofs` |
| `SpendClassification` | the name the scanner gives a spend; used by `PearlIndexer` | | `PearlIndexerProofs` |
| `EscrowPackage` | scripts, templates, transactions and presignatures of a trade's Pearl escrow | | `PearlIndexerProofs` |
| `PrlUsdcEscrow` | the Base contract | `BaseEscrow`, for each trade | `PrlUsdcEscrowProofs` |
| `PearlBridge` | the bridge contract and wPRL | | `PearlBridgeProofs` |
| `OtcSettlement` | one trade: worker, API, indexer rows, Pearl output, Base escrow | `BaseEscrow`, for `base` | `OtcSettlementProofs` |
| `OrderBook` | orders, quotes, acceptance, prefund | | `OrderBookProofs` |
| `SignerProofs` | who signs what before an order or trade is stored; used by `OrderBook` | | |
| `BridgeExits` | poller, exit rows, reserve applier, reconciliation, both chains | | `BridgeRelayerProofs` |
| `BridgeRelayer` | `BridgeExits` composed with deposits, attestations and mints | `BridgeExits` | `BridgeRelayerProofs` |
| `BridgeAttestations` | the quorum of relayers; used by `BridgeRelayer` | | |
| `Notifications` | verified addresses, preferences, outbox and its worker | | `TradeApiProofs` |
| `SideEffects` | the idempotency ledger, submissions, evidence, alerts | | `TradeApiProofs` |
| `Accounts` | challenges, registration, links, referrals, points | | `TradeApiProofs` |

`DataInduction` holds lemmas on sums over finite sets, which several proofs cite.
`MCx` instantiates module `x` for TLC; the `.cfg` files give the constants.
Modules that model overlapping calls take a set of `Configs` or `Scenarios`: one
initial state for each situation worth exploring, in place of the product of all.
`TradeApiProofs` extends three modules that share no variable, and for that their
top-level names differ (`Init`, `EffectsInit`, `MailInit`, ...).

**PearlIndexer.** `rows` is `pearl_blocks` (`is_canonical` as live or detached),
`nextHeight` the persisted and `height` the in-memory next height, `obs` and
`spends` the scanner's tables. `pc` is where the process is: every database
transaction is one action (`FetchAndSave`, `DetachObservations`, `ScanOutput`,
`ScanSpend`, `AdvanceConfirmations`), so `Crash` and `PollFails` fall between any
two. `cut` is a history variable: the blocks whose scan or detach a fault cut
short. Blocks are an arbitrary tree with their height, outputs and spends as
constants; the node adopts any higher block. Deadlines are heights, not block
times. A watch registered again keeps its terms (the code merges metadata: what
was there wins), so terms are constants.

**SpendClassification.** `classifySpend` with its terms as records. Amounts are
compared as numbers also where templates compare strings. Two consequences of the
code are visible in it: with a tolerance of 0 a release that pays its fee
out of the output is `unknown_spend` unless a template or txid was agreed, and a
reserve spend with two outputs that leave the reserve is unknown too.

**EscrowPackage.** `packages/pearl-escrow` and `pearl-script/p2tr` as functions of
records, with what the trade API makes of them. A script is the set of its leaves, a
leaf its keys and lock time, a transaction its inputs, outputs, lock time and
sequence, a PSBT the transaction with the keys that have signed it. Signatures are
not verified by the code when it accepts a presignature; the model takes a key among
the signatures for a valid one. What opens a leaf is Pearl's consensus and external.
`MCPearlIndexer` takes the escrow of its trade, its watch and both spends from here,
and evaluates the theorems on small requests.

**PrlUsdcEscrow, PearlBridge.** One action per external function; a failed
`require` and a checked underflow disable it. In `PearlBridge`, `reserve` is a
history variable: the PRL that was claimed, a deposit counted once, less what was
released. 256-bit overflow of sums of USDC or PRL is out of range of the supply of
either and not modelled.

**OtcSettlement.** The worker's iteration is cut at each await: `ListTrades`,
`ReadPearl` and `ReadBase` in any order, `Decide` (record the decision, read the
row again), `WriteState`, `Sign`, `Send`, `MarkSubmitted`. An API call is a read
(`Begin...`) and a write (`WriteRow`, `SubmitSpend`), one call in flight at a time. `Rules` is
`evaluateSettlementSnapshot` as a table, in its order. Pearl is one output, its
mempool and the indexer's row about it (a coarse image of `PearlIndexer`); Base is
one status: what `BaseEscrow` says of a trade, which `PrlUsdcEscrow` implements for
each of its trades; its owner may refund at any time and releases, by assumption, only
once the indexer shows the PRL release. `Evidence` is an assumption: an
operator moves a trade forward only when the fact the state names is true. Signed
release transactions the parties submit need both their signatures; the presigned
one needs the worker's.

**OrderBook.** On PostgreSQL each statement of an acceptance is a step
(`BeginAccept`, `Allocate`, `SaveTrade`, `EnsureWatch`), calls interleave and a
`Crash` drops them all; on the in-memory repository a call runs to its next outside
I/O (`AcceptInMemory`, then `EnsureWatch`). An escrow is what its address commits
to: the quote, the request and the refund time for multisig, the derivation index
for an xpub. Prefunded orders exist on the in-memory repository only: on PostgreSQL
the allocation is inserted before the order its foreign key names
(`migrations/010_order_prefund.sql:52`), so `createOrder` always fails, which is
`PrefundReserved`. The iterations of the prefund loops have no caller in `src/`
beside tests; they are modelled as the functions they are. Prices, minimum fills,
filters and paging are left out. `initiateOrderSweep` takes the order's row, the trade
and the amount from its caller, ties none of them to one another, and has no caller in
`src/`. A deployment's `sweeps` says what its callers ask for: `of_trades`, what a
trade of the order has sold, or `any` trade and amount up to what the row shows as left
(`MaySweep`, `Asked`). `SweptWithinPrefund` is stated of the former. Signatures are pairs of a key and the message it
covers; buyer and seller keys may be the same, as in the code.

**BridgeExits, BridgeRelayer.** `log` is the bridge contract's log, one event per
block; `rows` is `bridge_exit_requests`; `poll[p]` and `apply` are where
`pollOnce` and the reserve applier are, with the rows and lists they hold. The
upsert is atomic (row lock and unique indexes). The reserve sits in one output,
every release pays its change back to it. Operators are external: they pay an exit
only once its release was approved and refund only what was not. `BridgeRelayer`
adds what `decideDepositMint` and the attestation quorum decide; events outside
`relay.events` are taken as attested, which only adds behaviours. An attestation is
what the code reads of it: an event, a payload hash and a relayer id. The id is a
plain string, and `signature` (`attestations.ts:45`) is compared with nothing
(`attestations.ts:110-161`). So a liar may speak under the ids in its `under`, those of
correct relayers too; the field `sender` is history. `RelayerAssumption` asks that the ids
of the policy under which somebody may lie (`Spoken`) are fewer than `required`: whoever
takes in attestations must authenticate that many. RPC lag and
confirmations delay the log and are not separate; forks of Igra are not handled by
the code and not modelled.

**Notifications.** One user. A round holds the copies of the rows it has listed;
the checks of user and preferences, the provider's call and the update are steps.
`late` counts mails of a type sent since it was switched off. `provider` says whether
the worker has a mail provider: without one a delivery fails and gets a retry time before
the code looks at its attempts (`notification-dispatcher.ts:121`), so it is retried
without end, which `MaxUnsent` bounds in the model. `nextAttemptAt` is
abstracted to `due`, and the batch limit (50 by default) is not reached. A round lists
pending and failed rows by two queries, so it may hold two copies of one delivery.

**SideEffects.** `handler` is the request each handler works on, `effects` the table by
key. A row's `hash` is what the request hash covers. `by` is a history variable: the
client whose request made the row, or `Posted` when an operator stored it through the
generic route, which takes any type but `live_proof_evidence`, with any body and status
(kind `post`). The state of a trade moves as other calls write it: they read the row,
check it and write the whole of it back, so any state in the scenario's `written` may
follow any other (`TradeRowWritten`), and recording a review writes back the state it
read (`Review`). A scenario without `sinks` is a deployment without a notifier. Keys
derived from a request are distinct from the keys clients choose. `recent` are the timestamps of a rate limit
bucket and `forgotten` counts those that left it. The insert and the
read that follows a conflict are one step, since rows are never deleted and keep
their hash. Error texts are one value (a repeated failure with another text would
be a conflict as well); time only lets timestamps leave the rate limiter's buckets.

**Accounts.** Each statement of registration, link, sign-in of an order, release
and of each point event is a step. A transaction that reads and inserts is two
steps, with the unique index on wallets deciding who was first. Reads of rows that
only grow are merged into one step. Collisions of random referral codes are left
out.

## Runs

| Run | States | What it shows |
|---|---|---|
| `indexer` | 154k | the index stays one branch, resumes where it ended, catches up, implements `ChainFollower`; observations lie on canonical blocks, none is missed, confirmations are depth, one funding per watch |
| `escrow` | 86k | solvent, each trade goes as if its escrow were its own, no deposit is ever locked |
| `bridge` | 1.1M | backed, capped, rate bounded |
| `settlement` | 2.4M | release needs a deposit; recorded ends were observed |
| `settlement_live` | 592k | signed releases are delivered, refunds offered, disagreement flagged |
| `settlement_revoked` | | a release is sent after its revocation: violates `NoBroadcastAfterRevocation` |
| `orderbook` | 591k | both have signed, fills add up, one trade and one escrow per request, answered escrows are watched, sweeps for the trades of an order within its deposit, closed orders stay closed, on both repositories |
| `exits` | 296k | rows agree with the chains, nothing skipped, nothing prepared on fewer false ids than a quorum; the mirror catches up, paid exits end released |
| `exits_deficit` | | a release is prepared while the reserve is short of the supply and of what Pearl has still to pay, which the reconciliation does not see: violates `NoReleaseInDeficit` |
| `notifications` | 611k | mail to proven addresses only, bounded after an unsubscription; with a provider bounded attempts, and every delivery ends |
| `side_effects` | 279k | one send per key, what the program recorded happened, stored alerts within the rate limit, alerts answered |
| `accounts` | 193k | a challenge lets one call through, answers name the proven owner, points have their cause and causes their points |

The findings behind the two violations are in `PROJECT.json`, with the lines of the
documents they contradict.

Every property of a passing run has a mutant, an operator named
`<definition>_<change>` beside the definition it would replace, under which TLC
finds the property violated. Type invariants that are proved are not run again.

### Bounds

* `indexer`: nine blocks, two branches of three above a common block and a way
  back to the first one, so that a block can be attached, detached and attached
  again, and an unwinding can be overtaken by the next fork. Two outputs fund one
  watch in opposite orders on the two branches, one with the wrong amount; one
  branch releases and the other refunds, with the escrow package's transactions; a reserve watch is registered late or
  never. `MaxFaults = 1`: a fault resets the process completely, and the proofs hold
  for any number.
* `escrow`: two trades, the least that can rob one another; fees zero and not;
  time passes both expiries.
* `bridge`: three deposits and two exits; the caps leave room for two deposits in
  one window; another set has a longer window and is below what may circulate then,
  and a third is not valid. `MaxTime = 2` reaches the end of the first window, where the
  mint rate peaks.
  `MaxAdminCalls = 3`: a nomination, a role and an acceptance. The theorems
  hold for any bound.
* `settlement`: a clock of three values, before, at and after the common
  deadline; one presignature; one crash, exception, failed send or reorganisation
  at any point. `settlement_live` has neither the reorganisation nor the operator's
  move to `refund_available` (from which the worker decides as from the state
  before it), to keep its liveness graph small.
* `orderbook`: one order of two units, two quotes, two clients, two calls at a
  time, each call crashing or failing any number of times: the least for two
  acceptances to race for one order, one client or one escrow. Both quotes derive
  the same index first. Four deployments; in one of them callers may sweep for anything.
  `MaxTime = 1` closes buy orders and opens refunds; quotes
  do not expire within it. The proved properties hold for any number of all of
  these.
* `exits`: two exits with equal or different terms; two pollers, or one beside the
  applier; a range of two blocks per poll; a quorum of two among three relayers
  and a stranger: with one liar among the relayers the stranger may use its id, with
  none it may use that of a correct one. One fault.
* `exits_deficit`: two exits with different terms, one poller and the applier, no fault:
  the shortest way to change that is paid back to the reserve while another exit waits.
* `notifications`: two addresses, two tokens, two rounds, two attempts; six
  starting points, each with the choices that matter to it, one of them without a
  provider, where `MaxUnsent = 3` lets the attempts pass the limit.
* `side_effects`: two calls at a time and three keys; a limit of one alert; seven
  scenarios, with and without a notifier and with rows stored by hand; up to two faults.
* `accounts`: three calls in flight, two users, three wallets and challenges; six
  constellations of requests; one fault.

### Fairness

* `PearlIndexer`: the event loop runs what it has scheduled (`WF(Work)`), and an
  indexer that stopped polling is restarted (`WF(Restart)`), which
  `docs/operations/otc-monitoring.md` makes an alert. Nothing of the node.
* `PrlUsdcEscrow`: blocks keep coming, and a buyer who may refund calls
  `refund`. Nothing of the owner.
* `OtcSettlement`: `loopForever` schedules the next iteration whatever the last
  one did, so the worker goes on: weak fairness of `WorkerStep`. It is
  written with `WorkerDone`, the only states in which an iteration changes
  nothing, in place of `ENABLED`, which makes TLC much faster. Nothing of users,
  operator or chains.
* `BridgeExits`: weak fairness of each poll loop, of the indexer and of the applier:
  an operation that goes on calling them. Nothing in `src/` schedules `pollOnce` or
  the applier in production (tests and `scripts/bridge-simnet-rehearsal.mjs` do), so
  the liveness is that of a deployment which does. Nothing of users and operators.
* `Notifications`: the timer goes on starting rounds, calls of a round return, time
  passes.
* `SideEffects`: promises settle, so a request in flight goes on; clients need not
  send any.

Deadlock is checked for `escrow` and `notifications`, which never stop; the bounded
clocks, forks, calls and faults of the others run out.

## Proofs

All theorems are of the specifications, with only the `ASSUME`s of the modules
(which TLC evaluates in the runs) and for every value of the constants.

* **DataInduction.** `SumFunctionOnSet` is a `CHOOSE` of a recursive function, so nothing
  can be said of it before that function is shown to exist. The induction theorems of
  the library take the predicate as an operator, which the provers cannot instantiate;
  here it is given as the set of the values that satisfy it (`InductionOnNat`, from the
  well-foundedness of the naturals, and `FiniteSetInduction`). What follows is cited by
  three modules: sums of equal functions are equal, a sum grows with its set, splits over
  disjoint sets, and changes by one summand when the function does at one point.
* **PearlIndexerProofs.** `CanonicalChain` is not inductive: it says nothing of
  what the loop does next. `IndexInv` adds the types it needs and `LoopAgrees`
  (while the process is up, its height in memory is `nextHeight`, or one less
  while a saved block is scanned). The heart is two lemmas: a saved block extends
  the chain at its tip (`SaveStep`), and the block a fork detaches is the tip
  (`ReorgStep`). `ResumesAtChainEnd` follows because every detached row below
  `nextHeight` has been replaced. `FollowsOneBranch` is the refinement: every step of the
  indexer attaches a child of the tip, detaches the tip, or leaves the live
  blocks alone. The observations need `ScanInv` (the block being scanned is
  canonical, or has just been detached); `OnePrincipalFunding` is inductive with
  `TypeOK`. `InSyncMeansSameChain` follows from `SyncInv`, which says the same whether
  the loop sleeps or not: two canonical chains that end in one block are equal
  (`ChainOf` is a recursive function of the height). `BlockInv` says what the loop
  holds while it scans or detaches; with it `ConfirmationsAreDepth` is inductive.
  `FundingObserved` needs `FundingInv`: what of the block in hand has been scanned
  (`ScanProgress`), that every indexed block that no fault cut short has been
  (`FullyObserved`), and that an observation names the lowest such block of its branch
  (`FirstSeen`), so that a detach never takes one away that another block still backs.
  `EscrowVerdict` says what it takes to be called a release or a refund, for any terms and
  outputs. The theorems on `EscrowPackage` go from the script to that verdict: who can
  spend a multisig escrow and when (`NobodySpendsAlone`), that the signer sets the API
  announces are the leaves (`SignerSetsOpenTheEscrow`), that an accepted presignature
  lacks only the arbiter (`PresignatureCompletes`), and what the indexer calls a spend made
  from a template (`TemplateVerdict`).
* **PrlUsdcEscrowProofs.** `TypeOK` is inductive, function by function; `PaysOnce`
  is an action property that each step satisfies. `Solvent` is inductive once only
  finitely many trades are open (`SolventInv`): each function changes the balance and
  the sum of what is owed by one summand. `PayoutsCovered` follows, since a summand is
  at most its sum. `EachTradeIsAnEscrow` maps every function to a step of `BaseEscrow` for
  the trade it names and to a stutter for all others.
* **PearlBridgeProofs.** `TypeOK` first, through one lemma per group of functions
  that touches the exits, the token or the rest. `FullyBacked` and
  `RolesSeparated` are inductive with it; `WithinPilotCap` is, since a refund
  moves an amount from pending to supply; `OneExitPerRelease` rests on ids up to the nonce
  being the exits that exist. `MintRateBounded` follows from `RateInv`: all claims made
  since the last window but one began split into two sets, those the current window
  counts and those of the one before, each within the largest cap; a claim either
  joins the first or starts a window, which makes the first the second.
* **OtcSettlementProofs.** `TypeInv` (`TypeOK` with the shape of the worker's and the
  API's records) goes first, by owner of the state. `ReleaseNeedsDeposit` is not
  inductive: a release is decided several steps before it is signed, from rows and
  reads that may be stale. `LockInv` therefore names every commitment on the way
  (a read that found the deposit, a decision about to be written, a row or a call in
  flight that says `release_pending`, an attempt, a mempool entry) and shows that
  none arises before the deposit, which is never unmade. `SettledAgree` follows from
  `EndInv` in the same way: what a read claims about an end is stable, so it is
  still true when the row is written. Both hold for any number of faults, forks
  and presignatures; the runs bound them. `BaseIsItsEscrow` and `SettlementRefinesEscrow`
  close the gap to the contract: `base` takes every step of `BaseEscrow` (but for the
  assumption on releases) and no other, so what is proved of the settlement does not
  rest on an escrow kinder than the one `PrlUsdcEscrow` is proved to be.
* **OrderBookProofs.** A call in flight carries what it has checked long before it
  writes. `IInv` says of each call that its escrow belongs to its quote and client
  (the address commits to them, or their derivation is reserved) and that its
  request was agreed to by the owners of both keys; of the book, that makers have
  signed what is in it. Everything a call knows is stable under `Kept`, what every
  step leaves as it is: terms of orders, reservations, stored trades. So a call
  that was in order still is when it writes, whatever ran in between, and its trade
  inherits it. `BothHaveSigned`, `AcceptanceIsUnique` and `AnsweredIsWatched` follow
  from `IInv`; `ClosedStaysClosed` holds of each step from it. `BookInv` adds the
  amounts: `TypeOK`, `FillsConserved` and `SweptWithinPrefund` follow. A fill and its
  trade are stored by one statement, so the sum of an order's trades grows by what the
  order loses; a sweep starts only from a full deposit and there is one row for each
  trade. `SweptWithinPrefund` is conditional on `OfTrades`: where callers ask for what a
  trade of that order has sold, the sweeps sum up to no more than its trades, whatever
  rows they were computed from. With other callers the code does not keep it.
* **BridgeRelayerProofs.** `IInv` relates the rows, each poller, the applier's list
  and the log. Its core: an exit that is settled was requested further down the log;
  an exit with a release was approved, so it is not refunded, and its row always
  remains a candidate for its own spend. That is why, also with two exits of equal
  terms, a spend is matched to the right one or to none. `Merged` never loses what a
  row knew, so replays and stale writes are harmless. `RelayerRefinesExits` is the
  composition theorem, and with it everything about the exits holds of the composed
  system. `PreparedIsAttested` counts ids: a quorum names more of them than liars can
  speak under (`RelayerAssumption`), so one was spoken under by a correct relayer.
* **TradeApiProofs.** *Accounts.* `SignedInv` follows a call from the check of its
  challenges to the statement that consumes them: the row count of that update lets one
  call through, and the insert decides once more whose wallet it is.
  `PointsAreEarned` has two directions. `PointsInv` says of every event a call still has
  to save that its cause stands (`Caused`), and causes are never unmade: users, owners
  and referrers stay. For the other direction, while no fault has happened, a bonus that
  is due is in the ledger or the very next event of a call (`BonusPaid`), and what a call
  that ended had to award is saved (`ProgressOK`).
  *SideEffects.* `EffectsInv` says what a handler may rely on between its statements: one
  that sends works on a row of its key and hash, one that records the submission was
  accepted by the node, one that confirms has reached every sink. `LedgerIsTrue` follows for
  the rows the program made, since these and
  what happened outside are never taken back; what an operator stores by hand
  (`by = Posted`) is taken as it stands, and the state of the trade is no part of it, since
  a late write can replace an end after its evidence was stored. `SentOncePerKey` needs `SendsInv`: at most one
  handler is about to send for a key, the one whose insert created its row, and after it
  has sent there is none. `AlertRateBounded` counts: an alert in the ledger, or about to
  be written, has its timestamp in the bucket or had it there (`RateInv`), so a timestamp
  is taken before the write it pays for.
  *Notifications.* `MailInv` says of each copy a round holds that its delivery exists and
  goes where the row goes, of each token's delivery that it goes to the token's address,
  and of an enqueueing or a checked notification that its address is proven: then
  `OnlyProvenAddresses`, since what proves an address is never undone. `LateMailsBounded` is
  inductive once the rounds that have checked a type and not yet sent are added to the
  mails already late (`LateInv`): a switch leaves at most one such mail to each round,
  and a later check finds the type off. With a provider the bound on attempts in `MailTypeOK`
  rests on `AttemptsInv`: attempts plus the live copies, those a round took while
  attempts were left, stay within `MaxAttempts - 1`, two for each round, and one for each
  update by an operator. A failure uses up the copy it came from; new copies are live only
  while attempts are left.

Only model-checked:

* the liveness properties (`CatchesUp`, `DepositIsNeverLocked`, `SignedIsDelivered`,
  `RefundOffered`, `DisagreementIsFlagged`, `MirrorCatchesUp`, `PaidIsReleased`,
  `EveryDeliveryEnds`, `AlertsAreAnswered`): fairness and `ENABLED` are out of the prover's
  reach.

Every invariant and every action property that a passing run checks is also a theorem.

## Observations

What the models made visible and no run states, beside the two findings.

*Indexer.*
- A crash between `saveBlock` and the scan leaves an indexed block whose funding and
  spends are never seen; `docs/operations/funding-detection.md:44` promises one
  transaction. `FundingObserved` is stated of blocks no fault cut short.
- After a fork a live observation may have two spends: the row of the lost one stays
  (`watched-address-repository.ts:328`), against
  `docs/operations/escrow-watch-api.md:69`. A trade may so be recorded as released for a
  transaction that is no longer in the chain (`pearl-proof-reader.ts:43`).

*Escrow package.*
- The fee of a release is `pearlReleaseFeeGrains` when it is signed, the tolerance of the
  watch the same setting when it was registered. Raised in between, the release is an
  `unknown_spend` to the indexer, and a presignature made before is refused
  (`TemplateVerdict`, `PresignTemplateIsAccepted`).
- Accepting a presignature looks neither at the sequence of its input nor at the
  validity of the signature: that a relative lock or a bad signature keeps the release
  from being mined shows when it is sent.

*Settlement.*
- The broadcast loop sends a recorded attempt without looking at Base again
  (`settlement-worker/src/main.ts:94`; `services/settlement-worker/README.md:15`).
- The classification of a funding as underpaid or late does not reach the decision
  (`repository-adapters.ts:116`; `docs/operations/funding-detection.md:116`).
- With a USDC fee, the deposit both sides agreed on is taken for another amount
  (`settlement-loop.ts:159`, `trade-service.ts:1660`): `FeeCharged` in the model.
- A crash between `applyTradeState` and `preparePrlRelease` leaves the trade in
  `release_pending` without an attempt, for the operator.
- The worker reads its trades one after the other inside one `try`
  (`settlement-worker/src/main.ts:63`): an error about one, such as a watch that is
  missing for good, ends the iteration for those behind it and skips the broadcasts.

*Bridge contract.* The mint window is fixed and not rolling: `MintRateBounded` holds
with twice the cap and not with once.

*Bridge service.*
- Exits of equal amount and recipient stay ambiguous to the applier for ever; a
  processed exit whose spend is matched is counted twice until it is applied.
- `NoReleaseInDeficit` fails through the change alone: with a reconciliation that counts
  only the unspent output of the reserve, TLC finds the same model to keep it.
- Whoever can deliver attestations can speak for every relayer: their ids are not
  authenticated where the quorum is counted, and `signature` is not read.
- Watches built by `buildBridgeDepositWatch` carry no expected amount, so the indexer
  calls every deposit `unknown_funding`, which goes to manual review.
- A deposit that was detached, late, underpaid, duplicate or out of bounds blocks
  every exit release; `decideDepositMint` does not look at the reconciliation.
- Too few confirmations are answered with manual review instead of a wait; one
  unknown relayer, wrong payload or duplicate sends an event there for good.

*Orders.*
- A repeated `clientRequestId` that overlaps its first call on a multisig deployment may
  build another escrow than the one stored (`repository.ts:1297`): the indexer
  answers with a conflict then, so no client is given an unwatched address.
- The row a sweep writes back may undo another sweep's progress, so what is left of a
  prefund can be wrong, though the sweeps for its trades stay within the deposit. Sweeps
  of other amounts need not: two calls of 60 from one row that shows 100 as left both
  store their sweep (`trade-service.ts:851`).
- An underfunded prefund is skipped before its expiry is looked at and stays
  `pending_funding` for ever.
- A `clientRequestId` used first for a plain quote, or for another order, gets that
  quote back at its own price and links it to the order (`trade-service.ts:1552`).

*Side effects and alerts.* A key stays reserved after a send that failed. A replay
sends its message before it looks at its key. Messages may have reached some sinks
while the delivery is on record as failed. A crash between an alert's row and its
delivery leaves it to a manual replay. Without a notifier alerts are stored, answered
and sent to nobody (`trade-service.ts:2512`). The generic route stores what an operator
claims: an alert nobody delivers, a delivery or a release that never happened
(`http.ts:298`, `trade-service.ts:2214`). `transitionTrade`, the presignatures and
`markManualReview` write back the whole row they have read, so evidence of an end may
outlive the end it was recorded of.

*Notifications.* A delivery that was sent may be overwritten as failed by an
overlapping round and mailed again. A notification is lost when its enqueueing
fails. Trades the worker moves notify nobody. `notificationEmailEnabled` is read
by no sender. Without a provider for its channel a delivery is attempted for ever; only a
production configuration with the worker enabled insists on one (`config.ts:87`).

*Accounts.* A registration that loses the race for its wallet after `FindWallet`
still awards `referral_signup` to the referrer its request named, of a user who has
another attribution or none (`trade-service.ts:1425`). Points of a call that
crashes between two events are lost for good. The loser of a race for a wallet has
used up its challenge. The settlement worker's own writes of `released` give no
points.

## Not modelled, and why

- Encoding, keys and cryptography; a signature is a key, or a pair of a key and a
  message.
- HTTP parsing, pricing, configuration, views for administrators, wording.
- `PearlEscrowSettlementSignerAdapter`, the signer boundary and the file decision
  repository: not wired into any service.
- The in-memory doubles and JSON file repositories, except the in-memory repository
  of the trade API, which prefunded orders need. The JSON repository of the bridge
  service reads, modifies and writes its file without a lock.
- Manual approval, stale watches, rolling window inputs, monitoring and alerts of
  the bridge service.
- `packages/pearl-indexer`'s reorganisation and proof helpers: the service does not
  use them.
- The web application and deployment scripts: no shared state of their own.

Two watches on one address share a first-come choice, which the indexer's model
leaves open. Crashes of the API in the middle of a write to the trade row, and API
calls on one trade that overlap each other, are outside `OtcSettlement`.

## Plan

1. *(done)* `PearlIndexer` with `ChainFollower` and `SpendClassification`;
   `PrlUsdcEscrow`; `PearlBridge`; `OtcSettlement`; `OrderBook`; `BridgeExits`,
   `BridgeRelayer`; `Notifications`; `SideEffects`; `Accounts`.
2. *(done)* The Base side of the settlement as an image of `PrlUsdcEscrow`: both
   implement `BaseEscrow`.
3. The Pearl side of the settlement as an image of `PearlIndexer` (`INSTANCE ... WITH`).
4. Composition of `BridgeExits` with `PearlBridge`, whose log it takes as given.
5. Theorems: that the compositions of 3 and 4 implement what the coarse modules take as
   given.
