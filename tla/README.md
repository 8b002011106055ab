# Verification of axtend

TLA+ models, TLC configurations and TLAPS proofs for axtend, a Moonbeam-style
parachain node: a Substrate runtime made of pallets and EVM precompiles, a node
with RPC services around it, and the tools beside them.  Paths below are
relative to the repository; `lib.rs` alone is that of allychain-staking.

Contents: [1 Inventory](#1-inventory), [2 Plan](#2-plan),
[3 Modules and code](#3-modules-and-code), [4 Runs](#4-runs),
[5 Proofs](#5-proofs), [6 Disagreements found](#6-disagreements-found),
[7 What is not modelled](#7-what-is-not-modelled).

To repeat a run: `tlc -config <Run>.cfg <Module>.tla`; to repeat the proofs:
`tlapm` on the eight modules whose names end in `Proofs`.

## 1 Inventory

### 1.1 allychain-staking (`pallets/allychain-staking`)

Delegated proof of stake.  The core logic of the program, and the part of it
that money depends on.

*Delegation books* (`lib.rs` 272-1173).  Per candidate: `CandidateInfo`
(bond, counted stake, number of delegations, boundary amounts and fill level of
the two lists, a pending bond decrease, status), `TopDelegations` and
`BottomDelegations`, two bounded lists sorted by amount.  Operations:
`add_delegation`, `rm_delegation_if_exists`, `increase_delegation`,
`decrease_delegation` and the methods they fan out to, one per list.  Hard: the
list a delegation is in is never stored, it is inferred from an amount and the
cached boundary amounts; an insertion may move a second delegation down and
kick a third out; a removal moves one up.  Correct when the metadata is a true
summary of the lists, the top list holds the largest delegations, the lookup
always leads to the right list, and equal amounts keep their order.

*Bonding, delegating, exits, requests* (`lib.rs` 1274-1686, 2690-3188).  State:
the books, `DelegatorState` (delegations, totals, pending requests, status),
`CandidatePool`, `Total`, and the reserved balances in the currency pallet.
Operations: 10 extrinsics of candidates, 9 of delegators, 2 root hotfixes.
Hard: one extrinsic edits the records of accounts that are no party to it (a
kick, the exit of a candidate); requests and exits execute rounds after they
were checked; calls write before a lookup that can still fail, without a
roll-back; the same facts are kept in three places.  Correct when the books and
the delegators' records tell the same story, each request belongs to a
delegation, stake is backed by reserves, the pool is what it should be, and an
accepted decrease leaves the minimum.

*Rounds, selection, payouts* (`lib.rs` 2193-2205,
2407-2495, 2628-2690, 3188-3481).  State: `Round`,
`SelectedCandidates`, `AtStake`, `Points`, `AwardedPts`, `Staked`,
`DelayedPayouts`, `TotalSelected`.  Driven by `on_initialize` and
`note_author`.  Hard: a round's payouts spread over later rounds, one collator
per block, while root calls change the length of rounds; snapshots are read
rounds after they were taken, when the collator may be gone.  Correct when
nobody is owed without a snapshot, and everybody is paid once, in time, by the
stake of the round that is paid.

*Inflation and rewards* (`inflation.rs`, `lib.rs` 3243-3377).  The issuance of a
round is split between the reserve, the collator's commission and the stakes,
with a rounding at each step.  Correct when a round mints what it may mint.

*Migrations* (`migrations.rs`): translations between storage layouts.

### 1.2 Other pallets

- *asset-manager*: two maps, asset to type and type to asset, the fee per
  second of a type and a sorted list of the types fees may be paid in; four
  calls edit two or three of them each.
- *author-mapping*: author id to account, with a deposit reserved per id;
  the ids of an account rotate, the deposit may change with the runtime, and
  genesis registers its pairs without looking for an entry of the same id.
- *maintenance-mode*: one flag that switches which hooks, calls and message
  handlers of the runtime run.
- *migrations*: runs the runtime's migrations at an upgrade, and keeps which have
  completed.
- *xcm-transactor*: registration of indices and transaction information; the
  rest is fee calculation and XCM encoding.
- *proxy-genesis-companion*, *ethereum-chain-id*: genesis configuration.

### 1.3 Precompiles, runtimes, primitives

The precompiles decode EVM calls and dispatch them to pallets; the approvals of
the ERC-20 balances precompile are the only state of their own.  The three
runtimes compose the pallets and set constants (the models' CONSTANTS).

### 1.4 Node and RPC

- *trace RPC* (`client/rpc/trace`): calls of `trace_filter` start a batch of
  blocks, fetch their traces one by one and stop the batch; one asynchronous
  task owns the cache and serves three inputs (requests, messages of the tracing
  tasks, expired batches); tracing tasks wait for a permit of a semaphore, can be
  cancelled while they do, and report through a bounded channel.  Correct when
  every call is answered, a block's count covers no more than the batches that
  will take it back, and a block that a batch asked for is there.
- *debug, txpool, finality, manual-xcm RPC*: queries of the node.
- *evm-tracing* (`client/evm-tracing`): listeners that rebuild call trees from
  a stream of EVM events.
- *node*: service wiring, command line, chain specifications.

### 1.5 Tools

- *mission-control-bot* (`tools/bots/mission-control-bot`): a Discord faucet.
  Messages are accepted once per interval and user or address, wait in a queue,
  and are sent by a resolver with a series of workers; each await of the
  resolver lets messages and failures in between, and so do the signature and
  the sending of each transfer.  Correct when a request waits until a worker
  takes it, is never started twice, and waiting times hold.
- *typescript-api, axtend-types-bundle*: type declarations.
- tests, load and release scripts.

### 1.6 How they interact

`on_initialize` of staking runs before the extrinsics of a block; it reads the
candidate pool and the books, which only extrinsics write, and writes the
snapshots and payouts, which no extrinsic reads.  author-mapping feeds the
author of a block to `note_author`.  maintenance-mode decides which of the
pallets' hooks run; both sets of hooks run the migrations.  The precompiles
dispatch the same extrinsics as signed transactions.  The RPC services only
read the chain; the bot is a client of the node.

The hazards, each at its line and with the properties that cover it, are
listed in `PROJECT.json`, with a note for each that no property covers.

## 2 Plan

Done, in this order: the books and the calls of staking (`DelegationBook`,
`AllychainStaking`, `DelegationOrder`); rounds and payouts composed with them
(`StakingRounds`) with the abstract specification `Payroll` and liveness; the
trace cache (`TraceCache`) with liveness; the small parts (`AssetManager`,
`AuthorMapping`, `RuntimeUpgrade`, `StakingRewards`, `FaucetBot`); and proofs of
the safety properties of all of them, section 5.

Left, in the order of their worth:

| What | Why |
|---|---|
| `FirstComeFirstServedInList` as a theorem | `BookOrderProofs` knows where each method puts and takes entries; the action property needs every method once more, for positions |
| `StakeLedger`, an abstract specification of the calls: one map of delegations, one of bonds | `AllychainStaking` would refine it up to the two faults of section 6; the facts are in `LedgerProofs` |
| `Approvals` of the ERC-20 precompile | allowances are never overspent |
| the calls that configure rewards | when a change of commission or inflation reaches a round that has ended |

## 3 Modules and code

One module per component, properties and proofs beside it:

    DelegationBook              one candidate's book: pure operators
      DelegationOrder           the sorting algorithms against DelegationBook
      AllychainStaking          the calls: state, actions
        StakingProperties       invariants and action properties
          MCAllychainStaking    instances for TLC
        StakingRounds           blocks, rounds, selection, payouts; composes the calls
          RoundsProperties      invariants, the refinement of Payroll, liveness
            MCStakingRounds
      SumProofs                 sums over finite sets
      DelegationBookProofs      shape and metadata of a book
        BookOrderProofs         order, entries and totals of a book (with SumProofs)
      AllychainStakingProofs    types, metadata, pool, roles, minima
        LedgerProofs            books, records, requests, reserves (with BookOrderProofs)
          StakingRoundsProofs   snapshots, points, payouts, the refinement
    Payroll                     what authors are promised (abstract)
    TraceCache                  calls of trace_filter, cache task, tracing tasks
      TraceProperties           invariants, liveness
        MCTraceCache
        TraceProofs             (with SumProofs)
    AssetManager, AuthorMapping, RuntimeUpgrade, StakingRewards, FaucetBot
                                small parts, each with its properties
      MCParts                   all of them and DelegationOrder, one per behaviour
      PartsProofs               proofs about the same

### DelegationBook

Each method of `Delegations` and `CandidateMetadata` is an operator from the
book in storage to the book that is written back, with the same case
distinctions in the same order.  `Insert` is
`insert_sorted_greatest_to_least`; `Resorted` an entry's change with the sort
that follows; `AddToTop`, `AddToBottom`, `RemoveFromTop`, `RemoveFromBottom`,
`IncreaseTop`, `IncreaseBottom`, `DecreaseTop`, `DecreaseBottom` are the methods
per list; `AddDelegation`, `RemoveDelegation`, `IncreaseDelegation`,
`DecreaseDelegation` are the entry points.  An early return with an error is a
predicate the caller uses as its guard (`CanAdd`), or the value "missing" of
`Lookup`, the one decision that removal, increase and decrease share.
`kicked` and `less` in an outcome are the delegation that had to go and the
`less_total_staked` of the code.  The recorded `total` of a list is kept
separate from its entries, because the code lets the two drift apart.

Abstractions: an amount is a natural number (balances are `u128`, bounded by
the total issuance, so the saturating additions never saturate; saturating
subtractions are modelled); an `Option` is a set with at most one member.

### AllychainStaking

State: one variable per storage item; `reserved` stands for the currency
pallet, of which the code uses `can_reserve`, `reserve` and `unreserve`
(external; an account's free balance is `Endowment - reserved`).

Actions: one per extrinsic, with the extrinsic's name.  An extrinsic runs to its
end before the next begins, so it is atomic; what interleaves is the order of
the calls and of the rounds in between.  A dispatch that fails before it writes
is no step.  Dispatches are not rolled back here, so the two that can fail
after a write keep it: `DelegatorBondMore` has reserved and
`ExecuteDelegationBondLess` has unreserved when the lookup fails.
`LookupsFindTheirList` is why neither happens.
`ExecuteDelegationRequest` is `ExecuteRevokeDelegation` or
`ExecuteDelegationBondLess`, the two arms of `execute_pending_request`.
`SaveBook` writes back a book and, through `PoolWith`, does what
`reset_top_data` does: `update_active` when the counted stake changed.
`StartRound` is the part of `on_initialize` that the calls can see, the number
of the round; `StakingRounds` has the rest.  The weight hints of the
extrinsics are taken to be large enough.  `RootCall` has the two hotfixes, used by
`RootSpec`.

### StakingRounds

A block is `OnInitialize`, then `NoteAuthor` (the inherent), then calls of
`AllychainStaking` and the two root calls that shape rounds; `phase` says what
comes next.  `age` is the block number less `Round.first`, which is all that
`should_update` looks at.  `NextRound` is the transition: `prepare_staking_payouts`,
`select_top_candidates` (`TopCandidates`, `AtStakeWith` with the fallback to the
snapshots of the round before), `Staked`, and the first payment.
`HandleDelayedPayouts` is the payment of one collator, or the last clean-up, in
every block.  Before genesis, `GenesisCall` dispatches the same calls as the
genesis configuration does, and `GenesisBuild` selects the first collators.

Abstractions: a delayed payout is known by the stake its issuance is computed
from; `StakingRewards` divides that issuance.  Equal stakes are selected in any
order (the code breaks ties by account).

### Payroll

What the pallet promises authors, with none of its storage: who is on duty in
this round, with the stake behind it, and who is owed how many points, weighed
by which stake.  A debt is only ever increased by work in its own round and
only ever settled whole, in the round `Delay` later.  `RoundsProperties` maps the
pallet to it: `OnDuty` joins `SelectedCandidates` with this round's snapshots,
`Owed` joins `AwardedPts` with theirs.  The mapping is where the hazard is: the
two storage items live in different rounds and are written by different hooks,
and a snapshot that is missing, renewed or taken too early breaks it.

### TraceCache

`call` holds where each call of `filter` is: it sends `StartBatch`, a
`GetTraces` for one block after the other, and `StopBatch` when it has all,
when its count is reached (`limited`) or when a fetch failed.  The actions
`Request...`, `Blocking...` and `ExpiredBatch` are the handlers of the cache
task, one per turn of its `select!`.  A tracing task is known by the batch and the
block it was spawned for and goes from "queued" through "starting" to
"tracing"; `Wanted` is its unqueue channel.  The oneshot channel on which a call
awaits its answer is the call's own state: an answer (`Received`) or a dropped
sender (`Refused`).  Channels keep their order; the bounded one makes tasks
wait.  Replays may fail, and the failure is cached like a result.

### AssetManager, AuthorMapping, RuntimeUpgrade

One action per call, hook or handler.  In `AssetManager`, the hint of the number
of assets is an input, and the binary search is its specification on a sorted
list (`Place`, `Found`) - if the list were not sorted, `Found` would miss
entries as the code would.  In `AuthorMapping`, the genesis build is a sequence of
pairs, `GenesisMapping`, which `GenesisBuilt` ends and the calls follow.  A pair
is registered without a check, so that a repeated id reserves again and replaces
the entry; `overwritten`, a history variable, remembers the deposits of the
replaced entries.  `ChangeDeposit` is an upgrade of the runtime that changes the
constant `DepositAmount`.  `RuntimeUpgrade` has the
migrations pallet over a history of releases, which may be skipped, with the
loop of `perform_runtime_upgrades` as a recursive function (`Performed`), and the
maintenance flag with the queues it holds back (external: messages for which a
block has no weight stay, in order).

### StakingRewards

`prepare_staking_payouts` and `pay_one_collator_reward` as arithmetic, with the
rounding of `Perbill`: `from_rational` rounds down, the product with a balance
to the nearest.  `Accuracy` is 1,000,000,000 in the code.  The bound is
unconditional: a commission that exceeds what the bond reserve leaves of the
issuance is paid nevertheless, so that the larger of the two is what a round may
mint.

### FaucetBot

What runs between two awaits is one action.  `resolver` is the place of the
resolver among its awaits: a worker's balance, a receipt, the balance to
report, asleep.  `transfers` says what became of each request that a worker took:
its transfer is being signed, could not be signed, was sent, was confirmed or was
refused.  `WorkerIsFunded` takes the request off the queue and the executor of the
promise begins to sign; `SigningEnds` is the end of that await, which leaves the
transfer sent, or the executor over and its promise unsettled; `TransferEnds` is the
node's answer.  `UserKeys` has two kinds of keys because the code writes the
map under ids and under names.  The outcome of an await is a choice; a promise
that never settles is a resolver that stays where it is.  `Restart` loses all
that the process kept in memory, signatures under way included; what was sent
goes on.

### DelegationOrder

`DelegationBook` describes insertion and re-sorting by their result.  This
module has them as the code runs them - the early push on a tie with the
last entry, `binary_search_by`, which may return any of several matches, the
walk to the first different amount, and the stable sort of all the entries -
and shows that the results agree.

### The operators named `X_Y`

An operator such as `Lookup_NoFallback` before `Lookup` is `Lookup` with a
plausible fault.  Every property has one under which its run fails; they show
that the properties are sensitive to the code.

## 4 Runs

| Run | Instance | Properties |
|---|---|---|
| `DelegationLists` | 1 candidate, 4 delegators, 2 top places and 1 at the bottom, amounts 1-2, 2 rounds, 2 pending (102 000 states) | `MetadataMirrorsBooks`, `ListsFillFromTheTop`, `TopTotalsAreSums`, `TopHoldsTheLargest`, `LookupsFindTheirList`, `TotalWithinReserved`, `DelegationsEndOnlyWithCause`, `FirstComeFirstServedInList` |
| `KicksAcross` | 2 candidates, 3 delegators, 1+1 places, 1 pending (112 000) | `BooksMatchDelegators`, `RequestsAccounted`, `StakeIsReserved`, `PoolMatchesActive` |
| `CandidateLife` | 2 accounts that may be either, 3 rounds, bond 2 to 3, `RootSpec` (114 000) | `TypeOK`, `ActiveAreInPool`, `RolesDisjoint`, `PendingDecreasesLeaveMinimum` |
| `PrudentLedgers` | 2 candidates, 2 delegators, `PrudentSpec` | `LedgersAgree` |
| `Rounds` | 2 possible collators and a delegator, 5 rounds of 2 or 3 blocks, payment 2 rounds later, 1 or 2 selected, 3 calls (286 000) | `SnapshotsOnHand`, `PointsCoverAwards`, `PayoutsHavePoints`, `SnapshotSharesAddUp`, `PayoutsInTime`, `KeepsPayroll`, `AwardedArePaid` |
| `TraceCalls` | 2 calls, 2 blocks, 1 permit (172 000) | `TraceTypeOK`, `CountsWithinBatches`, `PooledIsTraced`, `WaitersAreKnown`, `PatientCallsShare`, `CallsEnd`, `CacheDrains` |
| `Parts` | 3 asset types and 2 prices; 3 author ids of 2 accounts, 2 deposits; 4 releases of 4 migrations and 4 messages; 2 collators with 0 to 2 delegations; 2 users, 2 addresses, 2 workers, 3 requests, 1 restart; lists of up to 5 entries with 3 amounts (1 650 000 together) | `ReverseEntriesAreRight`, `FeeTypesArePriced`; `DepositsAreHeld`; `MigratedOnce`, `MessagesWaitForMaintenance`; `RewardsWithinReward`; `RequestsAreTakenOnce`, `UsersWaitTheirTurn`; `OrderAgrees` |

The runs named `Doc...` each refute one sentence of the source; see section 6.

**Staking calls.**  `WithinBounds` cuts the search at `MaxPending` pending
requests and exits and at a bond of `MaxBond`; the other bounds are constants of
`AllychainStaking` (amounts, endowment, rounds, who may join and who may
delegate).  Accounts that play the same part are symmetric; none of these
properties is a liveness property.  What the book does depends on whether a
list is empty, partly filled or full, on the order of an amount and the two
boundary amounts, ties included, and on who owns the first and last entries.
Two amounts with increases give three distinct ones; two places at the top
separate the first from the last; a fourth delegator meets two full lists.  A
second candidate is all that a delegator's record can distinguish from none or
many, and a third delegator is what it takes to kick.  Delays are 1 round, so
that a request can be not yet due, due and overdue within the rounds explored.

`DelegationLists` asks the hard questions about one book, the lookup above
all: when the last of the top and the first of the bottom are equal, the
amount does not tell where a delegation is, and when a top place is free there
is no bottom.  `DelegationsEndOnlyWithCause` says who may lose a delegation
without asking: only the very last of two full lists, to a larger one.
`KicksAcross` asks whether the third parties' records survive.
`PrudentLedgers` isolates the two faults of section 6 that make the ledgers
drift: without those two combinations the ledgers agree exactly.

Order among equal amounts is kept within a list only: a delegation that drops
from the top list goes behind later equals in the bottom list.  Nothing in the
source promises more, so no property says it.

**Rounds.**  Five rounds with a delay of two are three rounds whose payment
round is within the bound; a snapshot is taken, outlived by its candidate and
used within them.  Two collators for one or two places give selection a choice,
a `MinCollatorStk` above the smallest bond makes rounds with nobody eligible,
and with rounds of 2 and 3 blocks payments both fill their round and leave room.
Three calls let a candidate join, be delegated to and schedule its exit at any
block.  `PayoutsInTime` and `AwardedArePaid` hold here because rounds are not
shortened; `DocPayments` is the same with rounds of 2 and 1 blocks.

Fairness (`ChainGrows`): a block is always begun, and somebody of the selected
collators authors it - what the consensus of the relay chain and `can_author`
provide, and no more: no call is ever owed to happen, and which collator
authors or which entry of the map is paid first is open.

**Trace cache.**  Two batches are what it takes to share, stop early, pool
again and expire out of order; two blocks are what it takes for a call to hold
one and wait for another; one permit makes a channel of two places, and tasks
wait for both.  Fairness: the executor runs every task, `select!` serves every
channel that has something for it (it picks at random among the ready ones),
a replay ends, and timers expire.  No fairness makes a client call, or a replay
succeed.  `PatientCallsShare` says what is lost by stopping early: as long as
calls fetch all they asked for, counts are exact and nobody is refused.

**Parts.**  The parts share no state, and each behaviour is about one; `part`
says which.  Three types are what it takes to give an asset the type of another
and then a third; three ids to rotate into a gap; releases that drop, repeat and
reorder migrations.  Lists of five with three amounts have ties at the front, in
the middle and at the end, and binary searches with several matches.

**Where behaviours may end.**  Deadlock is not checked in four of the passing runs.
`CandidateLife`: a hotfix may add a leaving account to the pool, and
`join_candidates` then refuses it for good.  `Rounds`: the bound on the rounds, and
a chain without collators, which has no blocks.  `TraceCalls`: each call is made
once.  `Parts`: a reward is divided once, and other parts end at their bounds.
Liveness properties are checked instead where something must happen.

## 5 Proofs

**`DelegationBookProofs`** proves, for every capacity and every number of accounts,
that each method of a book keeps it *well kept*: of the right type, `Mirrors`
(the metadata summarises the lists) and `FillsFromTheTop`.  Each lemma has the
caller's knowledge as its assumption - that `CanAdd` let the delegation in, or
that the list was found by `Lookup` - and gives, besides, what the caller needs
of the rest of the record: bond, request and status are untouched
(`SameCandidate`), and who was kicked.  The argument is by sizes: insertion
adds one entry, `Without` takes one off when the owner is in the list, so that
the two lengths and the fill level follow; the boundary amounts follow because
each method ends with `ResetTop` or `ResetBottom` of the list it changed.

**`SumProofs`** proves what the folds of the community modules compute when they
sum a function over a finite set: adding, removing, renaming, comparing.  The
induction theorems of the library take an operator as a parameter, which the
provers cannot instantiate; the recursion behind the fold is shown to define
something by an argument about a minimal counterexample (`MinimalSubset`), with
the set of counterexamples as a set.  `CountingUp` in `PartsProofs` is the same for
a loop that counts.

**`BookOrderProofs`**: after each method of a book both lists are sorted, nobody is
in them twice, nobody at the bottom has more than anybody at the top, the
entries are those of before but for the one that was to change and the one that
was kicked, and the recorded total of the top list is the sum of its amounts
(`InOrder`, `Changes`).  At the bottom the total is only at least the sum: section
6.  An insertion or removal is seen as "the same sequence with one element
more" (`OneMore`), and a change with the sort that follows it as a removal and an
insertion.

**`AllychainStakingProofs`** lifts `DelegationBookProofs` to the pallet.  The inductive
invariant is

    StakingInv == BooksOK /\ BondsCovered /\ PoolOK
                  /\ DelegatorsOK /\ RolesDisjoint /\ NumbersOK

- `BooksOK`: the three maps of the candidates have the same keys and each book
  is well kept.  This is the strengthening of `MetadataMirrorsBooks`: capacities
  and boundaries are what the methods decide by.
- `BondsCovered`: a bond covers its pending decrease and the minimum.  Without
  it the saturating subtractions of `execute_candidate_bond_less` could stop
  the bond at zero and not the counted stake, and `total_counted = bond + top
  total` would not be kept.
- `PoolOK`: every active candidate is in the pool with its counted stake; it
  needs `BooksOK` for the value, because `PoolWith` writes only when the counted
  stake moved.  That nobody else is in the pool (`NoStrays`) is kept by the calls
  but not by root's hotfix, so it is an invariant of `Spec` only, and
  `RootKeepsThePallet` proves the rest for `RootSpec`.
- `RolesDisjoint` follows from the two guards once every action is seen to add
  keys to one of the two maps only.

The step is proved action by action: the candidates' maps
(`StepKeepsCandidates`), the delegators' records, the roles, the numbers, and
then together (`StepKeepsInv`).

**`LedgerProofs`** proves that the pallet's separate records of the same stake
agree.  The inductive invariant is

    LedgerInv == StakingInv /\ BooksAgree /\ RecordsAgree
    StakeInv  == LedgerInv /\ AllBacked /\ TotalWithinReserved

- `BooksAgree`: every book is `InOrder`, and its entries are exactly the
  delegations that records have with its candidate.
- `RecordsAgree`: a record has at least one and at most the maximum of
  delegations, its total is their sum, its requests are for delegations it has
  and for no more than their amounts, and `less_total` and `revocations_count` are their sum and number.
- Neither is inductive alone.  A method of a book finds a delegation because
  the amount in the record is the amount in the book; a lookup by amount is
  right, ties included, because of the order (`LookupsCorrect`); and
  `Delegator.rm_delegation`, which tells an empty record by its total, is right
  because totals are sums of positive amounts.
- A candidate's exit and a kick edit the records of third parties:
  `SaveBook` and `DelegateWritesRecords` show each of them to be what the book
  lost.
- `AllBacked`: an account has reserved at least its bond or its record's total.
  With every call's effect on `Total` bounded by its effect on the reserves
  (`StepMoves`), `Total` never exceeds the sum of the reserves.
- `DelegationsEndCorrect`, the action property, follows from the same facts: the
  only entry a book loses unasked is the last of two full lists.
- `PrudentLedgersAgree` is exact.  Two calls may take less off `Total` and the
  reserves than stake leaves the ledgers: a candidate's exit, by what the bottom list's
  recorded total has drifted, and a revocation, by what was added since it was
  scheduled (`StakeMoved`).  `PrudentStep` rules out what leads there; the invariant adds
  `BottomsExact`, which every method but a decrease at the bottom keeps, and
  `RevokesFull`, a pending revocation is for its whole delegation.  So the two faults
  of section 6 are the only ones by which the ledgers drift apart.
**`StakingRoundsProofs`** carries this over to blocks and rounds.  That every
step of a block is a step of the pallet or leaves its variables alone
(`RoundsImplementStaking`) brings the invariants of the calls along.  `SnapshotsOnHand` is then
inductive together with the snapshots' type, and with what holds before
genesis (`RoundsInv`): the fallback of a round without eligible candidates copies the
snapshots of the round before, which are there because its collators had them;
a payment takes a snapshot away, but of a round that is over, because the delay
is at least 1.  With snapshots at hand, every step maps to a step of `Payroll` or
to a stutter (`RoundsImplementPayroll`): `OnDuty` and `Owed` are defined where they
should be, and only then.

- `PointsInv`: the points of a round are at least the sum of its awards, and
  exactly that until its payment begins; a payout that is under way has its
  points.  A payment removes an award and leaves the points, so the inequality
  stays; the clean-up takes the points only when no award is left.
- `SnapshotsAlwaysAddUp` rests on `TopTotalsAreSums` at the moment a snapshot is taken.
- `TimeInv`: at most as many collators of a round are unpaid as the payment round
  has blocks left (`InTime`), because no more are selected than a round
  has blocks and each block pays one.  It holds while `set_blocks_per_round` does
  not shorten rounds, which `PayoutsInTime` has as its condition.

**`TraceProofs`** proves the cache's invariants.  The four about single entries and
calls share an invariant, and none is inductive alone:

    TraceInv == TraceTypeOK /\ OneRequestEach /\ BatchesAreOwned
                /\ CountsWithinBatches /\ PooledIsTraced /\ WaitersAreKnown

- `OneRequestEach`: a call has at most one request in the channel, the one
  its state says it has sent; without it `StopBatch` could arrive twice and the
  same batch expire twice.
- `BatchesAreOwned`: until the cache has handled its `StopBatch`, a call's batch is
  its own and not yet stopped, so that a timer belongs to one batch, and a count is given
  back once.
- `CountsWithinBatches` then goes down with the expiry that removes one user
  from it, and `RequestStopBatch`, which removes entries, can only make it easier.
- `PooledIsTraced` and `WaitersAreKnown` need the order of the channels only at
  their heads; that the pooled entry names the task that holds its unqueue
  channel is what makes a cancelled task harmless.

`PatientCallsAlwaysShare` has a further invariant (`ShareInv`): what a call has
fetched is what its batch's blocks say, up to the block it is at, and as long
as all calls are patient the count of a block is exactly the number of batches that
hold it.

**`PartsProofs`**:

- asset-manager: `ReverseEntriesAreRight` is inductive as it stands, because a
  reverse entry of an asset can only be the one of its present type, which is
  what each call removes.  `FeeTypesArePriced` needs that the list is
  strictly sorted, or the binary search would miss entries (`SearchFinds`).
- author-mapping: the reserve of an account is the sum of the deposits recorded in
  its entries and of those that genesis took for entries it replaced.  Each step
  moves one entry and one account's reserve: the enactment takes what it records
  (`EnactKeepsDeposits`), a repeated id moves a deposit from the sum to `overwritten`
  (`GenesisKeepsDeposits`), and what is given back is what was recorded, whatever
  the price of today.
- upgrades: the loop of `perform_runtime_upgrades` keeps, round by round, that what
  ran is marked as done and ran once (`LoopOK`).  The messages executed and those
  that wait are, in this order, all that arrived.
- rewards: a share is at most its fraction of what is left plus half a unit, so
  that what is minted stays, times the accuracy, below the fractions paid so far (`MintedFits`);
  the fractions of a round add up to at most one because each is rounded down.  What
  is paid of is the reward, or the commission where that is larger (`Limit`).
- order of delegations: the stable sort of a list with one entry changed, and
  the insertion by binary search with the walk over equals, are proved to be
  `Resorted` and `Insert` for lists of any length.
- faucet: the invariant adds the types, with the resolver's position
  within the receipts it awaits, and `TimesAreKept`: the time of a user's id is
  never behind a request of this process.  A rollback writes another key, so it
  cannot break that - the fault of `DocFaucet` is what keeps users waiting.
  `RequestsAreTakenOnce` is inductive with the types: what is queued is no receipt of
  this turn because a receipt's transfer has begun (`ReceiptsInOrder`), so the request
  that is popped is new to both; and a transfer that was confirmed stays so
  (`QuietStepKeepsReceipts`), so the resolver has never passed one that failed.

| Module | Theorem | States |
|---|---|---|
| `AllychainStakingProofs` | `StakingInvariant` | `Spec => []StakingInv` |
| | `TypeCorrect` | `Spec => []TypeOK` |
| | `MetadataCorrect` | `Spec => []MetadataMirrorsBooks` |
| | `ListsCorrect` | `Spec => []ListsFillFromTheTop` |
| | `PoolCorrect` | `Spec => []PoolMatchesActive` |
| | `RolesCorrect` | `Spec => []RolesDisjoint` |
| | `DecreasesCorrect` | `Spec => []PendingDecreasesLeaveMinimum` |
| | `RootKeepsThePallet` | `RootSpec => [](/\ TypeOK /\ RolesDisjoint /\ PendingDecreasesLeaveMinimum /\ ActiveAreInPool)` |
| `LedgerProofs` | `LedgerInvariant` | `Spec => []LedgerInv` |
| | `TopTotalsCorrect` | `Spec => []TopTotalsAreSums` |
| | `TopHoldsTheLargestCorrect` | `Spec => []TopHoldsTheLargest` |
| | `LookupsCorrect` | `Spec => []LookupsFindTheirList` |
| | `RequestsCorrect` | `Spec => []RequestsAccounted` |
| | `BooksAndRecordsCorrect` | `Spec => []BooksMatchDelegators` |
| | `DelegationsEndCorrect` | `Spec => DelegationsEndOnlyWithCause` |
| | `StakeReservedCorrect` | `Spec => []StakeIsReserved` |
| | `TotalCorrect` | `Spec => []TotalWithinReserved` |
| | `PrudentLedgersAgree` | `PrudentSpec => []LedgersAgree` |
| `StakingRoundsProofs` | `RoundsImplementStaking` | `RoundsSpec => Spec` |
| | `SnapshotsAlwaysOnHand` | `RoundsSpec => []SnapshotsOnHand` |
| | `RoundsImplementPayroll` | `RoundsSpec => KeepsPayroll` |
| | `RoundsInvariant` | `RoundsSpec => [](RoundsInv /\ PointsInv)` |
| | `PointsAlwaysCover` | `RoundsSpec => []PointsCoverAwards` |
| | `PayoutsAlwaysHavePoints` | `RoundsSpec => []PayoutsHavePoints` |
| | `SnapshotsAlwaysAddUp` | `RoundsSpec => []SnapshotSharesAddUp` |
| | `PayoutsEndInTime` | `RoundsSpec /\ [][length' >= length]_length => []PayoutsInTime` |
| `TraceProofs` | `TraceTypesAreOK` | `Spec => []TraceTypeOK` |
| | `CountsStayWithinBatches` | `Spec => []CountsWithinBatches` |
| | `PooledBlocksAreTraced` | `Spec => []PooledIsTraced` |
| | `WaitersStayKnown` | `Spec => []WaitersAreKnown` |
| | `PatientCallsAlwaysShare` | `Spec => []PatientCallsShare` |
| `PartsProofs` | `ReverseEntriesStayRight` | `AssetsSpec => []ReverseEntriesAreRight` |
| | `RequestsAlwaysTakenOnce` | `FaucetSpec => []RequestsAreTakenOnce` |
| | `UsersAlwaysWait` | `FaucetSpec => []UsersWaitTheirTurn` |
| | `DepositsStayHeld` | `MappingSpec => []DepositsAreHeld` |
| | `MaintenanceHoldsMessages` | `UpgradeSpec => MessagesWaitForMaintenance` |
| | `FeeTypesStayPriced` | `AssetsSpec => []FeeTypesArePriced` |
| | `TheCodeOrdersAsDescribed` | `Spec => []OrderAgrees` |
| | `RewardsStayWithinReward` | `RewardsSpec => []RewardsWithinReward` |
| | `MigrationsRunOnce` | `UpgradeSpec => []MigratedOnce` |

Assumptions, which TLC evaluates in the runs: `CapacityAssumption` (both lists
have at least one place), `StakingAssumption` (the minima are positive, the
delays and bounds are naturals, the set of accounts is finite),
`RoundsAssumption` (the payment delay is at least 1, lengths are positive, the
minimal number of collators fits in a round of the default length),
`TraceAssumption` (a finite range of blocks, at least one permit),
`AssetsAssumption` (a finite set of types, which are ordered),
`DepositsAssumption` and `OrderAssumption` (amounts are naturals),
`MessagesAssumption` and `ReleasesAssumption` (a release is a list of migrations),
`RewardsAssumption` (bonds and delegations are positive, the collators and each
collator's delegators are finitely many, fractions have an accuracy of at least 1) and
`FaucetAssumption` (numbers of workers and ticks are naturals).  The
runtimes' constants satisfy them.

Only model-checked: `FirstComeFirstServedInList`, an action property about
positions, for which every method of a book needs one more lemma; and `AwardedArePaid`, `CallsEnd`
and `CacheDrains`, because liveness and ENABLED are out of the prover's reach.
The disagreements of section 6 are counterexamples and need no proof.

## 6 Disagreements found

| Run | The source says | The code does |
|---|---|---|
| `DocTotal` | `Total` is "Total capital locked by this staking pallet" (`lib.rs:2332`) | `decrease_bottom_delegation` leaves the list's recorded total; the candidate's exit subtracts that from `Total`, which falls below the stake still bonded |
| `DocDelegatorTotal` | `Delegator.total` is "Total balance locked for this delegator" (`lib.rs:1281`) | bonding more to a delegation that is being revoked leaves the difference reserved when the revocation executes |
| `DocPayments` | payments are made once per block "until all payments have been made" (`lib.rs:31-32`) | `set_blocks_per_round` may shorten a round below the number of collators still to be paid; the rest is never paid |
| `DocTrace` | "If this block is missing from the cache, it means no batch asked for it" (`client/rpc/trace/src/lib.rs:631`) | a stopped batch that dropped its blocks early expires later and takes a count off blocks that another batch has pooled since; they leave the cache under it and its call is refused |
| `DocFaucet` | "rollback the update of user/address last funds request" (`tools/bots/mission-control-bot/actions.ts:349`) | the rollback writes under the user's name what is kept under its id |

Others met while modelling, without a run of their own:

- `MinDelegatorStk` is the "Minimum stake for any registered on-chain account to
  be a delegator" (`lib.rs:1957`); kicks and candidates' exits leave delegators
  below it.
- "all members of CandidateQ must be candidates" (`lib.rs:3434`); the pool hotfix
  (`lib.rs:2538`) can add a leaving candidate, which stays in the pool after its exit.
- Scheduling an exit "forbids future delegator actions" (`lib.rs:3049`); four
  calls do not look at the status.
- asset-manager calls one map the reverse of the other; an asset that is given
  the type of another and then a third leaves the other without its entry.
- The documentation of author-mapping lets only staked accounts register; the
  calls do not check it.
- `FullyUpgraded` stays false on a chain that was born up to date.
- A `NimbusId` that the genesis configuration of author-mapping lists twice costs a
  second deposit; the first belongs to no entry any more, and no call gives it back.
- The faucet answers a failed transfer with "Could not submit the transaction"
  (`actions.ts:356`), but only when the balance to report cannot be read.  A transfer
  that cannot be signed or sent fails in the executor of its promise
  (`actions.ts:302-316`): its request is off the queue, is neither rolled back nor
  reported, and the resolver waits for it for ever or the process ends.
- When a worker's balance cannot be read, the turn ends without waiting for the
  transfers it began, and the next turn lets the same workers send again, which the wait
  for a confirmation is there to avoid (`actions.ts:318`).
- After a rollback the faucet has sent the funds and invites the user to ask
  again at the same address.

Entries that stay in storage: the snapshots of collators without points, `Staked` of
rounds without points, and `DelayedPayouts` and `Points` of a round whose
payment round was too short for the clean-up.

## 7 What is not modelled

Of allychain-staking: `compute_issuance` and the ranges of `inflation.rs`
(fixed-point powers); `set_staking_expectations`, `set_inflation`,
`set_collator_commission`, `set_allychain_bond_account` and
`set_allychain_bond_reserve_percent`, which only store an input of it; events; weights;
dispatches that fail before a write; the storage migrations, whose old layouts
exist no longer.

Of the trace RPC: replaying and filtering, which are pure, and clients that
disconnect (a call dropped between `start_batch` and `stop_batch` never stops
its batch; whether that happens is up to the RPC server).  The debug RPC spawns
a task per request under the same semaphore and keeps no state; the other RPC
modules are queries.  evm-tracing is sequential and about data.

Of the bot: the balance monitor, which shares no variable with the faucet, and
the `!balance` command, which keeps no state.

Almost all of the repository's TypeScript - 63,000 lines of `typescript-api` -
is generated declarations of types and of call signatures.  It has no statement
that runs, hence no state, action or algorithm to translate.  The types bundle is a
table of types by version, and the rest are tests and release scripts.

Runtimes, chain specifications, service wiring, command line, XCM encoding, gas
accounting, primitives and genesis-only pallets have no state worth a model of
their own, or are input and output.  The precompiles' approvals are planned.
