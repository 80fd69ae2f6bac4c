# Verification of sdkwork-account

TLA+ models of the account service: a ledger of balances, holds and transfers
in Postgres, written by Rust request handlers. The modules say what the code
does, statement by statement where the interleaving matters; TLC checks them on
small instances, and TLAPS proves the main invariants, and that the ledger
implements its abstract specification, for every instance.
Paths below are relative to the repository; `repo/` stands for
`crates/sdkwork-account-repository-sqlx/src/`.

## 1. The system

| part | state | operations | hard behaviour |
| --- | --- | --- | --- |
| account ledger (`repo/postgres_account.rs`) | `acct_account` (available, frozen, version), `acct_journal`, `acct_ledger_entry` | credit, debit, replay | concurrent updates of a row, partial failure, retries |
| holds (`repo/postgres_hold.rs`) | `acct_hold` (held, settled, released, expired) | create, release, settle (whole or part) | status read before the account's lock, races between closers, expiry |
| expiry sweep (`repo/postgres_hold.rs` 919-1116) | as above | one transaction over batches of due holds | batch boundaries, one failure undoes all, lock order |
| transfers (`repo/postgres_hold.rs` 628-917) | two account rows, `acct_transfer` | create, replay | two row locks in client order: deadlock |
| idempotency (`repo/store/idempotency.rs`) | `acct_idempotency_record`, unique per tenant, scope, key | lookup, insert LOCKED, complete, replay | two copies of a request at once, reuse of a key |
| outbox (`repo/store/outbox.rs`, `outbox_relay.rs`) | `acct_outbox_event` | insert with the writing transaction; relay marks PUBLISHED and returns | a lost answer loses events, two relays at once |
| points (`repo/postgres_account.rs` 1371-1555, `postgres_points_ops.rs`) | `acct_points_lot`, allocations | credit makes a lot, debit spends the soonest expiry first by pages, sweep, reconciliation | lots against balance, stale remaining amounts, paging |
| provisioning (`repo/postgres_account.rs` 416-493, 1040-1110; `postgres_hold.rs` 1503-1577) | `acct_account` rows | three ways to create the row of an owner and asset | concurrent first requests |
| entity ids (`repo/store/mod.rs` 165-240) | one Snowflake generator per thread | next id | equal worker ids, same millisecond |
| routes (`crates/sdkwork-routes-account-*`) | none | validation, request hash, HTTP mapping | what the hash contains |
| contracts (`crates/sdkwork-account-service`, `sdkwork-contract-service`) | none | commands, money, status vocabularies | integer parsing |
| lists (`repo/postgres_account.rs` 195-305, `postgres_hold.rs` 500-626, `postgres_billing.rs`) | none | ledger entries, billing history, holds, lots, by page number or cursor | rows that commit between two pages, ties |
| gateway and hosts | pools, shutdown | start, drain, stop | a handler dropped at an await |
| wallet controller (TypeScript, `apps/sdkwork-account-pc/...-wallet/src/wallet-controller.ts`) | overview, loading flags | bootstrap, refresh, pages, mutations | overlapping calls, late answers |
| token bank exchange tables | tables only | none | - |
| SDKs, OpenAPI | generated | - | - |

How they interact: a route parses a request, hashes its body and calls one
method of the repository. The method runs one READ COMMITTED transaction: read
the idempotency record of scope and key (found and COMPLETED: answer from it);
insert it LOCKED; load the hold and the account; update the account where id
and version are those that were read; insert journal, ledger entry and event;
complete the record; commit. Any error returns early, which drops the
transaction and so rolls it back: neither LOCKED nor FAILED records are ever
committed, and the code that reclaims them has nothing to reclaim. Handlers
share nothing but the database. The relay is called by an external job. The
wallet in the browser reads through the app routes.

What makes each part correct:

- ledger: a balance is what its ledger entries add up to and never negative; a
  key takes effect once; a request takes effect whole or not at all;
- holds: a closed hold stays what it was closed as; a hold is closed on the
  right side of its expiry; it is charged at most what it reserved; the frozen
  balance is what the open holds reserve;
- transfers: money moves between two accounts or not at all; waiting ends;
- idempotency: a retry is answered with the stored outcome;
- relay: no event is returned by two calls, and none is left behind; what a
  call that failed after its commit had claimed is never returned again;
- points: lots and their allocations add up to the balance; a debit spends the
  soonest expiry first and is refused only for lack of points;
- provisioning: one row per owner, asset, currency and purpose, which every
  answer names and which holds what committed writes moved, whoever creates it
  and whichever ids the threads generate;
- lists: a client that turns pages passes over nothing that was there when it
  began;
- wallet controller: no row is shown twice or passed over, no flag stays up with
  nothing in flight.

## 2. The modules

`AccountBook` is the abstract specification: balances and the set of tickets
(scope and key) that have taken effect. Every step spends a new ticket and makes
one legitimate movement: a credit or debit, a freeze, an unfreeze, a capture, a
transfer between two accounts, a sweep that unfreezes any number of accounts.

`AccountLedger` is the detailed one. A worker is a pooled connection running one
handler, so `pc`, `req`, `now`, `seen`, `cur`, `batch`, `answer` are a handler's
local state:

| variable | code |
| --- | --- |
| `acct`, `hold` | committed rows of `acct_account` and `acct_hold`; `credited`, `debited` are the sums of the account's ledger entries, `charged` the sum of the entries of the hold |
| `done` | requests with a COMPLETED idempotency record, with their journal entries |
| `outbox` | committed `acct_outbox_event` keys |
| `dirty`, `hdirty`, `locker` | newest, perhaps uncommitted, row versions and the holders of the row locks |
| `now` | `Utc::now()` taken when the handler begins |
| `seen` | the `StoredAccount` a handler has read: balances and version |
| `cur`, `batch` | the hold a handler is on; what is left of a sweep's batch, and whether it was full |

| action | code (`repo/`) |
| --- | --- |
| `Begin`, `Replay`, `RefuseSelfTransfer` | the head of each handler, up to the answer from the record |
| `InsertRecord` | `insert_idempotency_lock`, `insert_idempotency_scoped`: waits for a rival, unique violation is `locked` (423) |
| `LoadHold` | `load_hold_by_uuid` and the checks on status, expiry and capture |
| `SelectDue` | one batch query of the sweep |
| `LoadAccount`, `LoadTransferTo` | the account loads and balance checks |
| `Append`, `CreateHold`, `ReleaseHold`, `SettleHold`, `ExpireHold`, `DebitTransfer`, `CreditTransfer` | the update of the account where id and version match, with the inserts and the update of the hold that follow it |
| `Conflict` | the update matched no row |
| `InsertFails` | a unique violation after the update, or a statement the server rejects |
| `Commit`, `Deliver` | completion of the record, event, commit; the answer |
| `Abort` | the process stops, the connection breaks, the request future is dropped |
| `BreakDeadlock` | Postgres fails one of the transactions that wait in a cycle |

An action ends where another transaction's effect could be seen next: a read of
a row, or a statement that waits. Inserts of a transaction that nobody else can
see before its commit belong to the update before them. Where an insert can
itself wait (a unique index entry of a transaction that has not ended,
`UniqueFree`), the wait is made before the update and not after it; a
transaction then waits without the row lock, where the real one waits with it,
and meets the same outcomes.
A hold row is written only by a transaction that has just updated its account,
so the lock of the account stands for both. Sweeps take holds with equal expiry
in any order; the code orders them by id.

At five places a statement does not do what the code around it expects, because of
what the server and the SQL driver make of a value: `expires_at` (TIMESTAMPTZ read
as text gives None); `amount` in the sweep (BIGINT read as text gives "", which does
not parse); `response_snapshot` (JSONB read as text); the inserts of a transfer
(the entry type of its ledger entries is a direction bound to a parameter cast to
bigint, its row in `acct_transfer` has a text for an amount and no currency code:
one place, `"transfer.ledger"`, since a transfer fails while any of them does); and
the ledger entries that a transfer's replay looks for by a direction in lower case,
where the table has upper case, and reads as text (`"replay.transfer"`, `repo/postgres_hold.rs`
1880-1924). `Works` names those that work: `{}` is the code as built, all five the
code as written. The proofs hold for every value of `Works`; so a repair of any of
them keeps what is proved. `CanReplay` says what each kind of replay reads: that of a
credit or debit reads integers and times as what they are.

`AccountLedgerInv` holds the inductive invariants: `IInv` behind everything,
`RetryInv` behind the replays (with `ReadableReplays`, what holds of them as built),
`BookInv` behind the refinement, `TimeInv` behind the expiry of holds,
`CaptureInv` and `ChargeInv` behind what a hold is charged, and, with the
properties that add up rows, `HistoryInv` behind `BalancesMatchHistory` and
`FrozenInv` behind `HoldsBackFrozen`. The proofs are in `AccountLedgerProofs`,
`AccountBookProofs` (the refinement, the history) and `HoldProofs` (expiry,
charges, the frozen balance, what a sweep owes). `AccountLedgerMC` has the
instances. `SumProofs`
has the laws of sums that the proofs of four modules cite.

`AccountSweep` is the ledger with a history variable: `owed` keeps, for each worker
that runs a sweep, the holds that were due when it began. Its steps are those of
`AccountLedger`; `Remember` and `Forget` only keep the record. `SweepsMissNone` is
about it, `SweepInv` says why it holds. `AccountSweepMC` has its instance.

`PointsLots` models one points account with its lots. Its workers and its
committed and uncommitted versions are those of `AccountLedger` (`db`, `work`,
`locker`), with one simplification: lots and holds are only written after the
account row, so the lock of that row stands for all of them. `seen`, `need`,
`last`, `cur`, `batch` are the handler's locals `account`, `remaining`,
`last_lot_id`, the lot a sweep is on with the amount it was read with, and what
is left of its batch. What happens to retries and shared keys is the subject of
`AccountLedger`; `Begin` here takes a request whose key is neither completed nor
in use.

| action | code (`repo/`) |
| --- | --- |
| `Load`, `LoadHold`, `SelectDue` | the reads before the update; `SelectDue` is one batch of `expire_points_lots` |
| `CheckSpendable` | the sum of unexpired lots a hold asks for |
| `Credit`, `Debit`, `CreateHold`, `ReleaseHold`, `SettleHold` | the update of the account by version, with the new lot or the hold |
| `DrawPage`, `EndDebit` | `apply_points_lot_movement`: a page of lots; the checks after the last one |
| `ExpireLot`, `Conflict`, `JournalFails` | `expire_one_points_lot` and its two failures: version, and the journal's unique number |
| `ReadBalance`, `Compare` | `reconcile_points_lots`: the account in one statement, its lots in a later one, outside a transaction |
| `Commit`, `Deliver`, `Abort` | as above |

Three of its statements do not work as built: the sum of spendable lots is
NUMERIC and read as an integer, so a points hold always fails; so is the sum of
a reconciliation; the snapshot of a sweep is bound as text to a JSONB column, so
a sweep always fails at its end. `Works` names them as in `AccountLedger`.
`PointsLotsInv` has the invariants, `PointsLotsProofs` the proofs.

`OutboxRelay` models `acct_outbox_event` rows (`status`, and `locker` for FOR
UPDATE), calls of the dispatch route (`pc`, `limit`, `batch`) and the bus behind
the job. `Emit` is the commit of a transaction that wrote an event; `Call` clamps
the batch size; `Claim` locks the oldest rows nobody has locked; `Publish` is the
UPDATE with its commit; `Count` is the second query; `Answer` hands the batch to
the job. `LoseClaim`, `LoseCount`, `LoseAnswer` are failures before the commit,
between it and the answer, and of the answer. `claims`, `bus` and `lost` only
record what happened. Every pending row has no retry time: nothing in the
repository sets one. `OutboxRelayProofs` holds its proof.

`Provisioning` models how the accounts of one owner come into being, next to
reads of them. `rows` are the committed rows of `acct_account`, `draft` the row a
write has inserted or updated and not committed; `last` is what the generator of
each thread issued last. Handlers and clock are as in `AccountLedger`; `got` are
the ids a read has found so far.

| action | code |
| --- | --- |
| `List`, `InsertForRead`, `RereadAccount` | `retrieve_wallet_account_for_asset`, `ensure_wallet_account_for_asset` (`repo/postgres_account.rs` 380-493): each statement commits by itself; ON CONFLICT of the key does nothing, of the id fails |
| `TakeId` | `next_entity_id` (`repo/store/mod.rs` 165-240): the threads of a process count the same milliseconds under one worker id, so they repeat each other's ids |
| `Summarise` | `retrieve_summary`: one statement over all accounts of the owner |
| `Load`, `InsertForCredit`, `Reload` | `load_or_create_account_for_append` |
| `InsertForHold` | `load_account_by_owner_asset` of holds (`repo/postgres_hold.rs` 1503-1577): a plain INSERT |
| `Update`, `Commit`, `Deliver`, `Abort` | as in `AccountLedger`, of one account |

`NextAccount` is the loop of the portfolio and of the routes that ask for one
account after the other. `ProvisioningInv` has the invariants, `ProvisioningProofs`
the proofs.

`WalletHistory` is the lists: `at` and `committed` are the time of a write's rows
and whether they can be read. A time is taken when the handler begins, so rows
appear below rows that have been read. `Orders` is the ORDER BY of each list,
with ties in any order where the code names no second column; `OffsetPages` and
`CursorPages` are a page by number and by cursor, with the one row more that is
fetched. `walk` is a client of the routes that turns pages.

`WalletController` extends it by the browser's controller
(`wallet-controller.ts`): `view` is the two lists of its overview, `flags` are
`isLoading`, `isLoadingMore`, `isMutating` and `lastError`, `open` the dialogs,
`calls` the calls in flight, each at its await. `Bootstrap`, `Refresh`, `Mutate`,
`MoreTransactions`, `MoreHolds` run to their first await; `EndCallback`,
`ReadOverview`, `ReadMore` are what is awaited, the two lists of an overview
side by side; `ShowOverview`, `ShowMore`, `Fail` are what follows.
`WalletControllerInv` has the invariants behind its lists, `WalletControllerProofs`
the proofs.

## 3. The runs

Run `asbuilt` is `tlc -config AccountLedger_asbuilt.cfg AccountLedgerMC.tla`, run
`sweep` is `tlc -config AccountSweep_batches.cfg AccountSweepMC.tla`, run
`pointsLots_spend` is `tlc -config PointsLots_spend.cfg PointsLotsMC.tla`, and so on.

| run | instance | checks | shows |
| --- | --- | --- | --- |
| asbuilt | AccountLedger, `Works = {}`, 2 workers, 2 accounts, 3 keys of which two share a business number; two holds, settlements, releases, a debit, a credit under the same key, a transfer, a sweep | types, `Conserved`, `EachKeyOnce`, `BalancesMatchHistory`, `CaptureWithinHold`, `ClosedHoldsStay`, `ImplementsBook` | with every interleaving, abort, retry, shared key and shared number no movement is lost, doubled or halved, no closed hold changes, and the unique number of the journal stops a second capture |
| sweep | AccountSweep as written, 2 workers, 3 holds in batches of 2, clock 0..1; release, settlement and two sweeps | `TimeInv`, `ClosedInTime`, `ClosedHoldsStay`, `ImplementsBook`, `SweepsMissNone` | holds are closed on the right side of their expiry even when settlement and sweep race; a sweep that commits leaves none open that was due when it began, at no batch boundary and whatever is created or closed between its batches |
| transfer | AccountLedger as written, `FairSpec`, 2 workers, 2 accounts, opposite transfers, a hold settled in part, a hold of the other account that a sweep of both expires, 3 keys, batches of 1 | `BookInv`, `HistoryInv`, `HoldsBackFrozen`, `ChargedAsSettled`, `ImplementsBook`, `EveryRequestEnds` | transfers are whole under deadlock, conflict and abort, leave frozen balances to the holds, and nobody waits for ever |
| pointsLots_spend | holds can be created, sweeps fail at their end; 2 workers, 3 lots, 2 per page | types, `LotsMatchBalance`, `AllocationsMatch`, `DrawInv`, `SoonestFirstOnPage`, `RefusedForLack` | lots, allocations and balance agree whatever interleaves, also across pages; within a page the soonest expiry goes first |
| pointsLots_sweeps | sweeps, holds and reconciliations can commit; 2 workers, batches of 1 | `LotsInv`, `AlarmsHaveCause` | lots and balance agree; two sweeps that have selected the same lots expire each once, through the version of the account and the journal's number; a reconciliation reports only what an open hold or a movement between its reads explains |
| outboxRelay_faults | 3 events, one of which becomes visible late, 2 overlapping calls, every fault | `RInv`, `ReturnedOnce`, `ForwardedOrLost` | overlapping calls never return an event twice; the backlog drains for every batch size; only calls that fail after their commit keep events from the bus |
| provisioning_firstuse | `FairSpec`, 2 workers, 2 threads with one worker id, 1 id per millisecond; two first credits, a first hold, four kinds of reads; cash in two currencies is there | types, `NamedAccountsExist`, `AnswersAgree`, `NothingLost`, `RivalsHarmless`, `OverviewComplete`, `InsertsEnd` | every answer names the one stored account, no credit is lost, an overview counts every account once, only a hold trips over a rival, no insert waits for ever |
| walletController_pages | 2 calls, 5 writes of which two are yet to come, pages of 1, at most 2 transactions kept | types, `Gapless`, `ShownOnce`, `FlagsHonest` | nothing that was there is passed over or shown twice, and no flag stays up, whichever answer comes first or fails |

Bounds. Two workers are enough for each pair of handlers to interleave, for a
deadlock, and for a waiter behind a holder; a third would repeat pairs. Three
keys give a retry, a rival and a third request that sees the result. The
opening balance covers some requests and not others, so that checks pass and
fail. `MaxTime = 1` gives one moment before and one at the expiry. `SweepBatch`
is 1 or 2 instead of 500, so that full, short and empty batches all occur and three
holds are one more than a batch, and
`LotPage` 1 or 2 instead of 100, so that debits take one page or two. In
`AccountLedger` clients may send each request of `Submitted` any number of times
and `done` bounds the effects. Three events with limits 1 and 2 give batches that
are full, short and empty; sizes 0 and 3 are clamped. In the runs of `PointsLots`
the requests are finite, and clients whose requests have all been committed
ask for nothing more: these stop without a deadlock of the system, hence
CHECK_DEADLOCK FALSE there. One id per millisecond makes the two threads of
`Provisioning` meet on an id as soon as they generate in the same one; more ids
only make that rarer. The opening accounts give two currencies of one asset. In
`WalletController` pages of one row make every list span pages, two kept
transactions make the cut of the list bite, and `FirstCursor` is TRUE: as built
the overview's page names no cursor and the wallet never loads a second page of
transactions, while a service that is injected into the controller may name one.

Fairness. `FairSpec` of `AccountLedger` (run transfer): handlers go on while
their process lives and the deadlock detector fires (weak fairness of a worker's
step). Postgres queues those that wait for a row or an index entry, so a waiter
that is let through again and again goes through (strong fairness of
`InsertRecord` and `Update`). Nothing is assumed of clients, the clock, or
crashes. `FairSpec` of `OutboxRelay`: the job is scheduled again and again and a
call runs on (weak fairness); calls are not lost before their claim, or between
a claim that found events and its commit, every time (strong fairness of `Claim`
and of such a `Publish`). After the commit nothing is assumed: every answer may be
lost. That the job exists at all is an assumption: the repository only has the
route it calls. `FairSpec` of `Provisioning`: a statement that can run does (weak
fairness); an insert waits for one uncommitted insert at a time, whose handler
commits, fails or is dropped. `WalletController` claims no liveness: a service
need not answer.

### Disagreements met

| run | violated | code | says otherwise |
| --- | --- | --- | --- |
| lateclose | `ClosedInTime` | `repo/postgres_hold.rs:1692` loses `expires_at`, so the expiry check passes | `repo/store/account_guard.rs:34` |
| doublecapture | `CaptureWithinHold` | `repo/postgres_hold.rs:400` reads the status before the account is locked, `:459` does not look at how many rows the hold's update matched | `repo/postgres_hold.rs:335-336` |
| pointsLots_pages | `SoonestExpiryFirst` | `repo/postgres_account.rs:1432` asks for later pages by id while the order is by expiry, and so passes over lots | `docs/architecture/tech/TECH_ARCHITECTURE.md:240` |
| replay | `RetryReplays` | `repo/postgres_hold.rs:1782` parses the snapshot from a failed decode | `docs/guides/integrator/README.md:144` |

Met and not listed as runs, because no line of the repository promises the
opposite or because another failure hides them:

- with `Works = {}` a transfer never commits (the server rejects its ledger
  statement), a sweep of holds that finds one always fails, a points hold always
  fails, a sweep of points always fails, a reconciliation always fails;
- a transfer has three inserts or reads that fail one behind the other: its ledger
  entries (`repo/postgres_hold.rs:1353-1465`), its row (835-862), and, were both to
  work, the ledger entries its replay reads (1880-1924). With that last one left as
  built `RetryReplays` fails for transfers, although the snapshot of the other requests
  were readable;
- release and settlement hash a body that does not contain the hold, so a key
  reused for another hold is answered from the first;
- with two requests that close one hold `HoldsBackFrozen` fails for the reason of
  doublecapture;
- were sweeps of points to commit, `LotsMatchBalance` would fail with two
  workers: a sweep reads the remaining amount of a lot before it reads the account
  (`repo/postgres_points_ops.rs:120`), a debit between the two draws on the lot, and
  the sweep takes the old amount from the balance. `pointsLots_sweeps` has no
  debits for that reason;
- an open points hold blocks every debit of the account: `EndDebit` compares the
  lots, from which the hold has taken nothing, with the available balance, from
  which it has;
- a debit that needs a second page may be refused although enough unexpired points
  are left, for the reason of pointsLots_pages;
- the relay delivers at most once: events of a call that fails after its commit
  are published and never returned again (`lost`);
- two threads of a process, or two processes with one worker id, generate the
  same ids (`repo/store/mod.rs:199`). `docs/runbooks/README.md:11` and `:71` ask for
  worker ids that differ per instance, and do not speak of threads. An insert that
  meets such an id fails, which is one of the outcomes of every insert here;
- a first hold of an owner that runs against another first request fails on the
  unique key (`RivalsHarmless` says that nothing else does); it may be sent again;
- a cursor passes over rows of the time it names (`repo/postgres_account.rs:242`),
  and pages of holds and lots may repeat or pass over rows of one time
  (`repo/postgres_hold.rs:559`): `Gapless` leaves out such ties;
- an overview of the wallet that was asked for first may arrive last and replace a
  newer one, and a page asked for before an overview leaves a gap after it
  (`wallet-controller.ts:182`, `:193`); the next overview repairs both;
- the first of two overlapping mutations of the wallet to end clears `isMutating` while
  the other still runs (`wallet-controller.ts:90`); `FlagsHonest` is about the other
  side, a flag that stays up;
- a reconciliation reports every account that has an open hold, for the reason
  above (`AlarmsHaveCause`);
- `repo/runtime_id.rs` is not part of the crate.

## 4. What is proved

`OutboxRelayProofs` proves `ForwardedOnce`: `Spec => []ReturnedOnce`, for any sets
of events and calls, any batch sizes and any faults, from `RelayConstants`. The
invariant by induction is `RInv`: the rows a call has locked are exactly its
batch between claim and commit, batches of different calls are disjoint, an event
in a batch is claimed at most once and not yet forwarded or lost. The step that needs
all of it is `Claim`: a row that is pending and unlocked is in nobody's batch.

`RelayInvariant` is `Spec => []RInv`.

`AccountLedgerProofs` proves, for any sets of workers, accounts and keys, any
requests, any number of batches, any bound on the clock and any `Works`, from
the assumption `LedgerConstants` alone:

- `TypeCorrect`: `Spec => []TypeOK`; the balances in it are naturals, so no
  balance is ever negative;
- `Conservation`: `Spec => []Conserved`;
- `KeyOnce`: `Spec => []EachKeyOnce`;
- `ClosedForGood`: `Spec => ClosedHoldsStay`;
- `ReadableRetries`: `Spec => ReadableReplays`: a request that comes again with the same
  body is answered with the stored outcome if what its replay reads can be read. As
  built these are the credits and debits;
- `RetriesReplayed`: `Spec => RetryReplays`, of every request, if the stored snapshot
  and the ledger entries of a transfer can be read (`"replay.snapshot"` and
  `"replay.transfer"` in `Works`). Run replay shows that the snapshot cannot as built;
  the transfer's entries cannot either. Both repairs are needed.

None of these is inductive alone. For the last two `RetryInv` adds that a handler at rest
has no request and that no transfer of an account to itself is recorded. `IInv` adds,
in `AccountLedgerInv`:

- `HandlersOK`: what a handler has checked (the hold exists, the amount to
  capture is part of it, the row read covers the movement) still holds when it
  updates. The hold it relies on can be closed by others in between, but its
  account and amount cannot change; the balance it relies on is its own copy;
- `LocksOK`, `ReadsOK`: an unlocked row has no uncommitted version, a locked
  one is newer than the committed one, and whoever read a version that is still
  current has read the balances that are still there. This is what makes the
  update by version a correct one, also against rollbacks that return to an
  older version: nobody can have read the version that was rolled back;
- `RowsOK`: committed and uncommitted rows balance;
- `HoldsOK`: hold rows are only created, and closed once; an uncommitted hold is
  its creator's, about to commit;
- `KeysOK`: an inserted record has no rival, and neither has a posting that is
  about to commit.

The proof has one lemma per group of actions and conjunct: `HandlersKept`,
`RowsKept`, `HoldsKept`, `KeysKept`, together `InvKept`. For the rows every step
is first shown to be one of four kinds (looks, writes one row, commits, rolls
back) and the rest of the argument is about these four. TLC checks `IInv` as
part of `TimeInv` and `BookInv` in the runs sweep and transfer, and `RInv` in
outboxRelay_faults.

`AccountBookProofs` proves `Implements`: `Spec => ImplementsBook`, from the same
assumption. What a transaction has written is invisible until its commit, so
every step but a commit stutters in the book. `BookInv` (`BookInvariant`) says
what an open transaction has moved so far: before its first update nothing, when
it is about to commit one movement that its ticket allows, a sweep any number of
unfreezes. `MovesOK` needs `IInv` for that a handler's copy of a row is the row it
updates, and `HoldsWorth` (no hold of nothing) for that a release moves something.
That the ticket is unused is `EachKeyOnce`'s argument.

It also proves `HistoryMatches`: `Spec => []BalancesMatchHistory`. `HistoryInv`
(`HistoryInvariant`) says what the balances of an open transaction differ by from
the committed ones: by what its request will count for in `done`, by half of it
between the two updates of a transfer, or not at all; and that the hold of a
settlement in `done` stays, so that the sum over `done` does not change under it.

`HoldProofs` is about holds. `InTime`: `Spec => []ClosedInTime` under the assumption
that `expires_at` can be read, which run lateclose shows to be needed. `TimeInv`
says of a handler that has looked at its hold that it was on the right side of the
expiry when it began; expiry and `now` do not change while it waits for rows.

Three more are about two requests that close one hold, under assumptions about
the clients. `CaptureOnce`: if the settlements of a hold all come with one
business number (`OneNumber`), `Spec => []CaptureWithinHold`. The settlement that
comes second fails on the journal's unique number, not on the hold: run
doublecapture shows that without `OneNumber` it does not fail. `ChargedOnce` and
`HeldIsFrozen`: if one request closes each hold and no sweep can read amounts
(`OneCloser`; as built none can), `Spec => []ChargedAsSettled` and
`Spec => []HoldsBackFrozen`. The first two rest on `TraceInv`: whatever a hold row
shows of a request that closed it, that request is recorded, or is the
transaction that holds the row; so what it must not clash with is found.
`FrozenInv` (`FrozenInvariant`) adds that the sum holds in the committed and in the
uncommitted version of the rows; a commit and a rollback copy one into the other. Run
transfer checks both properties also beside a sweep that can read amounts, which the
theorems leave out; `FrozenInv` itself is proved and is no check of a run.

`NoneMissed` is `SweepSpec => SweepsMissNone`, for any batch size and any `Works`, if the
keys are finitely many (the rows of a table are; a batch is a finite set that takes
what is due up to its size). `SweepInv` (`SweepInvariant`) says of a hold that a sweep
owes that it is still to be selected, or the batch was full and there is another one, or
it is in the batch, or it is closed, by someone else or in the sweep's own transaction.
The step that needs it is the selection of a batch that is not full: it takes all that
is due (`ShortBatch`), so what is still owed is in it or already closed.

`ProvisioningProofs` proves `AccountsExist` and `OneAnswer`
(`Spec => []NamedAccountsExist`, `Spec => []AnswersAgree`) for any connections,
threads, requests and ids, from `ProvisioningConstants`. `PInv` says that ids and
keys of rows and drafts name one account each; that is where the waits of inserts
are needed, since an insert that did not wait could draft a name twice. Every step
is one of six kinds of writing, and no kind renames or removes an account.

It also proves `BalancesKept` (`Spec => []NothingLost`), `NoRivalFails`
(`Spec => []RivalsHarmless`), `TypeCorrect` (`Spec => []TypeOK`) and
`OverviewsComplete` (`Spec => OverviewComplete`). `BalanceInv` adds to `PInv` that what
a write has read is the row it sees or an older version of it, so that the update
by version moves the balance that is stored. `FoundInv` adds that whoever looks
again finds an account. `TypeInv` adds that no balance is negative, stored or
drafted. `OverviewsComplete` needs that the names an owner's accounts can have are
finitely many (`FiniteNames`): then the rows of an asset, each a key of its own, add
up to what was moved under those keys.

`PointsLotsProofs` proves, for any workers, requests, page and batch sizes:

- `TypeCorrect`: `Spec => []TypeOK`. That no balance, lot or allocation falls below
  zero needs the checks, the locks and the reads of a handler (`CInv`);
- `LotsStayMatched`, `AllocationsStayMatched`, `AlarmsAreCaused`:
  `Spec => []LotsMatchBalance`, `Spec => []AllocationsMatch`,
  `Spec => AlarmsHaveCause`, if no debit runs beside sweeps that can commit
  (`SweepsAlone`). As built no sweep commits and the assumption holds; section 3
  says what happens to a repaired one without it. `LotsInv` (`LotsInvariant`) says
  that an open debit still owes to the lots what it has taken from the balance
  (`need`), and that a lot a sweep has picked is as it was picked until its expiry
  is journalled;
- `PageDrawsSoonestFirst`, `RefusalsLackPoints`: `Spec => SoonestFirstOnPage`,
  `Spec => RefusedForLack`, without that assumption. `DrawInv` (`DrawInvariant`) says
  that an open debit with all its lots on one page has drawn nothing, or the
  soonest lots first and, if it still needs more, all of them.

`SumProofs` proves what these sums need of `SumFunctionOnSet` and of the folds over
sets: the sum without an element, with one value changed, of two disjoint sets,
under a renaming. The fold takes its elements in an order of its own choice, and
induction over it is out of the prover's reach; each law is proved from a
counterexample of least cardinality, which exists since the naturals are well
founded (`Fewest`).

`WalletControllerProofs` proves, for any calls, page size, bound, writes and clock,
if the writes are finitely many (`FiniteWrites`; a list of infinitely many rows has
no pages):

- `TypeCorrect` (`Spec => []TypeOK`) and `RowsShownOnce` (`Spec => []ShownOnce`).
  `ListInv` (`ListsInOrder`) says that what is shown and every answer on its way are
  rows of one list, each once, transactions latest first, and that no client counts
  more pages than there are rows;
- `NothingMissed` (`Spec => []Gapless`), from `GapInv` (`GapsClosed`). By page number,
  a row that is still to come has at least as many rows above it as have been
  turned over (`Deep`); rows that commit meanwhile push it further down, never up,
  because no row is taken away and none changes its time. By cursor, such a row is
  before the next cursor (`CursorGap`). Of a further page on its way `MoreGap` says
  that it goes on where the list it was asked for ends. Once the wallet has cut its
  transactions to `MaxLoaded`, what it keeps are the latest: a row that is not shown
  is below all that are, whatever the next cursor (`LedgerMergedGap`, a count of
  places);
- `NoFlagStays` (`Spec => []FlagsHonest`).

Pages, merges and the sort are described by what is at which place
(`PageIs`, `MergedIs`, `SortedIs`), from one lemma about a strict order on a finite
set (`InOrderIs`). TLC checked `GapInv` on the instance of walletController_pages
before it was proved; it is not among the checks of that run, which it makes
twice as long.

Only model-checked: `EveryRequestEnds`, `ForwardedOrLost` and `InsertsEnd` (liveness
under fairness, which the prover does not do), and `SoonestExpiryFirst`, which
is violated as built. Every invariant and action property of the passing runs is a
theorem, some of them under the assumptions named above; the other three properties
that a run shows violated are theorems under the assumptions that run lacks.

## 5. What is not modelled, and what could follow

Amounts are naturals without an upper bound (the code checks i128 and the table
casts to BIGINT: a value too large fails the statement and rolls back). One
tenant, one organization; one asset in `AccountLedger`: the handlers' scope checks
refuse the rest before anything is read. Statement and lock timeouts are `Abort`.
Billing rows are one more insert of a transaction. Transfers of points, whose
ledger statement fails as that of any transfer, are left out of `PointsLots`, and
so is the second page of accounts of a reconciliation, which is read like the
first. The 63 bits of an id and a clock that goes back are not modelled: ids may
collide anyway. Of the lists the filters (by status, direction, asset, type, time)
are not modelled, nor that billing also takes the text of `occurred_at` as a
cursor. Of the routes the checks of the session and of parameters, the mapping to
HTTP and the shape of the JSON; of the contracts money parsing and the status
vocabularies, which are functions of one argument; of the wallet the mapping of
answers and whether it is bootstrapped. Gateway, assembly and hosts start and stop
the process: a stop is `Abort`. The message bus is outside the repository. The
token bank's tables are written by no code. SDKs and OpenAPI are generated.

Two sweeps that lock several accounts in different orders are not in a run with
liveness: with two due holds on two accounts and fairness the graph is too large. Run
transfer has one sweep over both accounts, which finds one due hold, beside transfers in
both directions. The deadlock detector that ends any such wait is the one
`EveryRequestEnds` relies on there, and what a sweep that fails leaves is covered by
`ImplementsBook`, which is proved.

Of use next: the filters of the lists, two due holds on two accounts under fairness, the order in which ids of one process are numbered.
