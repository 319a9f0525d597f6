# A TLA+ model of the MAM transactional API

This directory holds the formal model of the service in `src/`: a FastAPI
application over PostgreSQL that moves the capital of an investment fund
between one pre-funded MASTER account and the MT5 accounts of its clients,
through an external MAM engine, and keeps a double-entry ledger of it.

## The system

| Component | State | Operations | What makes it correct |
|---|---|---|---|
| Ledger (`ledger_service.py`, `ledger_repository.py`, `models/ledger.py`) | account balances, `pending_debit`, transactions by idempotency key | fund, hold, commit, release, post withdrawal, post fee, regularize | books equal the posted transactions, holds equal the open reservations, MASTER never promises more than it has, a transaction is settled once |
| Capital (`mam_capital_service.py`, `movement_repository.py`, `models/movement.py`) | one `Movement` per idempotency key; the handler of each request | deposit, withdraw, regularize | movement, ledger and engine agree; a key travels once; one movement in flight per account; nothing FAILED or REJECTED moved |
| Engine client (`mam_client.py`) | none | financial calls, classification of answers, pagination | an uncertain answer is never read as a refusal |
| Performance fees (`mam_perf_fee_service.py`) | `mam_perf_fee_payments` | reconcile one strategy or all, verify runs | each executed payment is charged once, to the client it came from, and in the end |
| Allocations (`mam_allocation_service.py`) | `mam_allocations` | create, import, pause, resume, update, unsubscribe, sync | quota, one live subscription per pair, local status follows the engine |
| Webhook (`mam_webhook_service.py`, `api/webhooks.py`) | `mam_webhook_events` | receive, apply, retry | an event applies once, none starves |
| Deletions (`mam_deletion_service.py`) | `mam_deletion_operations` | request, refresh, retry, sync | nothing is deleted without a record, no deletion archives an account before the engine has deleted it, and a completed one is applied here |
| Funding OTP (`funding_otp_service.py`) | codes and their attempts | request, resend, verify | one request for funding brings its money in once, and says so only when it has |
| Crypto deposits (`crypto_deposit_service.py`, `evm_client.py`) | `crypto_deposits` | submit, credit, notify | one on-chain transaction credits once |
| Leaders (`mam_leader_service.py`) | leader profiles, payment withdrawals | create, import, update, payment withdrawal | a retried payment withdrawal is answered with its outcome |
| MT5 accounts (`mam_account_service.py`) | `mam_accounts` | create, register, import, update | a row says only what the engine has said |
| API users (`api_user_service.py`, `core/security.py`, `api/deps.py`) | users, keys and the traders they own | create, update, regenerate a key, delete | an admin is always left; a user has a key, a key and a trader have a user |
| Traders, operations panel, reports, e-mail, logging, configuration | rows that are only read, or none | — | — |

Components interact by calls inside one HTTP request: the endpoint opens one
database session, the service reads, writes and commits on it, and awaits the
engine over HTTP in between. Requests are coroutines of one event loop (or of
several processes), so any other request runs at every await; the database
(PostgreSQL, READ COMMITTED) is all they share. What serialises them are row
locks (`SELECT ... FOR UPDATE` on the ledger accounts), unique indexes, and
nothing else. Four cron jobs call endpoints that synchronise with the engine,
and the engine calls the webhook.

What is hard: the engine call sits between two database transactions, so a
crash, a timeout or a lost answer leaves money moved and not recorded, or the
opposite; clients retry under the same key while the first try is still
running; checks are made before an await and used after it. `PROJECT.json`
lists these hazards with the line of code where each bites.

## The modules

| Module | Models | Correspondence |
|---|---|---|
| `Escrow` | the promise of the ledger | abstract: free money, and claims that are held, then paid or returned |
| `Ledger` | `LedgerService` | one action per function. `balance` is `LedgerAccount.balance` by account, `pendingDebit` the MASTER account's column, `tx[k]` the transaction with idempotency key `k`. The promise it implements is `ImplementsEscrow` |
| `MCLedger` | a small instance of `Ledger` | |
| `LedgerProofs` | theorems about `Ledger` | inductive invariant, type, solvency, holds, books; every step is an escrow step; settled transactions are final |
| `Capital` | `MamCapitalService.deposit` and `withdraw`, `TraderService.fund_master_account`, and the engine | extends `Ledger`. `movement[k]` is the row with key `k`, `request[r].pc` where the handler of request `r` is, `wire[r]` its engine call, `engine[e]` what the engine did under its key `e` |
| `CapitalProofs` | theorems about `Capital` and `Regularization` | inductive invariants, refinement of `Ledger`, the safety properties of the runs `capital` and `regularize` |
| `FundingOtp` | `FundingOtpService` and, in two steps, `TraderService.fund_master_account` | extends `Ledger`. `otp[o]` is the row of a request for funding, `handler[r]` a verification or a resend: the row it `seen`, and its `pc`. A write names only the columns whose value differs from the row that was read, as SQLAlchemy does. `TxKey` is the set of rows: a row's transaction has the key `fund-otp-<id>` |
| `FundingOtpProofs` | theorems about `FundingOtp` | inductive invariant, type, the two safety properties |
| `CryptoDeposit` | `CryptoDepositService.submit` and `EvmClient` | extends `Ledger`. `height` and `block` are the chain, which is external, `deposit[h]` the CONFIRMED row of a hash, `request[r]` the handler with the block number it read; `forked` remembers the handlers between whose two calls to the node the chain reorganised, for the properties. `TxKey` is the set of hashes. A REJECTED row is only an answer: nothing reads it |
| `CryptoDepositProofs` | theorems about `CryptoDeposit` | inductive invariant, type, the two safety properties |
| `Regularization` | `MamCapitalService.regularize` | extends `Capital`. `Past` and `happened` are what moves in MT5 without the service, `sweep[s]` one call: the rows it read from the engine and its `pc` (`count`, `list`, `post`). A batch of rows is one step, because its commit comes after the last |
| `Allocation` | `MamAllocationService` and `MamWebhookService`, for the subscriptions of one follower account | `row[a]` is the row of `mam_allocations` with the engine's id `a` (its status, and whether `ended_at` is set), `event[a]` the stored notice of its end, `engine[a]` the engine's subscription. `call[p]` is what a request or a cron (`sync`, `retry`) is doing: `seen` is what it loaded, `answer` what it is to write, `todo` what it has still to ask. A commit writes a status only where it differs from the loaded one, over whatever the row says by then |
| `AllocationProofs` | theorems about `Allocation` | inductive invariant, type, the three safety properties |
| `Accounts` | `MamAccountService` and the profiles of `MamLeaderService`, with the engine that owns both | `account[l]` is the engine's account with login `l`, `row[l]` ours, `profile[l]` the rate of its strategy here, `audit[l]` the rate of the last audited change, `call[p]` a request with the row it `seen` and the `answer` of the engine. `past[l]` remembers what the engine has said and which statuses clients gave it: it is there for the properties |
| `Deletion` | `MamDeletionService` | extends `Accounts`. `purge[d]` is the engine's deletion, `op[d]` the row with idempotency key `d`, `worker[w]` a request about one, `cron` the polling pass with the rows as it loaded them |
| `DeletionProofs` | theorems about `Deletion` and `Accounts` | two inductive invariants, type, the four safety properties |
| `PerfFee` | `MamPerfFeeService` and `LedgerService.post_perf_fee` | extends `Ledger`. `charged[i]` is the engine's payment, `fee[i]` its row, `known` the clients whose account is imported, `pass[p]` a reconciliation: whether it is to `post`, what it has fetched (`Listings`), what it has read (`seen`) and what it is to write (`now`, `booking`) |
| `PerfFeeProofs` | theorems about `PerfFee` | inductive invariant, the two safety properties |
| `ApiUsers` | `ApiUserService`, `require_api_key`, `create_api_key.py` and `TraderService.register_trader` | `role[u]` is the row of a user, `holder` and `active` the keys, `trades` the users with traders, `call[p]` a request between its check and its commit |
| `ApiUsersProofs` | a theorem about `ApiUsers` | inductive invariant, nobody is locked out |
| `MCCapital`, `MCFundingOtp`, `MCCryptoDeposit`, `MCRegularization`, `MCAllocation`, `MCDeletion`, `MCPerfFee`, `MCApiUsers` | their small instances | |

A step of `Ledger` is one service function. Its row locks are held until the
caller commits, and the caller's commit follows without an engine call, so a
committed call is one atomic step. The settlement of a withdrawal with a fee
calls two functions before one commit: `PostWithdrawalAndFee` is that pair.
`LedgerAccount.balance` and the sum recomputed from the entries are both
written by `_apply_entry` and nowhere else, so the model keeps one number.

A step of `Capital` is one query, one committed transaction or one event of
the engine call. The program counter follows the code: `lookup` (the movement
under the key), `guard` (`_guard_in_flight`), `insert` (movement and hold),
`call`, `wait`, `done`. The rows read at one step are used at later ones, as in
the code. `Abandon` is a handler that dies: process crash, cancelled request,
or a database error that rolls its transaction back (a deadlock victim, the
unique-index race of the first `ensure_trader_holdings`).

The engine is external and modelled from how the client uses it: a financial
request under a new key moves the money or not; a key it has executed is
answered again without moving money (`withdrawal_was_reused`), or with 409 when
the operation differs; a refusal (400, 422, 409, other 4xx) under a key it has
not executed means the money did not move; a withdrawal it may accept with an
amount that is zero or negative, which moves nothing (the case the status
REJECTED is for); any other answer, and no answer, says nothing. It may act on a
request long after the client gave up.

## The runs

| Run | Question | Bounds |
|---|---|---|
| `ledger` | do all sequences of ledger calls keep the books, the holds and solvency, settle once, and behave as an escrow? | 3 transactions, 2 traders, amounts 1 and 2. Every pair of operations on a key, and a third that competes for the same money, fits |
| `capital` | do movement, ledger and engine agree under concurrency, retries, crashes, timeouts and lost answers? | 3 requests, keys `k1 k2` and one for funding, 2 accounts of one trader, deposits of 2, withdrawals of 1, fee 0 or 1; the guard sees one movement (`GuardLimit` = 1, the code's is 5) so that it can miss the other account's |
| `keys` | what do keys do that the client strips, that it refuses as blank, or that the ledger column cannot hold? are the books wrong by more than the deposits booked on a repeated answer? does every call end? | 2 requests; `k1` and `k2` are short and differ by a space, `kf` is blank, `kl` is too long for the ledger; each deposits and withdraws, `k2` also another amount |
| `regularize` | does a sweep book each row of the history once, beside deposits and withdrawals and another sweep? | 2 sweeps, 1 request, three rows of the past (one in, one out, one of the service itself), a page of 2 rows, so that one is missed |
| `funding_otp` | does one request for funding bring its money in once? | 1 row, 3 handlers, `MaxAttempts` 2, two codes (`MaxCodes`) and wrong ones; amounts 1 and 2 |
| `crypto_deposit` | is a transfer credited once, with its row, and is it final unless the chain reorganised between the two calls of the request that credited it? | 2 handlers, 2 hashes (one pays, one reverts), declared amounts right and wrong, 3 confirmations on a chain of at most `MaxHeight` = 5 blocks that reorganises at any moment |
| `allocations` | do rows and notices follow the engine when answers, notices and polls race, and do the crons heal what was missed? | 1 request beside both crons, 2 ids of one pair, quota 1: the pair is subscribed, ended and subscribed again |
| `accounts` | do rows, profiles and audits say only what the engine said, whatever races? is every deletion recorded, its completion found out and applied, and does only a status that a client wrote stand otherwise? | 1 login, 1 request about the account beside 1 about its deletion, the polling cron and the broker; 1 rate; 1 deletion key, used again and again; clients write the statuses ACTIVE and DELETED (`StatusPatches`; INACTIVE is to a row and to its deletion what ACTIVE is) |
| `perf_fees` | is each payment charged once, to its client, whatever passes overlap, read only a part of the payments, or do not post, and is it booked in the end? | the cron over 2 strategies beside 1 request over one or both; 2 payments of 1 and 2, one client; each strategy has one payment, as many as a listing holds (`PageCap` 1) |

Three requests are the smallest number in which two race and a third uses the
result; two keys give a retry and an independent operation. A ledger key
records its transaction for ever, so three keys bound the history, and the
balances with it, without a further constraint. `CHECK_DEADLOCK FALSE` in the
runs with requests: when every request is done the system waits for the next.

Properties of `ledger`: `LedgerTypeOK`, `Solvent`, `HoldsMatch`, `BooksMatch`,
`TxFinal`, `ImplementsEscrow`. Properties of `Capital`: `OneInFlight` (the
guard may miss, the index may not), `HoldFollowsMovement` (a reservation is
open exactly while the movement is unresolved), `SentOnce`, `FailedNeverMoves`
(a FAILED or REJECTED movement has not moved and cannot any more), `BookedWasMoved`,
`NeverOverdrawn` (the real cash never goes below zero), `BooksFollowEngine`
(the books differ from the real cash by the unresolved movements and by what is
named next), `MovementFinal`, `ImplementsLedger` (the callers meet what
`LedgerNext` asks of them), `EveryCallEnds`.

The code books two kinds of movement on an answer that moved nothing, and the
properties say so instead of assuming them away. `Echoed` are the deposits under
a key that the engine had executed for another of the same letters: the client
strips a key and nothing else does, so two keys that differ by spaces are two
movements here and one there. `Imagined` are the withdrawals the engine answered
with a zero, which `or` takes for no answer. `BookedWasMoved` asks of an echo
that the engine moved for the key it is an echo of, and leaves out what is
imagined; the other two count both for what they are. The first is against
`src/app/schemas/mam.py:264-265`, which promises that a key is not repeated, and
the withdrawal has the guard the deposit lacks; of the second
`src/app/models/movement.py:54` says that it is REJECTED.

Runs that find a disagreement (each is a finding in `PROJECT.json`):

| Run | What the code does | Bounds |
|---|---|---|
| `rebuild_race` | books a deposit twice when it is made between the count of local movements and the list of the engine (`BookedOnce`) | as `regularize` |
| `deleted_alive` | leaves an account alive whose deletion is COMPLETED, when the engine completes a retry at once (`InstantRetry`; `NoneAlive`) | 2 requests about 1 deletion; clients change the capability only, so that no status they write is to blame |
| `last_admin` | leaves no ADMIN, when two requests demote or delete the last two and each counts the other (`SomeAdmin`) | 2 users, 2 requests, 3 keys |

Divergences met while modelling and left without a run. Four are excepted by name
in a property of a passing run, which says that there is no other: the echoed
deposits and the imagined withdrawals above, the credit across a reorganisation
(`forked`) and the status that a client writes (`asked`), both below. Of the rest: an
engine answer is written over a subscription that has ended meanwhile, and the row
says ACTIVE again (only `ended_at` stays); a key of 117 to 120
characters fits a movement and not the ledger, so its withdrawal stays PENDING
with its handler finished; a deposit under a key that has FAILED or is AMBIGUOUS
is answered "Depósito realizado correctamente"; after two fee passes collide on
one strategy, the database session of the one that lost is of no more use and
the strategies that follow are skipped too, where `reconcile_all` says that one
strategy that fails does not stop the others; two requests that regenerate the
key of one user both leave their key active; a strategy with more payments than
a listing holds (`PageCap`) may keep some out of sight for ever.

Properties of `FundingOtp`: `FundsOnce` (the MASTER account has the
amount of each funded row once), `VerifiedIsFunded` (a row that says VERIFIED, or
a success that was answered, has its money). Properties of `CryptoDeposit`:
`CreditFollowsDeposit` (row and ledger entry exist together),
`FinalUnlessForked` (what was credited is in the chain and out of reach of a
reorganisation, unless the chain reorganised between the two calls that the
request that credited it made to the node). Nothing in the code notices such a
reorganisation, although `crypto_deposit_service.py:209` says that the
confirmations protect against it. A reorganisation replaces fewer than
`MinConfirmations` blocks, which is what that setting means.

Properties of `Regularization`: `BookedOnce` (by the movement's
flow or by a sweep), `BooksFollowHistory` (each regularized row counts once, in
its direction), and the ledger's `Solvent` again, for batches. `SweepSpec`
assumes that nobody starts an operation on an account while a sweep with
`include_internal` rebuilds its books (`Undisturbed`); `RacingSpec` drops the
assumption and `rebuild_race` shows the double entry. Nothing is said of the
completeness of a sweep: it reads one page of the history, and rows beyond it
are not booked.

Properties of `Allocation`: `AllocationTypeOK`, `KnownBeforeActive` (a
subscription this program asked for copies no trades while no row knows it),
`EndedIsTrue` (no row tells an end the engine has not made), `ProcessedIsEnded`
(a notice is processed only once its row carries the end), `StoppingHeals` (no
row stays in STOPPING once the engine is done), `PendingIsApplied` (no notice
waits for ever once its row exists). A row need not stay CANCELLED, but
`ended_at`, which is never cleared, does stay.

Properties of `Accounts` and `Deletion`: `DeletionTypeOK`, `RowsAreTrue`
(no row gives a capability that the engine has never given, nor DELETED unless
the engine ended the account or a client asked for that status),
`ProfilesAreTrue` (no profile and no audit has a rate the engine did not take,
and a profile has its account), `ArchivedIsPurged` (a deletion is COMPLETED here
only when the engine has completed it; a row says DELETED only for such a
deletion or because a client wrote it; and a completion that is recorded is
applied, unless a client wrote another status), `PurgeIsRecorded` (the row of a
deletion is there before the engine hears of it), `CompletedIsApplied` (the cron
finds out). The last speaks of the deletions whose `operation_id` is stored: a
request that timed out leaves its row FAILED, and nothing in the code ever asks
again. `update_account` writes any status its caller gives, over whatever the row
says by then: DELETED without a deletion, against rule 2 of
`mam_deletion_service.py:18-20`, or ACTIVE over a row that a deletion archived
while the change waited for the engine. What `past[l].asked` excuses in
`ArchivedIsPurged` is that and no more. `NoneAlive` is what `deleted_alive`
refutes, where clients write no status.

Properties of `PerfFee`: `ChargedWasPaid`, `RowsFollowBooks` (a payment is in the
ledger, once and under its client, exactly if its row says so, also after two
passes collided or one stored rows without posting them), `PaidIsBooked` (it gets
there, if the payments of its strategy fit the listing). Properties of
`ApiUsers`: `SomeAdmin`, refuted, and `NobodyIsLost`, proved.

`CapitalTypeOK`, `OtpTypeOK`, `DepositTypeOK` and `PendingHasHandler` (a PENDING
movement has a handler at work, or one that died, unless the ledger cannot hold
its key) are proved below and listed by no run; TLC finds each true on the
instance of its component's run.

Fairness: `FairSpec` asks weak fairness of each handler only. The event loop
runs every ready coroutine, and the engine call always ends for the handler, by
an answer or by httpx's timeout (`Uncertain` is enabled for as long as it
waits). Nothing is assumed of the engine, of the clients or of crashes.
`FairAllocationSpec` asks that the timers start both crons again for ever and
that a running cron goes on, and that from some time on nothing kills a cron and
the engine answers its poll (`CronFairness`): a poll that fails every time heals
nothing. Nothing is assumed of requests, and no notice need ever arrive.
`FairDeletionSpec` and `FairPerfFeeSpec` ask the same of the polling of deletions
and of the reconciliation of all strategies: the timer starts them for ever, a
pass that runs goes on, and from some time on the engine answers it and nothing
kills it (`Disturbed`). Requests may race with the cron for ever.

## The proofs

The theorems about the ledger hold for any traders, keys and positive whole
amounts (`AmountAssumption`, `TraderAssumption`); TxKey may be infinite.

`LedgerProofs` proves `LedgerSpec => []LedgerInv` and from it `LedgerTypeOK`,
`Solvent`, `HoldsMatch` and `BooksMatch`. None of the last three is inductive
alone: to see that releasing a reservation keeps `pending_debit` equal to the
open ones, the set that is summed must be finite and only deposits may be open.
`LedgerInv` adds these (`FiniteIn`, `OpenIsDeposit`). A sum of amounts is the
number of units, pairs of a key and a cent, so the arithmetic of sums is that of
cardinalities: `SumAdd` and `SumRemove` state what one more key does, `PostAdds`
what one more posted transaction does to every balance, and each action then
has one step lemma.

Its last part proves that each ledger step is an escrow step or a stutter
under the mapping `free = Available`, `escrow[k] = ClaimOf(k)`, from the same
invariant: `Refinement` is the property `ImplementsEscrow`, `PostedIsFinal`
is `TxFinal`.

`AllocationProofs` proves `AllocationSpec => []AllocationInv` for any requests,
ids, leaders and quota, and from it the type, `KnownBeforeActive`, `EndedIsTrue`
and `ProcessedIsEnded`. Rows are written from what a process holds, so the
invariant adds what must hold of that (`CallTrue`): an answer that says CANCELLED
is true of the engine, a stored notice too, and what is held for writing has a
row. Stale as it may be, it stays true, because an ended subscription stays
ended and a row that exists stays (`Forward`); hence a late write may take a
status back, but never tells an end that is not.

`ApiUsersProofs` proves `ApiUsersSpec => []NobodyIsLost` for any users, keys and
requests, if the first user is one of them and `Nobody` is not. A request that
regenerates a key commits the revocation of keys it read earlier; the invariant
adds that these belong to its user (`RevokesOwn`), which stays so because a key
never changes hands. So whatever is revoked late, it is a key of the user that
gets a new one in the same commit.

`CapitalProofs` proves its theorems about `Capital` for any number of requests,
keys, accounts and amounts, all from `Spec => []CapitalInv`. The state of one key is
spread over a movement, a handler, a call on the wire, what the engine did and
two ledger transactions. `CapitalInv` says how these belong together: a key is
claimed by one handler at most, from the insert of its movement on (`OneClaim`:
the unique index on the key is what makes an insert fail), what the engine has
executed it executed for such a handler (`EngineTrue`), and the ledger says of
the key what the movement says (`BooksOf`). None of the checked properties is
inductive alone; that a late answer settles the right movement, for instance,
needs that the handler that waits is the only one there can be.
The invariant gives each handler's ledger call the precondition `LedgerNext`
asks of it, so every step is a ledger step or none (`CapitalImplementsLedger`),
and `LedgerInv` holds of `Capital` too (`LedgerUnderRequests`). The two
properties of sums, `NeverOverdrawn` and `BooksFollowEngine`, compare the sum of
the movements with the sum of what the engine did by an injection from keys to
engine keys.

Nothing is assumed of keys. Two that differ by the spaces the client strips are
one to the engine, and a movement may be booked on an answer that moved nothing;
so `BookedIsMoved` says of each booked movement on whose answer it was booked,
and the sums are split the same way: over the movements the engine moved for
themselves, where keys go to engine keys one to one, over the echoed deposits
and over the imagined withdrawals. The invariant keeps these apart: an answer is
never taken back, and a movement has one.

The rest of `CapitalProofs` is about `SweepSpec`, for any sweeps, pages and
history. A sweep books what it read before an await, and it books rows of the
engine by their ids alone, so `SweepInv` says what every sweep has read: rows
that this service did not move (`ReadsPast`). For a sweep of `EXTERNAL_*` rows
their type says it; one with `include_internal` reads every row, and there it
follows from the check of the local movements, which stays true until the sweep
posts because of `Undisturbed` (`RebuildsAlone`). So the transaction of a row is
always of one that happened (`LedgerOfPast`), under a key no movement has:
`BookedOnceOnly`. The steps of `Capital` write the keys of movements
(`OthersStep`) and a sweep writes the others, which is why `CapitalInv` and
`SweepInv` are kept side by side (`ElsewhereInv`), and what `CapitalInv` says of
movements holds with sweeps too (`MovementsUnderSweeps`).

A batch is one commit, so `LedgerInv` is kept by a lemma about many transactions
(`BatchStep`). The code checks each incoming row after the rows before it and
never the batch; `AffordableTogether` shows that this is enough: the last
incoming row of the page found its amount, and after it money only comes back.
With it follow `SolventUnderSweeps` and, as the sums of the ledger split into
those of movements and of rows, `BooksFollowTheHistory`. Nothing is proved of `RacingSpec`, where
`BookedOnce` is false.

`CryptoDepositProofs` proves `FinalUnlessForked` and `CreditFollowsDeposit` for
any hashes, heights and number of confirmations. The invariant says that a
handler with the receipt has the block the hash is in, unless it is one of
`forked`, and that one that has compared it with the height then knows a transfer
that is settled: deeper than any reorganisation, and later still, as the chain
only grows above it. Of a handler that forked it says only that its receipt was
a success.
The ledger of a hash is what its confirmed row says, which is why the unique index on confirmed hashes suffices although two
submissions pass the same check.

`FundingOtpProofs` proves `VerifiedIsFunded` and `FundsOnce`. Handlers write
rows from stale copies, so VERIFIED need not stay; what the invariant keeps is
that a row's amount never changes and that the transaction of a row, once
posted, has that amount and stays, and a handler on its way to write VERIFIED
has its transaction posted. The sum then is that of `LedgerProofs`, where
nothing but funding was ever written (`FundedBooks`).

`DeletionProofs` proves two invariants about any accounts, deletions, requests
and rates. The first, `DeletionInv`, holds of every behaviour. What the engine
has said of an account (`past`) only grows, so a row that is written late from
an old answer still says something that was said; the same holds of the rates
of profiles. A deletion has at most one request at work that may still create
it, and everybody else about it knows only what is never taken back. From it
follow `DeletionTypeOK`, `PurgeIsRecorded`, `RowsAreTrue` and
`ProfilesAreTrue`. The second, `ArchiveInv`, gives `ArchivedIsPurged`: every row
that says DELETED has a completed deletion or a client that asked for it
(`past[l].asked` only grows), and an account whose completion is recorded, or that
a request for a deletion saw archived, is archived still or was changed by a
client. It is kept because requests write no status but what a client asked for
(`WritesHonest`).
Both hold whatever statuses clients write. The theorems are about `DeletionSpec`, which
`FairDeletionSpec`, the specification the run checks, implies.

`PerfFeeProofs` proves `ChargedWasPaid` and `RowsFollowBooks` for any payments,
strategies, clients and passes. A pass commits what it decided from rows it read
long before. The invariant (`FeeInvariant`) says of each pass that what it holds
is not taken back by any other: an executed payment is final, a row that has a
client or is posted keeps both. What a pass cannot know is that the row or the
entry was inserted meanwhile, and there the unique keys make its commit fail
(`Collides`); so a batch is always of payments that are new in the ledger, and
its sums are those of disjoint sets of units. A pass may have read any part of the
payments, and may store rows without posting them: the proof asks nothing else of
the list. The theorems are about `PerfFeeSpec`, which `FairPerfFeeSpec` implies.

Every safety property of a passing run is a theorem. Only model-checked is
liveness (`StoppingHeals`, `PendingIsApplied`, `CompletedIsApplied`,
`PaidIsBooked`, `EveryCallEnds`), which the prover does not reach.

## Abstractions

Amounts are whole cents (the code truncates to cents before anything else; the
amount of an on-chain deposit is not truncated, and is a whole number of units
here). `regularize` with `apply=false` writes nothing and is left out.
Currency, descriptions, timestamps and references are left out. The generated
keys (`deposit:<uuid>`) are fresh keys. An account with an AMBIGUOUS movement
may operate again, as in the code. `_resolve` is the guard of `Start`: a
payment account or one without a client never reaches the flow. Authorization
and pagination are left out. Retries by the code do not exist: a retry is a new
request with the same key.

Of a subscription, its configuration fields are left out, and so are the checks
of the two accounts it joins (`_resolve_pair`), which only refuse, and the ERROR
status, which no code of the service writes by itself. Either cron takes at most
50 rows; the instances have fewer. The engine refuses to pause, resume or
configure what is not PAUSED or ACTIVE any more, ends no subscription twice, and
starts nothing that nobody asked it to start: nothing but `resume` makes a
subscription of ours ACTIVE.

Of an account, its name, server, leverage, mode and stored password are left
out, of a strategy all but its rate; the checks of a payment login only refuse.
A login the engine has deleted does not come back. PENDING stands for
WAITING_CLOSE and PURGING, which are polled alike. The cron takes at most 50
deletions; the instance has one. What clients write of an account is
a constant (`Patch`), of which the theorems assume nothing. One deletion of an account goes
to the master or to the investor endpoint, by its profile; both are `EngineTakes`.

Of the payments of a strategy a pass reads `MAM_MAX_PAGES` pages at most
(`collect_all`): `PageCap` is what they hold. Nothing says in which order the
engine lists them, so a longer list is cut to any `PageCap` of them. The filters
of a request, by run or by period, give it any part. A fee charged with a
withdrawal is booked under `pf-<key>`; if the engine also lists it as a payment,
it is booked again under `mam-pf-<id>`: nothing in the code relates the two, and
the model has only the second.

An API key is a value that is held by one user: its prefix, hash and pepper are
left out. Columns of a user other than its role change nothing here.

## Not modelled

- The withdrawal from a payment account (`MamLeaderService.payment_withdraw`):
  its movement has no account and no ledger entry, and its states are those of
  `Capital` without a reservation.
- The order of row locks of the ledger: PostgreSQL kills one of the transactions
  of a cycle, and the model has that outcome (`Abandon`, `Collides`).
- Reads: reports, analytics, operations panel, listings, verification of fee
  runs, eligibility. They change no state.
- E-mail, alerts, logging and redaction, configuration, start-up checks,
  encryption of stored passwords, scripts of deployment: input and output, or
  strings. The e-mail of a crypto deposit is one step of it (`Notify`).
- HTTP: validation of bodies and formats; which user may see which client.

## Plan

1. The withdrawal from a payment account, with the keys it shares with the
   movements of capital.
