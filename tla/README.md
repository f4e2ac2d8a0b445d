# Verification of the seeding-testing labs and MemberClub

TLA+ models of the stateful Rust code of this repository, model-checked with
TLC, and theorems about them checked by TLAPS. Paths below are relative to the
repository; `.tla` and `.cfg` files are next to this README.

The repository is a Rust curriculum: small crates under `projects/`, each built
around one mechanism, and the MemberClub application under `apps/memberclub`
that puts several of them together. With few exceptions (the notes API sits on
the SQLx notes crate) the crates do not call each other. What they share is the
shape of their hard parts: statements on one SQLite database with other
statements in between, futures that can be dropped at any await, and outside
parties that repeat, reorder or lose what they send.

## Inventory

| Component | State | Operations | Hard because of | What makes it correct |
|---|---|---|---|---|
| Outbox, `projects/08-outbox-demo` | tables `transfers`, `outbox`; each worker's claimed row | `record_transfer`, `claim_next`, `mark_done`, `mark_failed`, `run_once`, `run_loop` | several workers, cancellation at any await, crashes, backoff by a wall clock kept as text | transfer and row together; one holder per row; one delivery at most; retries counted, capped, backed off; every row settled |
| Single-flight cache, `projects/11-redis-cache` | cache entries with a TTL, the `inflight` map | `get_or_compute`, backend `get`, `set` | dropped futures, errors, expiry between two steps | one computation at a time; waiters get its value; nobody waits for ever |
| Rate limiter, same crate | a counter per key and window | `enforce`, `incr` | window boundaries, saturation, TTL set by the first call only | a bounded burst; `retry_after` is enough |
| Event store, `projects/16-event-sourcing` | append-only `events` | `append`, `load_aggregate`, `current_version`, `read_from`, `subscribe` | racing writers, retries after a conflict | versions follow one another without a fork; an append carries out a command its account permits |
| Balance projection, same crate | `account_balances`, `projection_checkpoints`, a cache | `handle`, `checkpoint`, `balance`, `run_projection` | crashes between statements, a cache beside a transaction | the table is the replay of the log up to the checkpoint |
| Subscription, same crate | a checkpoint in a task, a channel | `subscribe` | back pressure, rows that do not decode | each decodable row once, in order, unless a whole batch decodes to nothing |
| Stripe mirror, `apps/memberclub/api/src/billing.rs` | `stripe_*` tables | `webhook`, `create_checkout`, `create_portal` | events repeated, reordered, answered too late | an event is mirrored once; rows and answers belong to the right user |
| MemberClub accounts and notes, `apps/memberclub/api/src` | users, sessions, notes | register, login, logout, note CRUD with a policy | load, decision and write are separate statements | what is answered or written was permitted |
| Cookies and tokens, `auth.rs` and `04-auth-demo` | session rows, JWTs, secrets of a boot | issue, verify, refresh, logout, restart | shared or per-boot secrets, no revocation of JWTs | access ends with its lifetime, and is one's own |
| Auth lab, sessions, `projects/04-auth-demo` | sessions, refresh families, one-time links | login, rotate, redeem, reset, logout | read and write in separate statements or transactions | one live token per family; links once; a reset kills what was open |
| Auth lab, accounts, same crate | users, `oauth_states`, TOTP secrets, recovery codes | register, Google sign-in, enroll, confirm, disable | the same | one admin, one account per identity, codes once |
| Saga coordinator, `projects/14-sagas` | progress in memory; charges, subscriptions and mails in the world | `run`, `compensate_through`, `try_compensate` | failures at every step and in compensations, two sagas of one user, dropped runs | all effects or none, but for the row that sagas of one user share; an active subscription is paid |
| Webhook receiver, `projects/07-webhook-receiver` | `stripe_events` with `processed_at` | verify, store, look up, handle, mark | a delivery cut short between two of them | at least once, and once when nothing is cut short |
| Notes API, `projects/03-notes-api` over `02c-sqlx-notes` | notes | CRUD, keyset pages | edits and deletes during a walk | a walk shows each note that stays, once |
| Quote generator, `projects/02-quote-generator` | futures, a semaphore, timers | `fetch_all`, `fetch_one` | slow, silent and broken servers, deadlines | bounded requests in flight; one result per URL |
| Money, `projects/06-stripe-money-lab` | none | checked arithmetic, proportional split | ends of an i64, zero weights | no cent lost or made |
| Policy lab, `projects/05-rbac-policy-lab` | none | predicates over roles, tiers, tenants, step-up | many attributes at once | more trust never means fewer rights |

Everything else is listed under "Not modelled" below. `PROJECT.json` lists every
part with its status and reason, and the hazards of the code, each at its line,
with the properties aimed at it.

## Modules

Each section says how the state and the actions correspond to the code. An
action is one SQL statement, one critical section or one poll of a future,
whichever is the grain at which others get in between: between two statements
any other request, worker or crash may step in. Variables called history exist
for the properties only.

### Outbox: `JobQueue`, `Outbox`, `MCOutbox`

`tx` is the open write transaction of `record_transfer`: SQLite admits one
writer, so every action that writes needs `WriteLockFree`. `rows`, `transfers`
and `transferOf` are what is committed. A worker's `pc` follows `run_loop`:
`polling` (in `claim_next`), `claimed` (before the dispatcher), `succeeded` or
`errored` (before `mark_done` or `mark_failed`), `selected` (between the SELECT
and the UPDATE of `mark_failed`), `sleeping`, `off`. `Cancel` is the `biased`
select that drops `run_once` at an await; `DbError` is its `Err`; `Crash` is the
process dying. Time is in seconds and moves only while some pending row waits
for it, since otherwise a later reading of the clock orders and enables the
same things. Timestamps are text and compared as text; `Precedes` says what
that does to ties.

`delivered`, `failures` and `failedAt` are history: what the dispatcher returned
and when. `JobQueue` is what the outbox promises without workers, clock or
database: a job goes from queued to held, and from there is delivered or buried
for good or returned to the queue. The refinement mapping is `JobOf`.

### Single-flight: `SingleFlight`, `MCSingleFlight`

`get_or_compute` for one key; keys meet only in the map's mutex. A caller runs
one call, whose place in the code is its `stage`, and its watch channel has its
name. One action per await or critical
section: the map lock is one, `compute().await` another, and the removal of the
slot, the `set` and the `send` are three. Values are versions of the upstream,
so that a stale one can be told from a fresh one. `Cancel` drops a future at an
await, or is a panic in `compute`; `gone` is such a call, whose sender is
dropped with it.

### Event sourcing: `BankAccount`, `Ledger`, `EventStore`, `BalanceProjection`, `Subscription`

`BankAccount` holds the pure part, `apply`, `handle` and `replay`, with saturating
arithmetic in `-MaxCents-1 .. MaxCents` (i64 in the code). `EventStore` is the
log and its writers. The index in `log` is the position. `Aggregate` replays a
stream as `load` reads it (`ByVersion`), the projection sees the same events as
`read_from` gives them (`ByPosition`). A writer runs the command loop the tests
run: `load_aggregate` (`Load`) and `current_version` (`ReadVersion`) are two
queries, an append of others may come between them, and the decision on the older
aggregate then goes to `append` with the newer version. `seen` (history) is the
version of the aggregate that was loaded, which the code does not keep.
`AppendEvents` is the transaction with its loop over the events; the UNIQUE
constraint, asked for every row, is `Unique`, and `Conflict` is the rollback after
which the caller reloads. `AppendHistory` is the other caller in the tests, which
appends a batch of events to a stream it takes to be new. `Ledger` has accounts
and permitted commands, no log and no writers; `DecidedOnCurrent` says which
appends are steps of it.

`BalanceProjection` extends `EventStore` with `run_projection`: `ReadCheckpoint`,
`ReadFrom`, then for each event `Upsert` (the SELECT, the upsert in the open
transaction and the cache insert) and `CommitEvent` (the guarded checkpoint
UPDATE and the COMMIT). While a transaction is open no append commits. `Wrap` is
the `+` of i64 in a release build; `TableIsTheReplay` compares a row with the
replay up to the checkpoint (`AccountAt`) as long as no balance left the i64
(`InRange`), since the aggregate saturates where the projection wraps.

`Subscription` is the task of `subscribe`: it reads batches of what is `Behind` a
`mark` of its own, sends what decodes through a bounded channel and skips what does
not without moving `mark` past it. Anybody may write a row that does not decode,
any number of them in a row. `SeenWithoutGap` is what the consumer may rely
on at any time, `SeesAllUnlessStalled` what it gets in the end: everything, or
everything up to a batch of nothing but such rows (`Stalled`), where the task
stays. `SubscriberSeesAll` is the claim without that exception, which is false.

### Stripe mirror: `Billing`, `MCBilling`

`webhook` takes the write lock with its first statement (`Deliver`), so what it
reads afterwards is decided when it commits: `CommitReplay` for an event already
recorded, `Mirror` for a new one, `RejectEvent` when the customer is unknown. What
an event says of a row is reduced to when Stripe created it.
`ensure_stripe_customer` is a SELECT (`LookUpHit`, `LookUpMiss`) and an INSERT of
its own (`Mint`, `MintConflict`) of the id that is a function of the user
(`MintedId`). `answered` has the customer each call was answered with, which the
checkout and portal URLs are made from.
`MirrorUnanswered` is a commit whose answer is lost; `Abort` is a failed
statement or a crash. Stripe is the environment: it delivers any event, any
number of times, in any order.

### MemberClub: `MemberClub`

`RegisterMember` and `LoginMember` write or read the user row, `IssueSession`
inserts the session in a statement of its own, `LogoutMember` revokes one.
`Authenticated` is the extractor `AuthenticatedUser`: an access token, or a session that was not revoked.
`GetNote`, `LoadToUpdate` and `LoadToDelete` are the SELECT and the policy's
answer; the note as it was read travels in `handler[r].note`. `UpdateNote` writes all
three columns by id, those the body leaves out as they were read, so it may
overwrite an edit made since; `DeleteNote` deletes by id. Ids are AUTOINCREMENT and never used again.
Roles, tiers and organisations are constants because no handler changes them.

### Cookies and tokens: `Credentials`

Three signers (`Jwt` of MemberClub and of the auth lab, `JwtRs256`), each with
the secret of its boot or one from the environment, which two services may
share. `Decodes` is the library's check of algorithm, key, issuer and expiry with
leeway, `LetIn` what the extractors accept. `signIn` remembers who signed in where
and when it was last given an access token; `Restart` changes per-boot secrets.

### Auth lab: `AuthSessions`, `AuthAccounts`, `AuthLab`, `MCAuth`, `MCAuthAccounts`

`AuthSessions` is one account: sessions, refresh families and links of three
kinds. A transaction that begins with a SELECT and writes later is two actions;
`snapshot` has the requests whose read is still current, because SQLite refuses
the write of a transaction whose snapshot is stale (`Committed` empties it).
`Rotate` and `RotateReused` are the two outcomes of presenting a refresh token,
`Look` and the three confirmations redeem a link, `CompleteReset` is the reset
with the revocation of sessions and tokens in one transaction.

`AuthAccounts` is the users table: `register` with its INSERT, COUNT and UPDATE,
the Google callback with its lookups by subject and by email and the write that
follows, enrollment, confirmation, recovery codes and disabling. A user is named
by its email. `AuthLab` puts the two and `MemberClub`, the other server that keeps
accounts, in one run: the two of the auth lab meet only in the id of the user and
MemberClub is another program, so the initial state picks the one that moves.
`MCAuth` and `MCAuthAccounts` give the constants of the runs.

### Saga: `Saga`, `MCSaga`

Several `run` calls over one `FakeWorld`. Each holds the world's mutex for one
step, so a step is one action and sagas interleave between steps. `idx` is the
index of the loop, forward in `run` and backward in `compensate_through`;
`attempt` is the loop of `try_compensate`, which runs no iteration when
`max_attempts` is 0. `armed` are the failures the world was told to have. A step
of kind `"other"` is any further `dyn Step`, whose `execute` and `compensate`
end as they like. `Drop` is a crash or a dropped future: progress is in memory.

Sagas of one user share the row of that user, and `CompensateSubscribe`
deactivates it whoever activated it. `AllOrNothing` therefore excuses the row of
a successful saga once another one of its user has met an error or was dropped
(`Disturbed`), and nothing else; the claim of the tests, which excuses nothing, is
`OkIsInForce`, and is false.

### Webhook receiver: `WebhookReceiver`

A request is verified (`Verify`, `Reject`), stored with ON CONFLICT DO NOTHING
(`Store`), resumed or recognised as a duplicate by the lookup of a row without
`processed_at` (`Resume`, `Duplicate`), handled, marked and answered, each in a
statement of its own. `Fail` and `HookCrash` cut it short anywhere; `Stray` is a
replayed, forged or unparsable request. `cut` (history) has the events that were
cut short between the handler and the mark, or handled by two deliveries at once.

### Small parts: `RateLimiter`, `NotesApi`, `Money`, `RbacPolicy`, `Fetcher`

`RateLimiter`: one counter per bucket with the TTL that the first call of a
window sets; `Allow` and `Limit` are the two outcomes of `enforce`, whose `incr`
is under one mutex; `admitted` (history) has when each admission was. `NotesApi`:
each handler is one statement, `StartWalk` and `NextPage` are a client that
follows the cursor; `shown` (history) counts how often its walk was given each
note, `stayed` has the notes that were there all along. `Money`: any operation on
one amount, with an i64 of `-Half .. Half-1`, and the largest-remainder split,
where `Place` is the index of a share in the sorted vector of remainders.
`RbacPolicy`: every predicate, over one user and one document whose attributes
the application changes step by step. `Fetcher`: one future per URL behind the
semaphore, a timer around the headers and another around the body, and the
deadline of `main.rs`; a future is polled when the consumer asks for a result.

`MCLabs` puts the saga, the single-flight cache, the Stripe mirror, the webhook
receiver, the credentials, the subscription and these five in one run: they share
no state, so the initial state picks one and the others stand still (`In`). It
extends them all, and so checks the very definitions the theorems are about. A
liveness property of one of them is stated there as `<>[](lab = ... => ...)`, with
the fairness of each module for the part that runs (`LabsFairness`).

## Runs

| Run | What it shows | Bounds |
|---|---|---|
| `outbox` | `TransferAndRowTogether`, `OneHolder`, `DeliveredAtMostOnce`, `RetriesCapped`, `FirstAttemptsFifo`, `RetryWaitsOutBackoff`, the refinement `ImplementsJobQueue`, and `EventuallySettled`, all with cancellation, database errors, crashes and restarts | 2 rows, 2 workers with caps 2 and 3, amounts that each check refuses |
| `outbox_crash` | `RetriedAfterCrash` is violated | the same |
| `ledger` | `OneSuccessor`, `DecidedOnCurrent`, `CommandsAnswered`, `TableIsTheReplay`, `CacheAtMostOneEventAhead`, `CatchesUp`: writers and projection together | 2 writers, 2 accounts, 2 commands (open, close, withdraw 1) beside histories of two events, balances -4..3, 1 runner, batches of 2, 1 fault |
| `stale_decision` | `NeverOverdrawn` is violated | the same, the commands are withdrawals, no fault |
| `auth` | auth lab: `OnlyFirstIsAdmin`, `OneAccountPerIdentity`, `OneLiveTokenPerFamily`, `ResetRevokes`, `RedeemedOnce`; MemberClub: `ReadersMayRead`, `ChangesArePermitted` | 2 requests; 2 emails, 2 subjects, 3 identities, 2 flows, 2 secrets; links 1, 2 and 1 of each kind, 2 sessions, 3 refresh tokens; 4 kinds of member of which 3 register, 2 tiers, 1 note with every patch |
| `auth_totp` | `EnabledOnlyAfterProof` is violated | the same accounts |
| `labs` | all: `LimitsHold`; sagas: `AllOrNothing`, `CallsReturn`; single-flight: `ErrorsHaveACause`, `SlotHasComputation`, `WaitersAgree`, `FlightsReturn`; Stripe mirror: `OncePerEvent`, `RowsFollowTheCustomer`, `CallersGetTheirOwnCustomer`, `EveryEventMirrored`; webhook receiver: `HandledOnce`, `StripeIsAnswered`; rate limiter: `AdmissionIsFair`; notes: `WalkShowsEachOnce`; money: `SplitExact`; credentials: `AccessEnds`; policy: `TrustKeepsRights`; quotes: `CallsReturn`; subscription: `SeesAllUnlessStalled` | per part, below |
| `saga_shared_user` | `OkIsInForce` is violated | the same sagas, 1 injected failure |
| `single_flight_abandoned` | `AbandonedSlotFreed` is violated | 3 calls |
| `billing_order` | `NewestWins` is violated | the same events, no fault |
| `subscribe_stalls` | `SubscriberSeesAll` is violated | 3 rows, batches of 1 |
| `money_ceiling` | `WithinCeiling` is violated | i64 of -16..15, ceiling 10 |

Why these are enough to see the interesting cases. Outbox: two rows and two
workers give a retry that competes with a first attempt, and a worker with a
lower cap that takes the other's row. Single-flight: a computing call, a waiter
and a third that arrives when the slot is gone. Ledger: two commands that race
with each other and with a history of an opening and a deposit, of one stream or
of two; a command that comes between another's two queries; a batch of two that is
cut short after its first event. No balance leaves its range there. Billing: one
user has a customer that is both minted by a call and named by a checkout, the
other one, whose two calls race, a customer of each kind; one subscription is
created and updated. MemberClub: an owner, a moderator of the tenant, a stranger and an
admin, two requests between any two statements of each other. Auth: two
requests that rotate, redeem or link the same row; two reset links, so that a
resend meets a redemption; three refresh tokens, so that a rotation meets a
reuse of its parent; a subject that changed its email and an email that changed
hands. In `labs`: two sagas of one user, one without compensation attempts, and
a third that is refused, over four steps; one webhook event in two deliveries
at a time, 3 seconds, skew 1, 2 faults; two buckets, limit 2 in a window of 2;
5 notes, pages of 2 and clamped sizes; splits of up to 3 weights up to 3; three
URLs and 2 permits with and without a deadline; a channel of 1, batches of 2, 5
rows any of which may be damaged; one sign-in whose lifetimes all end within 6
minutes, 1 restart. Of the sagas one of the two that share a user compensates, so
that each order of its failure and the other's success occurs.

Symmetry over requests is used in `auth` and `auth_totp`, which check invariants
and action properties, no liveness. Only `outbox`, `ledger` and the runs of the
same modules (`outbox_crash`, `stale_decision`, `billing_order`) check for
deadlock: elsewhere calls return, bounds are used up, and then the system stops.

`LimitsHold` joins the type invariants of the labs with the limits of permits,
attempts and channels, and with `SeenWithoutGap`. The type invariants of the other
modules are theorems or part of an inductive invariant, and are not run separately.

### Fairness

`Outbox`: a transaction that was begun ends, a worker that runs takes its next
step, a worker that is down is started, time passes (`SupervisedSpec`).
`EventuallySettled` speaks of behaviours whose faults stop (`<>[][Work]_vars`)
and of rows that no earlier fault stranded; `outbox_crash` shows why that is
needed. `SingleFlight`: the executor polls what can make progress, and `compute`
returns. `BalanceProjection`: the runner is polled, and called again when it has
returned; a writer's loop goes on. A conflict means another append succeeded, and
only `MaxCommands` are sent. `Billing`: a handler that has the write lock goes on
(weak), and Stripe redelivers what was not answered 200 until a delivery gets the
lock. The busy timeout may expire now and then, so that is strong fairness, of
the checkout sessions as a whole and of the other events as a whole; it need not
be assumed of each event. `Saga`: a run that
is polled goes on. `WebhookReceiver`: a request that was received is served, and
Stripe goes on posting what was not answered. `Fetcher`: the consumer asks, and
time passes; nothing is assumed of servers. `Subscription`: the task is polled,
the consumer reads. Nothing is assumed in the other modules, which check safety
only: their clients may stop at any point.

## Theorems

Eight modules prove what TLC checks on small instances for every value of the
constants that satisfies the named assumptions: any sets of workers, callers,
requests, deliveries, users, sagas, streams, buckets and URLs, any number of
rows, tokens and retries. Every safety property of a passing run, refinements
included, is the subject of a theorem, and so is the type invariant of every
component, by itself or within an inductive invariant. An invariant is seldom
inductive as it stands; this is what each proof adds.

- `OutboxProofs`. A commit keeps `TransferAndRowTogether` because of what the
  transaction has staged (`TxInv`). What a worker writes is safe because of the
  row it holds (`HoldInv`) and because nobody else holds it (`OneHolder`). A row
  nobody works on agrees with its history (`RowInv`); untried rows are due in
  the order of their ids (`FifoInv`); a pending row that failed has its backoff
  in `next_attempt_at` (`BackoffInv`). One lemma per action. From `IInv` follow type
  correctness, five state properties, `RetryWaitsOutBackoff`, and
  `RefinesJobQueue`: each step moves one job the way `JobQueue` allows, or none.
- `SingleFlightProofs`. `OwnerInv` says what a call that began to compute has
  done at each place, `WaiterInv` that a waiter waits on such a call and takes the
  fallback only when it ended without a value.
- `BillingProofs`. `RowsHaveAnEvent`: a mirrored row comes from a recorded event
  of its customer. A mirror therefore knows whose row it overwrites, and
  `RowsFollowTheCustomer` survives it. `MintedOrBrought`: a row of
  `stripe_customers` has the id minted for its user or was brought by one of his
  checkout sessions. Of two customers of one user one was therefore brought
  (`TwoCustomersNeedACheckout`), which with `AnswersAreTheCallers` gives
  `CallersGetTheirOwnCustomer`.
- `BalanceProjectionProofs`, on the event store and its read model. A replay is a
  recursive function; that it exists, looks only at the events up to its end and
  takes one more event at a time (`ReplayStep`, `ReplayAgree`) is proved by
  induction. `StoreInv` is about the log and its writers: `OneSuccessor`, that the
  first event of a stream opens the account (`FirstOpens`), and that what a writer
  has loaded is the replay up to the version it saw then, and the version it will
  append at is no earlier one and no later than the log's (`ReadyInv`). The unique index lets an append through only at the end of the
  stream; if nothing came between the two queries that is the end the writer
  loaded, hence `DecidedOnCurrent` (`FreshDecision`): the append is one permitted
  command on the current account. `LedgerIfUndisturbed` states the rest of the way
  to `Ledger`: a behaviour in which no append is decided on a version older than it
  expects, and no history is put in, refines it. The code rules neither out, so the
  condition is part of the theorem. `RunnerInv` says that a batch is what follows
  the checkpoint and that row and cache hold its first event. Of the runners the
  theorems on the table assume `OneRunnerAssumption`: nobody starts a second
  `run_projection`, and `handle` is not idempotent (see below); the theorems on the
  log do not use it.
- `AuthProofs`. `FamiliesApart`: a family belongs to the login that opened it, has
  no token before its root is recorded and cannot be burnt before that. With it a
  rotation replaces the one live token of a family. For links the type invariant
  is the strengthening: a request whose snapshot is current is about to redeem a
  link that is still unused. For accounts `StepsHold` has what a request may rely
  on at each of its statements whatever the others did since the last one: the
  row it inserted or found still exists, and who is about to be promoted is the
  first. `SecretsApart`: a secret has one owner. Assumes `AccountsAssumption` (the
  identities are pairs of a subject and an email, no subject is "none") and, for
  the types, `SessionsAssumption` (the bound on links is a natural number).
- `LabsProofs`, on the other eight labs of `MCLabs`. *Webhook receiver*: `Progress`
  says what is in the table for a request at each place, `Finished` what a
  processed row means, and `OneAtWork` that an event which was never cut short has
  one delivery at work on it, and has been handled exactly when that one is about
  to mark it or the row is processed. *Credentials*: `TokenFits`, a token names a
  sign-in at its own issuer, and an access token expires within its lifetime after
  that sign-in was last given one; assumes `CredAssumption` (durations and bounds
  are natural numbers). *Rate limiter*: `Fair` ties the history of a bucket to its
  counter: a live entry counts the admissions since the one that opened its window
  (`Opener`), and every admission a limit or more before that one is a window
  older; that gives both the bound on bursts and that `retry_after` is enough.
  Assumes a limit that admits somebody and is no `u64::MAX`, and a window that is
  not empty. *RBAC*: `TrustKeepsRights` is proved predicate by predicate from what
  "trusted as much" means (`AsTrusted`). *Quote generator*: `InFlightBounded`.
  *Notes API*: `PageContract` says that a page goes down from the cursor without a
  gap, to the new cursor or to the end of the table, by counting the rows between;
  `Covered`, that a walk has shown what was there all along from its cursor up.
  *Money*: `SplitExact` from sums proved by induction. The remainders add up to
  the residue times the total weight, so the cents left over are no more than the
  shares with a remainder (`ResidueOfParts`); the sorted order gives every share a
  place of its own (`PlacesTaken`), so that the loop gives the first places one
  cent each and does not come round (`ExtraCents`); a share of the smallest i64
  wraps only when it is all of it, and then to the right number (`ShareValue`).
  Assumes that the ceiling is below 2^63. *Subscription*: what was sent, taken
  from the channel or still in it, is every row up to the mark that decodes
  (`EverySentTo`); the batch is consecutive, and between the mark and its head
  everything is damaged (`BatchFrom`), so that moving the mark to the head loses
  nothing. `LimitsOfTheLabs` puts the inductive invariants of all eleven
  labs together: a step of the run is to each lab one of its own, or none (`StepOfEach`).
- `MemberClubProofs`. `IdsNameRows`, `Loaded` (what a request read has the owner and
  tenant that the row of this id still has) and `Decided` (the policy said yes to
  what was read). Together a late write hits a row whose owner and tenant are those
  the decision was about. For the types, `AccountsTyped`: who is authenticated has a
  row, and so has who is about to be given a session.
- `SagaProofs`. `Staged` ties the effects of each saga to its loop index, on the
  way forward and on the way back, and `ActiveIsBacked` says that an active row
  has a saga that charged and will not refund before it deactivates the row. That
  the row of a successful saga is active is kept up to the first error of another
  saga of its user (`Disturbed`, `OneSagaMoves`): a compensation is the only step
  that deactivates, and it follows that error. The assumption is that of the
  module: the charge comes before the subscription.

The installed provers cannot instantiate the induction theorems of the library,
which take a predicate as a parameter. The inductions are made by hand, from the
least element of a set of naturals (`LeastNumber`, from the well-foundedness of
`<`, and `AllNumbers`).

Only model-checked: liveness under fairness (`EventuallySettled`, `CallsReturn`,
`FlightsReturn`, `CommandsAnswered`, `CatchesUp`, `EveryEventMirrored`,
`StripeIsAnswered`, `SeesAllUnlessStalled`), which rests on ENABLED and is out of the provers' reach.

## Where documents and code disagree

Each of these is a run that expects a violation, and an entry under `findings`:

- `outbox_crash`: lesson 11.5 says a row whose worker crashed will retry;
  `claim_next` never looks at `processing` rows.
- `single_flight_abandoned`: the slot is said to be always removed; a future
  dropped in `compute` leaves it.
- `billing_order`: ADR 0008 says out-of-order updates are guarded by comparing
  timestamps; the upserts compare nothing.
- `auth_totp`: two-factor authentication is to be enabled only after the user
  typed a code of its secret; the confirmation writes by user id what it decided
  on an earlier read, and an enrollment in between has replaced the secret.
- `money_ceiling`: `Money::new` refuses amounts beyond the ceiling, but the
  magnitude of the smallest i64 wraps and passes.
- `stale_decision`: the rules of the account are to be enforced inside the
  aggregate, but `load_aggregate` returns no version and the loops of the tests and
  the essays ask `current_version` for it in a second query; an event in between
  gives a stale decision a fresh version, and two withdrawals of the whole balance
  both succeed.
- `subscribe_stalls`: the subscription is to emit each new row; a batch made only of
  rows that do not decode leaves its checkpoint alone and is read again for ever.
- `saga_shared_user`: a saga that returned Ok is to have an active subscription; the
  compensation of another saga of the same user deactivates the row it paid for.

Met while modelling, without a run of their own:

- `get_or_compute` frees the slot before it caches the value; a caller in between
  computes a second time, one after the other.
- A stale decision (above) may also open an account a second time. A replay takes
  the second opening for a reset of the balance, the projection for no change:
  `TableIsTheReplay` compares the two only up to that (`OpenedOnce`).
- `append` accepts a version beyond the current one; the loops never pass one.
- `BalanceProjection::handle` is not idempotent by position; its checkpoint is.
  Two runners of one projection would apply a batch twice; the note at
  `lib.rs:645` excludes them, and so does the run.
- A login of the auth lab that checked the old password may insert its session
  after a reset revoked all sessions; `ResetRevokes` speaks of what was there.
- The per-request timeout of the quote generator applies to headers and body
  one after the other, so a request may take twice as long as it says.
- A dropped subscription goes on polling until its next send fails.

## Not modelled

- Multi-tenant row-level security: the isolation is PostgreSQL policy text, of
  which the Rust code sets one variable per transaction.
- Capacity planner: floating-point formulas without state.
- Password hashes, HMACs, JWT signatures, TOTP codes: trusted, as predicates.
- The auth lab's login governor, audit rows, expiry of links and the fetches of
  OIDC discovery and keys: each only refuses, or is written and never read back.
- MemberClub CLI, web pages, web sessions in TypeScript (synchronous SQLite, where
  no two requests interleave in a call), the Svelte counter, browser tests.
- Telemetry, load test, hello CLI, xtask, deployment, scripts, the essays.
- Formatting and parsing (amounts, cursors, JSON, headers), except for what a
  property depends on: text timestamps of the outbox, sizes of note bodies.

## Plan

The components that hold state are modelled. What could still be added, in this
order:

1. Callers of `append` that pass versions they did not read.
2. `AuthSessions` with expiry of links and sessions on the clock of `Credentials`.
