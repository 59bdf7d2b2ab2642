# Flash-sale backend: a TLA+ model, its checks and its proofs

The program is a NestJS service that sells a limited number of items at a fixed
time: API replicas and outbox workers, one Postgres database, one Redis. This
directory holds TLA+ modules translated from its source, the TLC configurations
that check them on small instances, and TLAPS proofs of what they check, liveness
excepted, for every size of the instance.

Paths below are relative to the root of the repository (`src/modules/...`,
`docs/DESIGN.md`). `PROJECT.json` gives, for each definition, the lines it
translates.

## 1. Inventory

| Component | State it keeps | Operations that change it | Talks to |
|---|---|---|---|
| Purchase path (`flashsale.controller`, `flashsale.repository`, `idempotency.interceptor`, `transaction.service`) | `flash_sale_items.sold`, `users.balance_cents`, `purchases`, an outbox row, `idem:<key>` in Redis | `purchaseTx`; GET and SET of the stored response | rate limiter before it; outbox; shares `flash_sale_items` with creation and settlement |
| Sale creation (`sale-creation.service`) | `products.stock`, `flash_sales`, `flash_sale_items`, two outbox rows | `create` | outbox |
| Settlement (`flash-sale-settle.handler`) | `flash_sales.settled_at`, `products.stock` | `handle` | called by the poller; shares product rows with creation, item rows with purchases |
| Outbox and workers (`outbox.service`, `outbox-poller`, `handler-registry`, handlers) | `outbox` (status, attempts, visible_at), `otp_codes.sent` | `append`, `tick`, the handlers | every writer above |
| Registration, OTP, login (`auth.service`, `otp.service`, `users.repository`) | `users.status`, `otp_codes` | `register`, `resend`, `verify`, `login` | outbox (`otp.send`), tokens |
| Refresh tokens (`token.service`) | `refresh:<jti>` in Redis | `issuePair`, `rotate`, `revoke` | called by the above |
| Rate limiting (`rate-limiter.service`, `rate-limit.guard`) | `rl:...` buckets in Redis | the Lua script, once for each configured limit | in front of every limited route; needs `req.user` of the guard before it |
| Guards and errors (`api.module`, `jwt-auth.guard`, `error.filter`) | `req.user` of a request | admit or refuse; turn an exception into an answer | around every route |
| Seeder (`prisma/seed.ts`) | none of its own | products, then sales, then test users; run by hand, again and again | shares products and sales with creation, users with registration |
| Active sale listing (`flashsale.service`) | none | a read of `flash_sale_items` | shows what settlement must not take back |
| Product reads, health, OTP encryption, configuration, load scripts | none of their own | (see section 9) | |

What makes each of them hard, and what makes it correct:

* **Purchase path.** Many replicas run `purchaseTx` for the same item and the
  same user at READ COMMITTED. It checks a daily purchase first, takes two row
  locks one after the other, and inserts last; any statement may time out; the
  replica may die before or after the commit; clients retry with the same key;
  midnight passes. Correct means: no unit is sold twice, no user buys twice a
  day or overdraws, debit, unit, purchase and event are one thing, and what a
  client was told about a purchase is true and stays true.
* **Creation, seeding and settlement.** Units leave `products.stock` when a
  sale is created and come back when it is settled, by workers that may be
  redelivered the same row or run it side by side, while buyers are still in
  flight; the seed script makes sales with statements of its own, can be killed
  half-way, and is run again on a database in use. Correct means: stock is
  accounted for, units come back once, none is lost and none comes back while
  the listing offers it, a sale is there as a whole or not at all, and every
  sale of the service is settled or reported.
* **Outbox.** A tick holds its claim in one transaction and runs handlers that
  act outside it, so what the handlers did survives when the claim does not.
  Correct means: no event is lost, repeated effects are explained by counted
  attempts or lost transactions, and finished rows stay finished.
* **Accounts and tokens.** Checks and writes are separate queries, with awaits
  between them. Correct means: limits are overrun by what was in flight only,
  an account is active exactly when an OTP was accepted, a refresh token ends
  by its own DEL or its expiry and by nothing else.
* **Rate limiting.** The script is atomic, but its clock is the caller's, read
  some time before it runs, and its answer may be lost.
  The guard in front of it has to find the right bucket: it normalises
  identifiers before anything was validated, and reads a user that the guard
  before it has set. Correct means: what one account or user gets is bounded
  however it is spelled, nobody is refused for the requests of others, and the
  waiting time that reaches the client is enough, whatever the clocks do, up to
  the difference of their readings.

`PROJECT.json` lists 35 hazards at the lines where they bite, with the
properties that catch each of them, or the reason why none does.

## 2. Modules

| Module | Models | Built on |
|---|---|---|
| `Purchase` | `POST /v1/flashsale/purchase`, one action per statement | |
| `PurchaseLedger` | what the purchase path promises: one indivisible sale | refined by `Purchase` |
| `ItemRows` | a purchase as the item row sees it: reserve, then sell or release | refined by `Purchase`, extended by `SaleLifecycle` |
| `PurchaseProofs` | theorems about `Purchase` | `Purchase`, `SumTheorems`, TLAPS |
| `SaleLifecycle` | creation, seeding, listing, buying, settlement, product stock | `ItemRows` |
| `Outbox` | the outbox table, ticks, handlers, worker loss | |
| `Delivery` | what the outbox promises: at-least-once delivery with a limit | refined by `Outbox` and by `SaleLifecycle` |
| `Sessions` | refresh tokens | |
| `Accounts` | registration, OTP, login | `Sessions` |
| `RateLimit` | the token bucket script | |
| `Gateway` | guards, limits of each route, pipe, error filter | `RateLimit` |
| `SumTheorems` | lemmas: sums over finite sets | TLAPS |
| `SaleLifecycleProofs`, `OutboxProofs`, `SessionsProofs`, `GatewayProofs` | theorems about the module of that name | it, TLAPS |
| `AccountsProofs` | theorems about `Accounts` | `Accounts`, `SessionsProofs` |
| `MC*` | constants, and symmetry sets, for TLC | |

The composition runs along `ItemRows`. `Purchase` is too detailed to be put
next to two sales and two workers, so it is shown to implement `ItemRows`
(property `RowsSpec`, theorem `RowsRefinement`) and `SaleLifecycle` uses
`ItemRows` in its place. `Outbox` has handlers whose effect is outside the
database, and `SaleLifecycle` the one handler whose effect is a transaction of
its own; both are shown to implement `Delivery`, so that what a reader may
expect of an event does not depend on its type. `Accounts` and `Sessions` are composed by `EXTENDS`:
the tokens `Accounts` issues are those `Sessions` rotates and revokes.

### Conventions shared by the modules

* Lines marked `mutant:` define a plausible bug beside the definition it would
  replace. No specification refers to them; each is paired with a property in
  `PROJECT.json`, and TLC finds the property violated when the mutant takes the
  place of the definition.
* A transaction's writes appear at its commit action. Row locks are not a
  variable: who holds one follows from how far each transaction has come
  (`HoldsItem`, `HoldsUser`, `CreationHolds`, `SettlementHolds`, `Locked`). A
  statement that waits for a lock is an action that is not enabled.
* `history` variables record what clients or the outside world saw. No guard
  reads them.
* Every timeout, deadlock victim, lost connection or failed CHECK is one
  action (`Abort`, `AbortCreation`, `AbortSettlement`, `Fail`, `LoseClaim`):
  they all roll the transaction back.

## 3. Correspondence with the code

### Purchase

| Action | Code |
|---|---|
| `Arrive` | a client sends the request of a key, any number of times, also in parallel |
| `Lookup` | `idempotency.interceptor`: GET `idem:<key>`, replay or go on; fails with Redis |
| `Begin` | `purchaseTx` takes the day from `new Date()` before the transaction |
| `CheckDaily` | `SELECT EXISTS` on `purchases` |
| `LockItem` | `SELECT ... FOR UPDATE OF fsi`, and the 404 / 409 checks on the row |
| `LockUser` | `SELECT balance_cents ... FOR UPDATE`, and the 402 check |
| `Debit` | the two relative UPDATEs under their CHECK constraints |
| `Insert` | `purchase.create`; waits for an uncommitted clash, P2002 on a committed one |
| `Commit` | `outbox.append` and COMMIT; then the answer, and the unawaited SET |
| `Abort`, `Crash` | rollback by a timeout or by the loss of the replica |
| `CacheSet`, `CacheLost` | Redis executes the SET, or never receives it |
| `Publish` | the effect of `SaleCreationService.create` on the item rows |
| `Tick` | time, midnight, and the EX of the stored responses |

`req[s]` is a request running in slot `s`: its program counter, key, day, and
the `sold` it read under the lock. The two UPDATEs are one action because both
rows are locked and nobody else can tell them apart. The append shares the
action of the commit, since nothing is read or waited for between them.

Left out: the guards in front of the interceptor (401, 429) and the validation
(400), which end the request before it has touched a table (they are in
`Gateway`); top-ups by an administrator, which only add to a balance. A key
belongs to one client and one item. `answers` keeps the answers that speak of
a purchase as made (200 and `already_purchased_today`); the others state that
nothing was bought.

### SaleLifecycle

`ReserveLine`, `CommitCreation`, `AbortCreation` are the loop of
`SaleCreationService.create` in input order, one product lock after the other;
`CommitCreation` publishes the items and appends the `flash_sale.settle` row.
The loop of `seedSales` has the same statements and locks, so it is the same
three actions, for the sales in `SEEDS`: `Due` lets the script work at one sale
at a time, `SeedNext` is its check that the sale exists, a commit moves it on
and a rollback ends it (`exit(1)`), and no settle row is appended. `SeedProduct`
is an upsert with an empty update, `SeedEnds` the end of a run, by itself or by
a kill. `seeder = 1` stands for a run that begins as well as for none: a run
before its first write cannot be told from no run. `Active` is the `where` of
`listActive`.
`Claim`, `LockSale`, `ReadItems`, `ReturnItem`, `CommitSettlement`,
`AbortSettlement` are `FlashSaleSettleHandler.handle`; `Mark`, `Retry`, `Drop`,
`BackoffOver` are what the poller does to its row. `ReturnItem` takes the
items in any order, as the query has no ORDER BY. `LoseClaim` is the poller's
own transaction ending (Prisma's five seconds, the connection) while the
handler runs on. A worker that crashed or was rejected rests and polls again;
the restart of the process is an action of its own in `Outbox` only.

### Outbox

`AppendRow` is the commit of any transaction that called `append`. `Poll` is
the claim (`FOR UPDATE SKIP LOCKED`, the lowest `OUTBOX_BATCH_SIZE` ids); a batch
is the set of its rows still to do, and `Current` the lowest of them. `Handle`,
`SendOtp`, `FlagSent`, `HandlerFails` are the registry and the handlers;
`StageProcessed` and `StageFailed` the UPDATE of the row, `Commit` the end of
the tick. `Rejected` is a tick that finds its transaction gone: nothing catches
the rejected promise and Node ends the process. `Crash` includes an orderly
shutdown, since `stop()` clears the timer and does not wait for the tick that
runs. A row of an unknown kind is one whose type this build of the worker has
no handler for; it is marked PROCESSED.

### Accounts and Sessions

Each query outside a transaction is an action, so requests overtake one another
between any two. `Prepare` is the first read of `register` and `resend` with
`otp.prepare()`; `CreateUser`, `CreateOtp` and `Activate` are the transactions;
`SelectOtp` is `findValid` with the comparison and `CountAttempt` the increment
that follows it; `IssuePair` is the SET of the refresh key. With equal
`created_at` any of the newest OTPs may be returned. A guess is the number of
an OTP, or 0 for a code that is nobody's: codes are assumed distinct. Passwords
match; `DISABLED` is a status that no code sets or looks at. `Get`, `Del`,
`SetNew` are the three awaits of `rotate`, and the first two those of `revoke`;
`CallFails` ends a call between any two of them. Logout needs an access token
that still verifies, of any pair of its user: access tokens are not stored, and
one outlives the logout by up to `JWT_ACCESS_TTL_SECONDS`. `SeedUser` is the
test users of the seed script, which are ACTIVE from the start.

### Gateway and RateLimit

`RateLimit` is the Lua script: `Refilled` is its arithmetic, `TakeToken` its HSET
and EXPIRE, `RetrySeconds` its answer without a token. Tokens are counted in
shares so that all numbers are integers; the rounding of Lua's floating point
is left out.

`Gateway` follows a request from the first guard to its answer. `Arrive` is
`JwtAuthGuard`; `Check` one turn of the loop in `RateLimitGuard`, which ends in
`Pass`, in `Refuse`, in a script that never ran, or in one that did and whose
answer is lost (`PassUnanswered`: the token is spent, the request fails with
500); `Handle` the `ValidationPipe` and the end of the request; `Throw` with
`Reply` the `AppErrorFilter`. `Limits` are the `@RateLimit` decorators: each
limit has its capacity and its rate, the `Unit` of shares that make a token of
it, so login's two limits refill at different rates as they do in the code.
`KeyValue` is `extractKeyValue`. Tokens taken for earlier limits stay taken.

The script works with a `Date.now()` that was read before the request went to
Redis, on a replica with a clock of its own. Each execution takes one of
`Offsets`, the amount by which that reading is ahead, whichever of the two causes
it: two scripts of one replica may get readings in the opposite order. Only
the differences between readings matter, since EXPIRE is a length of time: `now`, by
which Redis counts, is put behind all of them.

An address is the value of `req.ip`. With `trustProxy: true` (`src/main.api.ts:14`)
that is what `X-Forwarded-For` says, so a client that can set the header is as
many subjects as it likes: the limits by address bound what is sent under one
value of it. Requests without one (`NoAddress`) share the subject and the bucket
`'unknown'`.

What a subject is owed is said of one `watched` subject (an account, a user, an
address, at one limit of one route), chosen at the start and different in each
behaviour: `taken`, `debt`, `setback` and `promise` are about it alone. `debt` is
what it took less what time has given back since, and never negative. `Subject` says
which requests are the subject's, from the tokens and the normalised
identifiers; `KeyValue` says which bucket the guard picks. The properties fail
when the two disagree.

## 4. Runs

`tlc -workers 2 -config <cfg> <module>`.

| Run | Module | Shows |
|---|---|---|
| `purchase_safety` | `MCPurchase` | safety of tables, cache and answers, and that the path implements `PurchaseLedger` and `ItemRows` |
| `purchase_liveness` | `MCPurchase` | three requests competing for two units of one item all end, and the two buyers are told different figures |
| `purchase_replay`, `purchase_p2002`, `purchase_midnight` | `MCPurchase` | findings 1 to 3 (expected violations) |
| `lifecycle` | `MCSaleLifecycle` | stock over creation, seeding, buying and settlement; every sale of the service is settled or dead-lettered; the settlement implements `Delivery` |
| `lifecycle_race` | `MCSaleLifecycle` | finding 4 (expected violation) |
| `outbox` | `MCOutbox` | two workers, lost claims, crashes: nothing lost, repetitions explained; implements `Delivery` |
| `outbox_repeat` | `MCOutbox` | finding 5 (expected violation) |
| `accounts` | `MCAccounts` | OTP limits and activation under parallel requests |
| `sessions` | `MCSessions` | parallel refreshes and logouts of the same tokens |
| `ratelimit` | `MCGateway` | whom a limit counts, what it grants and what it tells, with readings of the clock that differ and answers that are lost |

### What the properties say

*Purchase.* `NoOversell`: `sold` is the number of purchases of the item and at
most its quantity. `DailyCap`: no two purchases share a key, or a user and a
day. `BalanceIntegrity`: each user has paid for exactly the purchases on
record, and could. `EventPerPurchase`: one outbox row for each purchase, none
for an attempt that rolled back. `AcknowledgedIsDurable`: a success that a
client saw, or that Redis holds or will hold, belongs to a committed purchase.
`TicketsDistinct`: the `remaining_allocation` figures of one item are distinct
from purchase to purchase and repeated by replays. `GuardsSuffice`: the CHECK
constraints are a second line of defence that is never needed; locks and checks
suffice. `LedgerSpec` and `RowsSpec` are the two refinements.
`EveryRequestEnds`: an accepted request ends.

*SaleLifecycle.* `StockLedger`: `products.stock` is the opening stock, less what
committed sales took, plus what settlements returned. `NoDoubleReturn`: returned
units stay within the quantity, and only settled sales returned any.
`NoUnitLost`: after settlement every unit was sold or returned.
`ProcessedMeansSettled`: the outbox row is not finished before its sale is.
`OffersAreBacked`: what the listing shows before the end of the window has not
gone back to stock. `SeedIsComplete`: a sale the seed script has passed is
complete, in any run. `SaleIsSettled`: every committed sale of the service is
settled or its row dead-lettered. `DeliverySpec`: see the next paragraph.

*Outbox.* `RepeatsAreEarned`: an effect is repeated at most as often as attempts
of the row were counted or transactions and processes lost.
`ProcessedMeansDone`: a finished row had its effect, and an OTP its flag.
`DeadLetterIsEarned`: dead-lettered exactly at the last allowed attempt.
`TerminalIsFinal`: nobody, however late, touches a finished row.
`EveryEventEnds`: a committed event is processed or dead-lettered.
`DeliverySpec`: every step of the outbox, and of a settlement, is a step of
`Delivery` for each event, or leaves it alone: append, an effect that the
attempts and losses so far account for, PROCESSED after an effect, one counted
failure, the last of which is the dead letter.

*Accounts and Sessions.* `OverrunIsInFlight`: the attempt limit and the single
use of an OTP are exceeded only by requests that had read the row when the limit
was reached. `LateOtpIsInFlight`: an ACTIVE user gets an OTP only from a resend
that was under way at the activation. `ActiveIsVerified`: a user is ACTIVE
exactly when one of their OTPs was accepted, or the seed script created them;
any other user has an OTP from the start, and no session is of an inactive one.
`HeldIsGoodUntilDeleted`: a delivered token can be redeemed until its expiry or
a DEL of that very token, and never afterwards. `SessionsAreConserved`: live
sessions, and those that ended by expiry, by logout or by a refresh that failed
between DEL and SET, are exactly the sign-ins and the refreshes that lost a race
for one token: the price of the unread result of DEL, and of the gap after it.
`RedeemedInFlightOnly`: the DELs executed for one token are at most as many as
there are calls at a time. Parallel refreshes of one token do all succeed, but
only those that were past their GET at the first DEL; none that starts later.

*Gateway.* `RateIsBounded`: the tokens one subject was granted, in whatever
spelling, are at most the capacity, plus what the elapsed time refills, plus the
difference of the readings and what these made the bucket count twice
(`setback`). The second part bounds that: for each token taken, `Skew` for `ts`
moving backwards, and `Beyond`, which is `Skew` less a second, for an expiry of
the key after it. `RefusedForOwnUse`: a subject that is refused has itself taken a
bucketful, and time has not yet given back more of it than a token and the
difference of the readings. `RetryAfterSuffices`: who waits as the answer said and
is not overtaken is let in, up to that difference.

### Bounds, and why they are enough

* **Purchase, safety:** two users, two items, four keys, two slots, two days
  (`Horizon = 1`, `DayLength = 1`), `CacheTTL = 1`. Two slots are two requests
  at any pair of statements: for the same key, the same user and different
  items, and different users after the last unit. Quantities are one; one user
  cannot afford both items and runs into the balance, the other can and runs
  into the daily cap. A slot is used any number of times. **Progress and
  tickets:** three slots, so that one request can wait for a second while a third
  moves, and two units for two keys, so that two successes of one item stand side
  by side, each with its duplicates and replays. One day: progress does not depend on
  the clock, a key that buys on two days is what `DailyCap` looks for in the other
  run, and two units over two days are too many states for liveness. **Replays:** two units and enough money, so that only what the
  finding is about stands in the way.
* **SaleLifecycle:** two sales of the service and one seeded sale over two
  products, with lines in both orders, so that creations and settlements can
  wait for one another in a circle. The stock suffices for one sale at a time,
  or for the next after units came back. The seeded sale has two lines, so that
  the script can stop between them; it runs any number of times. Two workers, two attempts (10 in
  production: the second of two is the last, and the first is not), and one
  lost claim or crash, which is what a redelivery needs. Buyers ask for the
  item that has two units.
* **Outbox:** three rows of the three kinds, batches of two: rows share a batch
  or are spread over both workers; two attempts, two faults.
* **Accounts:** one identifier (two never share a row), two requests, two OTPs,
  two attempts. **Sessions:** two calls at a time, which can redeem one token
  together, and four tokens, so that what they got can be redeemed again; keys that
  live for two ticks of two. The two runs divide the bounds: with accounts, one
  token and one call.
* **Gateway:** five routes: login (address, then account: the one chain of two
  limits), verify-otp and resend-otp (account), register (address) and purchase
  (user). One account in two spellings, one string that is no identifier, a body
  that does not validate, two users, a request without a user and one without an
  address. Two requests in the API. Buckets of one, two (login, address) and three
  tokens (verify-otp), with tokens of two, three and four ticks, two of which are a
  second. Readings of the clock differ by up to three ticks, more than the second
  that the script adds to the time to live. Six ticks: a bucket of one token drains,
  refills, is forgotten after six and starts full again; one of three tokens fills
  up completely.

`MaxTokens`, `MaxOtps`, `MaxFaults`, `Horizon` and `Asked` are bounds of the
models and not of the program; they stand in the guards. Symmetry is used over
slots and calls, which are interchangeable, and only in runs without liveness.
`CHECK_DEADLOCK FALSE` is set where a behaviour ends because the bounded
supply of events, tokens or ticks is used up; `purchase_*` and `ratelimit` are
checked for deadlock (a client can always send another request).

### Fairness

* `Purchase!FairSpec`: weak fairness of what the server does for each request.
  Statements are awaited one after the other on a replica that is up, and every
  wait for a lock ends in `Abort` (`lock_timeout`, `statement_timeout`,
  Prisma's transaction timeout). Nothing is assumed of clients, Redis or time.
* `SaleLifecycle!FairSpec`: the clock runs; some worker polls and steps, not
  each of them; `visible_at` comes; a waiting creation is aborted by a timeout.
  No buyer is assumed to come, no creation to succeed and nobody to run the seed
  script.
* `Outbox!FairSpec`: `setTimeout` fires, steps are taken, `visible_at` comes,
  and a worker that is down is started again. The last is a condition on the
  deployment: a rejected tick ends the process and `docker-compose.yml` declares
  no restart policy, so the liveness results hold under a supervisor that
  restarts workers, and not without one.

## 5. Where the documents and the code part

1. `purchase_replay` (`ExactlyOnceResult`): the response is stored by a SET
   that nobody awaits, after the commit. A retry or a parallel duplicate that
   misses it is answered `already_purchased_today` although the client has a
   200 for the same key. DESIGN 7.1 and 9 promise the same response.
2. `purchase_p2002` (`P2002IsDailyCap`): the comment at the insert says a P2002
   there is the daily cap, because a replay never comes so far. Of two parallel
   duplicates of one key that both passed their GET, one buys before midnight;
   the other takes its day after midnight, finds no purchase of that day, and
   trips the UNIQUE of the key: `already_purchased_today`, for a day without one.
3. `purchase_midnight` (`DayIsCreationDay`): `day` is taken before the
   transaction starts, and not from `created_at`, which is not before that
   start: around midnight the two differ.
4. `lifecycle_race` (`OnlyUnsoldReturned`): the settlement reads
   `quantity - sold` without locking the item rows while purchases that passed
   the window check can still commit; a unit is sold and returned.
5. `outbox_repeat` (`AtMostOneEffect`): DESIGN 7.1 promises at most one side
   effect for each event; a tick lost after its handler ran repeats it.

The fourth is a defect of the code, the others are promises of a document or a
comment that the code does not keep. What does hold in their place is checked:
`AcknowledgedIsDurable` and `DailyCap` for 1 to 3, `NoUnitLost` for 4,
`RepeatsAreEarned` for 5.

Also met on the way, without a run: DESIGN 9 lets purchases through when Redis
is down, the interceptor and the guard fail them; DESIGN 4.2 looks up the
stored response before the rate limit, the guards run first; the 429 carries
`retry_after_seconds` in its body only, no `Retry-After` header; a body whose
identifier is a string that `normalizeIdentifier` rejects is answered 500
`internal_error` (`Handle`), where the table of status
codes (`docs/DESIGN.md:440`) has 400; DESIGN 4.4 names the
seeder with the service as one that appends both outbox rows, the script appends
`flash_sale.created` only, so its sales are never settled; two readings of `Date.now()`
that differ by more than a token takes to refill make a limit bound nothing, since
each script with the smaller one moves `ts` back and the next with the larger one
refills a token for the same time (purchase: 100 ms a token); an answer of the
script that is lost costs a token and the request is answered 500;
`outbox.processed_at` is never written; a rejected SET of the response is an
unhandled rejection, which ends the replica (`CacheLost` with `Crash`); DESIGN 9 lets a worker finish its batch
at shutdown, `stop()` does not wait for it, and Nest
calls `onModuleDestroy`, in which Prisma disconnects, before `onApplicationShutdown`; DESIGN 7.1 invariant 7 compares the
quantities of active sales with the stock that is left, while creation reserves
eagerly and its test expects the stock to be 0: `StockLedger` states what the
code keeps.

## 6. Proofs

Every invariant and every action or refinement property that a passing run
checks is a theorem, for every value of the constants: any number of users,
items, sales, requests, workers, events, tokens, any quantities, limits and
readings of the clock. The runs show them on the instances of section 4.

| Module | Theorems, and the property each states |
|---|---|
| `PurchaseProofs` | `TypeCorrect` (`TypeOK`), `NeverOversold` (`NoOversell`), `CapHolds` (`DailyCap`), `PaymentsAddUp` (`BalanceIntegrity`), `EventsMatch` (`EventPerPurchase`), `ChecksStaySilent` (`GuardsSuffice`), `AcknowledgedStays` (`AcknowledgedIsDurable`), `TicketsStayDistinct` (`TicketsDistinct`), `Refinement` (`LedgerSpec`), `RowsRefinement` (`RowsSpec`) |
| `SaleLifecycleProofs` | `TypeCorrect` (`TypeOK`), `StockIsLedger` (`StockLedger`), `ReturnsHappenOnce` (`NoDoubleReturn`), `UnitsAccounted` (`NoUnitLost`), `OffersStayBacked` (`OffersAreBacked`), `SeedsComplete` (`SeedIsComplete`), `ProcessedAreSettled` (`ProcessedMeansSettled`), `DeliveryRefinement` (`DeliverySpec`) |
| `OutboxProofs` | `TypeCorrect` (`TypeOK`), `RepeatsAccounted` (`RepeatsAreEarned`), `ProcessedIsDone` (`ProcessedMeansDone`), `DeadLettersEarned` (`DeadLetterIsEarned`), `FinishedStays` (`TerminalIsFinal`), `Refinement` (`DeliverySpec`) |
| `SessionsProofs` | `SessionsTypeCorrect` (`SessionsTypeOK`), `HeldStaysGood` (`HeldIsGoodUntilDeleted`), `SessionsConserved` (`SessionsAreConserved`), `RedeemedInFlight` (`RedeemedInFlightOnly`) |
| `AccountsProofs` | `TypeCorrect` (`TypeOK`), `OverrunBounded` (`OverrunIsInFlight`), `LateOtpsBounded` (`LateOtpIsInFlight`), `ActiveAreVerified` (`ActiveIsVerified`), `SessionsRefinement` (`SessionsSpec`) |
| `GatewayProofs` | `TypeCorrect` (`TypeOK`), `RateBounded` (`RateIsBounded`), `RefusedOnlyForOwnUse` (`RefusedForOwnUse`), `RetryIsEnough` (`RetryAfterSuffices`) |
| `SumTheorems` | lemmas about sums over finite sets |

Each module has one inductive invariant (`Invariance`, `SessionsInvariance`,
`AccountsInvariance`, `GatewayInvariance`), with one lemma for each kind of
step, from which its theorems follow. TLC finds every one of them true on the
instance of its module's run. (`Tickets`, a second one of `PurchaseProofs`, ranges over an
infinite set and is proved only.)

### Assumptions

Only the named `ASSUME`s of the modules, which TLC evaluates in the runs: keys,
items, slots, calls, events and `Offsets` are finitely many; there is a key, a
sale, a user, a slot and an offset; ids of outbox rows are numbers; quantities, capacities,
limits and times to live are positive, stocks, prices and times natural
numbers; a sale has lines, of different products and with one window that starts
before it ends, and no line belongs to two sales; test users are users. The bounds of the runs (`Horizon`, `MaxFaults`,
`MaxTokens`, `MaxOtps`) are constants like any other, so the theorems hold for
all of them.

### Purchase

The safety properties are not inductive: nothing in `NoOversell` says why the
increment at the commit, five statements after the check, is still allowed.
`IInv` adds what the code relies on:

* `ItemMutex`, `UserMutex`: one transaction at a time is between taking a row
  lock and its end;
* `SeatReserved`, `FundsReserved`: what was read under the lock is still so
  (`sold < quantity`, `seen = sold`, `balance >= price`);
* `InsertedFresh`, `InsertedApart`: an inserted row clashes with no committed
  row and with no other inserted row, which is what the UNIQUE constraints give
  and the EXISTS check does not;
* `CountsMatch`: purchases are a finite set, and `sold` counts them;
* `TypeOK`, `DailyCap`, `EventPerPurchase`.

`InitIInv` and `IInvStep` show that it is inductive (`QuietStep`, `LockItemStep`,
`LockUserStep`, `AdvanceStep`, `CommitStep`). `AcknowledgedStays` and
`TicketsStayDistinct` need a second invariant, `Tickets`, over what Redis and
the clients hold: each remembered success is of a committed purchase, and its
figure is below the quantity and at least what is left now, so the figure of
the next sale is new. `PaymentsAddUp` is about a sum over the purchases of a
user: `Commit` adds one purchase, and `SumAdd` one price. `Refinement` shows that
`Commit` is `Ledger!Sell` and every other step a stutter; `RowsRefinement` that
`LockItem`, `Commit` and the ends of a request are the steps of `ItemRows`.

### SaleLifecycle

`StockLedger` holds although a creation writes all its lines at its commit,
because of `LinesReserved` and `CreationsApart`: what a creation has locked is
still in stock, and no other creation has locked it. `ReadsHold` is the heart of
the settlement: it reads `quantity - sold` without a lock on the item rows, so
what it returns is only an upper bound of what is unsold. That, with the sale
locked and not settled (`SalesApart`), gives `NoUnitLost` and `NoDoubleReturn`, and
no more: `OnlyUnsoldReturned`, the equation, is finding 4. `ClaimsApart` and
`ClaimsPending` say what SKIP LOCKED gives, and that a claim may be lost while
the sale's lock is held.

### Outbox

`Account` makes `RepeatsAreEarned` inductive: the effects a row has had, and one
for each worker that still has the row ahead of it (`Open`), are at most its
attempts, the faults, and one for the claim or the final status (`Held`). A lost
claim leaves `Held` and counts a fault; a failure leaves it and counts an attempt.
`Claims` is the exclusion that SKIP LOCKED gives, `Deeds` what a handler has done
before its row is staged. `FinishedStays` follows because only locked rows are
written and a locked row is pending. In `Refinement` one commit is a step of
`Delivery` for every row of the batch.

### Sessions and Accounts

`SInv` adds to the checked properties that numbers of tokens are used once
(`Numbered`) and that Redis has one key for each (`OneKey`). `RedeemedInFlight` needs
`DelsInFlight` besides: the calls that have executed a DEL for a deleted token and
those still to do so are together no more than there are calls, because a GET finds
no deleted key (`deleted` and the store are disjoint) and so lets nobody join them. `AInv` counts, next to each
limit, the requests that have passed its check and not yet their write
(`Counting`, `Activating`, `Creating`): one slot at a time moves into such a set or
out of it (`CrowdMoves`), and a set of slots is never larger than all of them, which is
where the bounds by `Cardinality(Slots)` come from. `Entitled` says that calls and
sessions are of ACTIVE users only. `SessionsRefinement` shows that every step of
`Accounts` is a step of `Sessions` or leaves it alone, so the theorems of
`SessionsProofs` hold in the composition.

### Gateway and RateLimit

`GInv` is a potential of the watched bucket. While its hash exists (`Present`),
what was taken from it and what is left are at most the capacity and the time
it has counted, `ts - Low`, plus `setback`, and at least the capacity; what is
missing to the capacity is no more than `debt`, but for the time between `ts` and
the largest reading there can be now (`now + High`). Its `ts` is not ahead of that
reading, by which it lives on for a second after it is full. While there is no
hash (`Absent`), what was taken is covered by the time alone. In both, `setback` is
bounded for each token, with one `Beyond` in hand while there is a hash, for its
expiry; `SetbackPerToken` turns that into the second part of `RateIsBounded`. `Turn`
shows that the guard asks the watched bucket exactly when the watched subject asks
the watched limit: that the routes, the normalised identifiers and the order of the
guards fit together.

`Beyond` is there because the proof asked for it. The time to live is counted by
Redis, `ts` by the replica that wrote it, and the script adds one second. With
readings more than a second apart, an expiry forgets up to `Skew - PerSecond` of time
that others have still to see, and gives it back as tokens. The run has readings one
and a half seconds apart to meet that case.

### Sums

`MapThenSumSet` is a fold, which is recursive, and induction over the set is out of
reach as a rule because its theorem takes an operator as a parameter. `SumTheorems`
argues by a smallest counterexample instead (`Smallest`, `Least`: the orders are well
founded): a sum exists and is unique (`SumExists`, `SumUnique`), does not depend on the
order (`SumRemove`), and is what one expects of a union, of one more element and of a
pointwise sum. The two ledgers, `BalanceIntegrity` and `StockLedger`, rest on it;
`GreatestExists` in `GatewayProofs` is the same argument for `Offsets`.

### What stays with TLC

* `EveryRequestEnds`, `SaleIsSettled`, `EveryEventEnds`: liveness under weak fairness
  needs ENABLED, which the installed provers cannot reason about.
* The five expected violations, which are counterexamples.
* Absence of deadlock in `purchase_*` and `ratelimit`, for the same reason as
  liveness.

## 7. Plan

Order of the modules, the most important behaviour first, and where it stands:

1. `Purchase`, `PurchaseLedger`, `ItemRows`: modelled, checked, proved.
2. `SaleLifecycle`: modelled, checked, proved.
3. `Outbox`, `Delivery`: modelled, checked, proved; both refinements of
   `Delivery` too.
4. `Sessions`, `Accounts`: modelled, checked, proved.
5. `RateLimit`, `Gateway`: modelled, checked, proved.
6. Left: composition of `Purchase` and the creation of sales with the `Outbox`
   rows they append; requeueing of dead letters by an operator; the arguments
   behind the liveness properties as far as they are safety (a measure that
   every step of a request or of a tick decreases).

## 8. Model-checked only, and assumptions worth knowing

Postgres is taken at its word: READ COMMITTED, row locks, CHECK and UNIQUE
constraints, atomic commits. Redis executes each command and each script
atomically and forgets keys on time; it is not lost with its data. Only the
limiter is modelled with readings of the clock that differ: elsewhere the replicas and the
database, whose `now()` decides when a settle row is due, share one. Lua's
rounding, code collisions among OTPs, token forgery and password guessing are
outside the models. Numbers are those of the code's range: prices, stocks and
counters stay far from the limits of their columns.

## 9. Not modelled

* **Two seed scripts at once:** run by hand; the second would fail on a UNIQUE.
* **Product reads:** two finders that nothing calls.
* **Health checks:** two probes without state.
* **Request ids, helmet, CORS, configuration, logging:** headers and wiring at
  start-up; the limits of the configuration are CONSTANTS here, and
  `RATE_LIMIT_DISABLED` is false.
* **OTP encryption:** pure cryptography; a code decrypts to what was encrypted.
* **Load scripts and tests:** tooling.
* **Requeueing of dead letters:** done by hand in the database.
