# TLA+ specifications of the PayStell back end

PayStell is a Node/TypeScript server (Express, TypeORM on PostgreSQL, Redis,
Bull, the Stellar network) that lets merchants take payments and bill
subscriptions. Everything it does is a chain of awaits: between two of them
other requests, cron jobs and queue processors run, the database or the network
may fail, and the process may exit. The specifications here model that: one
action per await-to-await step, the tables and queues as functions, what a
handler holds in memory as a variable of its own.

## 1. Inventory

Paths are relative to `src/src`.

| Component | State | Operations | Hard behaviour | Correct means |
|---|---|---|---|---|
| Recurring billing: `services/SubscriptionService.ts`, `utils/subscriptionScheduler.ts`, `controllers/SubscriptionController.ts` | tables `subscriptions`, `billing_cycles`, `subscription_events`; payments on the ledger | create, pause, resume, cancel; the ten-minute run that collects due cycles, retries and starts dunning | runs that overlap, whole-row saves of stale entities, a save that fails after the payment, a lost answer, a restart in the middle of a cycle | paid in the table implies paid on the ledger; a bound on charges; retries never exceed the budget; periods are neither skipped nor repeated; every due cycle is settled |
| Webhook delivery: `services/merchantWebhookQueue.service.ts`, `services/webhookNotification.service.ts` | Bull jobs and locks in Redis; table `merchant_webhook_events` | enqueue, attempt, back off, final failure, alert, manual retry | producer and processor race for the record, updates swallowed, stalled jobs run twice, listener beside a manual retry | COMPLETED implies accepted; bounded calls; true alarms; every delivery ends |
| Authentication tokens: `services/AuthService.ts`, `middlewares/authMiddleware.ts`, `controllers/AuthController.ts` | refresh-token hashes and blacklist in Redis, with expiry | login, refresh (rotation), logout, revoke all, admission of a request | two refreshes of one token, revocation during a refresh, logout that swallows errors, entries that expire | nothing rotated or revoked is accepted; one live refresh token per login |
| Registration, login and the second factor: `controllers/AuthController.ts`, `twoFactorAuthController.ts`, `validateTwoFactorAuthentication.ts` | tables `users`, `two_factor_auth` | register, log in, log in with a code, log in with Auth0, switch the factor on and off, change the password | a login reads the row several times; enabling replaces the secret at once; saves of the user write the factor they read | nobody gets tokens without the factor that was on |
| Users, e-mail and wallet verification, sessions: `services/UserService.ts`, `emailVerification.service.ts`, `wallet-verification.service.ts`, `session.service.ts`, `utils/schedular.ts` | tables `users`, `email_verification`, `wallet_verification`, `session`; cached profiles in Redis | create, update, delete, verify an address, prove a wallet; log in, use, replace and expire a session | whole-row saves beside each other, a verification saved in two steps, two logins of one user | what a row says is verified was verified; one session per user |
| Payments: `services/PaymentService.ts` | table `payments` | create, process, update status | the answer of the network may be lost | a payment is executed once |
| Stellar contract payments: `services/StellarContractService.ts` | nonces and merchants in Redis, the contract | register merchant, add token, process payment | the nonce is checked before and stored after the submission | an order is paid once |
| Wallets: `services/WalletService.ts`, `StellarService.ts` | tables `wallets`, `transactions` | send, synchronise, settings | a lost answer, a synchronisation beside a send | rows and network agree |
| Configuration: `services/ConfigurationService.ts`, `controllers/ConfigurationController.ts`, `scripts/initializeConfigurations.ts` | table `configurations` and an in-memory cache per server process | get, set, delete, reload, export, import, write the defaults, start | read-then-cache races a set; several processes; two writes of one row; masks and lists in a file | the cache follows the table; the encryption flag tells the stored value; a server starts with what was imported |
| Feature flags: `services/ConfigurationService.ts` | tables `feature_flags`, `audit_logs` | set, evaluate | saved, then logged | the log can be replayed |
| Referrals: `services/ReferralService.ts`, `ReferralProgramService.ts` | referrals, rewards, programmes with a budget | create code, sign up, pay reward, activate | lost updates of the budget, codes used twice, two active programmes | one use per code, budget respected, one active programme |
| Rate limiting: `middleware/rateLimiter.ts`, `services/whitelistBlacklistService.ts`, `rateLimitMonitoring.service.ts` | two lists with expiry, the history of refusals, what is in memory | allow, refuse, ban, expire, report | expiry by a stale save; a refusal logged twice; a report from several queries | a renewed entry stays active; the figures of a report agree |
| Limits by role: `services/rateLimitConfigService.ts`, `adaptiveRateLimitService.ts` | table `rate_limit_configs` | make defaults, set, delete, adapt each hour | the job saves rows it read before others changed them | a limit stays between what was asked and what the job may do |
| Fraud detection: `services/FraudDetectionService.ts`, `controllers/FraudController.ts` | alerts, settings of a merchant, the black list | check, review, configure, count | whether to block is decided twice | the answer and the alert agree |
| Roles: `services/RBACService.ts`, `controllers/TeamController.ts` | roles, assignments, grants, permissions | create, update, delete, assign, make the defaults | the count before the deletion, a default role cut off half-way | nobody has a deleted role; default roles are whole |
| Merchants and their webhooks: `services/merchant.service.ts`, `webhook.service.ts`, `fileUpload.service.ts` | merchants, fraud limits, webhooks, logo files | register, profile, logo, register and delete a webhook | an upload nobody awaits, a file deleted before the row is saved, stale saves | a deleted webhook stays off; a logo has its file |
| Payment links: `services/PaymentLink.services.ts` | table `payment_link` | create with a slug, update, delete | the search for a slug is not the insert | a link is created although another is at the same time |
| Notifications, audit, reports, metrics: `services/inAppNotificationService.ts`, `AuditService.ts`, `SalesSummary.service.ts`, `MetricsService.ts` | one table each; metrics are in memory | create, read, archive; log; add up; sample and alert | stale saves, entries in transactions of their own, queries beside changes, alerts beside each other | flags agree; the log replays a row; figures add up; one alert in ten minutes |
| HTTP plumbing: `app.ts`, `routes/`, validators, error handlers | none of its own | | | |

Interactions: billing calls `PaymentService.processPayment`, which submits to
Stellar; billing and webhook delivery create in-app notifications; payments and
Stellar contract payments consult the rate limiter and fraud detection in
middlewares; `app.ts` starts the subscription scheduler (twice, at lines 103 and
106; `isRunning` makes the second call do nothing) and the hourly clean-up of
expired sessions. Apart from that the components meet in tables only one of them
writes, so that requests to two of them do not interfere. `PROJECT.json` lists every hazard with its line and the
properties that cover it.

## 2. Modules

| Module | What it is |
|---|---|
| `SubscriptionBilling` | recurring billing, step by step; its properties |
| `RecurringCharge` | the abstract account of a customer |
| `BillingRefinement` | `SubscriptionBilling` implements `RecurringCharge` (refinement mapping) |
| `SubscriptionBillingProofs` | theorems about `SubscriptionBilling` and its refinement |
| `MCSubscriptionBilling` | instances of it for TLC |
| `WebhookQueue` | webhook delivery, step by step; its properties |
| `WebhookQueueProofs` | theorems about `WebhookQueue` |
| `MCWebhookQueue` | instances of it for TLC |
| `AuthTokens` | refresh tokens on Redis, await by await; its properties |
| `AuthTokensProofs` | theorems about `AuthTokens` |
| `MCAuthTokens` | instances of it for TLC |
| `ConfigurationCache` | the configuration table and the caches beside it; its properties |
| `ConfigurationCacheProofs` | theorems about `ConfigurationCache` |
| `MCConfigurationCache` | instances of it for TLC |
| `Handlers` | what all request handlers have in common: the await each is at, what it holds, failures |
| `FrontOffice` | the composition of what users and merchants call: `Accounts`, `SignIn`, `Teams`, `Transfers`, `Throttling`, `ContractPayments`, `PaymentLinks`, `Merchants`, `AuditTrail` |
| `BackOffice` | the composition of what administrators and jobs call: `Referrals`, `Notices`, `FeatureFlags`, `Reports`, `FraudChecks`, `RateLimits`, `Settings`, `Monitoring`, `ThrottlingReports` |
| `HandlersProofs` | lemmas about the steps of a request, whichever component it is for |
| `FrontOfficeProofs`, `FrontOfficeRecordsProofs`, `BackOfficeProofs` | theorems about `FrontOffice` (the second on what it keeps on record) and `BackOffice` |
| `MCFrontOffice`, `MCBackOffice` | instances of them for TLC |

### SubscriptionBilling

| Variable | In the code |
|---|---|
| `now` | `new Date()`, in units of which `Interval` make a billing period |
| `subs`, `cycles` | tables `subscriptions` and `billing_cycles`; ids are 1, 2, ... in the order of insertion |
| `charges` | payments the ledger executed for the order `sub_<cycle id>` |
| `pc[p]` | the await at which process `p` is: a run of the scheduler or a request |
| `batch[r]` | the cycles `find()` returned that the loop has not reached, each with the subscription object loaded with it |
| `mem[p]` | the entities `p` works on, saved whole by later steps |

A run is `FindDueCycles`, then per cycle `PickCycle`, `SaveClaim` (status
PROCESSING), the payment, and either `SaveCompleted`, `SaveNextBillingDate`,
`InsertCycle`, `LogOpened` or, through `handlePaymentFailure`, `LogFailure`,
`SaveFailedCycle`, `SaveFailedSubscription`. Requests are `CreateSubscription`
... `LogOpened`, and pause, resume and cancel (`LoadAndModify`,
`SaveSubscription`, `LogOperation`). `Faults` switches on failing saves ("db"),
payments whose answer is lost ("lost") and restarts ("crash").

What is abstracted, and why it loses nothing the properties tell apart:

- A TypeORM `save()` is one step, although it is a SELECT and an UPDATE: what
  it writes is determined by the entity in memory. It writes the whole row: a
  column equal in memory and in the table is left out of the UPDATE, which comes
  to the same value.
- `getSubscription` loads the collections `billingCycles` and `events`. If a row
  was added to one of them between the load and the save, the ORM tries to
  detach it and the NOT NULL foreign key refuses: `mem[q].fresh` and
  `SaveSubscription` model that a request then fails instead of writing its
  stale row. This is what keeps a pause or cancellation that races a run from
  turning `nextBillingDate` back.
- The four billing intervals are one length; amounts, currencies, tokens and
  the wording of events and notifications are left out. Of `processPayment` only
  the three outcomes remain: executed, refused, executed with the answer lost.
  Whether the stored amount can be parsed at all (`PaymentService.ts:100`) is
  one of the reasons for a refusal.
- Statuses nothing assigns (EXPIRED, CANCELLED of a cycle) are left out.

Behaviour of the code to know when reading the properties: overlapping runs do
charge a period twice, so the properties about charges assume one run at a time
(`Runs` a singleton); a cycle left in PROCESSING by a restart is never selected
again; a subscription in PAST_DUE has no open cycle, and resuming it opens none,
so it stays unbilled although ACTIVE.

### WebhookQueue

| Variable | In the code |
|---|---|
| `job`, `attempts`, `lock`, `stalls` | Bull's record of the job (external) |
| `row` | table `merchant_webhook_events` |
| `adding` | calls of `addToQueue` between `queue.add` and `save` |
| `work[w]` | the processor callback of server process `w`, with the `attemptsMade` it read at its start |
| `listeners` | "failed" listeners between their awaits |
| `request[q]` | calls of `retryWebhook` |
| `sent`, `acked`, `alerts`, `retries` | history: calls of the merchant, accepted calls, alerts, manual retries |

Bull is external and modelled as the code relies on it: a job is handed to one
worker under a lock; a throw increments `attemptsMade` and delays or fails the
job if the worker still has the lock; a stalled job goes back to the wait list
once (`maxStalledCount`) and is failed the next time; `job.retry()` only accepts
a failed job and leaves `attemptsMade` alone. No production code calls
`addToQueue` yet, and the service is constructed without the collaborators of
`WebhookNotificationService` (line 71), in which case every delivery throws:
that is `DeliveryFails`. The queries, the metrics and the HTTP signature are
left out. The delay of a backoff is left out too: `BackoffOver` may happen at
any time.

### AuthTokens

| Variable | In the code |
|---|---|
| `now` | the clock of the server and of Redis |
| `issued` | the token pairs signed so far, by id (`jti`): user, `iat`; and, as history, the token a pair was refreshed from and the login it goes back to |
| `hash` | key `refresh_token:<user>:<jti>`: when it expires, 0 if absent |
| `black` | key `blacklist:<jti>`: when it expires |
| `delivered` | pairs whose answer was sent: what a client can present |
| `pc[q]`, `mem[q]` | the await at which request `q` is, the token it works on and, in `revokeAllUserSessions`, the keys it still has to go through |
| `revoked`, `overlapped` | history: tokens whose logout or revocation went through; logins one of whose tokens was in two refreshes at once |

A refresh is `Refresh` (verify, blacklist), `MatchStoredHash` (GET),
`DeleteOldHash` (DEL), `BlacklistOldToken` (SET, and the successor is signed),
`StoreRefreshToken` (SET, answer). A logout is `Logout` (verify, DEL) and
`LogoutBlacklist`; `revokeAllUserSessions` is `RevokeAll` (KEYS), then
`RevokeBlacklist` and `RevokeDelete` per key. It has no caller yet and is
modelled as a request of its own. `Faults` switches on Redis calls that throw
("redis") and restarts ("crash"): a refresh that fails answers 401, a logout
that fails answers as if it had worked.

Abstracted: the hash of a token is the token; the two reads of the blacklist
before a refresh are one, the later of them; password, 2FA and Auth0 logins are
one action, since all end in the same issue and store; a lost answer is a token
that is never presented. `RoomForToken` starts a login or refresh only while a
fresh id is left for every request that may sign one.

Behaviour of the code to know: two overlapping refreshes of one token both pass
the GET and leave two live successors; a refresh in progress stores its new
token although the old one is logged out or revoked meanwhile. The properties
say what holds beside that: the old token is dead for good in every case, and a
login to which no overlap happened has one live token.

### ConfigurationCache

| Variable | In the code |
|---|---|
| `row` | table `configurations`, one environment, by key; a value is named by the `setConfig` call that wrote it (`ver`) and is encrypted or not (`cipher`), as the column `isEncrypted` says or not (`enc`) |
| `cache[s]` | the `Map` of server process `s` |
| `up` | processes whose `initialize()` succeeded |
| `pc[q]`, `mem[q]` | the await at which request `q` is, its server, and the rows it read or the entity it saves |
| `stale`, `mixed` | history: cached entries a write may have gone by; rows whose flag and value may come from different writes |

A read that misses the cache is `GetConfig` (findOne) and `FillCache`. A write is
`SetConfig` (findOne, the entity is changed), TypeORM's `save()` as `SaveSelect`
and `SaveInsert` or `SaveUpdate`, and `ClearEntry`; a deletion is `DeleteConfig`,
`RemoveRow`, `ClearEntry`. `Reload`, `FindAll`, `Load` are `reloadConfigurations`,
and the start of a process. Here `save()` is not one step, because its UPDATE
writes only the columns that differ from the row it selected, and two writes can
come between each other's SELECT and UPDATE. `Faults` switches on database calls
that throw, after a write too ("db"), and restarts ("crash").

Abstracted: values, types, categories and the audit log; what AES does is that a
value that was not encrypted cannot be decrypted. `isActive` is never changed.
An import is a read and then a write of each key; what it writes, the script of
the defaults and the validation at a start are in `Settings`, feature flags in
`FeatureFlags`. Left out: how a value is parsed by its type.

Behaviour of the code to know: an overlapping read puts an old value, or a
deleted one, back into the cache, and other processes keep theirs until a reload;
`setConfig` without `isEncrypted` (which the import may do) stores plain text
under the flag of the encrypted value it replaces, after which the key cannot be
read, a reload stops at it with a part of the keys, and a process cannot start.

### FrontOffice and BackOffice

Most components are handlers that read a row, decide, and write it, with other
requests in between. `Handlers` holds what they share: `pc[q]` is the await at
which request (or job) `q` is, `mem[q]` what its handler holds, `calls` how many
more calls a behaviour makes. `Receive` begins a handler, `Goto` goes to the next
await, `Answer` ends it, `Serve` is a handler that touches shared state once, and
`Interrupted` is an await that throws, or the process exiting, which leaves the
writes made so far. A component has an action for each await and the two offices
are the disjunction of their components. Tables are functions of ids; variables
marked "history" are not in the program, they remember what a property is about.
TypeORM's `save()` is a write of the whole row that was read, unless said
otherwise.

Several controllers hand `req.body` on as it is, or a DTO that names more columns
than the page that sends it, and the services assign it to the row
(`UserService.ts:33` and `64`, `RBACService.ts:98`, `rateLimitConfigService.ts:161`,
`merchant.service.ts:235`, `PaymentLink.services.ts:50` and `76`,
`ReferralProgramService.ts:61`). A body is therefore a function from some columns to
values they can hold, an element of `UserBodies`, `RoleBodies`, `LimitBodies`,
`ProfileBodies`, `LinkBodies` or `ProgramBodies`, and `Assigned` (in `Handlers`)
assigns it to a row. The assumptions about these constants say no more than that
the columns exist and the values fit them, so that the theorems hold for bodies
that set a verification flag, rename a role or make it a default one, change the
role of a limit, give a merchant the e-mail or the logo of another, set a slug or
`deletedAt` of a link, or lower a budget. None of these is asked about by the code,
and each breaks by itself what the code keeps otherwise; so each property excepts
the rows and columns a body said, and a history variable remembers which they are:
`stated` (Accounts), `recast` (Teams), `made` (RateLimits: the rows no request gave
a role or activated), `readdressed` and `linked` (Merchants), `shown` (PaymentLinks,
which counts the slugs that come into view), `restated` and `lowered` (Referrals).
Not in these bodies: `id`, with which `save()` writes another row, columns that
refer to other tables (`merchantId`, `userId`, the cascaded `webhooks` of a
merchant), a null where the column has none, the `sku` of a link, which is taken to
be new, and `isActive` of a merchant. The controller of `POST /auth/register` picks
its columns, so `Register` has no body.

| Module | Variables that are the program's | Main sequences of actions | Property |
|---|---|---|---|
| `Accounts` | `accounts`, `mails`, `proofs`, `sessions` (tables), `profiles` (Redis) | a login looks for a session, deletes it, inserts; a wallet is proved by saving the proof and then the user; updates hold a row between find and save; profiles are cached for ten minutes | `AccountsHold`: a row, or a cached profile, that says "verified" was, or a body said so; a user has the last session only |
| `SignIn` | `logins`: a user's password and second factor | login: find, validate, find again, store the token; enable and disable: find, save | `SecondFactorHolds`: whoever gets tokens satisfied the factor in force at some moment of the login; nobody's factor is undone |
| `Teams` | `roles`, `members`, `grants`, `catalog` | every request asks for a permission; deletion: find, count the users, save; assignment: find, insert; default roles: find, save, grant one by one | `RolesKeepTheirRules`: a deleted role has no user and is not active; at most `MaxCustom` custom roles; default roles are whole; but for roles an update recast |
| `Transfers` | `purses`, `transfers`; external: `ledger` | sending: insert pending, submit, save success or failure; synchronisation: for each hash, find and insert | `RowsMatchLedger`: each executed transaction has one row, which says so |
| `Throttling` | `entries` (both lists), `strikes`, `day` | a request looks in the black list, then the white list, is counted, may be refused; a refusal is logged, counted, and bans | `ListsAreAsGranted`: an entry is in force as the last call that changed it was answered |
| `ContractPayments` | `registry`, `nonces` (Redis); external: `sequence`, `onChain` | payment: load the account, look up the nonce, check the merchant, submit, store the nonce | `OrdersPaidOnce` |
| `PaymentLinks` | `links` | look for a slug, insert, and once more if the unique index refuses; a slug is a sequence of words and numbers, `Stem` of a name with a number appended, so that two names may meet in one ("Invoice", once more, and "Invoice 1") | `LinksAreCreated`: a refusal has one of two reasons |
| `Merchants` | `merchants`, `limits`, `hooks`, `businesses`, `pictures` | registration in one transaction, the default limits, webhooks, the profile and the logo with its file | `MerchantRecordsHold`: one e-mail (unless a profile was given it), a webhook that was deleted stays off, a logo has its file |
| `AuditTrail` | `audited`, `trail` | a save selects, updates the columns that differ, writes its entry over another connection, commits or rolls back; pages of the log | `TrailReplaysRows`: the last entry to set a column says what the row holds; a reader of all pages misses none |
| `Referrals` | `referrals`, `rewards`, `programs` | signup: find, save, two rewards, programme; payment: find, save; activation: deactivate the others, save | `ReferralsHold`: rewards follow signups, the used budget is what was promised, and within the total if there is one and it was not lowered, one programme is active |
| `Notices` | `notices` | mark as read: find, save; delete, mark all, clean up | `FlagAgreesWithStatus` |
| `FeatureFlags` | `flags`, `auditLog` | find, save, log; the middleware evaluates | `LogReplaysFlag` |
| `Reports` | `sales`, `links` | four queries, in any order, from a date or the default of each and to a date or now; the list of products is cut off at `BestSellers` | `FiguresAddUp` (with `ThrottlingReports`) |
| `ThrottlingReports` | `history`, `remembered` (memory) | a refusal is saved; a report counts, then counts again by address | `FiguresAddUp` |
| `FraudChecks` | `settings`, `alerts`, `banned` | points, settings, alert, settings again, answer; review; statistics | `AnswersMatchAlerts` |
| `RateLimits` | `limits` | defaults: look for each role, insert; the hourly job: read all, save one by one | `LimitsAsConfigured` |
| `Settings` | `configured`, `filled` (the cache), `files` | set: find, save, log; import: for each key get, find, save; the script of the defaults; the validation at a start | `SettingsAsAnswered` |
| `Monitoring` | `counters`, `totalRequests`, `recent`, `series`, `alertedAt`, `external`, `clock` (all in memory) | a response is counted and its route's latency compared with a threshold that is read; a metrics request samples and checks database, Redis and Stellar | `AlertsHold`: one alert in ten minutes, no failure shown without one; `FiguresAgree`: the totals, averages and percentiles of the summaries and of a window |

A property of a component excepts the rows that two requests were about to save
at once, or of which an answer was lost, where the code gives no guarantee; the
history variable that says so (`torn`, `contested`, `disputed`, `blurred`, ...)
is set by exactly these overlaps, so that the property says that nothing else
goes wrong.

Where one table appears in two modules, each has the columns its handlers are
about: the flags of `users` in `Accounts`, the password and the factor in
`SignIn`, any column in `AuditTrail`; the black list in `Throttling` and, as what
is added to it, in `FraudChecks`. That a save of one is undone by a save of the
other is what the history variables count as an overlap within one module, and
is not modelled across them.

Behaviour of the code to know:

- Rate limits. `intelligentRateLimiter` runs before authentication: only the
  lists and the limit of an unknown user apply, and burst mode and limits per
  user are never reached. A refusal by a limiter with a handler is logged by it and again when the
  response is sent (`mem[q].again`), one by the global limiter once.
  The adaptation's history has refused requests only, so it only lowers limits;
  with `rpm` 0 the ratio is not finite and the job stops. `recentEvents` forgets no address, and
  the lists of a merchant's report are those of all merchants.
- Contract payments. An order without a bound on its expiry can be paid again
  when its nonce is forgotten after a day; a merchant that is registered on the chain
  and was not cached is refused for ever.
- Roles. `isActive: false` on an update leaves the assignments, which still
  grant. The default roles have no caller yet, and the script `package.json`
  names for them does not exist; a default role that was cut off is never completed.
- Accounts. `updateUser` with a new address or wallet leaves the flags, and a body may say them, as it may of a new user; a cached profile is never
  invalidated; `sendVerificationEmail` takes any pair of user and address.
- Second factor. Enabling it again replaces the secret at once; a login with
  Auth0 never asks for it; a code may be used again while it is valid.
- Merchants. `handleFileUpload` does not wait for the upload, so the stored logo
  is the text of a promise; `POST /merchants/profile` calls `registerMerchant`;
  a re-registered webhook leaves two rows.
- Fraud. The middleware passes a payload that class-validator refuses, so
  that a payment with `merchantId` is answered 400 and one without skips the check. The model takes the
  service as its tests call it.
- Settings. An import writes the JSON of an exported list as JSON again, so
  that membership becomes a test for a part of a text; the script writes each
  environment's values to the rows of the current one, so the last one's stay; a
  required encrypted value with a list never lets a server start, and neither does the
  script's own `SMTP_USER`, required and empty where the environment has none.
- Audit. `auditMiddleware` runs before authentication, so no user is recorded; `remove()` clears the id before the entry
  is written; `delete()` and `update()` write none; the entry of a rolled-back
  transaction stays.
- Limits. A body may give a configuration any role, so a role can have two, and
  whichever the query returns first decides.
- Reports. Without dates the top products are empty, because
  `setMonth` (`SalesSummary.service.ts:248`) changes the date used as the end.
- `app.ts` mounts the monitoring middleware twice; nothing calls
  `collectPeriodicMetrics`, so the series grow only by requests.

## 3. What the runs check

| Run | Instance | Question |
|---|---|---|
| `BillingOverlap` | 1 subscription, 2 overlapping runs, 1 request, all faults, 2 cycles, 2 attempts | `PaidIfCompleted`, `RetryBudget`: is anything marked paid without a payment, is the retry budget exceeded, whichever stale copy is saved last? |
| `BillingFaults` | 1 subscription, 1 run, 1 request (create, pause, cancel), all faults, 3 cycles | `ChargesWithinRetries`, `GaveUpForGood`: how often can one period be charged, is a cycle that was given up ever touched again? |
| `BillingCalm` | 1 run, 1 request with every operation, no faults, 4 cycles | `LedgerMatchesTable`, `OneOpenCycle`: do ledger and table agree whatever a client does meanwhile, does a customer ever owe two periods? |
| `BillingSchedule` | 2 subscriptions with two start dates, 1 run, no faults, fairness | `ScheduleAccounted` (`PeriodsFollowOneAnother` and `FailuresAccounted`), `DueIsSettled`, `ImplementsRecurringCharge` |
| `BillingCancelled` | violated: `CancelledNotCollected` | the query never looks at the subscription: a cancelled one is collected and its next cycle opened |
| `WebhookFaults` | 1 delivery, 2 workers, 1 manual retry, lost updates, 1 stall, restarts, 3 attempts | `CompletedWasAccepted`, `AttemptBudget` |
| `WebhookDelivery` | 2 deliveries, 2 workers, lost updates, fairness, 3 attempts | `OutcomeIsTrue` (`FinalStatusIsRight` and `AlarmIsTrue`), `RecordMovesForward`, `DeliveryEnds` |
| `WebhookRecord` | violated: `RecordTracksJob` | the record is saved after the job may have run: a delivery that is over keeps a record PENDING with no attempts |
| `AuthRotation` | 1 user, 2 requests, 3 tokens, expiry after 2 ticks (access 1), failing Redis calls, restarts | `SuccessorReplacesParent`, `RevokedStaysDead`, `OneLiveTokenPerLogin` |
| `ConfigurationRaces` | 2 server processes, 1 key, 2 requests, 3 writes with every encryption option, database errors, restarts | `CacheFollowsTable`, `FlagTellsCipher`: exactly when may a cache differ from the table, and a flag from its value? |
| `FrontOffice` | 2 requests in progress, 3 or 4 calls of one component, any of the bodies below, every await may fail | `TypeOK` and one property per component, in the table above |
| `BackOffice` | the same, 2 to 5 calls | `TypeOK` and one property per component, in the table above |

Bounds. `MaxCycles`, `MaxCharges`, `MaxTime`, `MaxManual` cap counters in the
guards. `RoomForCycle` starts a billing only while a row is left for every cycle
that may still be opened, so no process is stuck for lack of one. Two cycles
show the step from one period to the next, three let a stale copy of the
first meet the third, two attempts are a first, a last and their
boundary, and `MaxCharges` is above the bound `ChargesWithinRetries` states, so
that an excess would be seen. Two workers and one job are enough for a stalled
attempt beside its successor; two jobs show that processors do not disturb each
other. Three tokens are a login and two rotations, or a login and the two
successors of an overlap; two ticks let the access token, the refresh token and
a blacklist entry expire at different times. Three writes create a row and let two
more overlap on it; two server processes are the one that writes and one that does
not hear of it. One key is enough, for the keys only meet in `Load`: with two keys
the same instance has four million states and shows the same. The theorems do not depend on any of these values.

The two offices bound the calls a behaviour makes (`Budgets`) and not the
interleavings of those it makes: two requests are in progress at once, which is
what each hazard takes, and a third or fourth call finds what they left, or
prepares what they meet (a link that was deleted before, a nonce stored the day
before); of merchants one may be registered already, so that three calls do. A behaviour calls one component only, for the components of an office
share no variable: the state of two that were called would be a product, and
each property reads one. A component that no call is left for stands still
(`Busy`), its clock included, so that a behaviour about roles does not also
count the days of the black list. Ids handed out by the database are taken in a
fixed order and start states are chosen up to the renaming of what they hold.
`Failing` lets every await throw and every process exit, after any number of the
handler's writes; what is left are the writes made so far. The roster has two
custom roles, so that the second creation meets the limit of three; a ban
takes two refusals instead of eleven; a page of the log has one entry, a list of
addresses one place and a series two points, so that each is cut off. Percentages, points of a
fraud score and limits per minute are those of the code.
The bodies of each component are two or three: each names columns the property is
about and others beside them. The two names of links are "Invoice" and "Invoice 1", and
four calls can create both, delete one softly and create again. A summary lists one
product of two instead of five, so that the list is cut off, and starts and ends at a
date or not. The script of the defaults has a required value that is empty. The
bodies of programmes set both rewards with a budget of one and a half signups,
raise a reward and say what was used, and activate while they lower the budget; a
programme without a budget is left to the theorem, which is for every body. `FrontOffice`
has 404,000 distinct states and `BackOffice` 765,000.

Deadlock is checked for billing, where the scheduler always may run again; the
webhook runs disable it because the system stops when all deliveries are over,
and the two offices because a behaviour ends with its calls. No lock is held
across an await there but those of the database (`AuditTrail`).

Fairness. Billing: the clock ticks, the cron job fires for ever, and the awaits
of a started run or request complete (weak fairness of each run's and each
request's steps); nothing obliges a client to call. Webhooks: Bull polls for
waiting and delayed jobs, the HTTP call has a time-out of five seconds, and each
worker, save and listener goes on. The liveness properties are stated without
restarts and stalls: after a restart in the middle of a cycle the cycle is
never settled. The fairness of `RecurringCharge` is only that a paid period is
followed by the next.

Each property has a variant of one definition, marked "Variant for testing the
properties", under which TLC finds it violated; `PROJECT.json` pairs them.

## 4. What is proved

All theorems hold for every value of the constants that satisfies the named
assumptions: `BillingAssumption`, `QueueAssumption`, `TokenAssumption`,
`ConfigAssumption`, `ContractAssumption`, `ThrottleAssumption`, `SignInAssumption`,
`AccountAssumption`, `TeamAssumption`, `TransferAssumption`, `MerchantAssumption`,
`LinkAssumption`, `AuditAssumption`, `FlagAssumption`, `FraudAssumption`, `ReferralAssumption`,
`LimitAssumption`, `SettingAssumption`, `MonitorAssumption`, `ReportAssumption` and
`UsageAssumption`. They say that bounds are numbers, that
`None` is none of the values it stands beside, that ids which are counted are
finitely many, that the default roles have names of their own, that there is a
user and an address to begin with, that a file is not a text, that what is measured
is a number, that a body names columns of its table and gives them values they can
hold, that the payments and the routes of the server are finitely many, that tables which
are there at the beginning are well-formed, and that the script has one entry for
a key, with a value its own list allows and not encrypted if the entry is required
and has a list, which is so of the entries it has (`initializeConfigurations.ts`
lines 15 to 349).

- `SubscriptionBillingProofs!TypesCorrect`: `TypeOK`, which includes that a
  cycle refers to a stored subscription and that a process in the middle of a
  handler holds the entities its next steps save.
- `CompletedIsPaid`, `RetriesBounded`: for any number of overlapping runs and
  all faults. Neither property is inductive alone: a run may hold a copy of a
  cycle that is older than the row. `BillingInv` adds what copies in memory and
  in batches may look like at each step: a copy marked completed was charged,
  a copy about to be claimed has attempts left, and a copy that failed carries
  the counter its status was computed from.
- `ChargesBounded`, `DunningIsFinal`: with the hypothesis `OneRun` (runs do not
  overlap). `ChargesInv` relates the run's copy to the row, and counts: while a
  cycle is open the number of its charges does not exceed its failed attempts,
  plus one between the payment and the save that counts it.
- `OnePeriodAtATime`, `LedgerAgrees`, `HistoryAddsUp`: the three properties of the
  tables and the ledger, each on top of the invariant before it (table below).
- `PaysEachPeriodOnce`: the abstract account (`RecurringCharge`) pays a period at
  most once and skips none.
- `StepsFollowRecurringCharge` and `CustomersPayOnce`: the scheduler implements that
  account, step by step, and so its customers pay a period once.
- `WebhookQueueProofs`, `AuthTokensProofs` and `ConfigurationCacheProofs`: see the tables below.

| Theorem of `SubscriptionBillingProofs` | For | Argument |
|---|---|---|
| `OnePeriodAtATime`: `OneOpenCycle` | `OneRun`, `SavesSucceed` (payments may lose their answer and the server may restart) | `OpenInv`: `OneOpenCycle` is lost only by inserting a cycle, so the process about to insert is the only one that may for its subscription (`OneOpener`) and there is no open cycle (`NoneWhileOpening`); a subscription being created is nobody else's yet (`NewSubscriptions`); a run that gives up still has its claim (`FailingClaimed`) |
| `LedgerAgrees`: `LedgerMatchesTable` | `OneRun`, `NothingFails` | `LedgerInv`: the same with `OpenInv`; a cycle's one successful charge lies between the claim and the save that marks it completed, where the run's step tells which |
| `HistoryAddsUp`: `ScheduleAccounted` | `OneRun`, `NothingFails`, `OnlyCreations` (no pause, resume or cancel) | `HistoryInv`: every copy in a batch or in a process's memory is what the table holds (`CopiesFresh`), so a save changes only what its step is about; the cycles of a subscription are one interval apart in the order of their ids, all but the last completed (`TablesFit`), and its failures are those its cycles counted |
| `StepsFollowRecurringCharge`: `AccountsFollow` | the same | under `HistoryInv` every step of the scheduler or a request is `Start`, `Pay`, `OpenNext` or `GiveUp` of one account, or leaves all accounts alone: the payment is the step that pays, the save of the cycle that opens or gives up. Counting the cycles of a subscription and their payments uses that one id is added at a time |
| `CustomersPayOnce`: `Account!NoPeriodPaidTwice` | the same | from the two before, by `StepsPayOnce`, of which `PaysEachPeriodOnce` is made too |

The hypotheses are those of the runs that check these properties: without them the
code breaks each one, as the comments beside the properties say. `OneRun` is
"no two runs of the scheduler overlap".

| Theorem | States | Argument |
|---|---|---|
| `TypesCorrect` | `TypeOK` of the queue, the table and the processes, and that a job is locked exactly while it is active | inductive as it stands |
| `CompletedIsAccepted` | `CompletedWasAccepted` under every fault and any number of workers and retries | `TypeOK`, and a processor past a successful call (`"succeed"`, `"return"`) works on a job the merchant accepted |
| `AttemptsBounded` | `AttemptBudget` under every fault | `BudgetInv` counts the calls made and about to be made against the attempts the queue has counted, and those against the budget |
| `OutcomesAreTrue`: `OutcomeIsTrue` | the record's final status is the job's, and the alarm is true, for any number of deliveries, workers and attempts, whatever updates the database loses (`Undisturbed`: no manual retries, stalls or restarts) | `OutcomeInv`: a job is with the worker that holds its lock (`HeldOnce`), so its calls are counted by its attempts and the worker's step (`CallsMade`), a record's status is its job's or that of the worker about to return or throw (`RecordFollowsWork`), a record is saved once (`AddedOnce`), and the listener of a final failure runs once (`AlarmsFollowWork`) |
| `RecordsMoveForward`: `RecordMovesForward` | the same deliveries: a record's attempts never decrease, a final status is not taken back | action property, from `OutcomeInv`: who writes a record has the job, or listens to its end |

| Theorem of `AuthTokensProofs` | States | Argument |
|---|---|---|
| `TypesCorrect` | `TypeOK`, with the lineage of tokens | inductive as it stands |
| `ParentIsDead`, `RevocationIsFinal` | `SuccessorReplacesParent`, `RevokedStaysDead`, for any number of requests and all faults | `SafeInv`: only a delivered token has a hash, and a request stores a token of its own that was not delivered yet, so a deleted hash never returns; a request that is about to blacklist has deleted the hash; an entry written at `now` outlives a token signed before |
| `OneLiveToken` | `OneLiveTokenPerLogin` | `ChainInv`: without overlaps a token is in one refresh at most, a token in refresh has no successor yet, and the tokens of a login have one last element; the others are dead by `SafeInv` |

| Theorem of `ConfigurationCacheProofs` | States | Argument |
|---|---|---|
| `TypesCorrect` | `TypeOK` | `TypeInv`: what a request holds at each step; an entity that is encrypted is flagged so |
| `CacheIsCurrent` | `CacheFollowsTable`, for any number of servers, keys and requests and all faults | `CacheInv`: whatever a request read is still the table's row or was written since |
| `FlagIsRight` | `FlagTellsCipher` | from `TypeInv`: an UPDATE of the row as it was read leaves the flag of the entity |

`TypeOK` of these four components is proved, for every value of the constants, and
not repeated in their runs, which spend their time on the other properties.

The theorems about the two offices are about `Spec` of `FrontOffice` and
`BackOffice`: any number of requests for any of the components, any number of
calls, and every await may throw. The argument has two parts.

A step of one component disturbs no other. Every action of a component moves its
request among the steps of that component (`Within`, `HandlersProofs`), and the
steps of two components have no name in common, so a request at a step of another
component is left alone (`Apart`). The lemma `StepWithin` of each office says so
of every disjunct of `Next`, an interruption included; the variables of a
component are changed by its own actions only. Hence the invariant of a component
survives every step of the others (the lemmas named `...Frame`), and what is left
is its own actions, one lemma each.

What each component's invariant adds to the property:

| Theorem of `FrontOfficeProofs` | States | Argument |
|---|---|---|
| `PaidOnce` | `OrdersPaidOnce`, for any number of requests for one order | `ContractInv`: a request past the look-up that found the nonce unused has, if the order was paid since, a sequence number from before that payment, which the network refuses (`SequenceInv`); a paid order's nonce is stored, about to be, or a day has passed (`NonceInv`) |
| `ListsHold` | `ListsAreAsGranted`, for any number of addresses and days | what a lookup is about to deactivate is still the expired entry it read, unless somebody else held it (`ExpiringInv`); an entry is the one granted, or that one deactivated after its date (`AgreeInv`) |
| `NoWayAround` | `SecondFactorHolds`, for any number of logins and changes | a login past the check carries a code it saw in force (`CodeInv`); what is about to be saved is still what was read, unless somebody else held the row (`FreshInv`); the row holds what was answered (`RowInv`) |
| `LinksGetCreated` | `LinksAreCreated`: no creation is refused without one of the two reasons | `LinkInv`: the slug a creation is about to save was free when it looked, so if it is taken now, one came into view meanwhile (`shown` counts them) or is hidden from the search; a second refusal needs two |
| `RolesHold` | `RolesKeepTheirRules`, for any number of roles, members and permissions | `TeamInv`: while a role is being deleted and nobody is about to save it, it has no user (`DeletionInv`); a creation that found room still has it, unless two overlap (`CreationInv`); a default role permits what the initialisation has come to, as far as its request is (`DefaultInv`); a role that was recast is not counted, and what a request is about to save of another has the name and kind the row has |
| `RowsTellTheLedger` | `RowsMatchLedger`, for any number of transfers and synchronisations | `TransferInv`: the outcome a request is about to save is that of its transaction (`OutcomeInv`), a hash in two requests' hands is noted as blurred (`BlurInv`), and the row of a transaction is the one its request inserted (`LedgerInv`) |
| `ContractTypesCorrect`, `ThrottleTypesCorrect`, `SignInTypesCorrect` | the types of the tables, of Redis and of the histories | with what a request holds at each step |

| Theorem of `FrontOfficeRecordsProofs` | States | Argument |
|---|---|---|
| `MerchantsKeepTheirRecords` | `MerchantRecordsHold`, for any number of merchants, webhooks and files | `MerchantInv`: an e-mail being registered is in one request's hands, unless noted as shared, and no merchant has it unless a save of a profile gave it to one (`EmailInv`); the copy of a webhook about to be saved is inactive if the row is, or somebody deleted it meanwhile and that is noted (`HookInv`); a profile about to be saved is the row as it stands, and no file is the logo of two merchants but one that a body named (`ProfileInv`) |
| `AccountsTellTheTruth` | `AccountsHold`, for any number of users, addresses, wallets, verifications and sessions | `AccountInv`: a row, stored, cached or in a request's hands, says verified only of what was, unless a body said so of that user's column, and a request past its look-up of a verification holds one of its own user (`TruthInv`); the row in a request's hands is the stored one but for what that request changed, unless a second request holds it too and that is noted, so that a save loses no verification (`KeptInv`); a user one request creates a session for has the one it is about to delete, then none (`SessionInv`) |
| `TrailReplays` | `TrailReplaysRows`, for any number of requests, records, entries and pages | `AuditInv`: a row has one lock holder; the last entry that sets a column says what the row holds or what the holder of its lock is about to commit; a request that inserts has its row alone; and a reader has seen all that was there at its start but what its next pages show, because entries are added at the end of the pages it has left |
| `TypesCorrect` | `TypeOK` of `FrontOffice`: every table, every history variable and the step of every request | the invariants of the nine components, and `TypeInv` for the histories and steps they leave open |

| Theorem of `BackOfficeProofs` | States | Argument |
|---|---|---|
| `FlagShowsStatus` | `FlagAgreesWithStatus`, for any number of users and notifications | what a request holds between find and save says the same as well (`NoticeInv`) |
| `FlagsAreLogged` | `LogReplaysFlag`, for any number of flags and entries | `FlagInv`: a flag is in one request's hands unless noted; then the last entry of the log, or that request, tells what the row holds |
| `ChecksAreSound` | `AnswersMatchAlerts`, for all settings, points and patterns | `FraudInv`: what a check holds at each step is what the rules computed from settings it read; the second decision, on capped points, follows from the first. `Monotone` came out of this proof: with a threshold above the cap, or with high risk blocked and critical risk not, the two decisions differ. So did the hypothesis about two reasons in `LinksAreCreated`: a link hidden by soft deletion counts even if it was hidden only when the table refused, and a creation may lose both its attempts to others |
| `ReferralsAlwaysHold` | `ReferralsHold`, for any number of signups, programmes and payments of rewards | `ReferralInv`: a row about to be saved is the one stored unless a second request holds it and that is noted; a code's rewards are those its one signup has come to; a budget is counted up to the signup in progress, each reward with the amount it was promised with, whatever an update made of the programme since; an activation in progress has left no other programme active |
| `LimitsStayConfigured` | `LimitsAsConfigured`, for any number of configurations and updates | `LimitInv`: what a request is about to save is the row but for its own change, unless two are saving; the job only lowers what it read; a default that is about to be inserted is not there yet unless two look for it, and those that were made keep their role or are no longer counted |
| `AlertsAlwaysHold` | `AlertsHold`, for any number of requests and any latencies and intervals | `AlertInv`: the last alert of a kind is where `alertedAt` says, so the next is an interval later; `MonitorInv`: what a check found is shown once it was compared, and it is compared before it is shown |
| `FiguresAlwaysAddUp` | `FiguresAddUp`, for any finite tables, any amounts and any times | `ReportInv`: a figure that a summary has is the one the query would find now, unless the sales changed since it began; the totals by product and by day are then sums of the same payments, and the products listed are some of those sold. `UsageInv`: a report's total is no more than the rows there are, addresses that are remembered have rows, and rows only become more |
| `SettingsAlwaysAsAnswered` | `SettingsAsAnswered`, for any number of keys, entries, environments and lists | `SettingInv`: of a key that nobody disturbed, the row is the one of before the request as long as a call for it is to come, and what the last call asked once it was made (`Leaves`); an import that does not overwrite writes only what was not there; an entry of an exported file has what the row had (`OfExport`); the script's entries of one key differ in their value only, and the last is that of the last environment (`EndsWithLast`); with it a server starts just if it is not a required value that is empty (`Vacant`). The hypothesis that a script which gives up at its validation answers nothing (`checkStart`) came out of this proof |
| `FiguresAlwaysAgree` | `FiguresAgree`, for any routes, any latencies and samples, and any number of them kept | `GaugeInv`: all responses are those counted of the routes (`RequestsAddUp`), of which the last minute has no more (`LastMinuteAtMostAll`); an average is between the least and the greatest of what is averaged (`SumWithin`, `QuotientWithin`), and the place of a percentile is one of the list (`PercentileIsOne`) |
| `TypesCorrect` | `TypeOK` of `BackOffice` | the invariants of the nine components, `GaugeInv`, and that an alert of a payment keeps its fields (`AlertRows`) |

Sums over a finite set, and functions defined by recursion, are reached without
the induction theorems, which take an operator: a statement about all of them is
proved of a set of counterexamples, whose smallest element (`WellFoundedInduction`,
for finite sets by their cardinality; `NumberInduction` for indices) cannot be one.
That is how the totals of the reports, the entries of an export and the
concatenation of the script's stages are known; each recursive function is first
shown to exist (`StepsExist`, `SumExists`). The lemmas about sums are in
`HandlersProofs`, which both offices' proofs extend.

Only model-checked: liveness (`DueIsSettled`, `DeliveryEnds`) and the fairness part of
`ImplementsRecurringCharge`, which are out of the prover's reach. Every invariant and
action property of the passing runs is also a theorem.

## 5. Plan

Done, in this order: recurring billing with its abstract account and the
refinement; webhook delivery, its outcomes included; authentication tokens; the
configuration cache; then, over the composition they run in, contract payments,
the two lists, the second factor, payment links, roles, transfers, merchants,
accounts, notifications, feature flags and fraud checks; then referrals, limits,
alerts, the audit trail, the figures of reports and the settings.

The proofs followed: an invariant for each component, then the types of the two
offices and the figures. Not planned: proofs of liveness.

## 6. Not modelled

- Routing, DTO validation, error formatting, swagger and the HTML of the dashboard keep no state.
  `config/db.ts` registers 17 of the entities only, so that a query of another
  table throws in the server as it stands; the specifications take every
  entity's table as present, and routes that pass a controller's method without
  its object (`routes/teamRoutes.ts`) as if they were bound, because that is
  what the code and its tests are written for.
- The queries that only read (lists, statistics of referrals, the transaction
  report, the pages of notifications) unless a property is about what they
  return (`Reports`, `ThrottlingReports`, `Monitoring`, `AuditTrail`).
- `PaymentService.createPayment` is one insert under a random identifier, and
  `processPayment` is modelled as billing sees it. Balances of wallets and lists
  of tokens are replaced by whatever the network answers.
- The limiter's burst mode and its limits per user: it runs before
  authentication, where there is no user. Alerts of rate limits
  (`rateLimitAlertService.ts`) are mails about the metrics.
- Counting of requests is done by the library `express-rate-limit`, codes of the
  second factor by `speakeasy`, signatures by the Stellar SDK: external.
- Amounts, names, texts and currencies, except where a decision depends on them.
