# Agent402 in TLA+

Agent402 sells calls to web tools. A call is paid per request (x402, MPP: a
signed authorization that a facilitator settles on chain) or from a prepaid
credits key, and the server must neither serve an unpaid call, nor charge for
an answer it did not give, nor charge twice, while several processes share a
database and a Redis store that may fail, clients hang up, and processes crash.

This directory models the parts that keep those promises, checks the models
with TLC on small instances, and proves the main invariants with TLAPS for
every value of the constants. Paths below are under `src/`.

## The system and its parts

| part | state it keeps | operations | hard because of |
|---|---|---|---|
| **Prepaid credits: balances and holds** `src/credits.js` | one row per key (balance, held, spent, hold entries, settled records, disable cause); in each process the live holds and their refresh timers | authorize, settle, release, charge, markSettling, sweep, refresh, disable / enable, clawback, and the dispatcher's end of a response | settle, release and the sweep race on one hold; a commit's reply is lost; the client leaves before or while the answer is written; crashes; webhooks repeated and out of order |
| **Prepaid credits: purchase claims** `src/credits.js` | the session index, the key records, an in-process chain and Redis locks per buyer, Stripe's refunds | claim, issue, refuse, refund, refunds by hand | a session claimed by several pages at once; locks that lapse; refunds that fail or are not recorded |
| **Payment replay guard** `src/replay-guard.js`, `src/replay-topology.js` | per authorization a claim and a consumed mark in Redis, or a set and a map in the process; renewal timers | begin, settle, release, renewal | every Redis command is awaited; a command may take effect and fail; holders die; a free grant leaves the authorization valid |
| Idempotency `src/idempotency.js`, `src/idempotency-store.js` | stored answers and in-flight claims, in Redis and in the process | get, claim, renew, commit, release | answer and claim are two reads; the claim goes when the connection closes |
| Settlement claims `src/settlement-claims.js` | settlement keys and their holders, Redis and local | claim, extend, release, settle hooks | one key with two owners when the backend changes; a failed settlement that lands after all |
| Pending and late settlements `src/pending-settle.js`, `late-settlements.js`, `circle-pending.js`, `settle-demotion.js`, `verify-failover.js` | settlements whose outcome is not known | record, poll, book, demote | an answer that comes after the call was answered |
| Hang-ups `src/hangup-forgiveness.js`, `hangup-settlement.js` | budgets of forgiveness tickets | reserve, settle, persist, merge | a close racing the settlement; replicas merging documents |
| Refund ledger `src/refund-ledger.js`, `refund-backfill.js` | debts owed to buyers | book, void, repay | a debt voided while it is repaid |
| Spending guards `src/gateway-settle-breaker.js`, `external-spend-guard.js`, `composite-spend-guard.js`, `inflight-cover.js` | budgets, reservations, breaker states | reserve, commit, release, trip, probe | reservations of calls that never end |
| Limits and allowances `src/first-call-allowance.js`, `unpaid-quote-budget.js`, `shared-limit*.js`, `rate-limit.js`, `pow.js` | counters with windows | read, reserve, spend | shared counters with a local fallback |
| Human checkout, subscriptions `src/human-checkout.js`, `stripe-subscriptions.js`, `mpp-subscriptions.js` | a record per session with its claim and heartbeat | claim, generate, take over, finish, refund | a stale owner that is not dead; refund and record in two steps |
| Async jobs, MCP tasks `src/async-jobs.js`, `mcp-tasks.js`, `mcp-http.js` | job records | start, complete, fail, poll | the answer of a settled call is lost |
| Monitor scheduler `src/monitor-scheduler.js` | due monitors and leases | lease, run, record | two schedulers |
| Tempo and Stellar rails `src/mpp-tempo.js`, `stellar-confirm.js`, ... | pushes and confirmations in progress | push, confirm, book | chain answers that never come |
| Decide ledger `src/decide/ledger.js`, `ledger-mirror.js`, `ledger-journal-redis.js` | an append-only ledger, its mirror, its journal | append, flush, replay | appends across a restart |
| Persistence helpers `src/json-document.js`, `state-db.js`, `store-retry.js`, `bounded-memo.js` | documents and rows | read, update in a transaction | commits whose reply is lost |
| Sales accounting `src/sales-ledger.js`, `base-unproven.js`, `seller-funding.js` | sales and totals | record, reconcile | one sale recorded by two paths |
| Paywall and server `src/payments.js`, `src/server.js` | wiring | middleware order, ends of responses | `finish` and `close` both may come, or one only |
| Stellar facilitator `facilitator/` | a serial settle queue, one signer | enqueue, hold, deadline, failover | work that outlives its caller |
| Tollbooth `tollbooth/` | its own replay store | verify, settle, replay | the same as above, smaller |
| clients, MCP packages, workers, tools, pages | none shared | | |

How they meet, for one paid call: `server.js` takes the replay guard's claim,
the idempotency claim, and, for a credits key, a hold; the paywall runs the
handler and settles only a success; the response's `finish` or `close` then
settles or releases the guard and the hold, commits the idempotent answer, and
books the sale, or a debt when the client has left. The components share Redis
and the state database but no transaction: each must be right whatever the
others do.

Seven parts are modelled, each on one object of its own: credits holds, credits
claims, the replay guard, idempotency, settlement claims with the book of late
settlements, human checkout, and the refund ledger.
They are where this code decides who is charged, served or paid back while
several processes race. Measured in lines that is a very small share of the
repository, which is for the most part tools, pages, catalogs and clients that
keep no shared state. `PROJECT.json` lists every part with its status, and under
`hazards` what in this code is hard to test, at its line, with the properties
that would catch it.

## Modules

| module | what it is |
|---|---|
| `Totals`, `TotalsTheorems` | sums of a function over a finite set (a fold), and lemmas about them |
| `PrepaidKey` | the abstract account a prepaid key promises: reserve, end once, take back |
| `CreditsHolds` | the row of one key, the requests of several processes, the sweep, refunds and disputes |
| `CreditsHoldsProofs` | its invariants, its safety theorems, and the proof that it implements `PrepaidKey` |
| `PackPurchase` | the abstract purchase of a pack: sold for one key, or refused and repaid |
| `CreditsClaim` | claims of paid sessions: locks, index, mint, refuse, refund |
| `CreditsClaimProofs` | its invariants, its safety theorems, and the proof that it implements `PackPurchase` |
| `OneUse` | the abstract authorization: one call uses it at a time, and one is granted with it |
| `ReplayGuard` | one authorization through the replay guard of several processes |
| `ReplayGuardProofs` | its inductive invariant, its safety theorems, and the proof that it implements `OneUse` |
| `Idempotency`, `IdempotencyProofs` | copies of one keyed call in the middleware and store of several processes; invariant and theorems |
| `HumanCheckout`, `HumanCheckoutProofs` | one paid checkout session, polled by several containers; invariant and theorems |
| `RefundLedger`, `RefundLedgerProofs` | one debt, from the requests that present its transfer to the run that refunds it; invariant and theorems |
| `SettlementClaims`, `SettlementClaimsProofs` | one signed authorization: its claims, its settlement, its recovery from the chain, and the book of late settlements; invariant and theorems |
| `MC*` | constants for TLC |

### CreditsHolds

One key is one database row and each of its money moves is one transaction
under the row's lock (`mutatePgNow`), so a transaction is one step. What is not
atomic is modelled step by step: a request's life in its process (`pc`), the
close of its connection (`closed`), a `markSettling` that lands later
(`marking`), a commit whose reply is lost (the `...Lost` actions), retries and
giving up (`SettleAgain`, `SettleGivesUp`, `ReleaseGivesUp`), the sweep of any
process and its lost reply, refresh timers, and crashes. `arm`'s handlers are
`EndServed`, `EndUnserved` (creditsAwareEnd), `Finish`, `CloseEarly`,
`CloseLate`, `GoneForgiven`, `GoneCharged`, `GoneTimeout`. A client that leaves
while its hold is being placed is not heard (`AuthorizeUnheard`): the gate
listens for the close only once it has the hold. Ghost variables
(`taken`, `sold`, `clawed`, `due`) record what happened to each call's money,
and no action reads them.

Time is counted in refresh intervals, a third of the abandoned-hold window;
ages saturate past every threshold. `RefreshFor` is the sixty minutes a hold is
refreshed at most; no run lasts as long, so it is counted for a hold nobody
ends only. A failed attempt that changes nothing is
not a step. The sweep's read of a quiet row, made before the row lock, is a
free choice. Not modelled: file mode (each operation is one synchronous step
there), the charge of a call without a hold, several disputes of one payment, a key disabled by a build that
recorded no cause.

### CreditsClaim

Reads, writes, lock commands, Stripe calls: one step each, since each is
awaited. The chain of a process is a sequence; a claim runs when no earlier
claim with the same first key is before it, as `buyerChains` orders them. A
lock may lapse under its holder, or the wait for it be exceeded, and the claim
goes on: `unguarded` names those claims, which the daily limit excepts because
the code accepts it. `RefundedBefore` names the sessions whose payment may be
back before any claim is made, each or not. The keys the index carries, the
sessions it refuses and those it records as refunded, and what Stripe has
returned are a state of `PackPurchase`, and `ImplementsPackPurchase` says that
every step is one of its steps or a stutter. Not modelled: file mode; refunds
that arrive at Stripe during a claim; partial refunds (a session is returned in
full or not at all).

### ReplayGuard

One authorization. `mode` says how the process runs: the shared claim is
*required* (a long-running route, several replicas, a deploy's overlap, a
drain), *optional* (a lone process past its overlap), or there is no shared
store. A mode does not change within a behaviour, and in the last two all calls
reach the process `Lone`. `begin`, `settle` and `release` are one step per
Redis command, and a failed command may have taken effect. The server's
`finishGuard` is `Deliver`, `DeliverFree`, `HangUp`, `HangUpForgiven`, `Fail`;
a hang-up leaves the run open behind the consumed mark, as the comment at
`src/server.js:10865` says it must. A client that leaves while `begin` is
awaited is not heard (`RecheckUnheard`, `BeginLocalUnheard`), and its claim goes
when the renewal reaches its cap (`RenewalCap`).

Timing assumptions, each a guard: one store command takes less than a claim's
life (`MidCommand`); a consumed mark outlives every run, and a long one the
authorization (`HoldOver`); a store failure is shorter than the life a renewed
claim has left, 90 to 120 seconds. `lost` collects granted calls whose mark a
failure or crash lost and `expired` those whose mark ran its time; the
properties except exactly those. Not modelled: how the key is derived from a
payment, the entries of earlier builds, the read-only `held`, the cap of
50,000 local marks, a settlement whose
outcome is unknown, and a settlement sent after a forgiven hang-up.

To its caller the guard is `OneUse`: a call enters when nobody uses the
authorization and no grant is remembered, grants or leaves, and a grant is
forgotten when its mark has run its time, a free one not before the
authorization ends. That is of EIP-3009 authorizations: a Solana, Stellar or
Algorand payment names no `validBefore` (`replay-guard.js:326`), so its free grant
is held for the default time only, and `FreeIsNeverCharged` says nothing of it. Users are the open runs and grants the granted calls,
without those in `lost` or `expired`. A failed command or a crash is
`Lose` there, and there is no `Lose` without one (`MayFail`). A lone process
past its overlap may fall back and lose sight of the calls begun through the
store, so the optional mode promises none of this: it shows an authorization
nobody uses.

### Idempotency

Copies of one call: one Idempotency-Key, one body, one prepaid credits key. That
credential is the one the middleware is needed for, since it does not refuse its
own second use. `Look` is `get`, `ClaimLocally` to `ClaimFails` are `claim` with
each Redis command a step, `Deliver`, `Fail` and `HangUp` are the end of the
response, `Store` and `Drop` the SET of the answer and the DEL that waits for
it, `SendRetry` and `RetryDrop` the timer of `scheduleRetry`, whose second DEL may
land after the same process has claimed again. Redis knows only that there is a
claim; `claimR` names the copy that made it so that properties can. A client
that leaves while the claim is awaited is not heard (`Pass`): its copy renews the
claim and nothing releases it. Two ghosts: `dropFailed` (a delete has failed)
and `struck` (copies whose claim a delete meant for another removed), which
`SharedExclusion` excepts together. Timing assumption: a store failure is
shorter than the life a renewed claim has left, so a delete is retried before
the claim it is about could lapse. Not modelled: other credentials, the expiry
and eviction of answers, the 120 seconds after which a pending delete is given
up, the cap on bodies, the hook that refuses a replay.

### HumanCheckout

The session is one row and each statement on it is a step; so are Stripe's
refund and the write to a journal. A claim is known by its place in the sequence
of claims (`n`, the row's `takeovers` plus one), since every takeover writes one
more. `Look`, `CheckJournal`, `Claim` are a poll; `Generate` to `LandOutcome` the
job; `LandFails` and `Keep` a final record the database did not take;
`Replay`, `Beat`, `Silence` the timers; `Cut`, `Mend`, `Crash` the faults. A
container is cut off from the database only, so it may generate past the stale
window and still write to Redis. Not modelled: file mode; the creation of the
session and its subscriptions; the limit on a buyer's failures and the breaker
(the job's failure is a free choice); the refund of a session whose details are
missing; a record kept in memory only; a journal that falls back from Redis to
disk within one run; the indexes of reports; the sweep at boot.

### RefundLedger

One transfer and its debt. A write is one statement guarded by the row's status
and note, journaled before and removed after; it lands and is answered
(`Lands`), or fails before or after it landed and leaves its entry (`Fails`).
`Replay` applies the oldest entry; with `Leases` an entry may be replayed though
its own write landed, or be passed by later writes. `mirror` is each
container's copy, read by `pushClaimAllowed` and by `claimForServe` when it
changed nothing. The operator (`ByHand`) resolves a row stuck in `sending` by
what the chain says. Two ghosts: `exposed` (the call was served on the word of a
stale mirror, or beside a refusal not booked yet, which
`tempo-push-debts.js` accepts) and `lost` (the request's container crashed
before it booked, or a hold written late voided the debt). Not modelled: file
mode; debts of other rails; voids by the operator or by an idempotent replay;
import and reconciliation; the promotion of a row (one restatement here); the
journal's fallback to local disk; several refund runs at once.

### SettlementClaims

One EVM authorization (its nonce), the one transaction that can move its money,
and the requests that carry it. A claim is looked up in the process's copy
(`RefusedHere`), sent (`SendClaim`), and answered or not (`ClaimAnswered`,
`ClaimUnanswered`); an extension is a GET and a SET (`ReadOwner`, `Extend`).
`Claiming` and `Extending` say which claims and extensions the settle hooks
make, in the order in which `payments.js` registers them, and where each leads:
`claim` is onBeforeSettle, `reclaim` and `take` are `recoverAlreadyOnChain` and a
fallback's success, `takeNamed` follows a receipt read in time
(`pending-settle.js`), `note` is onAfterSettle, `named` the release hook that
keeps the claim and the booking after it. `Close`, `Sold`, `Check` and `Owe` are a
pass of the book over one entry; the claim it takes is one step, and a crash may
fall between it and the debt. A pass may throw, or not read back the debt it
recorded (`OweUnseen`; `owed` is the ledger or its journal), and the entry waits
for the next one; `GiveUp` is the last one, which leaves the entry to the operator
(`unresolved`): its transaction has not landed in 24 hours and the authorization is
still good, the chain could not be read for that long, or twelve passes threw. The life of a claim in flight is the request's own
and lapses after it; a long one lasts. Ghosts: `failed` (the keys a failing
command was about), `recovered`, and `lost` (a request crashed between its claim
of the transaction and its answer).

Assumed: a facilitator's success is about the request's own transaction; a
fallback's may be about another's. What proves a transfer on chain (the log, the
amount, the time with its skew) is a free choice. Not modelled: Stellar and its
several keys; Gateway's batched payments; bookings by authorization; the
journal and the bound of the book, and the times of its backoff; an "already on chain" answer that
names a transaction as well; hang-ups; the release after a refusal by the
settle-sent mark.

## Runs

| run | instance | shows |
|---|---|---|
| `credits_holds` | 2 calls at price 2, 2 processes, 5 loaded of which 1 held by an earlier build; crashes, lost replies, failed refreshes, metered charges | `Conservation`, `SoldOnce`, `ChargedIsServed`, `HoldEndsOnce`, `MarkedIsCharged`, and the refinement of `PrepaidKey` |
| `credits_timely` | fair, with crashes and lost replies | `RetryFindsRecord`, `RunningHoldIsKept`, `HoldsDrain` |
| `credits_refunds` | refunds of part and of all, disputes, the operator's switch | `RefundTakenOnce`, `CauseIsStrongest`, the refinement |
| `credits_claim` | 3 claims of 2 sessions, one email and two cards, 2 processes; every failure; one session perhaps refunded before | `OneKeyPerSession`, `KeyOrRefund`, `RefundedIsTrue`, `DailyLimit`, and the refinement of `PackPurchase` |
| `credits_claim_ends` | 2 claims, fair | `ClaimsEnd`, `RefusedIsRefunded` |
| `replay_guard` | 3 calls, 2 processes, the three modes, failures and crashes, fair | `OneRunAtATime`, `GrantedOnce`, `FreeIsNeverCharged`, `ClaimFreed`, and the refinement of `OneUse` |
| `idempotency` | 3 copies, two on one process and one on another, failures and crashes, fair | `LocalFloor`, `SharedExclusion`, `AnswerBeforeFree`, `ClaimFreed` |
| `human_checkout` | 2 containers, both journals, three claims, cuts, lost replies, crashes, fair | `RefundIsRecorded`, `DeliveredIsKept`, `PaidEnds` |
| `refund_ledger` | 3 requests on 2 containers, the refund run, entries replayed late, crashes | `SentOnce`, `ServedNotRefunded`, `DebtStands`, `VoidIsFinal` |
| `settlement_claims` | 3 requests, two in one process and one in another, one failing command, passes of the book that fail or give up, lapses, crashes, fair | `AnsweredOnce`, `RecoveredOnce`, `OwedNotServed`, `NamedSettles` |
| `idempotency_paid_once` | violation, no failure needed | two copies of a keyed call are both debited |
| `human_checkout_outcomes` | violation, one container cut off | a purchase is delivered and refunded |

Why the bounds are enough. Two calls are two holds on one row, the least that
can take one another's money, and the balance covers one of them and a bit, so
a refusal for lack of funds is reached; a second process is what makes the
sweep of another process, and a crash that leaves the rest running, possible.
The windows are kept at the smallest values that keep their order (a settle is
retried for less than the window, records are kept for longer than a retry).
In the claims, a session claimed twice and another session of the same buyer
are both needed: the first for the index, the second for the daily limit, and a
limit of 3 admits one pack of 2 only; one session that may be refunded before
takes every path such a session has (both may be in `credits_claim_ends`, and
the proofs put no bound on them). For the guard and for idempotency, two
copies race and the third arrives after one of them has ended; two processes are
the least where a claim can be another process's. In the checkout, one claim
generated, one generated again after an abandonment and one taken to refund are
every kind of claim there is, which is three (`ClaimCap` stops faults under the
last one, so that liveness is about a system whose faults end). In the ledger,
three requests are a refusal, a corrected retry on another container, and one
more that comes after either. In the settlement claims, two requests of one
process meet in its copy and the third sees Redis only; one failing command
(`MaxFailures`) is what sets the two apart, and two were tried for safety without
another outcome. `sends` needs no bound: it is 1 at most.

Fairness is stated on what the code schedules itself: responses end, timers
fire, the sweep recurs and eventually commits, a claim that has begun goes on,
store commands answer or fail, a renewal reaches its cap, a key with a time to
live lapses, the buyer's page polls. Nothing forces a call to start, a client to
leave, a process to crash or a refund to come. For `RefusedIsRefunded` the
operator works through the list of refunds to make by hand, which is what that
list is for. `PaidEnds` needs more: the database that a container lost comes
back (`Mend`), and polls and replays meet it often enough while it is there
(strong fairness), since both are repeated for as long as the session is open.
For `NamedSettles` passes of the book recur until an entry is given up, not every
one of them crashes, and a debt that passes record again and again is read back
(strong fairness of `Owe`); a pass that keeps failing ends in `GiveUp`, which
nothing forces and the property excepts, as the code does
(`late-settlements.js:319`).

`CHECK_DEADLOCK FALSE` is set where the system may stop: every claim is decided,
the session is final, or every call or request is over.

Type correctness is a theorem of every component, and so is `HeldCoversEntries`;
`credits_claim` checks it as well.

## Where the code and its comments part

Each violation run shows what a comment says and the code does not do; it is a
`finding` in `PROJECT.json` with the quoted line.

- **Delivered and refunded** (`human-checkout.js:556`). A report is answered and
  delivered as soon as Redis holds its record, and nobody asks whether the claim
  it was made under still stands. A container cut off from the database past the
  stale window is taken over; the other one's generation fails and it refunds;
  the first one's report is delivered all the same. With the journal on disk
  this cannot happen, which `DeliveredIsKept` checks and proves.
- **Two debits for one keyed call** (`idempotency.js:156`). The answer is looked
  up before the claim and not after it, so a copy that missed the answer can
  claim once the first copy has been delivered and has released.
More were seen, which no run shows. Three are in the ledger and the settlement
claims:

- **A debt voided by an old hold** (`refund-ledger.js:288`). The guard of a hold
  reads that the row is owed, not for which run the hold was taken. Replayed
  after that run failed and its debt was booked, the hold voids the debt; line
  271 calls every change safe to replay. `DebtStands` excepts it (`LateHold`).
  `LateHold` covers a second case, which needs no fault and no delay: a hold over
  a debt whose note is no longer that of a refusal on input, such as a row that
  the refund run took and released. It voids the debt, and the reopening of a run
  that is not served looks for that one note (`refund-ledger.js:294`) and finds
  nothing, where `tempo-push-debts.js:11` to 14 promise that it is owed again.
- **Two owners in one process** (`settlement-claims.js:118`). The copy in the
  process is read before the SET NX is awaited and overwritten after it: with two
  copies of a payment in flight, the first one's command fails and it claims the
  key in the process; the second one's is accepted and takes its place, and both
  go on. Lines 110 to 113 say that one key never has two owners in one process.
  `AnsweredOnce` excepts failed commands; the claim of the transaction still
  stands behind them (`RecoveredOnce`, `OwedNotServed`).
- A request that crashes between its claim of a recovered transaction and its
  answer leaves its buyer with neither the answer nor a debt, since the book
  takes the claim for a served request (`payments.js:417`). `NamedSettles` excepts
  it (`lost`), and the entries the book gave up (`unresolved`).

Six are in credits and the guard; none of them loses money from the row, since
`Conservation` is proved.

- A refund webhook takes at most the available balance (`credits.js:743`), so
  credit held at that moment escapes a partial refund.
- `close` after the first byte settles whatever the status (`credits.js:962`).
- The in-process chain is keyed by the first identity only (`credits.js:478`),
  so without the shared store two cards of one email can pass the daily limit.
- The gate of the credits registers its listeners after it has awaited the hold
  (`credits.js:960`, `980`). A client that leaves in between is never heard, its
  hold stays in `liveHolds`, and the sweep of that process skips it
  (`credits.js:255`). `HoldsDrain` therefore promises such a hold an end only
  where a second process sweeps; alone, the money is held until a restart.
- The guard's listeners come after its `await` too (`server.js:10871`). The
  claim in the store is freed by the cap on its renewal, which `ClaimFreed`
  checks; the key in the local set has no cap. (A local call whose release
  reaches the recovered store leaves its key there as well,
  `replay-guard.js:565`.) The middleware of idempotency has no cap either
  (`idempotency.js:168`): its `ClaimFreed` excepts a copy nobody heard.
- The local fallback of the guard does not know the calls begun through Redis
  (`replay-guard.js:474`).

## What is proved

All proofs are checked by TLAPS with no assumption but the named ASSUMEs of the
modules: finitely many calls, positive prices, a loaded amount that covers what
an earlier build holds; finitely many claims of sessions, a daily limit that is
a natural number, and sessions refunded before that are sessions; each copy or
request reaches one process; a cap on faulty claims that is at least one. Every
safety property of the passing runs is a theorem, for every value of the
constants. Where a theorem assumes more, it says so (`RecordKeptForRetry`,
`RetryFinds`, `DailyLimitAlways`, below).

**Credits** (`CreditsHoldsProofs`). `Conservation` is not inductive: a settle
takes money out of `held` at the price of an entry, and nothing in
`Conservation` says the entry's price is in `held`, nor that the call has not
been charged already. `IInv` adds to `TypeOK` and `Conservation` that the
entries are covered (`HeldCoversEntries`), that an open entry has not been
charged (`EntriesOpen`), that a call that has not begun has touched nothing
(`IdleUntouched`), that a settled record says what was taken (`Records`), and
`SoldOnce`. One lemma per kind of money move (place, charge, return, sweep of
several) carries the sums, with `TotalsTheorems` for what a sum does when a
member leaves the set or changes value. From `IInv` follow `MoneyConserved`,
`HeldIsThere`, `SaleBookedOnce`, `ChargedOnce`; `MarkedHoldCharged`,
`RefundsTakenOnce` and `StrongestCause` have invariants of their own.
`Implementation` maps the row to `PrepaidKey` and shows that each step reserves,
ends, takes back or stutters there; the sweep is the hard case, since it ends
many entries at once and may return the money an earlier build left.

Three more invariants tie the row to the requests. `Answered` says, for every
place a request may be in, what was answered when its money goes: a request
that is settling, or whose mark is on its way, has been answered or has lost its
buyer; `ChargedWasServed` follows, through the sweep that finds a mark. `Fresh`
says that while refreshes land the hold of a live request is younger than the
window, so no process's sweep takes it (`RunningHoldKept`, which needs no
hypothesis since the property is about refreshes that land). `RecordsKept` says
that the record of a settle that is retried is there, or that `KeepMax` others
no older than the retry are. It needs a settle to be retried for no longer than a record
is kept: 0.9 of the abandoned-hold window against the fixed 15 minutes
(`credits.js:631`), which the default window of 10 minutes meets and one beyond
16 minutes 40 seconds does not. `RetryFinds` then needs no more calls than the
200 records a row keeps; `RecordKeptForRetry` is the general form: beyond that a
retry loses its record only if 200 other holds of the key were settled since.
The run's two calls never fill the records; it checks the boundary of time, and
beyond the 200 there are these two theorems only.

**Purchase claims** (`CreditsClaimProofs`). A claim decides on what it read
before its last `await`, so nothing it saw is an invariant; only the one
conditional statement on the index is. `Indexed` says that a key the index
carries is the only one of its session, that its record is there, and that its
claim is past the place where it would delete it. `Refusals` says that a session
being refunded is so by the one claim that refused it and stays pending
meanwhile, and what Stripe has returned when. These two give `OneKeyPerSession`,
`KeyOrRefund`, `RefundedIsTrue` and, with `StepsAsPurchase` (one lemma for each
kind of step), the refinement of `PackPurchase`: a refund by hand is a `Record`
there, a failed one a stutter, and one whose reply is lost a `Repay` all the same,
though its claim takes it for failed.

The daily limit takes three more. `Lines`: the line of a process holds exactly
the claims that wait or run there, once each, and one that had its turn is the
first with its first key; `ChainExcludesAlways` is that exclusion. `Locked`: a
claim that is still guarded holds the Redis lock of its card and of its email.
`Budget`: a guarded claim that has passed the check still has room for its pack
under each of its keys, because whoever is issued a key meanwhile for one of
them either holds that lock as well or is unguarded. `DailyLimitAlways` assumes
`SharedStore`; without it the property is false, as the list above says of the
chain keyed by the first identity.

**Replay guard** (`ReplayGuardProofs`). One run at a time does not follow from
the claim alone, since a claim lapses and `release` deletes it whoever holds
it. `IInv` says of every call past the guard what stands in the way of the next
one: it holds the claim (`Claimed`), which is renewed as long as it runs
(`Renewed`), or in a process without store it is in `flying` (`Alone`), or it
was granted and its mark is there (`Marked`); a call between its second read of
the mark and its run holds the claim too. `GrantedOnce` and
`FreeIsNeverCharged` follow for every step from the same invariant.
`Implementation` shows the refinement of `OneUse` from it. `EntersUse` is the
hard case: a call that finds no mark and gets the claim enters where nobody
else is, since every other user holds the claim or has left a mark
(`Claimed`, `Alone`). `GrantsUse`, `ForgetsUse` and `LosesUse` are the other
kinds of step, `SilentSteps` what the abstract authorization does not see, and
`StepsAsUse` puts them together.

**Idempotency** (`IdempotencyProofs`). `Local` says that the local claim of a
process names the one copy between its claim and its close, from which
`LocalFloor` follows. `SharedExclusion` does not follow from the claim in Redis,
which a delete meant for another copy may take away. `Shared` says that a
process which knows the claim in Redis as its own is right, `Deletes` that a copy
about to delete it is too, until a delete fails; from then on the copy whose
claim was struck is remembered. `Storing` and `Unfailed` complete `IInv`.

**Human checkout** (`HumanCheckoutProofs`). `RefundIsRecorded` is not inductive:
a container between its owed record and Stripe has no claim left. `IInv` adds
that such a container has seen an error on the row (`Recorded`), and the lemma
`PutFinalKeeps` that a delivered report and an error are never replaced by
anything of the other kind, so what was seen stays true. `DeliveredIsKept` holds
because, with the journal on disk, a report is delivered only by the statement
that books it (`NoRedis`). Both hold for any number of containers and takeovers,
with every fault.

**Refund ledger** (`RefundLedgerProofs`). `IInv` is `TypeOK` and seven parts:
what the refund run's place says of the row and the broadcasts (`Sends`), what
the replay key and the claimer say of the requests (`Gate`), which changes can
be waiting in the journal while a request is where it is (`Waits`), what an
answer excludes (`Final`), that a claim which saw the row and no refusal on its
way left no debt to refund (`Unexposed`), that a debt seen as refunded is neither
held nor refused on input (`Seen`), and that a debt not in the row is on its way
there (`Debt`). The last is the hard one: the debt may be in the row, in the
journal, or still to be written by a request, and entries pass one another.

**Settlement claims** (`SettlementClaimsProofs`). There are two arguments, one
for each key. While no command about the nonce fails, a request that has won it
is the holder Redis names until it gives it up or for good (`Owner`), since a
claim in flight does not lapse under a request that works and the claim is made
long before anybody is answered (`Long`); so there is one owner at most
(`OneSettlesAlways`) and one answer (`AnsweredOnceAlways`). While no command
about the transaction fails, its claim is never given up and every process's
copy agrees with it (`Copies`): whoever is answered for a recovery
(`Recovering`), or owed by the book (`Owing`), is its holder, which is
`RecoveredOnceAlways`. `OwedNotServedAlways` needs two more, for the requests
that were simply answered and claim no transaction: theirs is the one that landed
(`Settled`), and the book has only requests that were not answered (`Booked`).

Model-checked only: liveness (`HoldsDrain`, `ClaimsEnd`, `RefusedIsRefunded`,
`PaidEnds`, `NamedSettles`, both `ClaimFreed`), which is out of the prover's
reach, and the two violations.

## Plan

What is left, in the order in which it is worth writing; each is a component of
its own, and composes with what is named.

1. `SettleQueue` (facilitator): one submission at a time for one signer, the
   deadline from arrival, the cap on the hold.
2. `HangupForgiveness`: tickets, their reservations, and replicas merging them.
3. `AsyncJobs`, `DecideLedger`, and the breaker.

Proofs to add: the refinement of an abstract exclusive claim by `Idempotency`,
and the safety of each new component.

## Not modelled

Tools, pages, catalogs, clients, workers and packages keep no state the server
shares. The monitor scheduler, the rails' pollers, the limits and allowances,
the persistence helpers and the Tollbooth keep some, of one process or of one
statement each; they are listed in `PROJECT.json` and come after the plan.
