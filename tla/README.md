# isub in TLA+

A specification of isub, the subscription and metered-billing system in this
repository: the Move contract `contracts/sources/subscription.move` and the
off-chain programs of `sdk/src/` that charge through it. It says what each part
keeps, which steps it takes, what must hold, what TLC checks on small instances
and what TLAPS proves for every instance.

## The system

A subscriber keeps money in an **Account** object and signs a **Mandate**: who
may pull, how much, how often, until when. Merchants publish **Plans**. A FIXED
mandate is charged by anyone when a period is over; a PAYG mandate is charged by
its merchant or keeper for metered use, under a rate cap, a per-charge cap and a
budget. Every charge moves money straight to the merchant and emits `Charged`.

| part | state | operations | hard behaviour | what makes it correct |
|---|---|---|---|---|
| contract (`subscription.move`) | accounts, plans, mandates; events | open/deposit/withdraw/close, create/deactivate/close plan, authorize, charge, charge_metered, refund, pause, resume, revoke, close | many callers in any order; clocks and boundaries; plan objects swapped under a signature | every charge was signed for; money is conserved |
| biller (`biller.ts`) | usage rows, journal; per-mandate promise chain | recordUsage, flush, settle, recoverOrphan, commitCharge, run | charges and their record are not atomic: lost acks, crashes, concurrent flushes, late transactions | each record charged once, in the end |
| locks (`sql-store.ts`, `store-file.ts`) | a row or a file | acquire, renew, release | read then write by two processes; stalls, reused pids | a live holder is respected; a superseded one stops |
| pricing (`pricing.ts`) | none | priceUsageMulti | rounding, included quantities, floors | each line is the card's price, rounded as its meter says |
| service (`service.ts`, `agent-auth.ts`) | sessions, certificate versions | use, useMetered, session, authorize, applyEvent, evict, start/stop | checks before awaits; what a restart forgets | served once, by the right key, within the budget |
| keeper (`keeper.ts`), reconcile (`reconcile.ts`) | tracked mandates, journal | tick, dunning, watch, run; reconcile | charges by others, lost answers, crash between submit and save | the journal agrees with the chain; due mandates are charged |
| scheduler (`scheduler.ts`) | schedules | schedule, tick, applyConsent, cancel | a tick's clock and reads are of different moments; ticks overlap; refund and its record are not atomic; upgrades waiting for a signature | no rise without consent; each charge refunded once |
| discovery, relations, compliance (`discovery.ts`, `relations.ts`, `compliance.ts`) | index rows, mirrored charges | scan, ingest, recordCharge, appendJournal, report | pages that shift, an index that grows, tellers that repeat themselves or are late | no mandate missed, each payment on one line |
| exposure, lag (`exposure.ts`, `lag.ts`) | none | accountExposure, scheduleLag | values read at different times | the worst case is one; the contract agrees with lag |
| x402 (`x402.ts`) | none | createExactPayment, verify, settle | overlapping settles, lost answers | final means paid |
| webhook (`webhook.ts`) | in-memory queue | enqueue, send, verifyWebhook | order under retries, dead letters, loss at a crash | receipts in order |
| agent (`agent.ts`), consent (`consent.ts`), client (`client.ts`) | the agent: ids of its mandates, in memory | subscribe, unsubscribe, budgetStatus; quoteFromPlan, buildConsent; exec | overlapping calls, lost answers, quotes that age, restarts | what was approved binds; a status is complete |
| gateway (`gateway.ts`) | - | routes | doors with different checks | - |
| subscriber's dashboard (`web/components/subscriber-dashboard.tsx`) | per wallet in the browser: account, ids watched, ids cleared | load, poll, track, clear, subscribe, pause, resume, revoke | loads, reads and actions overlap; the wallet changes under them | no id lost but by what is known, none back, no live mandate hidden |
| tx, signers, mcp, checkout, rest of web, demo, scripts | - | encoding, HTTP, user interface | - | - |

How they interact: everything reaches the contract through transactions the
client builds; the service and x402 write usage rows the biller settles; biller
and keeper write the journal `reconcile` compares with the chain; the biller's
and the keeper's events drive the service's sessions, dunning and the webhook;
the scheduler refunds through the contract and asks the keeper to follow a
replaced mandate; the processes keep each other out with the lock. `PROJECT.json` lists every part, and under `hazards` what is
hard to test in each, at its line, with the properties that cover it.

## Modules

| module | models |
|---|---|
| `Subscription` | the contract |
| `SubscriptionProofs` | theorems about it |
| `UsageBilling` | what metered billing promises: accept, charge once, book after |
| `Biller` | `IsubBiller` against the slice of the contract it sees; refines `UsageBilling` |
| `BillerProofs` | theorems about it, the refinement among them |
| `Lease` | the lock row and the lock file, and the run loops that hold them |
| `LeaseProofs` | theorems about it |
| `Keeper`, `KeeperProofs` | `IsubKeeper` with its stores and its journal, and `reconcile` over that journal; theorems about both |
| `Pricing` | the rate card, as functions |
| `Service`, `ServiceProofs` | `IsubService` behind its doors; extends `Pricing`; theorems about both |
| `Scheduler`, `SchedulerProofs` | the phase orchestrator over its store and the contract's refunds; theorems about it |
| `SumTheorems` | what the sums of the community modules are: theorems the other proofs cite |
| `Records` | index, discovery, mirrored charges and monthly reports |
| `Probes` | `accountExposure` and `scheduleLag` over a moving chain |
| `X402` | exact settlement |
| `Webhook` | the dispatcher and its receiver |
| `Agent` | `IsubAgent` and a person at the consent display, who both sign through `IsubClient` |
| `DeskProofs` | theorems about `X402`, `Agent`, `Webhook`, `Probes`, `Records` and `Dashboard` |
| `Dashboard` | the subscriber's dashboard, its browser's storage and the chain under it |
| `MCSubscription`, `MCBiller`, `MCScheduler`, `MCKeeper`, `MCService`, `MCDesk` | instances for TLC, with the `.cfg` files of the runs |

`MCDesk` puts six modules in one run, `Records`, `Probes`, `X402`, `Webhook`, `Agent` and
`Dashboard`, and `MCService` two, `Service` and `Lease`: they share no variable, the initial
state chooses which one moves, and the others stay in their first state (the lock, while calls are
served, in one in which a biller holds it). Every behaviour of each is one of the run's, up to the
constraint named below.

**Subscription.** `accounts`, `plans` and `mandates` are functions from the ids
that exist to the objects' fields; creating an object grows a domain, deleting
one shrinks it, and `deleted` keeps ids from being used again. `wallet` is what
addresses hold outside the package. A public function is an action of the same
name with the transaction's sender as its first parameter; `assert!` and the
u64 range of every sum are guards, since an aborted transaction changes
nothing. `charges` is the event log, each event with the time, the payee and
the sequence number the caller sent. `consent` and `resumes` are history
variables (what was signed; when a mandate was resumed) and guard nothing.
The private functions `new_mandate` and `settle` are operators the actions use.

**Biller.** One mandate. Every `await` of `flush`, `settle`, `recoverOrphan` and
`commitCharge` ends a step, so the chain, the subscriber, another flush or a
crash can come in between. `loc[r]` is the local state of one caller of `flush`:
its `pc` is the next await, `view` what the `nowMs` given to `flush` says of the
mandate's times, which may differ from the chain's clock. `recorded`, `billed`,
`lastSubmit` and `ledger` are the store; of the journal only what the biller
reads back is kept (the last submit of each sequence number, and the charged
entries). `landed` is the chain's list of charges with the records each one
covers, which the chain itself does not know; no step but the properties reads
more of it than its length. `mandate` and `balance` are the rest of the chain.
`pending` holds the transactions whose call failed and that may land later;
it stays empty when `LateLanding` is FALSE. Times are abstracted to the mandate's
phase (early, open, expired) and to whether the rate window is over.
`charge_lands`, `charge_ack_lost`, `charge_aborts` and `charge_fails` are the
outcomes of one call; `settle_throws` and `commit_fails` are failing reads and
writes of chain and store; `crash` loses `loc` and nothing else.

**Lease.** A process is its pid; `os` says whether the pid is this program, nothing
or another program. `AcquireRead` and `AcquireWrite` are the two statements of
`acquireLock`, with other processes between them. Time is the age of the lock's
heartbeat, up to `Stale` (LOCK_STALE_MS), and the time since each process's last
renewal, up to `Renew`; `deploy.stalls` says whether a process may be later than
that, `deploy.far` whether the processes are on two hosts, where a pid cannot be
probed. `Beat` is a renewal of the interval timer, `BeatFails` one that throws for whatever
other reason, which sets `lost` like a lock that was taken over (biller.ts:469). `deploy.kind` chooses the biller, whose interval timer renews the row, the
keeper over the row, which never does, or the keeper over the file, whose save
writes its pid into whatever lock file is there. `ready` is `initialized`, which
`close` leaves set. `Close` is also the `finally` of the biller's `run`.

**Keeper.** One sweep is `BatchRead` (with any subset of the mandates unreadable),
a `Visit...` for each mandate, and `EndSweep`; a due mandate's charge is four steps,
submit, answer, journal entry, save, and everybody else acts in between. What a
visit reads is `sweep.snap`, the batch, and `sweep.cache`, the account as the tick
knows it. `AppendThrows`, `AccountThrows`, `ChargeLost`, `RecordThrows` and
`CatchThrows` are the awaits that fail, with the state the code has changed before
them. `KeepsRows` tells the SQL store, which never deletes a track, from the file,
which saves what is watched. Intervals, trials and the grace period are countdowns
and ages in ticks; at most one tick passes within a sweep (`sweep.lag`), which takes
the sweep's `nowMs` from its start. They go on while a mandate is paused, and a resume
begins a whole interval, as the cursor it sets to now does (`Resume`, move:458). `base`, `raced` and `storeOk` are history
variables. The journal keeps the `charged` and `observed` entries, the ones
`reconcile` reads.

**Service.** A call is in `call[c]`: its `pc` is the next await. `sessions` are the
session objects in the order they were made, `current` the one in the map, since a
call keeps the object it found although `evict` or a restart replaces it.
`validating` is the promise in `validating`. The budget gate and the insert into
the store are one step, because the store is synchronous and no await lies between
them; the estimate follows in the next. `Settle` is a whole attempt of the biller,
which `Biller` has in detail. An agent key is the version of the certificate that
names it. `gaps` is a history variable with the two ways the gate is known to be
outrun.

**Scheduler.** One subscription. `objs` are the schedule objects of the process: the map has
the last one (`mem`), a tick goes on with the one it has listed. `disk` is the store's row; every
handler changes the object first and the upsert may then throw, which leaves the two
apart until a restart reads the row again. `schedule` registers the plan at any time and
as often as the merchant likes, for whatever mandate is live: its cursor is the latest phase that has come, and no
price is looked at. The first mandate is signed at the price of the first phase or of a later one, as after a
trial. A tick takes the time (`TickStart`), awaits `init` (`TickLoad`), lists the schedule (`TickList`), awaits the
mandate (`TickRead`), advances the cursor and awaits the upsert (`AwaitConsent`, `Advance`, `Stay`), and refunds;
everybody else, other ticks too, may act between any two of these.
`Skip` is a tick whose mandate was replaced by a consent since its read: under the
new id it finds nothing (scheduler.ts:183-190). Charges say in which phase they were made, and
(history) for which phases a refund of theirs was sent; `registered` and `slips` are history variables too: the
phase the schedule was registered in, whether ticks have overlapped, and whether a schedule was replaced while a
tick had it in hand or it waited for consent. Mandates are numbered, one more for each upgrade the subscriber signs.

**Records.** `history` is the subscriber's events as `suix_queryEvents` serves them;
`scan` is a discovery in progress, one page per step, `ingest` what a task has read
and not written yet. A charge is a coin, a month a tick. `recordCharge` looks for the number
before it inserts (scripts/keeper.ts calls it); `appendJournal` inserts unchecked, the biller's entries with
their numbers, those of scripts/backend.ts without. A row's time is that of the charge or of the telling,
which may come months later, in any order, again (`recordCharge`) or never. `told`, and `of` in a row, are history
variables: the charges the mirror was told of, and the one a row is of. The index is the set of
mandates with a row: a row's contents (the status read at the last ingest) are left
out, since no answer modelled here depends on them. A scan ingests the ids it found in any
order: the code's order is one of them, and no answer depends on it.

**Probes.** `probe` is what a probe has read so far, `report` its answer. The chain
is what the guards of `charge` and `charge_metered` look at, with dates as
countdowns that go on below zero until the margin is past.

**X402.** `payment` holds the coin and the maker of signed bytes; the program of a
third party pays exactly, something else, nothing, or aborts, and only running it
tells. `whole` are the unspent coins, `landed` what bytes have done. A settle is
`Ask`, `verify`, `execute`.

**Webhook.** `chainOf` is the promise chain: the head is being posted. `flying` are
the requests of failed attempts that may be processed later. `fate` is what has
become of each event.

**Agent.** `policy` is what the human approved, `plans` and `signed` are the chain's
plans and mandates, `watched` is the agent's set of ids. `call[c]` is what one tool
call, or one person, is doing: a subscribe to a plan outside the policy reads the
plan first (`resolveOpen`), a status reads one mandate per step, and whatever is to be
signed is at `sign` until `exec`, `ExecAborts` or `ExecLost`. `unanswered` are the
transactions whose answer was lost and that may land later. Terms are what
`authorize` compares, with the keeper bound for metered plans only (`Echo`), and the
ceiling is the plan's for fixed ones. `known`, and `must` in a call that reads, are
history variables: the ids the agent was given since it started, and those a
status has to list.

**Dashboard.** `storage` is the browser's `localStorage`, per wallet; `screen` the account
and the rows that are shown. `loads` are calls of `load` between its reads and its
writes, `reads` calls of `refreshSubs` that have not come back, `busy` is the one action
of the user that runs, with the wallet and the account of the moment of its click.
`found` and `rows` are answers that have come and not been used. Nothing is cancelled
when `visitor`, the connected wallet, changes. `ElsewhereActs` is another device of the same person,
`ReloadPage` keeps `storage` only. `unread` is a history variable: what was cleared because
it could not be read.

Operators named `..._Something` beside a definition are faulty variants of it,
used by nothing: put in its place, each makes TLC report the property
`PROJECT.json` pairs it with.

## What the runs check

| run | question | distinct states |
|---|---|---|
| `fixed` | a FIXED mandate over its life: types, books, consent, cadence, pauses, monotony; two subscribers and their accounts: no money lost, none taken from the wrong account | 780k |
| `payg` | a PAYG mandate: consent, one charge per sequence number, what any span of one window's length may hold, limits | 245k |
| `settle` | the biller under lost acks, failing calls and crashes: charged once, ledger = chain, submits that know the books, refinement of `UsageBilling`; and usage is billed in the end | 395k |
| `flushes` | two flushes at once, and transactions that land late: the ledger never counts a charge twice | 956k |
| `phases` | the scheduler: which phases are in effect, which charges are refunded, how often and for which phase, and that what is owed is refunded in the end | 1.02M |
| `sweep` | the keeper over two mandates of one account: submits, journal, liveness | 418k |
| `calls` | overlapping calls of one mandate through four doors; two processes over a lock: who takes it, who keeps it, who stands down | 239k |
| `desk` | discovery over pages that shift; who told the mirror of what, and the reports; exposure and lag; exact payments; webhooks; what an agent and a person sign; what a browser remembers | 1.88M |
| `rolling`, `late_landing`, `false_alarm`, `lost_answer` | four statements of the repository the code does not keep | - |

**Bounds.** `MaxTime` 3-6 ticks with windows and intervals of two give charges at
both sides of a boundary, an expiry within reach and a pause as long as a
period. `MaxCharges` 3 is the least with which a repeated charge and one after it
exist; two resumes in `fixed` allow a pause before and after a charge. Amounts
are single coins, so budgets of two or three can be met exactly. `MaxU64` = 9 is
above every sum that occurs; overflow is a guard and not explored. The biller's instances have one or
two records, because order, membership and partial batches need two and no more;
prices 1 and 2 under a rate cap of 2 or 3 make a batch shrink and grow. Two
retries reach "failed, then failed in the last attempt"; in `flushes`, where two
callers and late transactions multiply the states, one attempt per settle is enough
since a second flush takes its place.

`calls`, the lock: two processes are the least that can race, `Stale` 3 above `Renew` 2 leaves
one tick between a healthy heartbeat and a stale one, two crashes let both
instances die. `phases`: three phases after the first go down, to metered and up, so that a downgrade, a wait for
consent and, under a mandate signed at the last price (a trial before), two downgrades one after the other occur; two
mandates are an upgrade; two registrations an early, a late or a repeated one; two charges and four instants put
charges before, between and after a tick's clock and its reads; two faults are lost answers, failing upserts or crashes
anywhere; two ticks are the least that overlap.
`sweep`: two mandates and funds for one charge make the second short; a budget of
two charges is reached by the keeper and a third party; two upsets put a fault or a
move of somebody else before and after any await, and only one mandate's parties
move since the two are alike. `calls`: two calls at a time, with each of the refusals,
a replay, an old and a new certificate, and metered lines that round up, down, to the
nearest and to a minimum; two session objects are an evict or a restart.
`desk`: three pages of one event against four events make the scan end before the
history does; three charges under a row limit of two, over two months and two mandates, put a
charge beyond the limit and rows of one mandate out of their order;
two settles of two payments;
two attempts for three events; two plans of which one is approved, two terms that
differ in mode, price and keeper (the approved ones and those of the other plan are
the metered ones, what the approved plan really asks is either), a budget on each side
of the cap, two mandates and one lost answer; two wallets, and of accounts, mandates, loads and reads of
the dashboard one each.

**Constraints.** `flushes` stops at the end of the outage (`InOutage`). Nothing
becomes possible when it ends: every action but `outage_ends` is enabled during it
under the same guard or a weaker one, so what is reachable afterwards is reachable
before, but for the flag. `fixed` has one subscriber with one account and one mandate
(`Alone`), or, at one tick, the accounts and mandates of two with a charge of each, no pause, and a coin
left to everybody (`Together`): there the question is whose money moves, and time adds nothing to it.
`phases` counts charges, faults and registrations, an overlap for two, up to five, and fewer when the clock is
high; so ticks overlap with one charge and a fault, or with two charges. And it ends where
a schedule is replaced while a tick or a consent has it in hand: there the two safety properties
say nothing but types, and the liveness property is not checked. `desk` leaves out states in which the chain has both a
charge and more than two events, or a charge during a scan (`Bounded`): a scan reads
events and the index, a report the index and the charges, so the two only meet in
what is indexed. It leaves out states with both a person's and the agent's call,
who share only the plans, and with more than three mandates, lost answers, plans off
sale and calls together (a person's call counts twice); and of the
agent's two calls one only asks for the status. Of the probes it leaves out states
without a mandate in force, in which there is nothing to probe. Of the dashboard's load, read
and action two run at once, the first wallet has one id in its lists and the second none: the
second is there to be switched to and back. The theorems need none of this: they hold
without constraints.

**Symmetry.** `fixed` permutes the two subscribers, the two accounts and the two mandates, `desk` the two mandates of
`Records`; no definition names one of them and every initial value is the same for both. Only
invariants and action properties are checked there.

**Deadlock** is checked for the biller, the keeper and the scheduler. The other runs turn it off: at
the bounds of time, calls, events and charges nothing need be left to do.

**Fairness** is what the processes' scheduling gives. Biller (`FairSpec`): the poll
loop calls `flush` again and again (`run`, biller.ts:462-500), a call that was made
returns (`SettleStep`), a supervisor restarts the process, time passes
(`window_elapses`), and the outage ends. Nothing is asked of the subscriber: that
the mandate stays active, in its term and funded is the hypothesis `Collectable`
of `UsageIsBilled`. The instance's budget and caps let each of its records through:
usage above them is carried for ever, as the code intends. Lock: timers fire
(`Beat`), loops turn and see their flags, a program that is not running is started
again and asks for the lock (a failed start ends the program, and its supervisor tries
again), the clock goes on. Keeper: its loop polls (keeper.ts:350-380), every await
returns, with a failure or without, time passes, it is restarted. Service: a call's
awaits return, and the poll loop comes to every mandate with unbilled usage.
Scheduler: the merchant's process ticks again and again, and the awaits of a tick return; the
first tick after a crash loads the row. None is assumed of
third parties, subscribers, crashes or faults, whose number is bounded.

## What the runs found

1. **The rate cap is not over a rolling window** (`rolling`). README.md:64 and
   docs/README.md:41 say it is. `charge_metered` (386-389) starts a new window at the
   first charge after the old one is over, so two caps fit around a boundary. What
   the code bounds is `SpanCap`, which `payg` checks: two caps per span of one
   window, one more per resume in it.
2. **A late transaction can be charged twice** (`late_landing`). `recoverOrphan`
   reads `chargeSeq` (biller.ts:420), `settle` reads the mandate again (318) and takes
   its sequence number from there. A submit whose call failed and whose transaction
   lands between the two reads is missed by the first and skipped over by the second.
   Without that, no record is charged twice: `settle` and the theorems.
3. **A commit failure is reported as a charge failure** (`false_alarm`). The comment
   at biller.ts:353 says the call is outside the `try`; it is inside.
4. **A lost answer refunds twice** (`lost_answer`). scheduler.ts:46 and product-plan/scheduler-design.md:159 call the
   refund idempotent by `charge_seq`; the anchor is written after the answer (255-256). `phases` shows that nothing but
   a failed call or a crash makes a second refund, while ticks do not overlap.

Further behaviour that the properties had to be stated around, or that no property
here speaks of, each of it read in the code:

- `keeper.run` never calls `renewLock`, although sql-store.ts:120-122 and
  store.ts:67-68 speak of a heartbeat that keeps a healthy holder fresh. After
  LOCK_STALE_MS another keeper is let in, and neither stands down.
  `LiveLockIsRespected` and `SupersededStandsDown` except the keeper's row.
- `service.start` does not handle the rejection of `biller.run` (service.ts:283), and
  `service.stop` releases the lock while a flush may be running (285-288).
- A record above `max_per_charge` is carried as `per_charge_too_small`, to which
  `applyEvent` does not listen: the session serves on, and nothing behind that record is
  billed.
- A failed chain read at first sight leaves a session that never serves
  (service.ts:252-255), and one that stopped serving stays so after a top-up, until
  `evict`; nothing in the repository but tests calls it.
- A mandate unwatched while a sweep runs makes the sweep throw (keeper.ts:199). The
  tick's save is skipped, and what it had changed is lost by a crash.
- `setState` changes the track before it appends the entry (keeper.ts:188-192), and the
  catch at 324 cannot tell a failed append from a failed charge. A charge whose entry
  could not be written is in the counter and in no entry: `CountedIsJournaled` excepts it.
- `schedule` (scheduler.ts:152-166) makes the latest phase that has come active without a look at the signed price,
  although scheduler.ts:9 and scheduler-design.md:18 say that every rise is a consent event; `advanceCursor` looks at
  later phases only. A plan registered, or registered again, after a rise has begun is in that phase unasked. The contract
  still takes no more than was signed; the subscriber is never asked for the rest. `UpgradesAreSigned` excepts the
  phase a schedule was registered in, and says that every other way to a phase asks.
- scripts/keeper.ts discovers by the status the index had at the last ingest.
- After a refund too many, what the scheduler wants to
  refund later may exceed what the contract takes back, and aborts on every tick.
- Nothing keeps two ticks of a scheduler apart: both may refund the same charges, and
  `RefundsArePromised` excepts them. A schedule that is registered again while a tick
  has the old one in hand loses its row to it (`slips.replaced`).
- A tick's clock is older than its reads: a charge of a new phase that the tick does not see yet is
  refunded the difference to the phase before it.
- A phase's baseline is taken when the tick notices the phase: charges since its
  start, and those pending when the next begins, are not refunded. While a schedule waits
  for consent no refunds are made.
- `settle` of an exact payment retried after a lost answer is refused at its
  simulation although the bytes have paid; overlapping settles may both succeed.
  `createExactPayment` may select one coin for two payments.
- relations.ts:151-152 says that a failing discovery falls back to the index; the code
  throws, and the gateway's route falls back (gateway.ts:256-263).
- A mandate whose answer was lost, or that was signed before a restart, is in no
  `budgetStatus` (agent.ts:78) unless the caller names it, and one that its owner has
  closed makes every status throw until a restart (agent.ts:161). `maxTotalBudget`
  bounds each mandate: the agent may subscribe to an approved service again and again.
- A load of the dashboard writes the list it computed from what it read before its awaits
  (subscriber-dashboard.tsx:144): an id tracked or subscribed to meanwhile is lost from the
  list until the next discovery. `ForgetsOnlyWhatLoadsMissed` says that nothing else loses one.
  `load` does not reset the account: after a direct change of wallet the account shown is
  the one of the wallet before, until the load ends. A read that failed makes a live mandate a
  row that may be cleared as unreadable, which hides it (`OnlyTheRevokedAreHidden` excepts it).
- A delivery has no timeout (webhook.ts:118): an endpoint that never answers holds
  every later event.

## What is proved

The theorems hold for every value of the constants their module's assumptions admit; TLC
evaluates the assumptions on every run, and has checked the inductive invariants on the
runs' instances before they were proved.

`SubscriptionProofs` assumes only what `Subscription` states of its constants
(`TimeAssumption`, `InputAssumption`, and `AddressAssumption`: there are finitely many
addresses): any addresses, ids, terms, times and limits within u64.

- `TypeCorrect`: `TypeOK`. The arithmetic of every function stays within u64.
- `Invariant`: `IInv`, the inductive invariant. None of the properties below is
  inductive alone. `Snapshots` says that a mandate's terms are those of its
  `consent`; `Keys` that the key of a metered charge is one below its number;
  `Past` that no cursor or event is in the future; `CursorIsPast` that the cursor of
  a FIXED mandate is not behind any of its charges or resumes. With `BooksMatchEvents`
  these say what a new charge may assume of all the earlier ones.
- From it: `LimitsHold`, `ConsentHonoured`, `BooksMatch`, `CadenceKept`, `PausesExempt`,
  `KeyedChargesAreIdempotent`; and the action properties `MandatesOnlyWane` and
  `DebitsAuthorized`, the second with `Owned` (a mandate's account belongs to its
  subscriber as long as it exists).
- `FundsAreConserved`: `FundsConserved`, with `FundsInv`: the accounts are finitely many, so that
  their balances have a sum, and every transaction moves between two terms of the two sums.
- `SpansAreCapped`: `SpanCap`, whose spans of time begin anywhere. `SpanInv` counts per window:
  while a span is open (`OpenSpans`), what was charged in it is in the current window, or
  is one cap for the window the span began in, one for each resume since, and the current window;
  once it is over (`AllSpans`) nothing is added. `FreshAfterResume` is why a resume costs one cap
  and not two.

`BillerProofs` assumes `BillerAssumption` and, in every theorem but the last, `~LateLanding`: a
transaction lands before its call returns or fails, or never. The second finding
shows that the hypothesis is needed. The number of records, callers and retries,
the prices and the limits are any.

- `Invariant`: at most one run is past `flushOne` (`OneAtATime`); the last submit of a
  sequence number that landed is what landed (`SubmitsRecorded`); the ledger is the
  chain's list but for its last entry (`LedgerFollowsChain`); and what a run knows at
  each `pc` (`Knows`), the heart of it: past recovery the books are settled, the rows
  it holds are unbilled, and its sequence number is the chain's.
- `NeverChargedTwice`, `LedgerIsTheChain`, `SubmitsAreInformed`, and `NothingWrittenOff`
  (booked only when charged), which no run lists: the refinement the run checks implies it.
- `BillingImplemented`: every step of the biller is a step of `UsageBilling` or a
  stutter, under `charged <- Charged`, `booked <- billed`, `paid <- mandate.spent`.
- `LedgerNeverOvercounts`: `LedgerCountsCharges`, also when transactions land late. `LateInv` keeps
  what survives then: the chain only grows, one run at a time is past `flushOne`, and the
  number it is about to journal (`LateKnows`) is on the chain and in no entry.

`KeeperProofs` assumes `KeeperAssumption`. Mandates, prices, budgets, intervals, crashes and
moves of others are any.

- The lemmas on walks show that the walk of `reconcile`, a fold of the community modules, takes one
  step more for one entry more; `ChargeEntry` and `ObservedEntry`, what that step does.
- `KeeperInvariant`: a journal alone is `Sound` (its entries count at most the number its walk
  has reached, which no charged entry is above). That number and the counters of memory and
  store are at most the chain's (`Follows`) and at most what the tick has read of a mandate it
  has still to visit (`Seen`); the charge in progress is one beyond the journal (`Charging`); a
  journal kept from the first charge has no gap but for that one (`Complete`). `Stands` and
  `RaceInv` say what the tick may rely on as long as nobody has moved the chain under it.
- `JournalsAreTrue`: `JournalIsTrue`. `AbortsRace`: `AbortsAreRaces`.

`LeaseProofs` assumes `LeaseAssumption` (`0 < Renew < Stale`); the number of
processes, crashes and ticks is any.

- `LeaseTypes`, and `Invariant`: `ClosedHoldNothing` says that a process that can
  run without acquiring, because it was closed before, does not hold the lock;
  `RunnersAreFresh` that the heartbeat is as young as its holder's last renewal, when
  nobody stalls. The second is what makes a healthy holder's lock never stale, and it
  needs the first: `RunAgain` resets the renewal's age and not the row's.
- `LockRespected`: `LiveLockIsRespected`, from freshness and `Renew < Stale`.
- `LockSurvives`: `OthersLockSurvives`, since only `RowReleased` of the holder frees a row.

`SchedulerProofs` assumes `SchedulerAssumption` (phases in the order of their starts, one at
least). Phases, mandates, ticks at once, charges, consents, failures and restarts are any.

- `RisesAreSigned`: `UpgradesAreSigned`, with `UpgradeInv`. It says, as long as no schedule was replaced in use
  (`Consented`): one mandate is live at a time (`OneLive`); the schedule, in memory or in its row, stands on a mandate
  none before which is live, and one after it is live only when it was waiting for it (`Stands`); the row is never ahead of memory
  (`Follows`); and a tick that still finds its mandate under the schedule's id knows its
  price (`KnowsPrice`). The registered phase is excepted, and only that one.
- `RefundsAreOwed`: `RefundsArePromised`, with `RefundInv`. As long as no schedule was replaced and no ticks have overlapped
  (`Kept`): at most one tick is in progress (`Alone`); no charge has more refunds than one and the number of failures, or one for a
  phase that had not begun (`Promised`); the charges beyond a schedule's anchor have no more refunds than failures account for,
  and were made in its phase or later (`Books`), which holds of memory and of the row separately, since a failing upsert parts
  them; phases are reached in time (`Reached`); and the charges after those the tick in
  progress has read are in the phase of its time or later and not refunded (`InHand`, `Fresh`), nor does it refund on a mandate the
  schedule has left (`Holds`).

`ServiceProofs` assumes `ServiceAssumption` (finitely many calls, a valid card). Calls, certificates,
sessions, restarts and failing calls are any.

- `PricesFair`: `PricesAreFair`, for every rate card and every list of items.
- `AnswersAreBooked`, `RotatedKeysStayOut`, `ServedValueFits`: `AnswersMatchTheBooks`,
  `RotatedKeyStaysOut`, `ServedFitsTheBudget`, from `ServiceInv`. `BooksInv` says that recorded usage
  is that of one call, which was served or lost its answer; `KeysInv` that a call past the
  floor carries a certificate no older than the store knew when it came in; `BudgetInv` that all
  that is spent or recorded (`Promise`) and what the latest session has left fit the budget together,
  which is why one call between its ingest and its count is as much as the gate can bear.

`DeskProofs` assumes nothing of the constants of `X402`.

- `SettleInvariant`: `CoinsAreSpentOnce` (what landed has used up its coin, and no two
  payments that landed share one) and what a settle knows at each stage (`SettleKnows`).
- `FinalSettlesPaid`: `FinalMeansPaid`.

It assumes `AgentAssumption` (the agent's calls are not persons, prices and
budgets are positive); plans, policies, calls, mandates and lost answers are any.

- `AgentInvariant`: `AgentKeepsToItsPolicy` speaks of what is signed and answered, and is
  not inductive. A transaction may land long after its call is gone, so every one that
  is at `sign` or in `unanswered` has to have been reviewed (`Fit`); a status lists what it
  has read, so what a call owes has to be among what it has read or has still to
  read (`Owes`), which needs every id that was given to be watched until its
  mandate is over (`Watches`): an id is forgotten only after the chain has answered.
- `PolicyKept`: `AgentKeepsToItsPolicy`. `EchoDecides` is the lemma about terms: plans
  that `authorize` does not tell apart have the same ceiling.

It assumes `WebhookAssumption` (one attempt at least, positive times and bounds); events,
losses, late arrivals and the receiver's clock are any.

- `WebhookInvariant`: the queue is the events after the settled ones, and the head's request
  is the one being posted (`InOrder`). `SentInTurn` counts: the requests of an event that
  are received, flying or being posted are at most its attempts, and there are none of an event
  behind the head. `ReceivedInOrder` is what a delivered event leaves behind.
- `DeliveriesOrdered`: `DeliveriesAreOrdered`.

It assumes `ProbesAssumption` (amounts are numbers, deposits too, a mandate has one
mode, and the account finitely many); what happens between two reads of a probe is any.

- `ProbesInvariant`: `ExposureInv` says that, until the subscriber acts, what a probe of
  exposure has read bounds what can still be charged, and its answer what was pulled since as well; `LagInv` that the rows of a probe
  of lag are the chain's as long as nobody has acted on it.
- `ProbesTrue`: `ProbesAreTrue`.

It assumes `RecordsAssumption` (page sizes and bounds are positive); events, pages, ingests,
charges, tellers and months are any.

- `RecordsInvariant`: `ScanInv` says for each stage of a discovery where a mandate is that it must
  find: among the ids, among the skipped, in the index, or at an event that the pages left
  still reach (`ToBeFound`). The pages go from the newest event
  to the oldest, so that an event of the meantime moves none the scan has still to reach.
  `Numbered` says that a number is of one charge, `MirroredOnce` that a charge the mirror was told of has one row:
  the first makes the look-up of `recordCharge` find its own row and no other's.
- `DiscoveryComplete`: `DiscoveryIsComplete`.
- `ReportedOnce`: `ChargesAreReportedOnce`. A row is on the line of its month (`LinesOfTheMonth`), and is among
  the rows returned unless its mandate has more than `Limit` (`FewRowsAreReturned`).

It assumes nothing of the constants of `Dashboard`.

- `DashboardInvariant`: every id in a list, in a read in flight or on the screen is one that the chain
  has, or junk (`StorageTrue`, `FlightTrue`), and the id that is about to be remembered is not
  among those its wallet has cleared (`BusyTrue`), since the buttons are off between the
  signature and the write. `Grows` carries this over the chain's own steps.
- `DashboardKeepsLists`: `ListsAreKept`, the action property among its parts.

`SumTheorems` holds the lemmas about sums. A sum of the community modules is a fold, that is a
`CHOOSE` of a function that satisfies a recursive equation. There is one and only one: if two
differed, or none existed, some smallest finite set would show it (`MinimalSubset`), and its
member taken away leaves a smaller one. From there `SumAdd`, `SumUpdate`, `SumSplit` and the
others say how a sum changes with its set and its function.

**Only model-checked.** Every safety property of the passing runs, invariant or action property,
has a theorem (`Biller`'s `TypeOK` is a part of `LedgerCountsCharges`), and so has the
refinement. The liveness properties (`UsageIsBilled`, `SupersededStandsDown`,
`BillingResumes`, `DueIsCharged`, `CallsAreAnswered`, `UnpaidStopsService`,
`ChargesAreRefunded`) are under fairness, which the proof system does not cover.

## Not modelled, and the plan

Not modelled, with the reason:

- In the contract, the version gate and `migrate_*`: they need a second version of
  the package, which is not in the repository.
- Several mandates in one flush, sweep or tick of biller, service and scheduler:
  the code handles them one after the other or in chains of their own, and they share
  the account only, which the keeper's and the contract's modules have.
- Usage entries without `usageIds` from before they were recorded (biller.ts:424-428),
  backoff times and the budget threshold event, which nothing reads.
- The ids a caller adds to `budgetStatus`, the sums in its answer (those of `Probes`),
  and the routes of the gateway that only read.
- `tx.ts`, the signers, `mcp.ts`, the texts of `consent.ts` and the reads of `client.ts`
  that no module uses: encodings and front ends; a model of them would repeat them. Of the
  user interfaces the subscriber's dashboard is modelled, whose reads, writes and actions overlap
  most; the merchant's page and the demo remember ids in the same way, the checkout an account
  under the dashboard's key, and they are left out, and about a third of the repository's program
  text is smoke tests and start-up scripts. The mapped lines are therefore a small
  part of all of it, and the larger part of the logic that bills and signs.
- In the scheduler, a lock that `init` fails to take, which ends the call and changes nothing. In discovery, an answer
  of the node with neither result nor error, at which a scan stops as if there were no more pages
  (discovery.ts:73); an error is modelled (`ScanFails`).
- That a keeper's own counter, which it tells `recordCharge` as the charge's number, may differ from the chain's: the number
  told is taken to be the chain's. How far the two are apart is `JournalIsTrue` of `Keeper`. With
  the same number told for two charges, `recordCharge` would drop the second.
- Two processes writing one database at a time through `recordCharge`: the SQL
  driver is synchronous, and one process is what the start-up scripts run.

Next, most important first: lemmas about operators that the proofs still take apart in place
(the windows of `Subscription`, the pages of `Records`); the agent composed with `Service`; two
keepers over one journal, with the lock of `Lease` lost between them.
