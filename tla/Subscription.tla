--------------------------- MODULE Subscription ---------------------------
(***************************************************************************)
(* The Move package isub::subscription: accounts, plans and mandates as    *)
(* shared objects, one action per public function.  A transaction that     *)
(* aborts changes nothing, so every assert! is a guard.  The functions     *)
(* accounts, plans and mandates are the objects that exist: an object is   *)
(* created by growing the domain and deleted by shrinking it, and its id   *)
(* is never used again.                                                    *)
(*                                                                         *)
(* charges is the log of the emitted Charged events, each with the time    *)
(* and the payee of its transfer and the sequence number its caller sent.  *)
(* consent and resumes are history variables: what the subscriber signed,  *)
(* and when she resumed.                                                   *)
(***************************************************************************)
EXTENDS Integers, FiniteSets, Functions

CONSTANTS
    Address,        \* transaction senders: subscribers, merchants, keepers
    Owner,          \* bound: who opens accounts
    Seller,         \* bound: who creates plans
    Keeper,         \* inputs: the keepers plans name
    AccountId,      \* bound: the accounts that may ever be opened
    PlanId,         \* bound: the plans that may ever be created
    MandateId,      \* bound: the mandates that may ever be authorized
    MaxU64,         \* the largest u64
    StartTime,      \* the clock when the package is published
    MaxTime,        \* bound: the last clock reading explored
    MaxCharges,     \* bound: the charges explored per mandate
    MaxResumes,     \* bound: the resumes explored
    FixedTerms,     \* inputs of create_plan_fixed and authorize_fixed
    PaygTerms,      \* inputs of create_plan_payg and authorize_metered
    Limits,         \* the bounds a subscriber signs
    Amount,         \* amounts passed to deposit, withdraw, charge, refund
    Supply          \* the coins each address holds at the start

U64 == 0 .. MaxU64

ASSUME TimeAssumption ==
    /\ MaxU64 \in Nat
    /\ StartTime \in U64
    /\ MaxTime \in U64
    /\ MaxCharges \in Nat

\* An address is 32 bytes.
ASSUME AddressAssumption == IsFiniteSet(Address)

ASSUME InputAssumption ==
    /\ Owner \subseteq Address
    /\ Seller \subseteq Address
    /\ Keeper \subseteq Address
    /\ FixedTerms \subseteq [price : U64, interval_ms : U64]
    /\ PaygTerms \subseteq [rate_cap : U64, rate_window_ms : U64]
    /\ Limits \subseteq [total_budget : U64, expiry_ms : U64,
                         first_charge_after_ms : U64, max_per_charge : U64]
    /\ Amount \subseteq U64
    /\ Supply \in [Address -> Nat]

VARIABLES
    clock,      \* the shared Clock object
    wallet,     \* coins outside the package, per address
    accounts,   \* live Account objects
    plans,      \* live Plan objects
    mandates,   \* live Mandate objects
    deleted,    \* ids of deleted objects
    charges,    \* Charged events
    consent,    \* what each mandate's subscriber signed
    resumes     \* when each mandate was resumed, after how many charges

objects == <<accounts, plans, mandates, deleted>>
history == <<charges, consent, resumes>>
vars == <<clock, wallet, objects, history>>

Account == [owner : Address, balance : U64]

Plan == [merchant : Address, mode : {"FIXED", "PAYG"},
         price : U64, interval_ms : U64,
         rate_cap : U64, rate_window_ms : U64,
         keeper : Address, active : BOOLEAN]

Mandate == [account_id : AccountId, subscriber : Address, merchant : Address,
            mode : {"FIXED", "PAYG"},
            price : U64, interval_ms : U64, last_charged_ms : U64,
            rate_cap : U64, rate_window_ms : U64,
            window_start_ms : U64, window_spent : U64,
            authorized_keeper : Address,
            spent_total : U64, total_budget : U64, expiry_ms : U64,
            charge_seq : Nat, refunded_total : U64,
            max_per_charge : U64, not_before_ms : U64,
            status : {"ACTIVE", "PAUSED", "REVOKED"}]

Charged == [mandate : MandateId, amount : U64, spent_total : U64, seq : Nat,
            by : Address, to : Address, at : U64, key : Int]

\* What a FIXED charge carries in the place of a sequence number.
NoKey == -1

\* The terms and limits in the authorize transaction, and who may charge.
Consent == [subscriber : Address, merchant : Address, charger : SUBSET Address,
            price : U64, interval_ms : U64,
            rate_cap : U64, rate_window_ms : U64,
            total_budget : U64, expiry_ms : U64,
            max_per_charge : U64, not_before_ms : U64]

Init ==
    /\ clock = StartTime
    /\ wallet = Supply
    /\ accounts = <<>>
    /\ plans = <<>>
    /\ mandates = <<>>
    /\ deleted = {}
    /\ charges = {}
    /\ consent = <<>>
    /\ resumes = {}

\* The objects with one more, or one changed; the objects with one fewer.
Put(objs, id, obj) ==
    [x \in DOMAIN objs \cup {id} |-> IF x = id THEN obj ELSE objs[x]]
Delete(objs, id) == Restrict(objs, DOMAIN objs \ {id})

Fresh(pool, objs) == pool \ (DOMAIN objs \cup deleted)

\* Coins are split from the sender's wallet before the call.
Pay(s, amt) ==
    /\ wallet[s] >= amt
    /\ wallet' = [wallet EXCEPT ![s] = @ - amt]
Receive(s, amt) == wallet' = [wallet EXCEPT ![s] = @ + amt]

Tick ==
    /\ clock < MaxTime
    /\ clock' = clock + 1
    /\ UNCHANGED <<wallet, objects, history>>

-----------------------------------------------------------------------------
(* Accounts.                                                               *)

open_account(s) ==
    /\ s \in Owner
    /\ \E a \in Fresh(AccountId, accounts) :
          accounts' = Put(accounts, a, [owner |-> s, balance |-> 0])
    /\ UNCHANGED <<clock, wallet, plans, mandates, deleted, history>>

\* Anyone may top an account up.
deposit(s, a, amt) ==
    /\ a \in DOMAIN accounts
    /\ accounts[a].balance + amt <= MaxU64
    /\ Pay(s, amt)
    /\ accounts' = [accounts EXCEPT ![a].balance = @ + amt]
    /\ UNCHANGED <<clock, plans, mandates, deleted, history>>

\* Only the owner takes money out.
MayWithdraw(s, a) ==
    /\ a \in DOMAIN accounts
    /\ accounts[a].owner = s

withdraw(s, a, amt) ==
    /\ MayWithdraw(s, a)
    /\ accounts[a].balance >= amt
    /\ accounts' = [accounts EXCEPT ![a].balance = @ - amt]
    /\ Receive(s, amt)
    /\ UNCHANGED <<clock, plans, mandates, deleted, history>>

withdraw_all(s, a) ==
    /\ MayWithdraw(s, a)
    /\ accounts' = [accounts EXCEPT ![a].balance = 0]
    /\ Receive(s, accounts[a].balance)
    /\ UNCHANGED <<clock, plans, mandates, deleted, history>>

\* The mutant does not look at the balance.
MayClose_Unchecked(s, a) ==
    /\ a \in DOMAIN accounts
    /\ accounts[a].owner = s

MayClose(s, a) ==
    /\ a \in DOMAIN accounts
    /\ accounts[a].owner = s
    /\ accounts[a].balance = 0

close_account(s, a) ==
    /\ MayClose(s, a)
    /\ accounts' = Delete(accounts, a)
    /\ deleted' = deleted \cup {a}
    /\ UNCHANGED <<clock, wallet, plans, mandates, history>>

-----------------------------------------------------------------------------
(* Plans.                                                                  *)

NewPlan(plan) ==
    /\ plan.merchant \in Seller
    /\ \E p \in Fresh(PlanId, plans) : plans' = Put(plans, p, plan)
    /\ UNCHANGED <<clock, wallet, accounts, mandates, deleted, history>>

create_plan_fixed(s, t, keeper) ==
    /\ t.price > 0
    /\ t.interval_ms > 0
    /\ NewPlan([merchant |-> s, mode |-> "FIXED",
                price |-> t.price, interval_ms |-> t.interval_ms,
                rate_cap |-> 0, rate_window_ms |-> 0,
                keeper |-> keeper, active |-> TRUE])

create_plan_payg(s, t, keeper) ==
    /\ t.rate_cap > 0
    /\ t.rate_window_ms > 0
    /\ NewPlan([merchant |-> s, mode |-> "PAYG",
                price |-> 0, interval_ms |-> 0,
                rate_cap |-> t.rate_cap, rate_window_ms |-> t.rate_window_ms,
                keeper |-> keeper, active |-> TRUE])

deactivate_plan(s, p) ==
    /\ p \in DOMAIN plans
    /\ plans[p].merchant = s
    /\ plans' = [plans EXCEPT ![p].active = FALSE]
    /\ UNCHANGED <<clock, wallet, accounts, mandates, deleted, history>>

close_plan(s, p) ==
    /\ p \in DOMAIN plans
    /\ plans[p].merchant = s
    /\ plans' = Delete(plans, p)
    /\ deleted' = deleted \cup {p}
    /\ UNCHANGED <<clock, wallet, accounts, mandates, history>>

-----------------------------------------------------------------------------
(* Authorizing a mandate.  No money moves.                                 *)

\* Mutant of FirstCursor: the subtraction may underflow.
FirstCursor_Unguarded(interval) == clock - interval

\* The first charge is due at once: the cursor starts one interval back.
FirstCursor(interval) == IF interval <= clock THEN clock - interval ELSE 0

\* The private constructor: q is the signed echo of the terms, l the limits.
new_mandate(s, a, plan, q, l, max_per_charge) ==
    LET not_before == clock + l.first_charge_after_ms IN
    /\ accounts[a].owner = s
    /\ plan.active
    /\ l.total_budget > 0
    /\ not_before <= MaxU64
    /\ l.expiry_ms > not_before
    /\ \E m \in MandateId \ DOMAIN consent :
          /\ mandates' = Put(mandates, m,
               [account_id |-> a, subscriber |-> s, merchant |-> plan.merchant,
                mode |-> plan.mode,
                price |-> plan.price, interval_ms |-> plan.interval_ms,
                last_charged_ms |-> FirstCursor(plan.interval_ms),
                rate_cap |-> plan.rate_cap,
                rate_window_ms |-> plan.rate_window_ms,
                window_start_ms |-> clock, window_spent |-> 0,
                authorized_keeper |-> plan.keeper,
                spent_total |-> 0, total_budget |-> l.total_budget,
                expiry_ms |-> l.expiry_ms, charge_seq |-> 0,
                refunded_total |-> 0, max_per_charge |-> max_per_charge,
                not_before_ms |-> not_before, status |-> "ACTIVE"])
          /\ consent' = Put(consent, m,
               [subscriber |-> s, merchant |-> q.merchant,
                charger |-> q.charger, price |-> q.price,
                interval_ms |-> q.interval_ms, rate_cap |-> q.rate_cap,
                rate_window_ms |-> q.rate_window_ms,
                total_budget |-> l.total_budget, expiry_ms |-> l.expiry_ms,
                max_per_charge |-> IF plan.mode = "FIXED"
                                     THEN q.price ELSE l.max_per_charge,
                not_before_ms |-> not_before])
    /\ UNCHANGED <<clock, wallet, accounts, plans, deleted, charges, resumes>>

\* The signed echo of the terms is compared with the plan.  The mutants leave
\* the payee (R-1) or the keeper (M-3) out of it.
EchoesFixed_AnyPayee(plan, t, merchant) ==
    /\ plan.mode = "FIXED"
    /\ plan.price = t.price
    /\ plan.interval_ms = t.interval_ms

EchoesFixed(plan, t, merchant) ==
    /\ plan.mode = "FIXED"
    /\ plan.price = t.price
    /\ plan.interval_ms = t.interval_ms
    /\ plan.merchant = merchant

EchoesMetered_AnyKeeper(plan, t, merchant, keeper) ==
    /\ plan.mode = "PAYG"
    /\ plan.rate_cap = t.rate_cap
    /\ plan.rate_window_ms = t.rate_window_ms
    /\ plan.merchant = merchant

EchoesMetered(plan, t, merchant, keeper) ==
    /\ plan.mode = "PAYG"
    /\ plan.rate_cap = t.rate_cap
    /\ plan.rate_window_ms = t.rate_window_ms
    /\ plan.merchant = merchant
    /\ plan.keeper = keeper

\* The subscriber signs price t.price every t.interval_ms to merchant; plan p
\* is whatever object the page put into the transaction.
authorize_fixed(s, a, p, t, merchant, l) ==
    /\ a \in DOMAIN accounts
    /\ p \in DOMAIN plans
    /\ EchoesFixed(plans[p], t, merchant)
    /\ new_mandate(s, a, plans[p],
                   [merchant |-> merchant, charger |-> Address,
                    price |-> t.price, interval_ms |-> t.interval_ms,
                    rate_cap |-> 0, rate_window_ms |-> 0],
                   l, plans[p].price)

authorize_metered(s, a, p, t, merchant, keeper, l) ==
    /\ a \in DOMAIN accounts
    /\ p \in DOMAIN plans
    /\ EchoesMetered(plans[p], t, merchant, keeper)
    /\ l.max_per_charge > 0
    /\ new_mandate(s, a, plans[p],
                   [merchant |-> merchant, charger |-> {merchant, keeper},
                    price |-> 0, interval_ms |-> 0,
                    rate_cap |-> t.rate_cap,
                    rate_window_ms |-> t.rate_window_ms],
                   l, l.max_per_charge)

-----------------------------------------------------------------------------
(* Charging and refunding.                                                 *)

\* The mandate names the account it draws on.  The mutant takes any.
DrawsOn_Any(m, a) == a \in DOMAIN accounts /\ m \in DOMAIN mandates

DrawsOn(m, a) ==
    /\ a \in DOMAIN accounts
    /\ m \in DOMAIN mandates
    /\ mandates[m].account_id = a

\* The gates charge and charge_metered share.
Chargeable(a, m) ==
    /\ DrawsOn(m, a)
    /\ mandates[m].status = "ACTIVE"
    /\ clock < mandates[m].expiry_ms
    /\ clock >= mandates[m].not_before_ms

\* The account's side of a charge.
Debit(a, amt) ==
    /\ accounts[a].balance >= amt
    /\ accounts' = [accounts EXCEPT ![a].balance = @ - amt]

\* The mandate's side of a charge.  The mutant does not advance charge_seq.
Spend_SameSeq(md, amt) == [md EXCEPT !.spent_total = @ + amt]

Spend(md, amt) == [md EXCEPT !.spent_total = @ + amt, !.charge_seq = @ + 1]

\* The tail they share; md is the mandate with its cadence fields updated.
settle(s, a, m, md, amt, key) ==
    /\ md.charge_seq < MaxCharges
    /\ amt <= md.max_per_charge
    /\ md.spent_total + amt <= md.total_budget
    /\ Debit(a, amt)
    /\ mandates' = [mandates EXCEPT ![m] = Spend(md, amt)]
    /\ Receive(md.merchant, amt)
    /\ charges' = charges \cup
         {[mandate |-> m, amount |-> amt, spent_total |-> md.spent_total + amt,
           seq |-> Spend(md, amt).charge_seq, by |-> s, to |-> md.merchant,
           at |-> clock, key |-> key]}
    /\ UNCHANGED <<clock, plans, deleted, consent, resumes>>

\* Where a charge leaves the cursor.  The mutant catches up (F-01).
Cursor_CatchUp(md) == md.last_charged_ms + md.interval_ms

Cursor(md) == clock

\* FIXED: anyone may call it; price and interval leave no freedom.
charge(s, a, m, amt) ==
    /\ Chargeable(a, m)
    /\ mandates[m].mode = "FIXED"
    /\ amt = mandates[m].price
    /\ clock >= mandates[m].last_charged_ms + mandates[m].interval_ms
    /\ settle(s, a, m,
              [mandates[m] EXCEPT !.last_charged_ms = Cursor(mandates[m])],
              amt, NoKey)

\* The rate window, restarted when it has run out.  In the mutant every charge
\* starts a window of its own.
RollWindow_Always(md) ==
    [md EXCEPT !.window_start_ms = clock, !.window_spent = 0]

RollWindow(md) ==
    IF clock >= md.window_start_ms + md.rate_window_ms
      THEN [md EXCEPT !.window_start_ms = clock, !.window_spent = 0]
      ELSE md

\* The two gates of their own that metered charges have, and their mutants.
IsNext_Any(md, seq) == TRUE
IsNext(md, seq) == seq = md.charge_seq

UnderCap_PerCharge(md, amt) == amt <= md.rate_cap
UnderCap(md, amt) == md.window_spent + amt <= md.rate_cap

\* PAYG: the merchant or the keeper, with the current sequence number.  The
\* end of the window is a u64 sum: on overflow the transaction aborts.
charge_metered(s, a, m, amt, seq) ==
    /\ Chargeable(a, m)
    /\ mandates[m].mode = "PAYG"
    /\ s \in {mandates[m].merchant, mandates[m].authorized_keeper}
    /\ IsNext(mandates[m], seq)
    /\ mandates[m].window_start_ms + mandates[m].rate_window_ms <= MaxU64
    /\ LET md == RollWindow(mandates[m]) IN
          /\ UnderCap(md, amt)
          /\ settle(s, a, m, [md EXCEPT !.window_spent = @ + amt], amt, seq)

\* A refund is booked beside what was spent.  The mutant gives the budget back.
Refundable(md, amt) ==
    /\ amt > 0
    /\ md.refunded_total + amt <= md.spent_total

Refunded_RevivesBudget(md, amt) ==
    [md EXCEPT !.refunded_total = @ + amt, !.spent_total = @ - amt]

Refunded(md, amt) == [md EXCEPT !.refunded_total = @ + amt]

\* The merchant returns money to the account, whatever the mandate's status.
refund(s, a, m, amt) ==
    /\ DrawsOn(m, a)
    /\ mandates[m].merchant = s
    /\ Refundable(mandates[m], amt)
    /\ accounts[a].balance + amt <= MaxU64
    /\ Pay(s, amt)
    /\ mandates' = [mandates EXCEPT ![m] = Refunded(@, amt)]
    /\ accounts' = [accounts EXCEPT ![a].balance = @ + amt]
    /\ UNCHANGED <<clock, plans, deleted, history>>

-----------------------------------------------------------------------------
(* The subscriber's controls.                                              *)

revoke(s, m) ==
    /\ m \in DOMAIN mandates
    /\ mandates[m].subscriber = s
    /\ mandates' = [mandates EXCEPT ![m].status = "REVOKED"]
    /\ UNCHANGED <<clock, wallet, accounts, plans, deleted, history>>

pause(s, m) ==
    /\ m \in DOMAIN mandates
    /\ mandates[m].subscriber = s
    /\ mandates[m].status = "ACTIVE"
    /\ mandates' = [mandates EXCEPT ![m].status = "PAUSED"]
    /\ UNCHANGED <<clock, wallet, accounts, plans, deleted, history>>

\* A pause is an exemption, not a deferral: both cursors move to now.  In the
\* mutant they stay where they were (F-03).
Resumed_Deferral(md) == [md EXCEPT !.status = "ACTIVE"]

Resumed(md) ==
    [md EXCEPT !.last_charged_ms = clock, !.window_start_ms = clock,
               !.window_spent = 0, !.status = "ACTIVE"]

resume(s, m) ==
    /\ m \in DOMAIN mandates
    /\ mandates[m].subscriber = s
    /\ mandates[m].status = "PAUSED"
    /\ Cardinality(resumes) < MaxResumes
    /\ mandates' = [mandates EXCEPT ![m] = Resumed(@)]
    /\ resumes' = resumes \cup
         {[mandate |-> m, at |-> clock, seq |-> mandates[m].charge_seq]}
    /\ UNCHANGED <<clock, wallet, accounts, plans, deleted, charges, consent>>

close_mandate(s, m) ==
    /\ m \in DOMAIN mandates
    /\ mandates[m].subscriber = s
    /\ mandates[m].status = "REVOKED"
    /\ mandates' = Delete(mandates, m)
    /\ deleted' = deleted \cup {m}
    /\ UNCHANGED <<clock, wallet, accounts, plans, history>>

-----------------------------------------------------------------------------
AccountCall(s) ==
    \/ open_account(s)
    \/ \E a \in AccountId :
          \/ withdraw_all(s, a)
          \/ close_account(s, a)
          \/ \E amt \in Amount : deposit(s, a, amt) \/ withdraw(s, a, amt)

PlanCall(s) ==
    \/ \E keeper \in Keeper :
          \/ \E t \in FixedTerms : create_plan_fixed(s, t, keeper)
          \/ \E t \in PaygTerms : create_plan_payg(s, t, keeper)
    \/ \E p \in PlanId : deactivate_plan(s, p) \/ close_plan(s, p)

AuthorizeCall(s) ==
    \E a \in AccountId, p \in PlanId, merchant \in Address, l \in Limits :
       \/ \E t \in FixedTerms : authorize_fixed(s, a, p, t, merchant, l)
       \/ \E t \in PaygTerms, keeper \in Keeper :
             authorize_metered(s, a, p, t, merchant, keeper, l)

ChargeCall(s) ==
    \E a \in AccountId, m \in MandateId, amt \in Amount :
       \/ charge(s, a, m, amt)
       \/ \E seq \in 0 .. MaxCharges : charge_metered(s, a, m, amt, seq)
       \/ refund(s, a, m, amt)

SubscriberCall(s) ==
    \E m \in MandateId :
       revoke(s, m) \/ pause(s, m) \/ resume(s, m) \/ close_mandate(s, m)

Next ==
    \/ Tick
    \/ \E s \in Address :
          \/ AccountCall(s)
          \/ PlanCall(s)
          \/ AuthorizeCall(s)
          \/ ChargeCall(s)
          \/ SubscriberCall(s)

Spec == Init /\ [][Next]_vars

-----------------------------------------------------------------------------
(* Properties.                                                             *)

\* Every variable has its type; the bookkeeping of ids is consistent.
TypeOK ==
    /\ clock \in U64
    /\ wallet \in [Address -> Nat]
    /\ DOMAIN accounts \subseteq AccountId
    /\ \A a \in DOMAIN accounts : accounts[a] \in Account
    /\ DOMAIN plans \subseteq PlanId
    /\ \A p \in DOMAIN plans : plans[p] \in Plan
    /\ DOMAIN mandates \subseteq DOMAIN consent
    /\ \A m \in DOMAIN mandates : mandates[m] \in Mandate
    /\ deleted \subseteq AccountId \cup PlanId \cup MandateId
    /\ charges \subseteq Charged
    /\ \A e \in charges : e.mandate \in DOMAIN consent
    /\ DOMAIN consent \subseteq MandateId
    /\ \A m \in DOMAIN consent : consent[m] \in Consent
    /\ resumes \subseteq [mandate : DOMAIN consent, at : U64, seq : Nat]

ChargesOf(m) == {e \in charges : e.mandate = m}
Total(events) == SumFunction([e \in events |-> e.amount])

\* No transaction creates or destroys money: what the addresses and the
\* accounts hold together is what the addresses held at the start, whatever
\* was deposited, pulled, refunded and withdrawn, and whatever was closed.
FundsConserved ==
    SumFunction(wallet)
      + SumFunction([a \in DOMAIN accounts |-> accounts[a].balance])
    = SumFunction(Supply)

\* The books of a mandate and its Charged events agree: the events are
\* numbered 1 .. charge_seq without a gap, each carries the running total, and
\* the last one the mandate's spent_total.  The off-chain reconciliation
\* counts charges by charge_seq and trusts it.
BooksMatchEvents ==
    /\ \A e \in charges, f \in charges :
          /\ e.mandate = f.mandate
          /\ e.seq = f.seq
          => e = f
    /\ \A e \in charges, f \in charges :
          /\ e.mandate = f.mandate
          /\ f.seq = e.seq + 1
          => f.spent_total = e.spent_total + f.amount
    /\ \A m \in DOMAIN mandates :
          /\ {e.seq : e \in ChargesOf(m)} = 1 .. mandates[m].charge_seq
          /\ mandates[m].charge_seq = 0 => mandates[m].spent_total = 0
          /\ \A e \in ChargesOf(m) :
                e.seq = mandates[m].charge_seq
                  => e.spent_total = mandates[m].spent_total

\* Every charge is one the subscriber agreed to when she signed: at a time, of
\* an amount, within a budget, by a caller and to a payee that stand in her
\* transaction, though the terms come from a plan somebody else named there.
ChargesHonourConsent ==
    \A e \in charges :
        LET c == consent[e.mandate] IN
        /\ e.at >= c.not_before_ms
        /\ e.at < c.expiry_ms
        /\ e.amount <= c.max_per_charge
        /\ e.spent_total <= c.total_budget
        /\ e.by \in c.charger
        /\ e.to = c.merchant

\* Two charges of a FIXED mandate are an interval apart, however many callers
\* race for it and however late the earlier charge came (F-01): a caller who
\* waited cannot charge the missed periods in one go.
FixedCadence ==
    \A e \in charges, f \in charges :
        /\ e.mandate = f.mandate
        /\ e.seq < f.seq
        => f.at >= e.at + consent[e.mandate].interval_ms

\* A pause is an exemption and not a deferral (F-03): after a resume, a FIXED
\* mandate is not charged for one whole interval.
PauseIsExemption ==
    \A r \in resumes, e \in charges :
        /\ e.mandate = r.mandate
        /\ e.seq > r.seq
        => e.at >= r.at + consent[r.mandate].interval_ms

\* Metered charging is idempotent (N-1): of the transactions sent with one
\* sequence number, however often they are repeated, at most one charges.
OneChargePerKey ==
    \A e \in charges, f \in charges :
        /\ e.mandate = f.mandate
        /\ e.key = f.key
        /\ e.key # NoKey
        => e = f

\* The charges of m in the half-open span of one rate window from t on.
InWindowFrom(m, t) ==
    {e \in ChargesOf(m) : t <= e.at /\ e.at < t + consent[m].rate_window_ms}
ResumesInWindowFrom(m, t) ==
    {r \in resumes : /\ r.mandate = m
                     /\ t <= r.at /\ r.at < t + consent[m].rate_window_ms}

\* The rate cap limits every span of time, not only the windows the contract
\* happens to count in: a span as long as the window meets at most two of
\* them, and one more for every time the subscriber resumed within it.
SpanCap ==
    \A e \in charges :
        consent[e.mandate].rate_window_ms > 0 =>
            Total(InWindowFrom(e.mandate, e.at))
              <= (2 + Cardinality(ResumesInWindowFrom(e.mandate, e.at)))
                   * consent[e.mandate].rate_cap

\* What the README promises of the rate cap: it is over a rolling window.
RollingWindowCap ==
    \A e \in charges :
        /\ consent[e.mandate].rate_window_ms > 0
        /\ ResumesInWindowFrom(e.mandate, e.at) = {}
        => Total(InWindowFrom(e.mandate, e.at)) <= consent[e.mandate].rate_cap

\* A mandate is never charged beyond what it was signed for and never refunded
\* beyond what it was charged, in whatever order charges and refunds come.
WithinLimits ==
    \A m \in DOMAIN mandates :
        /\ mandates[m].spent_total <= mandates[m].total_budget
        /\ mandates[m].refunded_total <= mandates[m].spent_total
        /\ mandates[m].window_spent <= mandates[m].rate_cap

\* What the subscriber signed, and never changes.
Signed(md) ==
    <<md.account_id, md.subscriber, md.merchant, md.mode, md.price, md.interval_ms,
      md.rate_cap, md.rate_window_ms, md.authorized_keeper, md.total_budget,
      md.expiry_ms, md.max_per_charge, md.not_before_ms>>

\* A mandate's whole life: charging and refunding only ever use it up (a
\* refund revives no budget, N-2), its cursors never move back, its terms
\* never change, and once revoked it is never charged and never active again.
Wanes(old, new) ==
    /\ new.spent_total >= old.spent_total
    /\ new.refunded_total >= old.refunded_total
    /\ new.charge_seq >= old.charge_seq
    /\ new.last_charged_ms >= old.last_charged_ms
    /\ new.window_start_ms >= old.window_start_ms
    /\ Signed(new) = Signed(old)
    /\ old.status = "REVOKED" => /\ new.status = "REVOKED"
                                 /\ new.charge_seq = old.charge_seq

MandatesWane ==
    \A m \in DOMAIN mandates \cap DOMAIN mandates' :
        Wanes(mandates[m], mandates'[m])
MandateOnlyWanes == [][MandatesWane]_vars

\* Money leaves an account in two ways only: to its owner, who withdraws it,
\* or by one Charged event of a mandate she signed for this account.
Left(a) == accounts[a].balance
             - IF a \in DOMAIN accounts' THEN accounts'[a].balance ELSE 0

PaidOut(a) ==
    LET owner == accounts[a].owner IN
    \/ wallet'[owner] = wallet[owner] + Left(a) /\ charges' = charges
    \/ \E e \in charges' \ charges :
          /\ e.amount = Left(a)
          /\ e.mandate \in DOMAIN mandates
          /\ mandates[e.mandate].account_id = a
          /\ mandates[e.mandate].subscriber = owner

DebitsPaidOut == \A a \in DOMAIN accounts : Left(a) > 0 => PaidOut(a)
DebitsAreAuthorized == [][DebitsPaidOut]_vars
=============================================================================
