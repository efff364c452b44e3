------------------------- MODULE SubscriptionProofs -------------------------
(***************************************************************************)
(* Theorems about Subscription, for every set of addresses, accounts,      *)
(* plans and mandates, all terms, limits and amounts, and every bound.     *)
(***************************************************************************)
EXTENDS Subscription, SumTheorems, TLAPS

\* At the start nothing exists.
LEMMA InitType == Init => TypeOK
  BY TimeAssumption, InputAssumption DEF Init, TypeOK, U64

\* Each call keeps the types: accounts,
LEMMA AccountType ==
    ASSUME TypeOK, NEW s \in Address, AccountCall(s)
    PROVE  TypeOK'
<1> USE InputAssumption DEF U64
<1>1. CASE open_account(s)
  <2>1. PICK a \in Fresh(AccountId, accounts) :
           accounts' = Put(accounts, a, [owner |-> s, balance |-> 0])
    BY <1>1 DEF open_account
  <2>2. DOMAIN accounts' \subseteq AccountId
    BY <2>1 DEF Put, Fresh, TypeOK
  <2>3. \A x \in DOMAIN accounts' : accounts'[x] \in Account
    BY <2>1, TimeAssumption DEF Put, TypeOK, Account
  <2> QED BY <1>1, <2>2, <2>3 DEF open_account, TypeOK, history
<1>2. ASSUME NEW a \in AccountId, withdraw_all(s, a)
      PROVE  TypeOK'
  <2>1. wallet' \in [Address -> Nat]
    BY <1>2 DEF withdraw_all, Receive, TypeOK, MayWithdraw, Account
  <2>2. /\ DOMAIN accounts' \subseteq AccountId
        /\ \A x \in DOMAIN accounts' : accounts'[x] \in Account
    BY <1>2, TimeAssumption DEF withdraw_all, TypeOK, MayWithdraw, Account
  <2> QED BY <1>2, <2>1, <2>2 DEF withdraw_all, TypeOK, history
<1>3. ASSUME NEW a \in AccountId, close_account(s, a)
      PROVE  TypeOK'
  <2>1. /\ DOMAIN accounts' \subseteq AccountId
        /\ \A x \in DOMAIN accounts' : accounts'[x] \in Account
    BY <1>3 DEF close_account, MayClose, Delete, Restrict, TypeOK
  <2> QED BY <1>3, <2>1 DEF close_account, TypeOK, history
<1>4. ASSUME NEW a \in AccountId, NEW amt \in Amount, deposit(s, a, amt)
      PROVE  TypeOK'
  <2>1. wallet' \in [Address -> Nat]
    BY <1>4 DEF deposit, Pay, TypeOK
  <2>2. /\ DOMAIN accounts' \subseteq AccountId
        /\ \A x \in DOMAIN accounts' : accounts'[x] \in Account
    BY <1>4, TimeAssumption DEF deposit, TypeOK, Account
  <2> QED BY <1>4, <2>1, <2>2 DEF deposit, TypeOK, history
<1>5. ASSUME NEW a \in AccountId, NEW amt \in Amount, withdraw(s, a, amt)
      PROVE  TypeOK'
  <2>1. wallet' \in [Address -> Nat]
    BY <1>5 DEF withdraw, Receive, TypeOK
  <2>2. /\ DOMAIN accounts' \subseteq AccountId
        /\ \A x \in DOMAIN accounts' : accounts'[x] \in Account
    BY <1>5, TimeAssumption DEF withdraw, TypeOK, MayWithdraw, Account
  <2> QED BY <1>5, <2>1, <2>2 DEF withdraw, TypeOK, history
<1> QED BY <1>1, <1>2, <1>3, <1>4, <1>5 DEF AccountCall

\* plans,
LEMMA NewPlanType ==
    ASSUME TypeOK, NEW plan \in Plan, NewPlan(plan)
    PROVE  TypeOK'
<1>1. PICK p \in Fresh(PlanId, plans) : plans' = Put(plans, p, plan)
  BY DEF NewPlan
<1>2. /\ DOMAIN plans' \subseteq PlanId
      /\ \A x \in DOMAIN plans' : plans'[x] \in Plan
  BY <1>1 DEF Put, Fresh, TypeOK
<1> QED BY <1>2 DEF NewPlan, TypeOK, history

\* Registering a plan keeps the types.
LEMMA PlanType ==
    ASSUME TypeOK, NEW s \in Address, PlanCall(s)
    PROVE  TypeOK'
<1>0. 0 \in U64
  BY TimeAssumption DEF U64
<1>1. ASSUME NEW keeper \in Keeper, NEW t \in FixedTerms,
             create_plan_fixed(s, t, keeper)
      PROVE  TypeOK'
  <2> DEFINE plan == [merchant |-> s, mode |-> "FIXED",
                price |-> t.price, interval_ms |-> t.interval_ms,
                rate_cap |-> 0, rate_window_ms |-> 0,
                keeper |-> keeper, active |-> TRUE]
  <2>1. plan \in Plan
    BY <1>0, InputAssumption DEF Plan
  <2>2. NewPlan(plan)
    BY <1>1 DEF create_plan_fixed
  <2> QED BY <2>1, <2>2, NewPlanType
<1>2. ASSUME NEW keeper \in Keeper, NEW t \in PaygTerms,
             create_plan_payg(s, t, keeper)
      PROVE  TypeOK'
  <2> DEFINE plan == [merchant |-> s, mode |-> "PAYG",
                price |-> 0, interval_ms |-> 0,
                rate_cap |-> t.rate_cap, rate_window_ms |-> t.rate_window_ms,
                keeper |-> keeper, active |-> TRUE]
  <2>1. plan \in Plan
    BY <1>0, InputAssumption DEF Plan
  <2>2. NewPlan(plan)
    BY <1>2 DEF create_plan_payg
  <2> QED BY <2>1, <2>2, NewPlanType
<1>3. ASSUME NEW p \in PlanId, deactivate_plan(s, p)
      PROVE  TypeOK'
  <2>1. /\ DOMAIN plans' \subseteq PlanId
        /\ \A x \in DOMAIN plans' : plans'[x] \in Plan
    BY <1>3, ZenonT(40) DEF deactivate_plan, TypeOK, Plan
  <2> QED BY <1>3, <2>1 DEF deactivate_plan, TypeOK, history
<1>4. ASSUME NEW p \in PlanId, close_plan(s, p)
      PROVE  TypeOK'
  <2>1. /\ DOMAIN plans' \subseteq PlanId
        /\ \A x \in DOMAIN plans' : plans'[x] \in Plan
    BY <1>4 DEF close_plan, Delete, Restrict, TypeOK
  <2> QED BY <1>4, <2>1 DEF close_plan, TypeOK, history
<1> QED BY <1>1, <1>2, <1>3, <1>4 DEF PlanCall

\* new mandates,
LEMMA NewMandateType ==
    ASSUME TypeOK, NEW s \in Address, NEW a \in AccountId, NEW plan \in Plan,
           NEW q \in [merchant : Address, charger : SUBSET Address,
                      price : U64, interval_ms : U64,
                      rate_cap : U64, rate_window_ms : U64],
           NEW l \in Limits, NEW max_per_charge \in U64,
           new_mandate(s, a, plan, q, l, max_per_charge)
    PROVE  TypeOK'
<1> DEFINE not_before == clock + l.first_charge_after_ms
<1>1. not_before \in U64
  BY InputAssumption, TimeAssumption DEF new_mandate, TypeOK, U64
<1>2. FirstCursor(plan.interval_ms) \in U64
  BY TimeAssumption DEF FirstCursor, TypeOK, Plan, U64
<1>3. 0 \in U64 /\ 0 \in Nat
  BY TimeAssumption DEF U64
<1>4. l \in [total_budget : U64, expiry_ms : U64,
             first_charge_after_ms : U64, max_per_charge : U64]
  BY InputAssumption
<1> DEFINE md == [account_id |-> a, subscriber |-> s,
                merchant |-> plan.merchant, mode |-> plan.mode,
                price |-> plan.price, interval_ms |-> plan.interval_ms,
                last_charged_ms |-> FirstCursor(plan.interval_ms),
                rate_cap |-> plan.rate_cap,
                rate_window_ms |-> plan.rate_window_ms,
                window_start_ms |-> clock, window_spent |-> 0,
                authorized_keeper |-> plan.keeper,
                spent_total |-> 0, total_budget |-> l.total_budget,
                expiry_ms |-> l.expiry_ms, charge_seq |-> 0,
                refunded_total |-> 0, max_per_charge |-> max_per_charge,
                not_before_ms |-> not_before, status |-> "ACTIVE"]
<1> DEFINE c == [subscriber |-> s, merchant |-> q.merchant,
                charger |-> q.charger, price |-> q.price,
                interval_ms |-> q.interval_ms, rate_cap |-> q.rate_cap,
                rate_window_ms |-> q.rate_window_ms,
                total_budget |-> l.total_budget, expiry_ms |-> l.expiry_ms,
                max_per_charge |-> IF plan.mode = "FIXED"
                                     THEN q.price ELSE l.max_per_charge,
                not_before_ms |-> not_before]
<1>5. md \in Mandate
  BY <1>1, <1>2, <1>3, <1>4 DEF Mandate, TypeOK, Plan
<1>6. c \in Consent
  BY <1>1, <1>4 DEF Consent
<1>7. PICK m \in MandateId \ DOMAIN consent :
         mandates' = Put(mandates, m, md) /\ consent' = Put(consent, m, c)
  BY DEF new_mandate
<1> HIDE DEF md, c
<1>8. /\ DOMAIN consent' = DOMAIN consent \cup {m}
      /\ DOMAIN mandates' = DOMAIN mandates \cup {m}
  BY <1>7 DEF Put
<1>9. /\ \A x \in DOMAIN mandates' : mandates'[x] \in Mandate
      /\ \A x \in DOMAIN consent' : consent'[x] \in Consent
  BY <1>5, <1>6, <1>7 DEF Put, TypeOK
<1>10. resumes' \subseteq [mandate : DOMAIN consent', at : U64, seq : Nat]
  BY <1>8 DEF new_mandate, TypeOK
<1> QED BY <1>8, <1>9, <1>10 DEF new_mandate, TypeOK

\* Authorizing a mandate keeps the types: no term of it leaves u64.
LEMMA AuthorizeType ==
    ASSUME TypeOK, NEW s \in Address, AuthorizeCall(s)
    PROVE  TypeOK'
<1>0. 0 \in U64
  BY TimeAssumption DEF U64
<1>1. ASSUME NEW a \in AccountId, NEW p \in PlanId, NEW merchant \in Address,
             NEW l \in Limits, NEW t \in FixedTerms,
             authorize_fixed(s, a, p, t, merchant, l)
      PROVE  TypeOK'
  <2> DEFINE q == [merchant |-> merchant, charger |-> Address,
                   price |-> t.price, interval_ms |-> t.interval_ms,
                   rate_cap |-> 0, rate_window_ms |-> 0]
  <2>1. q \in [merchant : Address, charger : SUBSET Address,
               price : U64, interval_ms : U64,
               rate_cap : U64, rate_window_ms : U64]
    BY <1>0, InputAssumption
  <2>2. plans[p] \in Plan /\ plans[p].price \in U64
    BY <1>1 DEF authorize_fixed, TypeOK, Plan
  <2>3. new_mandate(s, a, plans[p], q, l, plans[p].price)
    BY <1>1 DEF authorize_fixed
  <2> HIDE DEF q
  <2> QED BY <2>1, <2>2, <2>3, NewMandateType
<1>2. ASSUME NEW a \in AccountId, NEW p \in PlanId, NEW merchant \in Address,
             NEW l \in Limits, NEW t \in PaygTerms, NEW keeper \in Keeper,
             authorize_metered(s, a, p, t, merchant, keeper, l)
      PROVE  TypeOK'
  <2> DEFINE q == [merchant |-> merchant, charger |-> {merchant, keeper},
                   price |-> 0, interval_ms |-> 0,
                   rate_cap |-> t.rate_cap,
                   rate_window_ms |-> t.rate_window_ms]
  <2>1. q \in [merchant : Address, charger : SUBSET Address,
               price : U64, interval_ms : U64,
               rate_cap : U64, rate_window_ms : U64]
    BY <1>0, InputAssumption
  <2>2. plans[p] \in Plan /\ l.max_per_charge \in U64
    BY <1>2, InputAssumption DEF authorize_metered, TypeOK
  <2>3. new_mandate(s, a, plans[p], q, l, l.max_per_charge)
    BY <1>2 DEF authorize_metered
  <2> HIDE DEF q
  <2> QED BY <2>1, <2>2, <2>3, NewMandateType
<1> QED BY <1>1, <1>2 DEF AuthorizeCall

\* charges and refunds,
LEMMA SettleType ==
    ASSUME TypeOK, NEW s \in Address, NEW a \in DOMAIN accounts,
           NEW m \in DOMAIN mandates, NEW md \in Mandate, NEW amt \in Amount,
           NEW key \in Int, settle(s, a, m, md, amt, key)
    PROVE  TypeOK'
<1>1. amt \in U64 /\ amt \in Nat
  BY InputAssumption DEF U64
<1>2. /\ md.spent_total + amt \in U64
      /\ md.charge_seq + 1 \in Nat
      /\ md.merchant \in Address
  BY <1>1, TimeAssumption DEF settle, Mandate, U64
<1>3. Spend(md, amt) \in Mandate /\ Spend(md, amt).charge_seq \in Nat
  BY <1>2 DEF Spend, Mandate
<1>4. /\ DOMAIN mandates' = DOMAIN mandates
      /\ \A x \in DOMAIN mandates' : mandates'[x] \in Mandate
  BY <1>3 DEF settle, TypeOK
<1>5. /\ DOMAIN accounts' = DOMAIN accounts
      /\ \A x \in DOMAIN accounts' : accounts'[x] \in Account
  BY <1>1, TimeAssumption DEF settle, Debit, TypeOK, Account, U64
<1>6. wallet' \in [Address -> Nat]
  BY <1>1, <1>2 DEF settle, Receive, TypeOK
<1> DEFINE event == [mandate |-> m, amount |-> amt,
                     spent_total |-> md.spent_total + amt,
                     seq |-> Spend(md, amt).charge_seq, by |-> s,
                     to |-> md.merchant, at |-> clock, key |-> key]
<1>7. event \in Charged /\ event.mandate \in DOMAIN consent
  BY <1>1, <1>2, <1>3 DEF Charged, TypeOK
<1>8. charges' = charges \cup {event}
  BY DEF settle
<1> HIDE DEF event
<1>9. /\ charges' \subseteq Charged
      /\ \A e \in charges' : e.mandate \in DOMAIN consent
  BY <1>7, <1>8 DEF TypeOK
<1> QED BY <1>4, <1>5, <1>6, <1>9 DEF settle, TypeOK

\* Rolling the rate window keeps the type of the mandate.
LEMMA RollWindowType ==
    ASSUME NEW md \in Mandate, clock \in U64
    PROVE  RollWindow(md) \in Mandate
<1>1. 0 \in U64
  BY TimeAssumption DEF U64
<1> QED BY <1>1 DEF RollWindow, Mandate

\* A charge keeps the types: balances and totals stay in u64.
LEMMA ChargeType ==
    ASSUME TypeOK, NEW s \in Address, ChargeCall(s)
    PROVE  TypeOK'
<1>1. ASSUME NEW a \in AccountId, NEW m \in MandateId, NEW amt \in Amount,
             charge(s, a, m, amt)
      PROVE  TypeOK'
  <2> DEFINE md == [mandates[m] EXCEPT !.last_charged_ms = Cursor(mandates[m])]
  <2>1. a \in DOMAIN accounts /\ m \in DOMAIN mandates
    BY <1>1 DEF charge, Chargeable, DrawsOn
  <2>2. md \in Mandate
    BY <2>1 DEF TypeOK, Mandate, Cursor
  <2>3. settle(s, a, m, md, amt, NoKey) /\ NoKey \in Int
    BY <1>1 DEF charge, NoKey
  <2> HIDE DEF md
  <2> QED BY <2>1, <2>2, <2>3, SettleType
<1>2. ASSUME NEW a \in AccountId, NEW m \in MandateId, NEW amt \in Amount,
             NEW seq \in 0 .. MaxCharges, charge_metered(s, a, m, amt, seq)
      PROVE  TypeOK'
  <2> DEFINE rolled == RollWindow(mandates[m])
             md == [rolled EXCEPT !.window_spent = @ + amt]
  <2>1. a \in DOMAIN accounts /\ m \in DOMAIN mandates
    BY <1>2 DEF charge_metered, Chargeable, DrawsOn
  <2>2. rolled \in Mandate
    BY <2>1, RollWindowType DEF TypeOK
  <2>3. UnderCap(rolled, amt) /\ settle(s, a, m, md, amt, seq)
    BY <1>2 DEF charge_metered
  <2> HIDE DEF rolled
  <2>4. rolled.window_spent + amt \in U64
    BY <2>2, <2>3, InputAssumption, TimeAssumption
    DEF UnderCap, Mandate, U64
  <2>5. md \in Mandate
    BY <2>2, <2>4 DEF Mandate
  <2> HIDE DEF md
  <2> QED BY <2>1, <2>3, <2>5, SettleType
<1>3. ASSUME NEW a \in AccountId, NEW m \in MandateId, NEW amt \in Amount,
             refund(s, a, m, amt)
      PROVE  TypeOK'
  <2>1. a \in DOMAIN accounts /\ m \in DOMAIN mandates /\ amt \in Nat
    BY <1>3, InputAssumption DEF refund, DrawsOn, U64
  <2>2. mandates[m] \in Mandate /\ accounts[a] \in Account
    BY <2>1 DEF TypeOK
  <2>3. mandates[m].refunded_total + amt \in U64
    BY <1>3, <2>1, <2>2, TimeAssumption DEF refund, Refundable, Mandate, U64
  <2>4. accounts[a].balance + amt \in U64
    BY <1>3, <2>1, <2>2, TimeAssumption DEF refund, Account, U64
  <2>5. Refunded(mandates[m], amt) \in Mandate
    BY <2>2, <2>3 DEF Refunded, Mandate
  <2>6. /\ DOMAIN mandates' = DOMAIN mandates
        /\ \A x \in DOMAIN mandates' : mandates'[x] \in Mandate
    BY <1>3, <2>5 DEF refund, TypeOK
  <2>7. /\ DOMAIN accounts' = DOMAIN accounts
        /\ \A x \in DOMAIN accounts' : accounts'[x] \in Account
    BY <1>3, <2>4 DEF refund, TypeOK, Account
  <2>8. wallet' \in [Address -> Nat]
    BY <1>3, <2>1 DEF refund, Pay, TypeOK
  <2> QED BY <1>3, <2>6, <2>7, <2>8 DEF refund, history, TypeOK
<1> QED BY <1>1, <1>2, <1>3 DEF ChargeCall

\* and the subscriber's controls.
LEMMA SubscriberType ==
    ASSUME TypeOK, NEW s \in Address, SubscriberCall(s)
    PROVE  TypeOK'
<1>1. ASSUME NEW m \in MandateId, revoke(s, m)
      PROVE  TypeOK'
  <2>1. /\ DOMAIN mandates' = DOMAIN mandates
        /\ \A x \in DOMAIN mandates' : mandates'[x] \in Mandate
    BY <1>1 DEF revoke, TypeOK, Mandate
  <2> QED BY <1>1, <2>1 DEF revoke, history, TypeOK
<1>2. ASSUME NEW m \in MandateId, pause(s, m)
      PROVE  TypeOK'
  <2>1. /\ DOMAIN mandates' = DOMAIN mandates
        /\ \A x \in DOMAIN mandates' : mandates'[x] \in Mandate
    BY <1>2 DEF pause, TypeOK, Mandate
  <2> QED BY <1>2, <2>1 DEF pause, history, TypeOK
<1>3. ASSUME NEW m \in MandateId, resume(s, m)
      PROVE  TypeOK'
  <2>1. m \in DOMAIN mandates /\ m \in DOMAIN consent
    BY <1>3 DEF resume, TypeOK
  <2>2. mandates[m].charge_seq \in Nat
    BY <2>1 DEF TypeOK, Mandate
  <2>3. Resumed(mandates[m]) \in Mandate
    <3>1. 0 \in U64
      BY TimeAssumption DEF U64
    <3>2. mandates[m] \in Mandate /\ clock \in U64
      BY <2>1 DEF TypeOK
    <3> QED BY <3>1, <3>2 DEF Resumed, Mandate
  <2>4. /\ DOMAIN mandates' = DOMAIN mandates
        /\ \A x \in DOMAIN mandates' : mandates'[x] \in Mandate
    BY <1>3, <2>3 DEF resume, TypeOK
  <2>5. resumes' \subseteq [mandate : DOMAIN consent', at : U64, seq : Nat]
    BY <1>3, <2>1, <2>2 DEF resume, TypeOK
  <2> QED BY <1>3, <2>4, <2>5 DEF resume, TypeOK
<1>4. ASSUME NEW m \in MandateId, close_mandate(s, m)
      PROVE  TypeOK'
  <2>1. /\ DOMAIN mandates' \subseteq DOMAIN mandates
        /\ \A x \in DOMAIN mandates' : mandates'[x] \in Mandate
    BY <1>4 DEF close_mandate, Delete, Restrict, TypeOK
  <2> QED BY <1>4, <2>1 DEF close_mandate, history, TypeOK
<1> QED BY <1>1, <1>2, <1>3, <1>4 DEF SubscriberCall

\* Every step keeps the types.
LEMMA TypeStep ==
    ASSUME TypeOK, [Next]_vars
    PROVE  TypeOK'
<1>1. CASE Tick
  BY <1>1, TimeAssumption DEF Tick, objects, history, TypeOK, U64
<1>2. CASE UNCHANGED vars
  BY <1>2 DEF vars, objects, history, TypeOK
<1>3. ASSUME NEW s \in Address,
             \/ AccountCall(s) \/ PlanCall(s) \/ AuthorizeCall(s)
             \/ ChargeCall(s) \/ SubscriberCall(s)
      PROVE  TypeOK'
  BY <1>3, AccountType, PlanType, AuthorizeType, ChargeType, SubscriberType
<1> QED BY <1>1, <1>2, <1>3 DEF Next

\* Every reachable state is well typed: no balance, total or cursor leaves the
\* range of a u64, and no call is made on an object that never existed.
THEOREM TypeCorrect == Spec => []TypeOK
BY InitType, TypeStep, PTL DEF Spec

-----------------------------------------------------------------------------
(* The inductive invariant.  A mandate still stands for what was signed; an *)
(* event's key is the charge_seq its caller saw; nothing is dated in the    *)
(* future, and the cursor of a FIXED mandate is past its charges and        *)
(* resumes.                                                                 *)

SignedFor(md, c) ==
    /\ md.merchant = c.merchant
    /\ md.total_budget = c.total_budget
    /\ md.expiry_ms = c.expiry_ms
    /\ md.not_before_ms = c.not_before_ms
    /\ md.max_per_charge = c.max_per_charge
    /\ md.mode = "FIXED" => /\ c.charger = Address
                            /\ c.interval_ms = md.interval_ms
    /\ md.mode = "PAYG" => /\ c.charger = {md.merchant, md.authorized_keeper}
                           /\ c.interval_ms = 0

Snapshots == \A m \in DOMAIN mandates : SignedFor(mandates[m], consent[m])

Keys == \A e \in charges : e.key # NoKey => e.key = e.seq - 1

Past ==
    /\ \A e \in charges : e.at <= clock
    /\ \A r \in resumes : r.at <= clock
    /\ \A m \in DOMAIN mandates : /\ mandates[m].last_charged_ms <= clock
                                  /\ mandates[m].window_start_ms <= clock

CursorIsPast ==
    \A m \in DOMAIN mandates :
        /\ \A r \in resumes :
              r.mandate = m => r.seq <= mandates[m].charge_seq
        /\ mandates[m].mode = "FIXED" =>
              /\ \A e \in charges :
                    e.mandate = m => e.at <= mandates[m].last_charged_ms
              /\ \A r \in resumes :
                    r.mandate = m => r.at <= mandates[m].last_charged_ms

IInv ==
    /\ TypeOK
    /\ WithinLimits
    /\ Snapshots
    /\ ChargesHonourConsent
    /\ BooksMatchEvents
    /\ Keys
    /\ Past
    /\ CursorIsPast
    /\ FixedCadence
    /\ PauseIsExemption

\* Init establishes the invariant.
LEMMA InitInv == Init => IInv
BY InitType
DEF Init, IInv, WithinLimits, Snapshots, ChargesHonourConsent, BooksMatchEvents,
    ChargesOf, Keys, Past, CursorIsPast, FixedCadence, PauseIsExemption

\* A step that leaves mandates and history alone lets time pass at most.
LEMMA QuietStep ==
    ASSUME IInv, TypeOK', UNCHANGED <<mandates, history>>, clock' >= clock
    PROVE  IInv'
<1>1. /\ WithinLimits' /\ Snapshots' /\ ChargesHonourConsent'
      /\ BooksMatchEvents' /\ Keys' /\ CursorIsPast'
      /\ FixedCadence' /\ PauseIsExemption'
  BY DEF IInv, WithinLimits, Snapshots, ChargesHonourConsent, BooksMatchEvents,
         ChargesOf, Keys, CursorIsPast, FixedCadence, PauseIsExemption, history
<1>2. clock \in Int /\ clock' \in Int
  BY DEF IInv, TypeOK, U64
<1>3. /\ \A e \in charges : e.at \in Int
      /\ \A r \in resumes : r.at \in Int
      /\ \A m \in DOMAIN mandates : /\ mandates[m].last_charged_ms \in Int
                                    /\ mandates[m].window_start_ms \in Int
  BY DEF IInv, TypeOK, Charged, Mandate, U64
<1>4. Past'
  BY <1>2, <1>3 DEF IInv, Past, history
<1> QED BY <1>1, <1>4 DEF IInv

\* A new mandate has no history yet.
LEMMA NewMandateStep ==
    ASSUME IInv, TypeOK',
           NEW m \in MandateId \ DOMAIN consent, NEW md \in Mandate, NEW c,
           mandates' = Put(mandates, m, md), consent' = Put(consent, m, c),
           UNCHANGED <<clock, charges, resumes>>,
           SignedFor(md, c),
           md.spent_total = 0, md.window_spent = 0, md.refunded_total = 0,
           md.charge_seq = 0, md.last_charged_ms <= clock,
           md.window_start_ms = clock
    PROVE  IInv'
<1>1. /\ DOMAIN mandates' = DOMAIN mandates \cup {m}
      /\ mandates'[m] = md /\ consent'[m] = c
      /\ m \notin DOMAIN mandates
      /\ \A x \in DOMAIN mandates : mandates'[x] = mandates[x]
      /\ \A x \in DOMAIN consent : consent'[x] = consent[x]
  BY DEF Put, IInv, TypeOK
<1>2. /\ \A e \in charges : e.mandate \in DOMAIN consent /\ e.mandate # m
      /\ \A r \in resumes : r.mandate \in DOMAIN consent /\ r.mandate # m
      /\ DOMAIN mandates \subseteq DOMAIN consent
  BY DEF IInv, TypeOK
<1>3. md.total_budget >= 0 /\ md.rate_cap >= 0
  BY DEF Mandate, U64
<1>4. WithinLimits'
  BY <1>1, <1>3 DEF IInv, WithinLimits
<1>5. Snapshots'
  BY <1>1, <1>2 DEF IInv, Snapshots
<1>6. ChargesHonourConsent'
  BY <1>1, <1>2 DEF IInv, ChargesHonourConsent
<1>7. BooksMatchEvents'
  <2>1. {e.seq : e \in ChargesOf(m)} = 1 .. 0
    BY <1>2 DEF ChargesOf
  <2>2. \A x : ChargesOf(x)' = ChargesOf(x)
    BY DEF ChargesOf
  <2>3. ASSUME NEW x \in DOMAIN mandates'
        PROVE  /\ {e.seq : e \in ChargesOf(x)'} = 1 .. mandates'[x].charge_seq
               /\ mandates'[x].charge_seq = 0 => mandates'[x].spent_total = 0
               /\ \A e \in ChargesOf(x)' :
                     e.seq = mandates'[x].charge_seq
                       => e.spent_total = mandates'[x].spent_total
    <3>1. CASE x = m
      BY <3>1, <1>1, <1>2, <2>1, <2>2 DEF ChargesOf
    <3>2. CASE x # m
      BY <3>2, <1>1, <2>2 DEF IInv, BooksMatchEvents
    <3> QED BY <3>1, <3>2
  <2> QED BY <2>3 DEF IInv, BooksMatchEvents, ChargesOf
<1>8. Keys'
  BY DEF IInv, Keys
<1>9. Past'
  BY <1>1 DEF IInv, Past, TypeOK, U64
<1>10. CursorIsPast'
  BY <1>1, <1>2 DEF IInv, CursorIsPast
<1>11. FixedCadence'
  BY <1>1, <1>2 DEF IInv, FixedCadence
<1>12. PauseIsExemption'
  BY <1>1, <1>2 DEF IInv, PauseIsExemption
<1> QED BY <1>4, <1>5, <1>6, <1>7, <1>8, <1>9, <1>10, <1>11, <1>12 DEF IInv

\* A charge, by either entry: md is the mandate as it reaches settle.
LEMMA SettleStep ==
    ASSUME IInv, TypeOK',
           NEW m \in DOMAIN mandates, NEW md \in Mandate, NEW a, NEW s,
           NEW amt \in Nat, NEW key \in Int,
           settle(s, a, m, md, amt, key), s \in Address,
           SignedFor(md, consent[m]),
           md.spent_total = mandates[m].spent_total,
           md.refunded_total = mandates[m].refunded_total,
           md.charge_seq = mandates[m].charge_seq,
           md.mode = mandates[m].mode,
           md.window_spent <= md.rate_cap,
           clock >= md.not_before_ms, clock < md.expiry_ms,
           md.last_charged_ms <= clock, md.window_start_ms <= clock,
           md.mode = "FIXED" =>
             /\ key = NoKey
             /\ md.last_charged_ms = clock
             /\ clock >= mandates[m].last_charged_ms + md.interval_ms,
           md.mode = "PAYG" =>
             /\ key = md.charge_seq
             /\ s \in {md.merchant, md.authorized_keeper}
    PROVE  IInv'
<1> DEFINE new == [mandate |-> m, amount |-> amt,
                   spent_total |-> md.spent_total + amt,
                   seq |-> Spend(md, amt).charge_seq, by |-> s,
                   to |-> md.merchant, at |-> clock, key |-> key]
<1>1. /\ charges' = charges \cup {new}
      /\ mandates' = [mandates EXCEPT ![m] = Spend(md, amt)]
      /\ UNCHANGED <<clock, consent, resumes>>
  BY DEF settle
<1>2. /\ Spend(md, amt).charge_seq = md.charge_seq + 1
      /\ Spend(md, amt).spent_total = md.spent_total + amt
      /\ Spend(md, amt).refunded_total = md.refunded_total
      /\ Spend(md, amt).last_charged_ms = md.last_charged_ms
      /\ Spend(md, amt).window_start_ms = md.window_start_ms
      /\ Spend(md, amt).window_spent = md.window_spent
      /\ Spend(md, amt).rate_cap = md.rate_cap
      /\ Spend(md, amt).total_budget = md.total_budget
      /\ Spend(md, amt).mode = md.mode
      /\ SignedFor(md, consent[m]) => SignedFor(Spend(md, amt), consent[m])
  BY DEF Spend, Mandate, SignedFor
<1>3. /\ new.mandate = m /\ new.amount = amt /\ new.by = s
      /\ new.spent_total = md.spent_total + amt
      /\ new.seq = md.charge_seq + 1
      /\ new.to = md.merchant /\ new.at = clock /\ new.key = key
  BY <1>2
<1>4. /\ DOMAIN mandates' = DOMAIN mandates
      /\ mandates'[m] = Spend(md, amt)
      /\ \A x \in DOMAIN mandates : x # m => mandates'[x] = mandates[x]
  BY <1>1
<1> HIDE DEF new
<1>5. /\ md.charge_seq \in Nat /\ md.spent_total \in Nat
      /\ md.refunded_total \in Nat /\ md.mode \in {"FIXED", "PAYG"}
      /\ clock \in Nat
      /\ md.last_charged_ms \in Nat /\ md.interval_ms \in Nat
      /\ mandates[m].last_charged_ms \in Nat
  BY DEF Mandate, IInv, TypeOK, U64
<1>6. \A e \in charges : /\ e.seq \in Nat /\ e.at \in Nat
                         /\ e.mandate = m => e.seq <= md.charge_seq
  <2>1. \A e \in charges : e.seq \in Nat /\ e.at \in Nat
    BY DEF IInv, TypeOK, Charged, U64
  <2>2. ASSUME NEW e \in charges, e.mandate = m
        PROVE  e.seq <= md.charge_seq
    <3>1. e.seq \in {f.seq : f \in ChargesOf(m)}
      BY <2>2 DEF ChargesOf
    <3>2. e.seq \in 1 .. md.charge_seq
      BY <3>1 DEF IInv, BooksMatchEvents
    <3> QED BY <3>2, <1>5
  <2> QED BY <2>1, <2>2
<1>7. WithinLimits'
  <2>1. md.spent_total + amt <= md.total_budget
    BY DEF settle
  <2>2. md.refunded_total <= md.spent_total + amt
    BY <1>5 DEF IInv, WithinLimits
  <2> QED BY <1>2, <1>4, <2>1, <2>2 DEF IInv, WithinLimits
<1>8. Snapshots'
  BY <1>1, <1>2, <1>4 DEF IInv, Snapshots
<1>9. ChargesHonourConsent'
  <2>1. /\ md.spent_total + amt <= md.total_budget
        /\ amt <= md.max_per_charge
    BY DEF settle
  <2>2. s \in consent[m].charger
    BY <1>5 DEF SignedFor
  <2> QED BY <1>1, <1>3, <2>1, <2>2
          DEF IInv, ChargesHonourConsent, SignedFor
<1>10. BooksMatchEvents'
  <2>1. \A e \in charges', f \in charges' :
           e.mandate = f.mandate /\ e.seq = f.seq => e = f
    BY <1>1, <1>3, <1>5, <1>6 DEF IInv, BooksMatchEvents
  <2>2. ASSUME NEW e \in charges', NEW f \in charges',
               e.mandate = f.mandate, f.seq = e.seq + 1
        PROVE  f.spent_total = e.spent_total + f.amount
    <3>1. CASE e \in charges /\ f \in charges
      BY <2>2, <3>1 DEF IInv, BooksMatchEvents
    <3>2. CASE e \in charges /\ f = new
      <4>1. e \in ChargesOf(m)
        BY <2>2, <3>2, <1>3 DEF ChargesOf
      <4>2. e.seq = md.charge_seq
        <5>1. f.seq = md.charge_seq + 1 /\ f.seq = e.seq + 1
          BY <2>2, <3>2, <1>3
        <5>2. e.seq \in Nat /\ md.charge_seq \in Nat
          BY <3>2, <1>5, <1>6
        <5> QED BY <5>1, <5>2
      <4>3. e.spent_total = md.spent_total
        BY <4>1, <4>2 DEF IInv, BooksMatchEvents
      <4> QED BY <4>3, <3>2, <1>3
    <3>3. CASE e = new
      BY <2>2, <3>3, <1>1, <1>3, <1>5, <1>6
    <3> QED BY <3>1, <3>2, <3>3, <1>1
  <2>3. ASSUME NEW x \in DOMAIN mandates', x # m
        PROVE  /\ {e.seq : e \in ChargesOf(x)'} = 1 .. mandates'[x].charge_seq
               /\ mandates'[x].charge_seq = 0 => mandates'[x].spent_total = 0
               /\ \A e \in ChargesOf(x)' :
                     e.seq = mandates'[x].charge_seq
                       => e.spent_total = mandates'[x].spent_total
    <3>1. ChargesOf(x)' = ChargesOf(x)
      BY <2>3, <1>1, <1>3 DEF ChargesOf
    <3> QED BY <2>3, <3>1, <1>4 DEF IInv, BooksMatchEvents
  <2>4. ChargesOf(m)' = ChargesOf(m) \cup {new}
    BY <1>1, <1>3 DEF ChargesOf
  <2>5. {e.seq : e \in ChargesOf(m)'} = 1 .. (md.charge_seq + 1)
    <3>1. {e.seq : e \in ChargesOf(m)} = 1 .. md.charge_seq
      BY DEF IInv, BooksMatchEvents
    <3>2. {e.seq : e \in ChargesOf(m)'}
            = {e.seq : e \in ChargesOf(m)} \cup {md.charge_seq + 1}
      BY <2>4, <1>3
    <3>3. 1 .. (md.charge_seq + 1) = (1 .. md.charge_seq)
                                        \cup {md.charge_seq + 1}
      BY <1>5
    <3> QED BY <3>1, <3>2, <3>3
  <2>6. \A e \in ChargesOf(m)' :
           e.seq = md.charge_seq + 1 => e.spent_total = md.spent_total + amt
    BY <2>4, <1>3, <1>5, <1>6 DEF ChargesOf
  <2>7. mandates'[m].charge_seq = md.charge_seq + 1
        /\ mandates'[m].spent_total = md.spent_total + amt
    BY <1>2, <1>4
  <2>8. md.charge_seq + 1 # 0
    BY <1>5
  <2> QED BY <2>1, <2>2, <2>3, <2>5, <2>6, <2>7, <2>8 DEF BooksMatchEvents
<1>11. Keys'
  BY <1>1, <1>3, <1>5 DEF IInv, Keys, NoKey
<1>12. Past'
  BY <1>1, <1>2, <1>3, <1>4, <1>5 DEF IInv, Past
<1>13. CursorIsPast'
  <2>1. ASSUME NEW x \in DOMAIN mandates', x # m
        PROVE  /\ \A r \in resumes' :
                     r.mandate = x => r.seq <= mandates'[x].charge_seq
               /\ mandates'[x].mode = "FIXED" =>
                     /\ \A e \in charges' :
                           e.mandate = x => e.at <= mandates'[x].last_charged_ms
                     /\ \A r \in resumes' :
                           r.mandate = x => r.at <= mandates'[x].last_charged_ms
    BY <2>1, <1>1, <1>3, <1>4 DEF IInv, CursorIsPast
  <2>2. \A r \in resumes : r.seq \in Nat /\ r.at \in Nat
    BY DEF IInv, TypeOK, U64
  <2>3. \A r \in resumes : r.mandate = m => r.seq <= md.charge_seq + 1
    BY <2>2, <1>5 DEF IInv, CursorIsPast
  <2>4. md.mode = "FIXED" =>
           /\ \A e \in charges' : e.at <= md.last_charged_ms
           /\ \A r \in resumes' : r.at <= md.last_charged_ms
    BY <1>1, <1>3, <1>5 DEF IInv, Past
  <2> QED BY <2>1, <2>3, <2>4, <1>1, <1>2, <1>4 DEF CursorIsPast
<1>14. \A f \in charges : f.mandate = m => clock >= f.at + consent[m].interval_ms
  <2> SUFFICES ASSUME NEW f \in charges, f.mandate = m
               PROVE  clock >= f.at + consent[m].interval_ms
    OBVIOUS
  <2>1. CASE md.mode = "FIXED"
    <3>1. f.at <= mandates[m].last_charged_ms
      BY <2>1 DEF IInv, CursorIsPast
    <3>2. consent[m].interval_ms = md.interval_ms
      BY <2>1 DEF SignedFor
    <3> QED BY <3>1, <3>2, <2>1, <1>5, <1>6
  <2>2. CASE md.mode = "PAYG"
    BY <2>2, <1>5, <1>6 DEF IInv, Past, SignedFor
  <2> QED BY <2>1, <2>2, <1>5
<1>15. FixedCadence'
  BY <1>1, <1>3, <1>5, <1>6, <1>14 DEF IInv, FixedCadence
<1>16. \A r \in resumes : r.mandate = m => clock >= r.at + consent[m].interval_ms
  <2> SUFFICES ASSUME NEW r \in resumes, r.mandate = m
               PROVE  clock >= r.at + consent[m].interval_ms
    OBVIOUS
  <2>0. r.at \in Nat
    BY DEF IInv, TypeOK, U64
  <2>1. CASE md.mode = "FIXED"
    <3>1. r.at <= mandates[m].last_charged_ms
      BY <2>1 DEF IInv, CursorIsPast
    <3>2. consent[m].interval_ms = md.interval_ms
      BY <2>1 DEF SignedFor
    <3> QED BY <3>1, <3>2, <2>0, <2>1, <1>5
  <2>2. CASE md.mode = "PAYG"
    BY <2>0, <2>2, <1>5 DEF IInv, Past, SignedFor
  <2> QED BY <2>1, <2>2, <1>5
<1>17. PauseIsExemption'
  BY <1>1, <1>3, <1>16 DEF IInv, PauseIsExemption
<1> QED BY <1>7, <1>8, <1>9, <1>10, <1>11, <1>12, <1>13, <1>15, <1>17 DEF IInv

\* A refund, and the subscriber's controls, change one mandate's own fields.
LEMMA ControlStep ==
    ASSUME IInv, TypeOK',
           NEW m \in DOMAIN mandates, NEW md \in Mandate, NEW new,
           mandates' = [mandates EXCEPT ![m] = md],
           resumes' = resumes \cup new,
           UNCHANGED <<clock, charges, consent>>,
           SignedFor(md, consent[m]),
           md.spent_total = mandates[m].spent_total,
           md.charge_seq = mandates[m].charge_seq,
           md.mode = mandates[m].mode,
           md.refunded_total <= md.spent_total,
           md.window_spent <= md.rate_cap,
           \/ /\ new = {}
              /\ md.last_charged_ms = mandates[m].last_charged_ms
              /\ md.window_start_ms = mandates[m].window_start_ms
           \/ /\ new = {[mandate |-> m, at |-> clock, seq |-> md.charge_seq]}
              /\ md.last_charged_ms = clock
              /\ md.window_start_ms = clock
    PROVE  IInv'
<1>1. /\ DOMAIN mandates' = DOMAIN mandates
      /\ mandates'[m] = md
      /\ \A x \in DOMAIN mandates : x # m => mandates'[x] = mandates[x]
  OBVIOUS
<1>2. /\ clock \in Nat /\ md.charge_seq \in Nat
      /\ \A e \in charges : e.at \in Nat /\ e.seq \in Nat
      /\ \A r \in resumes : r.at \in Nat /\ r.seq \in Nat
  BY DEF IInv, TypeOK, Charged, Mandate, U64
<1>3. \A r \in new : r.mandate = m /\ r.at = clock /\ r.seq = md.charge_seq
  OBVIOUS
<1>4. \A x \in DOMAIN mandates :
         /\ mandates'[x].total_budget = mandates[x].total_budget
         /\ mandates'[x].spent_total = mandates[x].spent_total
         /\ mandates'[x].charge_seq = mandates[x].charge_seq
  BY <1>1 DEF IInv, Snapshots, SignedFor
<1>5. WithinLimits'
  BY <1>1, <1>4 DEF IInv, WithinLimits
<1>6. Snapshots'
  BY <1>1 DEF IInv, Snapshots
<1>7. ChargesHonourConsent' /\ Keys' /\ FixedCadence'
  BY DEF IInv, ChargesHonourConsent, Keys, FixedCadence
<1>8. BooksMatchEvents'
  BY <1>1, <1>4 DEF IInv, BooksMatchEvents, ChargesOf
<1>9. Past'
  BY <1>1, <1>2, <1>3 DEF IInv, Past
<1>10. \A e \in charges : e.mandate = m => e.seq <= md.charge_seq
  <2> SUFFICES ASSUME NEW e \in charges, e.mandate = m
               PROVE  e.seq <= md.charge_seq
    OBVIOUS
  <2>1. e.seq \in {f.seq : f \in ChargesOf(m)}
    BY DEF ChargesOf
  <2>2. e.seq \in 1 .. md.charge_seq
    BY <2>1 DEF IInv, BooksMatchEvents
  <2> QED BY <2>2, <1>2
<1>11. CursorIsPast'
  <2>1. ASSUME NEW x \in DOMAIN mandates', x # m
        PROVE  /\ \A r \in resumes' :
                     r.mandate = x => r.seq <= mandates'[x].charge_seq
               /\ mandates'[x].mode = "FIXED" =>
                     /\ \A e \in charges' :
                           e.mandate = x => e.at <= mandates'[x].last_charged_ms
                     /\ \A r \in resumes' :
                           r.mandate = x => r.at <= mandates'[x].last_charged_ms
    BY <2>1, <1>1, <1>3 DEF IInv, CursorIsPast
  <2>2. \A r \in resumes' : r.mandate = m => r.seq <= md.charge_seq
    BY <1>2, <1>3 DEF IInv, CursorIsPast
  <2>3. CASE new = {} /\ md.last_charged_ms = mandates[m].last_charged_ms
    BY <2>1, <2>2, <2>3, <1>1 DEF IInv, CursorIsPast
  <2>4. CASE md.last_charged_ms = clock
    <3>1. /\ \A e \in charges' : e.at <= clock
          /\ \A r \in resumes' : r.at <= clock
      BY <1>2, <1>3 DEF IInv, Past
    <3> QED BY <3>1, <2>1, <2>2, <2>4, <1>1 DEF CursorIsPast
  <2> QED BY <2>3, <2>4
<1>12. PauseIsExemption'
  <2> SUFFICES ASSUME NEW r \in resumes', NEW e \in charges',
                      e.mandate = r.mandate, e.seq > r.seq
               PROVE  e.at >= r.at + consent[r.mandate].interval_ms
    BY DEF PauseIsExemption
  <2>1. CASE r \in resumes
    BY <2>1 DEF IInv, PauseIsExemption
  <2>2. CASE r \in new
    BY <2>2, <1>2, <1>3, <1>10
  <2> QED BY <2>1, <2>2
<1> QED BY <1>5, <1>6, <1>7, <1>8, <1>9, <1>11, <1>12 DEF IInv

\* A call that changes no mandate but by deleting it keeps the invariant.
LEMMA CloseStep ==
    ASSUME IInv, TypeOK',
           DOMAIN mandates' \subseteq DOMAIN mandates,
           \A x \in DOMAIN mandates' : mandates'[x] = mandates[x],
           UNCHANGED <<clock, history>>
    PROVE  IInv'
<1>1. WithinLimits' /\ Snapshots' /\ ChargesHonourConsent' /\ Keys'
      /\ FixedCadence' /\ PauseIsExemption' /\ Past' /\ CursorIsPast'
  BY DEF IInv, WithinLimits, Snapshots, ChargesHonourConsent, Keys, FixedCadence,
         PauseIsExemption, Past, CursorIsPast, history
<1>2. BooksMatchEvents'
  BY DEF IInv, BooksMatchEvents, ChargesOf, history
<1> QED BY <1>1, <1>2 DEF IInv

\* Every call is one of these steps.
LEMMA AuthorizeInv ==
    ASSUME IInv, TypeOK', NEW s \in Address, AuthorizeCall(s)
    PROVE  IInv'
<1>1. ASSUME NEW a \in AccountId, NEW plan \in Plan,
             NEW q \in [merchant : Address, charger : SUBSET Address,
                        price : U64, interval_ms : U64,
                        rate_cap : U64, rate_window_ms : U64],
             NEW l \in Limits, NEW max_per_charge,
             new_mandate(s, a, plan, q, l, max_per_charge),
             q.merchant = plan.merchant,
             plan.mode = "FIXED" => /\ max_per_charge = q.price
                                    /\ q.charger = Address
                                    /\ q.interval_ms = plan.interval_ms,
             plan.mode = "PAYG" => /\ max_per_charge = l.max_per_charge
                                   /\ q.charger = {plan.merchant, plan.keeper}
                                   /\ q.interval_ms = 0
      PROVE  IInv'
  <2> DEFINE not_before == clock + l.first_charge_after_ms
             md == [account_id |-> a, subscriber |-> s,
                merchant |-> plan.merchant, mode |-> plan.mode,
                price |-> plan.price, interval_ms |-> plan.interval_ms,
                last_charged_ms |-> FirstCursor(plan.interval_ms),
                rate_cap |-> plan.rate_cap,
                rate_window_ms |-> plan.rate_window_ms,
                window_start_ms |-> clock, window_spent |-> 0,
                authorized_keeper |-> plan.keeper,
                spent_total |-> 0, total_budget |-> l.total_budget,
                expiry_ms |-> l.expiry_ms, charge_seq |-> 0,
                refunded_total |-> 0, max_per_charge |-> max_per_charge,
                not_before_ms |-> not_before, status |-> "ACTIVE"]
             c == [subscriber |-> s, merchant |-> q.merchant,
                charger |-> q.charger, price |-> q.price,
                interval_ms |-> q.interval_ms, rate_cap |-> q.rate_cap,
                rate_window_ms |-> q.rate_window_ms,
                total_budget |-> l.total_budget, expiry_ms |-> l.expiry_ms,
                max_per_charge |-> IF plan.mode = "FIXED"
                                     THEN q.price ELSE l.max_per_charge,
                not_before_ms |-> not_before]
  <2>1. PICK m \in MandateId \ DOMAIN consent :
           mandates' = Put(mandates, m, md) /\ consent' = Put(consent, m, c)
    BY <1>1 DEF new_mandate
  <2>2. UNCHANGED <<clock, charges, resumes>>
    BY <1>1 DEF new_mandate
  <2>3. SignedFor(md, c)
    BY <1>1 DEF SignedFor, Plan
  <2>4. md.spent_total = 0 /\ md.window_spent = 0 /\ md.refunded_total = 0
        /\ md.charge_seq = 0 /\ md.window_start_ms = clock
    OBVIOUS
  <2>5. md.last_charged_ms <= clock
    <3>1. clock \in Nat /\ plan.interval_ms \in Nat
      BY DEF IInv, TypeOK, Plan, U64
    <3>2. FirstCursor(plan.interval_ms) <= clock
      BY <3>1 DEF FirstCursor
    <3> QED BY <3>2
  <2> HIDE DEF md, c
  <2>6. md \in Mandate
    BY <2>1 DEF Put, TypeOK
  <2> QED BY <2>1, <2>2, <2>3, <2>4, <2>5, <2>6, NewMandateStep
<1>2. 0 \in U64
  BY TimeAssumption DEF U64
<1>3. ASSUME NEW a \in AccountId, NEW p \in PlanId, NEW merchant \in Address,
             NEW l \in Limits, NEW t \in FixedTerms,
             authorize_fixed(s, a, p, t, merchant, l)
      PROVE  IInv'
  <2> DEFINE q == [merchant |-> merchant, charger |-> Address,
                   price |-> t.price, interval_ms |-> t.interval_ms,
                   rate_cap |-> 0, rate_window_ms |-> 0]
  <2>1. q \in [merchant : Address, charger : SUBSET Address,
               price : U64, interval_ms : U64,
               rate_cap : U64, rate_window_ms : U64]
    BY <1>2, InputAssumption
  <2>2. plans[p] \in Plan
    BY <1>3 DEF authorize_fixed, IInv, TypeOK
  <2>3. new_mandate(s, a, plans[p], q, l, plans[p].price)
    BY <1>3 DEF authorize_fixed
  <2>4. /\ plans[p].mode = "FIXED"
        /\ q.merchant = plans[p].merchant /\ plans[p].price = q.price
        /\ q.charger = Address /\ q.interval_ms = plans[p].interval_ms
    BY <1>3 DEF authorize_fixed, EchoesFixed
  <2> HIDE DEF q
  <2> QED BY <2>1, <2>2, <2>3, <2>4, <1>1
<1>4. ASSUME NEW a \in AccountId, NEW p \in PlanId, NEW merchant \in Address,
             NEW l \in Limits, NEW t \in PaygTerms, NEW keeper \in Keeper,
             authorize_metered(s, a, p, t, merchant, keeper, l)
      PROVE  IInv'
  <2> DEFINE q == [merchant |-> merchant, charger |-> {merchant, keeper},
                   price |-> 0, interval_ms |-> 0,
                   rate_cap |-> t.rate_cap,
                   rate_window_ms |-> t.rate_window_ms]
  <2>1. q \in [merchant : Address, charger : SUBSET Address,
               price : U64, interval_ms : U64,
               rate_cap : U64, rate_window_ms : U64]
    BY <1>2, InputAssumption
  <2>2. plans[p] \in Plan
    BY <1>4 DEF authorize_metered, IInv, TypeOK
  <2>3. new_mandate(s, a, plans[p], q, l, l.max_per_charge)
    BY <1>4 DEF authorize_metered
  <2>4. /\ plans[p].mode = "PAYG"
        /\ q.merchant = plans[p].merchant
        /\ q.charger = {plans[p].merchant, plans[p].keeper}
        /\ q.interval_ms = 0
    BY <1>4 DEF authorize_metered, EchoesMetered
  <2> HIDE DEF q
  <2> QED BY <2>1, <2>2, <2>3, <2>4, <1>1
<1> QED BY <1>3, <1>4 DEF AuthorizeCall

\* A charge of either mode keeps the invariant.
LEMMA ChargeInv ==
    ASSUME IInv, TypeOK', NEW s \in Address, ChargeCall(s)
    PROVE  IInv'
<1>0. \A amt \in Amount : amt \in Nat
  BY InputAssumption DEF U64
<1>1. ASSUME NEW a \in AccountId, NEW m \in MandateId, NEW amt \in Amount,
             charge(s, a, m, amt)
      PROVE  IInv'
  <2> DEFINE md == [mandates[m] EXCEPT !.last_charged_ms = Cursor(mandates[m])]
  <2>1. m \in DOMAIN mandates
    BY <1>1 DEF charge, Chargeable, DrawsOn
  <2>2. mandates[m] \in Mandate /\ clock \in Nat /\ clock \in U64
    BY <2>1 DEF IInv, TypeOK, U64
  <2>3. md \in Mandate
    BY <2>2 DEF Mandate, Cursor
  <2>4. settle(s, a, m, md, amt, NoKey) /\ NoKey \in Int
    BY <1>1 DEF charge, NoKey
  <2>5. SignedFor(mandates[m], consent[m]) => SignedFor(md, consent[m])
    BY <2>2 DEF SignedFor, Mandate
  <2>6. /\ md.spent_total = mandates[m].spent_total
        /\ md.refunded_total = mandates[m].refunded_total
        /\ md.charge_seq = mandates[m].charge_seq
        /\ md.mode = mandates[m].mode
        /\ md.window_spent = mandates[m].window_spent
        /\ md.rate_cap = mandates[m].rate_cap
        /\ md.not_before_ms = mandates[m].not_before_ms
        /\ md.expiry_ms = mandates[m].expiry_ms
        /\ md.interval_ms = mandates[m].interval_ms
        /\ md.window_start_ms = mandates[m].window_start_ms
        /\ md.last_charged_ms = clock
    BY <2>2 DEF Mandate, Cursor
  <2> HIDE DEF md
  <2>7. /\ mandates[m].mode = "FIXED"
        /\ clock >= mandates[m].not_before_ms
        /\ clock < mandates[m].expiry_ms
        /\ clock >= mandates[m].last_charged_ms + mandates[m].interval_ms
    BY <1>1 DEF charge, Chargeable
  <2>8. /\ SignedFor(mandates[m], consent[m])
        /\ mandates[m].window_spent <= mandates[m].rate_cap
        /\ mandates[m].window_start_ms <= clock
    BY <2>1 DEF IInv, Snapshots, WithinLimits, Past
  <2>9. clock <= clock
    BY <2>2
  <2> QED BY <1>0, <2>1, <2>3, <2>4, <2>5, <2>6, <2>7, <2>8, <2>9, SettleStep
<1>2. ASSUME NEW a \in AccountId, NEW m \in MandateId, NEW amt \in Amount,
             NEW seq \in 0 .. MaxCharges, charge_metered(s, a, m, amt, seq)
      PROVE  IInv'
  <2> DEFINE rolled == RollWindow(mandates[m])
             md == [rolled EXCEPT !.window_spent = @ + amt]
  <2>1. m \in DOMAIN mandates
    BY <1>2 DEF charge_metered, Chargeable, DrawsOn
  <2>2. mandates[m] \in Mandate /\ clock \in Nat /\ clock \in U64
    BY <2>1 DEF IInv, TypeOK, U64
  <2>3. rolled \in Mandate
    BY <2>2, RollWindowType
  <2>4. rolled.window_spent + amt <= rolled.rate_cap /\ settle(s, a, m, md, amt, seq)
    BY <1>2 DEF charge_metered, UnderCap
  <2>5. /\ rolled.spent_total = mandates[m].spent_total
        /\ rolled.refunded_total = mandates[m].refunded_total
        /\ rolled.charge_seq = mandates[m].charge_seq
        /\ rolled.mode = mandates[m].mode
        /\ rolled.not_before_ms = mandates[m].not_before_ms
        /\ rolled.expiry_ms = mandates[m].expiry_ms
        /\ rolled.merchant = mandates[m].merchant
        /\ rolled.authorized_keeper = mandates[m].authorized_keeper
        /\ rolled.last_charged_ms = mandates[m].last_charged_ms
        /\ rolled.window_start_ms \in {mandates[m].window_start_ms, clock}
        /\ SignedFor(mandates[m], consent[m]) => SignedFor(rolled, consent[m])
    BY <2>2 DEF RollWindow, Mandate, SignedFor
  <2> HIDE DEF rolled
  <2>6. rolled.window_spent + amt \in U64
    BY <1>0, <2>3, <2>4, TimeAssumption DEF Mandate, U64
  <2>7. md \in Mandate
    BY <2>3, <2>6 DEF Mandate
  <2>8. /\ md.spent_total = rolled.spent_total
        /\ md.refunded_total = rolled.refunded_total
        /\ md.charge_seq = rolled.charge_seq
        /\ md.mode = rolled.mode
        /\ md.not_before_ms = rolled.not_before_ms
        /\ md.expiry_ms = rolled.expiry_ms
        /\ md.merchant = rolled.merchant
        /\ md.authorized_keeper = rolled.authorized_keeper
        /\ md.last_charged_ms = rolled.last_charged_ms
        /\ md.window_start_ms = rolled.window_start_ms
        /\ md.window_spent <= md.rate_cap
        /\ SignedFor(rolled, consent[m]) => SignedFor(md, consent[m])
    BY <2>3, <2>4 DEF Mandate, SignedFor
  <2> HIDE DEF md
  <2>9. /\ mandates[m].mode = "PAYG"
        /\ clock >= mandates[m].not_before_ms
        /\ clock < mandates[m].expiry_ms
        /\ s \in {mandates[m].merchant, mandates[m].authorized_keeper}
        /\ seq = mandates[m].charge_seq
    BY <1>2 DEF charge_metered, Chargeable, IsNext
  <2>10. /\ SignedFor(mandates[m], consent[m])
         /\ mandates[m].window_start_ms <= clock
         /\ mandates[m].last_charged_ms <= clock
         /\ clock <= clock
    BY <2>1, <2>2 DEF IInv, Snapshots, Past
  <2>11. md.last_charged_ms <= clock /\ md.window_start_ms <= clock
    BY <2>5, <2>8, <2>10
  <2>12. seq \in Int
    OBVIOUS
  <2>13. SignedFor(md, consent[m])
    BY <2>5, <2>8, <2>10
  <2> QED BY <1>0, <2>1, <2>4, <2>5, <2>7, <2>8, <2>9, <2>11, <2>12, <2>13,
             SettleStep
<1>3. ASSUME NEW a \in AccountId, NEW m \in MandateId, NEW amt \in Amount,
             refund(s, a, m, amt)
      PROVE  IInv'
  <2> DEFINE md == Refunded(mandates[m], amt)
  <2>1. m \in DOMAIN mandates
    BY <1>3 DEF refund, DrawsOn
  <2>2. mandates[m] \in Mandate
    BY <2>1 DEF IInv, TypeOK
  <2>3. /\ mandates' = [mandates EXCEPT ![m] = md]
        /\ UNCHANGED <<clock, charges, consent, resumes>>
    BY <1>3 DEF refund, history
  <2>4. mandates[m].refunded_total + amt <= mandates[m].spent_total
    BY <1>3 DEF refund, Refundable
  <2>5. /\ md.refunded_total = mandates[m].refunded_total + amt
        /\ md.spent_total = mandates[m].spent_total
        /\ md.charge_seq = mandates[m].charge_seq
        /\ md.mode = mandates[m].mode
        /\ md.window_spent = mandates[m].window_spent
        /\ md.rate_cap = mandates[m].rate_cap
        /\ md.last_charged_ms = mandates[m].last_charged_ms
        /\ md.window_start_ms = mandates[m].window_start_ms
        /\ SignedFor(mandates[m], consent[m]) => SignedFor(md, consent[m])
    BY <2>2 DEF Refunded, Mandate, SignedFor
  <2> HIDE DEF md
  <2>6. md \in Mandate
    BY <2>1, <2>3 DEF TypeOK
  <2>7. /\ SignedFor(mandates[m], consent[m])
        /\ mandates[m].window_spent <= mandates[m].rate_cap
    BY <2>1 DEF IInv, Snapshots, WithinLimits
  <2>8. resumes' = resumes \cup {}
    BY <2>3
  <2> QED BY <2>1, <2>3, <2>4, <2>5, <2>6, <2>7, <2>8, ControlStep
<1> QED BY <1>1, <1>2, <1>3 DEF ChargeCall

\* revoke, pause, resume and close_mandate keep the invariant.
LEMMA SubscriberInv ==
    ASSUME IInv, TypeOK', NEW s \in Address, SubscriberCall(s)
    PROVE  IInv'
<1>1. ASSUME NEW m \in MandateId, NEW status, m \in DOMAIN mandates,
             mandates' = [mandates EXCEPT ![m].status = status],
             UNCHANGED <<clock, history>>
      PROVE  IInv'
  <2> DEFINE md == [mandates[m] EXCEPT !.status = status]
  <2>1. mandates[m] \in Mandate
    BY <1>1 DEF IInv, TypeOK
  <2>2. mandates' = [mandates EXCEPT ![m] = md]
    BY <1>1
  <2>3. /\ md.refunded_total = mandates[m].refunded_total
        /\ md.spent_total = mandates[m].spent_total
        /\ md.charge_seq = mandates[m].charge_seq
        /\ md.mode = mandates[m].mode
        /\ md.window_spent = mandates[m].window_spent
        /\ md.rate_cap = mandates[m].rate_cap
        /\ md.last_charged_ms = mandates[m].last_charged_ms
        /\ md.window_start_ms = mandates[m].window_start_ms
        /\ SignedFor(mandates[m], consent[m]) => SignedFor(md, consent[m])
    BY <2>1 DEF Mandate, SignedFor
  <2> HIDE DEF md
  <2>4. md \in Mandate
    BY <1>1, <2>2 DEF TypeOK
  <2>5. /\ SignedFor(mandates[m], consent[m])
        /\ mandates[m].window_spent <= mandates[m].rate_cap
        /\ mandates[m].refunded_total <= mandates[m].spent_total
    BY <1>1 DEF IInv, Snapshots, WithinLimits
  <2>6. resumes' = resumes \cup {} /\ UNCHANGED <<clock, charges, consent>>
    BY <1>1 DEF history
  <2> QED BY <1>1, <2>2, <2>3, <2>4, <2>5, <2>6, ControlStep
<1>2. ASSUME NEW m \in MandateId, revoke(s, m) \/ pause(s, m)
      PROVE  IInv'
  BY <1>1, <1>2 DEF revoke, pause
<1>3. ASSUME NEW m \in MandateId, resume(s, m)
      PROVE  IInv'
  <2> DEFINE md == Resumed(mandates[m])
  <2>1. m \in DOMAIN mandates
    BY <1>3 DEF resume
  <2>2. mandates[m] \in Mandate
    BY <2>1 DEF IInv, TypeOK
  <2>3. /\ mandates' = [mandates EXCEPT ![m] = md]
        /\ UNCHANGED <<clock, charges, consent>>
        /\ resumes' = resumes \cup
             {[mandate |-> m, at |-> clock, seq |-> mandates[m].charge_seq]}
    BY <1>3 DEF resume
  <2>4. /\ md.refunded_total = mandates[m].refunded_total
        /\ md.spent_total = mandates[m].spent_total
        /\ md.charge_seq = mandates[m].charge_seq
        /\ md.mode = mandates[m].mode
        /\ md.window_spent = 0
        /\ md.rate_cap = mandates[m].rate_cap
        /\ md.last_charged_ms = clock
        /\ md.window_start_ms = clock
        /\ SignedFor(mandates[m], consent[m]) => SignedFor(md, consent[m])
    BY <2>2 DEF Resumed, Mandate, SignedFor
  <2> HIDE DEF md
  <2>5. md \in Mandate /\ 0 <= mandates[m].rate_cap
    BY <2>1, <2>2, <2>3 DEF TypeOK, Mandate, U64
  <2>6. /\ SignedFor(mandates[m], consent[m])
        /\ mandates[m].refunded_total <= mandates[m].spent_total
    BY <2>1 DEF IInv, Snapshots, WithinLimits
  <2> QED BY <2>1, <2>3, <2>4, <2>5, <2>6, ControlStep
<1>4. ASSUME NEW m \in MandateId, close_mandate(s, m)
      PROVE  IInv'
  <2>1. /\ DOMAIN mandates' \subseteq DOMAIN mandates
        /\ \A x \in DOMAIN mandates' : mandates'[x] = mandates[x]
    BY <1>4 DEF close_mandate, Delete, Restrict
  <2>2. UNCHANGED <<clock, history>>
    BY <1>4 DEF close_mandate
  <2> QED BY <2>1, <2>2, CloseStep
<1> QED BY <1>2, <1>3, <1>4 DEF SubscriberCall

\* Every step keeps the invariant.
LEMMA StepInv ==
    ASSUME IInv, [Next]_vars
    PROVE  IInv'
<1>1. TypeOK'
  BY TypeStep DEF IInv
<1>2. clock \in Int
  BY DEF IInv, TypeOK, U64
<1>3. CASE Tick
  BY <1>1, <1>2, <1>3, QuietStep DEF Tick, objects, history
<1>4. CASE UNCHANGED vars
  BY <1>1, <1>2, <1>4, QuietStep DEF vars, objects, history
<1>5. ASSUME NEW s \in Address, AccountCall(s) \/ PlanCall(s)
      PROVE  IInv'
  <2>1. UNCHANGED <<clock, mandates, history>>
    BY <1>5 DEF AccountCall, PlanCall, open_account, deposit, withdraw,
                withdraw_all, close_account, create_plan_fixed,
                create_plan_payg, NewPlan, deactivate_plan, close_plan
  <2> QED BY <1>1, <1>2, <2>1, QuietStep
<1>6. ASSUME NEW s \in Address,
             AuthorizeCall(s) \/ ChargeCall(s) \/ SubscriberCall(s)
      PROVE  IInv'
  BY <1>1, <1>6, AuthorizeInv, ChargeInv, SubscriberInv
<1> QED BY <1>3, <1>4, <1>5, <1>6 DEF Next

\* The books of every mandate fit its events, the subscriber's consent and
\* the clock in every reachable state of the contract.
THEOREM Invariant == Spec => []IInv
BY InitInv, StepInv, PTL DEF Spec

-----------------------------------------------------------------------------
(* What follows from the invariant.                                        *)

\* No order of charges, refunds, pauses and window changes takes a mandate
\* beyond its budget or its rate cap, or refunds more than was charged.
THEOREM LimitsHold == Spec => []WithinLimits
<1>1. IInv => WithinLimits
  BY DEF IInv
<1> QED BY <1>1, Invariant, PTL

\* Every charge is one the subscriber signed for, whoever sent it and whatever
\* became of the plan since.
THEOREM ConsentHonoured == Spec => []ChargesHonourConsent
<1>1. IInv => ChargesHonourConsent
  BY DEF IInv
<1> QED BY <1>1, Invariant, PTL

\* The Charged events of a mandate are its charge_seq and spent_total, spelled
\* out: gap-free, each once, with the running total.
THEOREM BooksMatch == Spec => []BooksMatchEvents
<1>1. IInv => BooksMatchEvents
  BY DEF IInv
<1> QED BY <1>1, Invariant, PTL

\* Two charges of a FIXED mandate are a whole interval apart: no caller catches
\* up on missed periods.
THEOREM CadenceKept == Spec => []FixedCadence
<1>1. IInv => FixedCadence
  BY DEF IInv
<1> QED BY <1>1, Invariant, PTL

\* After a resume a whole interval passes before the next charge: what fell due
\* during the pause is never collected.
THEOREM PausesExempt == Spec => []PauseIsExemption
<1>1. IInv => PauseIsExemption
  BY DEF IInv
<1> QED BY <1>1, Invariant, PTL

\* A transaction repeated with its sequence number charges once: the number is
\* the one before the event's, and no two events have the same.
THEOREM KeyedChargesAreIdempotent == Spec => []OneChargePerKey
<1>1. IInv => OneChargePerKey
  <2> SUFFICES ASSUME IInv, NEW e \in charges, NEW f \in charges,
                      e.mandate = f.mandate, e.key = f.key, e.key # NoKey
               PROVE  e = f
    BY DEF OneChargePerKey
  <2>1. e.seq \in Nat /\ f.seq \in Nat
    BY DEF IInv, TypeOK, Charged
  <2>2. e.seq = f.seq
    BY <2>1 DEF IInv, Keys
  <2> QED BY <2>2 DEF IInv, BooksMatchEvents
<1> QED BY <1>1, Invariant, PTL

-----------------------------------------------------------------------------
(* A mandate's life.                                                       *)

\* A mandate that stays as it is wanes.
LEMMA StayingWanes == \A md \in Mandate : Wanes(md, md)
BY DEF Wanes, Signed, Mandate, U64

\* When one mandate is replaced by one that wanes, all do.
LEMMA ChangedMandateWanes ==
    ASSUME TypeOK, NEW m \in DOMAIN mandates, NEW md,
           mandates' = [mandates EXCEPT ![m] = md],
           Wanes(mandates[m], md)
    PROVE  \A x \in DOMAIN mandates \cap DOMAIN mandates' :
              Wanes(mandates[x], mandates'[x])
<1>1. \A x \in DOMAIN mandates : mandates[x] \in Mandate
  BY DEF TypeOK
<1> QED BY <1>1, StayingWanes

\* No step gives a mandate more than it had.
LEMMA WaneStep ==
    ASSUME IInv, [Next]_vars
    PROVE  MandatesWane
<1>0. /\ \A m \in DOMAIN mandates : mandates[m] \in Mandate
      /\ \A amt \in Amount : amt \in Nat
      /\ TypeOK /\ clock \in Nat
  BY InputAssumption DEF IInv, TypeOK, U64
<1>1. ASSUME \A m \in DOMAIN mandates \cap DOMAIN mandates' :
                mandates'[m] = mandates[m]
      PROVE  MandatesWane
  BY <1>0, <1>1, StayingWanes DEF MandatesWane
<1>2. CASE Tick \/ UNCHANGED vars
  BY <1>1, <1>2 DEF Tick, vars, objects
<1>3. ASSUME NEW s \in Address, AccountCall(s) \/ PlanCall(s)
      PROVE  MandatesWane
  <2>1. UNCHANGED mandates
    BY <1>3 DEF AccountCall, PlanCall, open_account, deposit, withdraw,
                withdraw_all, close_account, create_plan_fixed,
                create_plan_payg, NewPlan, deactivate_plan, close_plan
  <2> QED BY <1>1, <2>1
<1>4. ASSUME NEW s \in Address, AuthorizeCall(s)
      PROVE  MandatesWane
  <2>1. ASSUME NEW a, NEW plan, NEW q, NEW l, NEW max_per_charge,
               new_mandate(s, a, plan, q, l, max_per_charge)
        PROVE  MandatesWane
    <3>1. PICK m \in MandateId \ DOMAIN consent :
             \E md : mandates' = Put(mandates, m, md)
      BY <2>1 DEF new_mandate
    <3>2. m \notin DOMAIN mandates
      BY <1>0 DEF TypeOK
    <3> QED BY <1>1, <3>1, <3>2 DEF Put
  <2>2. ASSUME NEW a, NEW p, NEW merchant, NEW l, NEW t,
               authorize_fixed(s, a, p, t, merchant, l)
        PROVE  MandatesWane
    BY <2>1, <2>2 DEF authorize_fixed
  <2>3. ASSUME NEW a, NEW p, NEW merchant, NEW l, NEW t, NEW keeper,
               authorize_metered(s, a, p, t, merchant, keeper, l)
        PROVE  MandatesWane
    BY <2>1, <2>3 DEF authorize_metered
  <2> QED BY <1>4, <2>2, <2>3 DEF AuthorizeCall
<1>5. ASSUME NEW s \in Address, NEW a \in AccountId, NEW m \in MandateId,
             NEW amt \in Amount, charge(s, a, m, amt)
      PROVE  MandatesWane
  <2> DEFINE md == [mandates[m] EXCEPT !.last_charged_ms = Cursor(mandates[m])]
  <2>1. /\ m \in DOMAIN mandates /\ mandates[m].status = "ACTIVE"
        /\ mandates' = [mandates EXCEPT ![m] = Spend(md, amt)]
    BY <1>5 DEF charge, Chargeable, DrawsOn, settle
  <2>2. mandates[m].last_charged_ms <= clock
    BY <2>1 DEF IInv, Past
  <2>3. mandates[m] \in Mandate
    BY <1>0, <2>1
  <2>4. /\ md \in Mandate
        /\ Wanes(mandates[m], md)
        /\ md.status = mandates[m].status
    <3>1. clock \in U64
      BY <1>0 DEF TypeOK
    <3> QED BY <1>0, <2>2, <2>3, <3>1 DEF Wanes, Signed, Mandate, Cursor, U64
  <2> HIDE DEF md
  <2>5. Wanes(mandates[m], Spend(md, amt))
    BY <1>0, <2>1, <2>3, <2>4 DEF Wanes, Signed, Spend, Mandate, U64
  <2> QED BY <1>0, <2>1, <2>5, ChangedMandateWanes DEF MandatesWane
<1>6. ASSUME NEW s \in Address, NEW a \in AccountId, NEW m \in MandateId,
             NEW amt \in Amount, NEW seq \in 0 .. MaxCharges,
             charge_metered(s, a, m, amt, seq)
      PROVE  MandatesWane
  <2> DEFINE rolled == RollWindow(mandates[m])
             md == [rolled EXCEPT !.window_spent = @ + amt]
  <2>1. /\ m \in DOMAIN mandates /\ mandates[m].status = "ACTIVE"
        /\ mandates' = [mandates EXCEPT ![m] = Spend(md, amt)]
    BY <1>6 DEF charge_metered, Chargeable, DrawsOn, settle
  <2>2. mandates[m].window_start_ms <= clock
    BY <2>1 DEF IInv, Past
  <2>3. mandates[m] \in Mandate
    BY <1>0, <2>1
  <2>4. /\ rolled \in Mandate
        /\ Wanes(mandates[m], rolled)
        /\ rolled.status = mandates[m].status
    <3>1. rolled \in Mandate
      BY <2>3, RollWindowType DEF IInv, TypeOK
    <3>2. CASE rolled = mandates[m]
      BY <3>1, <3>2, <2>3, StayingWanes
    <3>3. CASE rolled = [mandates[m] EXCEPT !.window_start_ms = clock,
                                            !.window_spent = 0]
      <4> HIDE DEF rolled
      <4> QED BY <3>1, <3>3, <2>2, <2>3, <1>0 DEF Wanes, Signed, Mandate, U64
    <3> QED BY <3>1, <3>2, <3>3 DEF RollWindow
  <2> HIDE DEF rolled
  <2>5. Wanes(mandates[m], Spend(md, amt))
    BY <1>0, <2>1, <2>3, <2>4 DEF Wanes, Signed, Spend, Mandate, U64
  <2> QED BY <1>0, <2>1, <2>5, ChangedMandateWanes DEF MandatesWane
<1>7. ASSUME NEW s \in Address, NEW a \in AccountId, NEW m \in MandateId,
             NEW amt \in Amount, refund(s, a, m, amt)
      PROVE  MandatesWane
  <2>1. /\ m \in DOMAIN mandates
        /\ mandates' = [mandates EXCEPT ![m] = Refunded(mandates[m], amt)]
    BY <1>7 DEF refund, DrawsOn
  <2>2. mandates[m] \in Mandate
    BY <1>0, <2>1
  <2>3. Wanes(mandates[m], Refunded(mandates[m], amt))
    BY <1>0, <2>2 DEF Wanes, Signed, Refunded, Mandate, U64
  <2> QED BY <1>0, <2>1, <2>3, ChangedMandateWanes DEF MandatesWane
<1>8. ASSUME NEW s \in Address, NEW m \in MandateId, revoke(s, m) \/ pause(s, m)
      PROVE  MandatesWane
  <2>1. PICK status \in {"REVOKED", "PAUSED"} :
           /\ m \in DOMAIN mandates
           /\ mandates' = [mandates EXCEPT ![m].status = status]
           /\ status = "PAUSED" => mandates[m].status = "ACTIVE"
    BY <1>8 DEF revoke, pause
  <2> DEFINE md == [mandates[m] EXCEPT !.status = status]
  <2>2. mandates[m] \in Mandate
    BY <1>0, <2>1
  <2>3. Wanes(mandates[m], md)
    BY <2>1, <2>2 DEF Wanes, Signed, Mandate, U64
  <2>4. mandates' = [mandates EXCEPT ![m] = md]
    BY <2>1
  <2> HIDE DEF md
  <2> QED BY <1>0, <2>1, <2>3, <2>4, ChangedMandateWanes DEF MandatesWane
<1>9. ASSUME NEW s \in Address, NEW m \in MandateId, resume(s, m)
      PROVE  MandatesWane
  <2>1. /\ m \in DOMAIN mandates /\ mandates[m].status = "PAUSED"
        /\ mandates' = [mandates EXCEPT ![m] = Resumed(mandates[m])]
    BY <1>9 DEF resume
  <2>2. /\ mandates[m].last_charged_ms <= clock
        /\ mandates[m].window_start_ms <= clock
    BY <2>1 DEF IInv, Past
  <2>3. mandates[m] \in Mandate
    BY <1>0, <2>1
  <2>4. Wanes(mandates[m], Resumed(mandates[m]))
    BY <2>1, <2>2, <2>3 DEF Wanes, Signed, Resumed, Mandate, U64
  <2> QED BY <1>0, <2>1, <2>4, ChangedMandateWanes DEF MandatesWane
<1>10. ASSUME NEW s \in Address, NEW m \in MandateId, close_mandate(s, m)
       PROVE  MandatesWane
  BY <1>1, <1>10 DEF close_mandate, Delete, Restrict
<1>11. ASSUME NEW s \in Address, ChargeCall(s) \/ SubscriberCall(s)
       PROVE  MandatesWane
  BY <1>5, <1>6, <1>7, <1>8, <1>9, <1>10, <1>11 DEF ChargeCall, SubscriberCall
<1> QED BY <1>2, <1>3, <1>4, <1>11 DEF Next

\* A mandate is only ever used up: no refund, resume or charge gives budget
\* back or moves a cursor back, and a revoked mandate stays so, uncharged.
THEOREM MandatesOnlyWane == Spec => MandateOnlyWanes
<1>1. IInv /\ [Next]_vars => [MandatesWane]_vars
  BY WaneStep
<1> QED BY <1>1, Invariant, PTL DEF Spec, MandateOnlyWanes

-----------------------------------------------------------------------------
(* Who takes money out of an account.                                      *)

\* A mandate draws on an account of its own subscriber: the account it names
\* is hers or is gone, and no other account ever gets its id.
Owned ==
    \A m \in DOMAIN mandates :
        LET a == mandates[m].account_id IN
        /\ a \in DOMAIN accounts \cup deleted
        /\ a \in DOMAIN accounts => accounts[a].owner = mandates[m].subscriber

\* The accounts keep their owners, and the mandates their accounts.
LEMMA OwnedIfKept ==
    ASSUME Owned,
           DOMAIN accounts \cup deleted \subseteq DOMAIN accounts' \cup deleted',
           \A a \in DOMAIN accounts' :
              \/ a \notin DOMAIN accounts \cup deleted
              \/ /\ a \in DOMAIN accounts
                 /\ accounts'[a].owner = accounts[a].owner,
           \A m \in DOMAIN mandates' :
              /\ m \in DOMAIN mandates
              /\ mandates'[m].account_id = mandates[m].account_id
              /\ mandates'[m].subscriber = mandates[m].subscriber
    PROVE  Owned'
BY DEF Owned

\* Every step keeps accounts and mandates tied to their owners.
LEMMA OwnedStep ==
    ASSUME TypeOK, Owned, [Next]_vars
    PROVE  Owned'
<1>0. /\ \A m \in DOMAIN mandates : mandates[m] \in Mandate
      /\ \A a \in DOMAIN accounts : accounts[a] \in Account
  BY DEF TypeOK
<1>1. CASE Tick \/ UNCHANGED vars
  BY <1>1 DEF Owned, Tick, vars, objects
<1>2. ASSUME NEW s \in Address, AccountCall(s)
      PROVE  Owned'
  <2>1. UNCHANGED mandates
    BY <1>2 DEF AccountCall, open_account, deposit, withdraw, withdraw_all,
                close_account
  <2>2. CASE open_account(s)
    BY <2>1, <2>2, OwnedIfKept DEF open_account, Put, Fresh
  <2>3. ASSUME NEW a \in AccountId, close_account(s, a)
        PROVE  Owned'
    BY <2>1, <2>3, OwnedIfKept DEF close_account, MayClose, Delete, Restrict
  <2>4. ASSUME NEW a \in AccountId, NEW amt,
               withdraw_all(s, a) \/ deposit(s, a, amt) \/ withdraw(s, a, amt)
        PROVE  Owned'
    <3>1. /\ DOMAIN accounts' = DOMAIN accounts /\ UNCHANGED deleted
          /\ \A x \in DOMAIN accounts : accounts'[x].owner = accounts[x].owner
      BY <1>0, <2>4 DEF withdraw_all, deposit, withdraw, Account
    <3> QED BY <2>1, <3>1, OwnedIfKept
  <2> QED BY <1>2, <2>2, <2>3, <2>4 DEF AccountCall
<1>3. ASSUME NEW s \in Address, PlanCall(s)
      PROVE  Owned'
  <2>1. UNCHANGED <<accounts, mandates>> /\ deleted \subseteq deleted'
    BY <1>3 DEF PlanCall, create_plan_fixed, create_plan_payg, NewPlan,
                deactivate_plan, close_plan
  <2> QED BY <2>1 DEF Owned
<1>4. ASSUME NEW s \in Address, AuthorizeCall(s)
      PROVE  Owned'
  <2>1. ASSUME NEW a \in DOMAIN accounts, NEW plan, NEW q, NEW l, NEW max,
               new_mandate(s, a, plan, q, l, max)
        PROVE  Owned'
    <3>1. PICK m \in MandateId \ DOMAIN consent :
             \E md : /\ mandates' = Put(mandates, m, md)
                     /\ md.account_id = a
                     /\ md.subscriber = s
      BY <2>1 DEF new_mandate
    <3>2. PICK md : /\ mandates' = Put(mandates, m, md)
                    /\ md.account_id = a
                    /\ md.subscriber = s
      BY <3>1
    <3>3. accounts[a].owner = s /\ UNCHANGED <<accounts, deleted>>
      BY <2>1 DEF new_mandate
    <3> QED BY <3>2, <3>3 DEF Owned, Put
  <2>2. ASSUME NEW a, NEW p, NEW merchant, NEW l, NEW t,
               authorize_fixed(s, a, p, t, merchant, l)
        PROVE  Owned'
    BY <2>1, <2>2 DEF authorize_fixed
  <2>3. ASSUME NEW a, NEW p, NEW merchant, NEW l, NEW t, NEW keeper,
               authorize_metered(s, a, p, t, merchant, keeper, l)
        PROVE  Owned'
    BY <2>1, <2>3 DEF authorize_metered
  <2> QED BY <1>4, <2>2, <2>3 DEF AuthorizeCall
<1>5. ASSUME NEW m \in DOMAIN mandates, NEW md,
             mandates' = [mandates EXCEPT ![m] = md],
             md.account_id = mandates[m].account_id,
             md.subscriber = mandates[m].subscriber,
             DOMAIN accounts' = DOMAIN accounts,
             \A x \in DOMAIN accounts : accounts'[x].owner = accounts[x].owner,
             UNCHANGED deleted
      PROVE  Owned'
  BY <1>5, OwnedIfKept
<1>6. ASSUME NEW s, NEW a, NEW m, NEW amt, charge(s, a, m, amt)
      PROVE  Owned'
  <2> DEFINE md == [mandates[m] EXCEPT !.last_charged_ms = Cursor(mandates[m])]
  <2>1. /\ m \in DOMAIN mandates /\ UNCHANGED deleted
        /\ mandates' = [mandates EXCEPT ![m] = Spend(md, amt)]
        /\ DOMAIN accounts' = DOMAIN accounts
        /\ \A x \in DOMAIN accounts : accounts'[x].owner = accounts[x].owner
    BY <1>0, <1>6 DEF charge, Chargeable, DrawsOn, settle, Debit, Account
  <2>2. mandates[m] \in Mandate
    BY <1>0, <2>1
  <2>3. /\ Spend(md, amt).account_id = mandates[m].account_id
        /\ Spend(md, amt).subscriber = mandates[m].subscriber
    BY <2>2 DEF Spend, Mandate
  <2> QED BY <1>5, <2>1, <2>3
<1>7. ASSUME NEW s, NEW a, NEW m, NEW amt, NEW seq,
             charge_metered(s, a, m, amt, seq)
      PROVE  Owned'
  <2> DEFINE rolled == RollWindow(mandates[m])
             md == [rolled EXCEPT !.window_spent = @ + amt]
  <2>1. /\ m \in DOMAIN mandates /\ UNCHANGED deleted
        /\ mandates' = [mandates EXCEPT ![m] = Spend(md, amt)]
        /\ DOMAIN accounts' = DOMAIN accounts
        /\ \A x \in DOMAIN accounts : accounts'[x].owner = accounts[x].owner
    BY <1>0, <1>7 DEF charge_metered, Chargeable, DrawsOn, settle, Debit, Account
  <2>2. rolled \in Mandate
    BY <1>0, <2>1, RollWindowType DEF TypeOK
  <2>3. /\ rolled.account_id = mandates[m].account_id
        /\ rolled.subscriber = mandates[m].subscriber
    BY <1>0, <2>1 DEF RollWindow, Mandate
  <2> HIDE DEF rolled
  <2>4. /\ Spend(md, amt).account_id = rolled.account_id
        /\ Spend(md, amt).subscriber = rolled.subscriber
    BY <2>2 DEF Spend, Mandate
  <2> QED BY <1>5, <2>1, <2>3, <2>4
<1>8. ASSUME NEW s, NEW a, NEW m, NEW amt, refund(s, a, m, amt)
      PROVE  Owned'
  <2>1. /\ m \in DOMAIN mandates /\ UNCHANGED deleted
        /\ mandates' = [mandates EXCEPT ![m] = Refunded(mandates[m], amt)]
        /\ DOMAIN accounts' = DOMAIN accounts
        /\ \A x \in DOMAIN accounts : accounts'[x].owner = accounts[x].owner
    BY <1>0, <1>8 DEF refund, DrawsOn, Account
  <2>2. /\ Refunded(mandates[m], amt).account_id = mandates[m].account_id
        /\ Refunded(mandates[m], amt).subscriber = mandates[m].subscriber
    BY <1>0, <2>1 DEF Refunded, Mandate
  <2> QED BY <1>5, <2>1, <2>2
<1>9. ASSUME NEW s, NEW m, SubscriberCall(s)
      PROVE  Owned'
  <2>1. ASSUME NEW x, revoke(s, x) \/ pause(s, x) \/ resume(s, x)
        PROVE  Owned'
    <3>1. x \in DOMAIN mandates /\ UNCHANGED <<accounts, deleted>>
      BY <2>1 DEF revoke, pause, resume
    <3>2. PICK md : /\ mandates' = [mandates EXCEPT ![x] = md]
                    /\ md \in {[mandates[x] EXCEPT !.status = "REVOKED"],
                               [mandates[x] EXCEPT !.status = "PAUSED"],
                               Resumed(mandates[x])}
      BY <2>1 DEF revoke, pause, resume
    <3>3. /\ md.account_id = mandates[x].account_id
          /\ md.subscriber = mandates[x].subscriber
      BY <1>0, <3>1, <3>2 DEF Resumed, Mandate
    <3> QED BY <1>5, <3>1, <3>2, <3>3
  <2>2. ASSUME NEW x, close_mandate(s, x)
        PROVE  Owned'
    BY <2>2 DEF close_mandate, Delete, Restrict, Owned
  <2> QED BY <1>9, <2>1, <2>2 DEF SubscriberCall
<1> QED BY <1>1, <1>2, <1>3, <1>4, <1>6, <1>7, <1>8, <1>9
        DEF Next, ChargeCall

\* A mandate always draws on an account of its own subscriber.
LEMMA OwnedAlways == Spec => []Owned
<1>1. Init => Owned
  BY DEF Init, Owned
<1> QED BY <1>1, OwnedStep, TypeCorrect, PTL DEF Spec

\* A balance falls only to its owner or to a charge of a mandate on it.
LEMMA DebitStep ==
    ASSUME IInv, Owned, [Next]_vars
    PROVE  DebitsPaidOut
<1>0. /\ \A a \in DOMAIN accounts : accounts[a].balance \in Nat
      /\ \A a \in DOMAIN accounts : accounts[a] \in Account
      /\ \A amt \in Amount : amt \in Nat
      /\ TypeOK
  BY InputAssumption DEF IInv, TypeOK, Account, U64
<1>1. ASSUME \A a \in DOMAIN accounts :
                /\ a \in DOMAIN accounts'
                /\ accounts'[a].balance = accounts[a].balance
      PROVE  DebitsPaidOut
  BY <1>0, <1>1 DEF DebitsPaidOut, Left
<1>2. CASE Tick \/ UNCHANGED vars
  BY <1>1, <1>2 DEF Tick, vars, objects
<1>3. ASSUME NEW s \in Address, PlanCall(s) \/ SubscriberCall(s)
      PROVE  DebitsPaidOut
  <2>1. UNCHANGED accounts
    BY <1>3 DEF PlanCall, create_plan_fixed, create_plan_payg, NewPlan,
                deactivate_plan, close_plan, SubscriberCall, revoke, pause,
                resume, close_mandate
  <2> QED BY <1>1, <2>1
<1>4. ASSUME NEW s \in Address, AuthorizeCall(s)
      PROVE  DebitsPaidOut
  <2>1. ASSUME NEW a, NEW p, NEW merchant, NEW l, NEW t,
               authorize_fixed(s, a, p, t, merchant, l)
        PROVE  UNCHANGED accounts
    BY <2>1 DEF authorize_fixed, new_mandate
  <2>2. ASSUME NEW a, NEW p, NEW merchant, NEW l, NEW t, NEW keeper,
               authorize_metered(s, a, p, t, merchant, keeper, l)
        PROVE  UNCHANGED accounts
    BY <2>2 DEF authorize_metered, new_mandate
  <2>3. UNCHANGED accounts
    BY <1>4, <2>1, <2>2 DEF AuthorizeCall
  <2> QED BY <1>1, <2>3
<1>5. ASSUME NEW s \in Address, open_account(s)
      PROVE  DebitsPaidOut
  BY <1>1, <1>5 DEF open_account, Put, Fresh
<1>6. ASSUME NEW s \in Address, NEW a \in AccountId, close_account(s, a)
      PROVE  DebitsPaidOut
  BY <1>0, <1>6 DEF close_account, MayClose, Delete, Restrict, DebitsPaidOut, Left
<1>7. ASSUME NEW s \in Address, NEW a \in AccountId, NEW amt \in Amount,
             deposit(s, a, amt)
      PROVE  DebitsPaidOut
  BY <1>0, <1>7 DEF deposit, DebitsPaidOut, Left, Account
<1>8. ASSUME NEW s \in Address, NEW a \in AccountId, NEW m \in MandateId,
             NEW amt \in Amount, refund(s, a, m, amt)
      PROVE  DebitsPaidOut
  BY <1>0, <1>8 DEF refund, DebitsPaidOut, Left, Account
<1>9. ASSUME NEW s \in Address, NEW a \in AccountId, NEW amt \in Nat,
             accounts' = [accounts EXCEPT ![a].balance = @ - amt],
             accounts[a].owner = s,
             a \in DOMAIN accounts,
             wallet' = [wallet EXCEPT ![s] = @ + amt],
             UNCHANGED charges
      PROVE  DebitsPaidOut
  <2>1. /\ DOMAIN accounts' = DOMAIN accounts
        /\ Left(a) = amt
        /\ \A x \in DOMAIN accounts : x # a => Left(x) = 0
    BY <1>0, <1>9 DEF Left, Account
  <2>2. wallet'[s] = wallet[s] + amt
    BY <1>0, <1>9 DEF TypeOK
  <2> QED BY <1>9, <2>1, <2>2 DEF DebitsPaidOut, PaidOut
<1>10. ASSUME NEW s \in Address, NEW a \in AccountId, NEW amt \in Amount,
              withdraw(s, a, amt)
       PROVE  DebitsPaidOut
  BY <1>0, <1>9, <1>10 DEF withdraw, MayWithdraw, Receive, history
<1>11. ASSUME NEW s \in Address, NEW a \in AccountId, withdraw_all(s, a)
       PROVE  DebitsPaidOut
  <2> DEFINE amt == accounts[a].balance
  <2>1. /\ a \in DOMAIN accounts /\ accounts[a].owner = s /\ amt \in Nat
        /\ wallet' = [wallet EXCEPT ![s] = @ + amt]
        /\ UNCHANGED charges
    BY <1>0, <1>11 DEF withdraw_all, MayWithdraw, Receive, history
  <2>2. accounts' = [accounts EXCEPT ![a].balance = @ - amt]
    <3>1. accounts' = [accounts EXCEPT ![a].balance = 0] /\ amt - amt = 0
      BY <1>11, <2>1 DEF withdraw_all
    <3> QED BY <3>1
  <2> QED BY <1>9, <2>1, <2>2
<1>12. ASSUME NEW s, NEW a, NEW m, NEW md, NEW amt \in Amount, NEW key,
              DrawsOn(m, a), settle(s, a, m, md, amt, key),
              Spend(md, amt).charge_seq = mandates[m].charge_seq + 1
       PROVE  DebitsPaidOut
  <2> DEFINE new == [mandate |-> m, amount |-> amt,
                     spent_total |-> md.spent_total + amt,
                     seq |-> Spend(md, amt).charge_seq, by |-> s,
                     to |-> md.merchant, at |-> clock, key |-> key]
  <2>1. /\ a \in DOMAIN accounts /\ m \in DOMAIN mandates
        /\ mandates[m].account_id = a
        /\ accounts' = [accounts EXCEPT ![a].balance = @ - amt]
        /\ charges' = charges \cup {new}
    BY <1>12 DEF DrawsOn, settle, Debit
  <2>2. accounts[a].owner = mandates[m].subscriber
    BY <2>1 DEF Owned
  <2>3. /\ new.amount = amt /\ new.mandate = m
        /\ new.seq = mandates[m].charge_seq + 1
    BY <1>12
  <2>4. /\ DOMAIN accounts' = DOMAIN accounts
        /\ Left(a) = amt
        /\ \A x \in DOMAIN accounts : x # a => Left(x) = 0
    BY <1>0, <2>1 DEF Left, Account
  <2> HIDE DEF new
  <2>5. new \notin charges
    <3> SUFFICES ASSUME new \in charges
                 PROVE  FALSE
      OBVIOUS
    <3>1. new.seq \in {e.seq : e \in ChargesOf(m)}
      BY <2>3 DEF ChargesOf
    <3>2. new.seq \in 1 .. mandates[m].charge_seq
      BY <2>1, <3>1 DEF IInv, BooksMatchEvents
    <3>3. mandates[m].charge_seq \in Nat
      BY <1>0, <2>1 DEF TypeOK, Mandate
    <3> QED BY <2>3, <3>2, <3>3
  <2> QED BY <2>1, <2>2, <2>3, <2>4, <2>5 DEF DebitsPaidOut, PaidOut
<1>13. ASSUME NEW s, NEW a, NEW m, NEW amt \in Amount, charge(s, a, m, amt)
       PROVE  DebitsPaidOut
  <2> DEFINE md == [mandates[m] EXCEPT !.last_charged_ms = Cursor(mandates[m])]
  <2>1. DrawsOn(m, a) /\ settle(s, a, m, md, amt, NoKey)
    BY <1>13 DEF charge, Chargeable
  <2>2. mandates[m] \in Mandate
    BY <1>0, <2>1 DEF DrawsOn, TypeOK
  <2>3. Spend(md, amt).charge_seq = mandates[m].charge_seq + 1
    BY <2>2 DEF Spend, Mandate
  <2> HIDE DEF md
  <2> QED BY <1>12, <2>1, <2>3
<1>14. ASSUME NEW s, NEW a, NEW m, NEW amt \in Amount, NEW seq,
              charge_metered(s, a, m, amt, seq)
       PROVE  DebitsPaidOut
  <2> DEFINE rolled == RollWindow(mandates[m])
             md == [rolled EXCEPT !.window_spent = @ + amt]
  <2>1. DrawsOn(m, a) /\ settle(s, a, m, md, amt, seq)
    BY <1>14 DEF charge_metered, Chargeable
  <2>2. mandates[m] \in Mandate
    BY <1>0, <2>1 DEF DrawsOn, TypeOK
  <2>3. rolled.charge_seq = mandates[m].charge_seq /\ rolled \in Mandate
    BY <1>0, <2>2, RollWindowType DEF RollWindow, Mandate, TypeOK
  <2> HIDE DEF rolled
  <2>4. Spend(md, amt).charge_seq = mandates[m].charge_seq + 1
    BY <2>3 DEF Spend, Mandate
  <2> HIDE DEF md
  <2> QED BY <1>12, <2>1, <2>4
<1>15. ASSUME NEW s \in Address, AccountCall(s)
       PROVE  DebitsPaidOut
  BY <1>5, <1>6, <1>7, <1>10, <1>11, <1>15 DEF AccountCall
<1>16. ASSUME NEW s \in Address, ChargeCall(s)
       PROVE  DebitsPaidOut
  BY <1>8, <1>13, <1>14, <1>16 DEF ChargeCall
<1> QED BY <1>2, <1>3, <1>4, <1>15, <1>16 DEF Next

\* Money leaves an account to its owner, or by a Charged event of a mandate
\* its owner signed for it; nobody else's mandate ever draws on it.
THEOREM DebitsAuthorized == Spec => DebitsAreAuthorized
<1>1. IInv /\ Owned /\ [Next]_vars => [DebitsPaidOut]_vars
  BY DebitStep
<1> QED BY <1>1, Invariant, OwnedAlways, PTL DEF Spec, DebitsAreAuthorized

-----------------------------------------------------------------------------
(* The money.  What moves between a wallet and an account leaves the one   *)
(* and enters the other; the sums are over finite sets because addresses   *)
(* are and because accounts are opened one at a time.                      *)

Balances == [a \in DOMAIN accounts |-> accounts[a].balance]

FundsInv ==
    /\ TypeOK
    /\ IsFiniteSet(DOMAIN accounts)
    /\ FundsConserved

\* The sums are sums of integers over finite sets.
LEMMA SumsAreInt ==
    ASSUME FundsInv
    PROVE  /\ SumFunction(wallet) = SumFunctionOnSet(wallet, Address)
           /\ SumFunction(Balances) = SumFunctionOnSet(Balances, DOMAIN accounts)
           /\ \A s \in Address : wallet[s] \in Int
           /\ \A a \in DOMAIN accounts : Balances[a] \in Int
           /\ SumFunction(wallet) \in Int
           /\ SumFunction(Balances) \in Int
<1>1. DOMAIN wallet = Address /\ \A s \in Address : wallet[s] \in Int
  BY DEF FundsInv, TypeOK
<1>2. /\ DOMAIN Balances = DOMAIN accounts
      /\ \A a \in DOMAIN accounts : Balances[a] \in Int
  BY DEF FundsInv, TypeOK, Balances, Account, U64
<1>3. /\ SumFunction(wallet) = SumFunctionOnSet(wallet, Address)
      /\ SumFunction(Balances) = SumFunctionOnSet(Balances, DOMAIN accounts)
  BY <1>1, <1>2 DEF SumFunction
<1>4. SumFunctionOnSet(wallet, Address) \in Int
  BY <1>1, AddressAssumption, SumInt
<1>5. SumFunctionOnSet(Balances, DOMAIN accounts) \in Int
  BY <1>2, SumInt DEF FundsInv
<1> QED BY <1>1, <1>2, <1>3, <1>4, <1>5

\* At the start there are no accounts.
LEMMA InitFunds == Init => FundsInv
<1> SUFFICES ASSUME Init PROVE FundsInv
  OBVIOUS
<1>1. TypeOK
  BY InitType
<1>2. accounts = <<>> /\ wallet = Supply
  BY DEF Init
<1>3. DOMAIN Balances = {} /\ DOMAIN accounts = {}
  BY <1>2 DEF Balances
<1>4. IsFiniteSet(DOMAIN accounts)
  BY <1>3, FS_EmptySet
<1>5. SumFunction(Balances) = 0
  BY <1>3, SumEmpty DEF SumFunction
<1>6. SumFunction(Supply) \in Int
  <2>1. DOMAIN Supply = Address /\ \A s \in Address : Supply[s] \in Int
    BY InputAssumption
  <2> QED BY <2>1, AddressAssumption, SumInt DEF SumFunction
<1> QED BY <1>1, <1>2, <1>4, <1>5, <1>6 DEF FundsInv, FundsConserved, Balances

\* d coins move from the account a to the wallet of s, or -d the other way.
LEMMA MoveFunds ==
    ASSUME FundsInv, TypeOK', NEW s \in Address, NEW a \in DOMAIN accounts,
           NEW d \in Int,
           wallet' = [wallet EXCEPT ![s] = wallet[s] + d],
           accounts' = [accounts EXCEPT ![a].balance = accounts[a].balance - d]
    PROVE  FundsInv'
<1>1. /\ DOMAIN accounts' = DOMAIN accounts
      /\ Balances[a] \in Int
      /\ Balances'[a] = Balances[a] - d
      /\ \A b \in DOMAIN accounts \ {a} : Balances'[b] = Balances[b]
  <2>1. accounts[a] \in Account
    BY DEF FundsInv, TypeOK
  <2> QED BY <2>1 DEF Balances, Account, U64
<1>2. /\ wallet'[s] = wallet[s] + d
      /\ \A t \in Address \ {s} : wallet'[t] = wallet[t]
      /\ DOMAIN wallet' = Address
  BY DEF FundsInv, TypeOK
<1>3. SumFunctionOnSet(wallet', Address)
        = SumFunctionOnSet(wallet, Address) - wallet[s] + wallet'[s]
  <2> DEFINE f == wallet
             g == wallet'
  <2>1. /\ \A x \in Address : f[x] \in Int
        /\ g[s] \in Int
        /\ \A x \in Address \ {s} : g[x] = f[x]
    BY <1>2, SumsAreInt
  <2> HIDE DEF f, g
  <2>2. SumFunctionOnSet(g, Address) = SumFunctionOnSet(f, Address) - f[s] + g[s]
    BY <2>1, AddressAssumption, SumUpdate
  <2> QED BY <2>2 DEF f, g
<1>4. SumFunctionOnSet(Balances', DOMAIN accounts)
        = SumFunctionOnSet(Balances, DOMAIN accounts)
            - Balances[a] + Balances'[a]
  <2>1. IsFiniteSet(DOMAIN accounts)
    BY DEF FundsInv
  <2>2. Balances'[a] \in Int
    BY <1>1
  <2>3. \A b \in DOMAIN accounts : Balances[b] \in Int
    BY SumsAreInt
  <2> DEFINE f == Balances
             g == Balances'
             S == DOMAIN accounts
  <2>4. /\ \A x \in S : f[x] \in Int
        /\ g[a] \in Int
        /\ \A x \in S \ {a} : g[x] = f[x]
    BY <1>1, <2>2, <2>3
  <2> HIDE DEF f, g, S
  <2>5. SumFunctionOnSet(g, S) = SumFunctionOnSet(f, S) - f[a] + g[a]
    BY <2>1, <2>4, SumUpdate DEF S
  <2> QED BY <2>5 DEF f, g, S
<1>5. /\ SumFunction(wallet') = SumFunctionOnSet(wallet', Address)
      /\ SumFunction(Balances') = SumFunctionOnSet(Balances', DOMAIN accounts)
  BY <1>1, <1>2 DEF SumFunction, Balances
<1>6. SumFunction(wallet') + SumFunction(Balances')
        = SumFunction(wallet) + SumFunction(Balances)
  BY <1>1, <1>2, <1>3, <1>4, <1>5, SumsAreInt
<1> QED BY <1>1, <1>6 DEF FundsInv, FundsConserved, Balances

\* A call that leaves wallets and accounts alone.
LEMMA NoFunds ==
    ASSUME FundsInv, TypeOK', UNCHANGED <<wallet, accounts>>
    PROVE  FundsInv'
BY DEF FundsInv, FundsConserved

\* An empty account is opened, or an empty one closed.
LEMMA EmptyAccount ==
    ASSUME FundsInv, TypeOK', UNCHANGED wallet, NEW a,
           \/ /\ a \notin DOMAIN accounts
              /\ DOMAIN accounts' = DOMAIN accounts \cup {a}
              /\ accounts'[a].balance = 0
           \/ /\ a \in DOMAIN accounts
              /\ DOMAIN accounts' = DOMAIN accounts \ {a}
              /\ accounts[a].balance = 0,
           \A b \in DOMAIN accounts \ {a} : accounts'[b] = accounts[b]
    PROVE  FundsInv'
<1> DEFINE f == Balances
           g == Balances'
           S == DOMAIN accounts \ {a}
<1>1. IsFiniteSet(DOMAIN accounts) /\ IsFiniteSet(S)
  BY FS_Subset DEF FundsInv
<1>2. /\ \A x \in S : f[x] \in Int /\ g[x] = f[x]
      /\ DOMAIN f = DOMAIN accounts
      /\ DOMAIN g = DOMAIN accounts'
      /\ a \in DOMAIN f => f[a] = 0
      /\ a \in DOMAIN g => g[a] = 0
  BY SumsAreInt DEF Balances
<1>3. /\ DOMAIN f \in {S, S \cup {a}}
      /\ DOMAIN g \in {S, S \cup {a}}
  BY <1>2
<1>4. IsFiniteSet(DOMAIN accounts')
  BY <1>1, FS_AddElement
<1> HIDE DEF f, g, S
<1>5. /\ SumFunctionOnSet(f, S) \in Int
      /\ SumFunctionOnSet(g, S) = SumFunctionOnSet(f, S)
  BY <1>1, <1>2, SumInt, SumSame
<1>6. ASSUME a \in DOMAIN f PROVE SumFunctionOnSet(f, S \cup {a}) = SumFunctionOnSet(f, S)
  <2>1. a \notin S
    BY DEF S
  <2>2. SumFunctionOnSet(f, S \cup {a}) = f[a] + SumFunctionOnSet(f, S)
    BY <1>1, <1>2, <1>6, <2>1, SumAdd
  <2> QED BY <2>2, <1>2, <1>5, <1>6
<1>7. ASSUME a \in DOMAIN g PROVE SumFunctionOnSet(g, S \cup {a}) = SumFunctionOnSet(g, S)
  <2>1. a \notin S /\ \A x \in S : g[x] \in Int
    BY <1>2 DEF S
  <2>2. SumFunctionOnSet(g, S \cup {a}) = g[a] + SumFunctionOnSet(g, S)
    BY <1>1, <1>2, <1>7, <2>1, SumAdd
  <2> QED BY <2>2, <1>2, <1>5, <1>7
<1>8. SumFunction(g) = SumFunction(f)
  BY <1>3, <1>5, <1>6, <1>7 DEF SumFunction
<1>9. SumFunction(Balances') = SumFunction(Balances)
  BY <1>8 DEF f, g
<1> QED BY <1>4, <1>9 DEF FundsInv, FundsConserved, Balances

\* Every call moves money, opens or closes an empty account, or does neither.
LEMMA FundsStep ==
    ASSUME FundsInv, [Next]_vars
    PROVE  FundsInv'
<1>1. TypeOK /\ TypeOK'
  BY TypeStep DEF FundsInv
<1>2. \A amt \in Amount : amt \in Int
  BY InputAssumption DEF U64
<1>3. ASSUME NEW s \in Address, open_account(s) PROVE FundsInv'
  <2>1. PICK a \in Fresh(AccountId, accounts) :
           accounts' = Put(accounts, a, [owner |-> s, balance |-> 0])
    BY <1>3 DEF open_account
  <2>2. /\ a \notin DOMAIN accounts
        /\ DOMAIN accounts' = DOMAIN accounts \cup {a}
        /\ accounts'[a].balance = 0
        /\ \A b \in DOMAIN accounts \ {a} : accounts'[b] = accounts[b]
    BY <2>1 DEF Fresh, Put
  <2>3. UNCHANGED wallet
    BY <1>3 DEF open_account
  <2> QED BY <1>1, <2>2, <2>3, EmptyAccount
<1>4. ASSUME NEW s \in Address, NEW a \in AccountId, close_account(s, a)
      PROVE  FundsInv'
  <2>1. /\ a \in DOMAIN accounts
        /\ accounts[a].balance = 0
        /\ DOMAIN accounts' = DOMAIN accounts \ {a}
        /\ \A b \in DOMAIN accounts \ {a} : accounts'[b] = accounts[b]
        /\ UNCHANGED wallet
    BY <1>4 DEF close_account, MayClose, Delete, Restrict
  <2> QED BY <1>1, <2>1, EmptyAccount
<1>5. ASSUME NEW s \in Address, NEW a \in AccountId, withdraw_all(s, a)
      PROVE  FundsInv'
  <2> DEFINE d == accounts[a].balance
  <2>1. a \in DOMAIN accounts /\ d \in Int /\ accounts[a] \in Account
    BY <1>1, <1>5 DEF withdraw_all, MayWithdraw, TypeOK, Account, U64
  <2>2. accounts' = [accounts EXCEPT ![a].balance = accounts[a].balance - d]
    <3>1. accounts[a].balance - d = 0
      BY <2>1
    <3> QED BY <1>5, <3>1 DEF withdraw_all
  <2>3. wallet' = [wallet EXCEPT ![s] = wallet[s] + d]
    BY <1>5 DEF withdraw_all, Receive
  <2> QED BY <1>1, <2>1, <2>2, <2>3, MoveFunds
<1>6. ASSUME NEW s \in Address, NEW a \in AccountId, NEW amt \in Amount,
             withdraw(s, a, amt)
      PROVE  FundsInv'
  <2>1. /\ a \in DOMAIN accounts
        /\ accounts' = [accounts EXCEPT ![a].balance = accounts[a].balance - amt]
        /\ wallet' = [wallet EXCEPT ![s] = wallet[s] + amt]
    BY <1>6 DEF withdraw, MayWithdraw, Receive
  <2> QED BY <1>1, <1>2, <2>1, MoveFunds
<1>7. ASSUME NEW s \in Address, NEW a \in DOMAIN accounts, NEW amt \in Amount,
             Pay(s, amt),
             accounts' = [accounts EXCEPT ![a].balance = @ + amt]
      PROVE  FundsInv'
  <2> DEFINE d == -amt
  <2>1. /\ d \in Int
        /\ wallet[s] \in Int /\ accounts[a] \in Account
        /\ wallet[s] + d = wallet[s] - amt
        /\ accounts[a].balance - d = accounts[a].balance + amt
    BY <1>1, <1>2 DEF TypeOK, Account, U64
  <2>2. /\ wallet' = [wallet EXCEPT ![s] = wallet[s] + d]
        /\ accounts' = [accounts EXCEPT ![a].balance = accounts[a].balance - d]
    BY <1>7, <2>1 DEF Pay
  <2> QED BY <1>1, <2>1, <2>2, MoveFunds
<1>8. ASSUME NEW s \in Address, NEW a \in AccountId, NEW amt \in Amount,
             deposit(s, a, amt)
      PROVE  FundsInv'
  BY <1>7, <1>8 DEF deposit
<1>9. ASSUME NEW s, NEW a \in AccountId, NEW m \in MandateId, NEW amt \in Amount,
             NEW md, NEW key,
             DrawsOn(m, a), md.merchant \in Address, settle(s, a, m, md, amt, key)
      PROVE  FundsInv'
  <2>1. /\ a \in DOMAIN accounts
        /\ accounts' = [accounts EXCEPT ![a].balance = accounts[a].balance - amt]
        /\ wallet' = [wallet EXCEPT ![md.merchant] = wallet[md.merchant] + amt]
    BY <1>9 DEF DrawsOn, settle, Debit, Receive
  <2> QED BY <1>1, <1>2, <1>9, <2>1, MoveFunds
<1>10. ASSUME NEW s \in Address, ChargeCall(s) PROVE FundsInv'
  <2>1. ASSUME NEW a \in AccountId, NEW m \in MandateId, NEW amt \in Amount,
               charge(s, a, m, amt)
        PROVE  FundsInv'
    <3> DEFINE md == [mandates[m] EXCEPT !.last_charged_ms = Cursor(mandates[m])]
    <3>1. DrawsOn(m, a) /\ settle(s, a, m, md, amt, NoKey)
      BY <2>1 DEF charge, Chargeable
    <3>2. md.merchant \in Address
      BY <1>1, <3>1 DEF DrawsOn, TypeOK, Mandate
    <3> HIDE DEF md
    <3> QED BY <1>9, <3>1, <3>2
  <2>2. ASSUME NEW a \in AccountId, NEW m \in MandateId, NEW amt \in Amount,
               NEW seq \in 0 .. MaxCharges, charge_metered(s, a, m, amt, seq)
        PROVE  FundsInv'
    <3> DEFINE rolled == RollWindow(mandates[m])
               md == [rolled EXCEPT !.window_spent = @ + amt]
    <3>1. DrawsOn(m, a) /\ settle(s, a, m, md, amt, seq)
      BY <2>2 DEF charge_metered, Chargeable
    <3>2. rolled \in Mandate
      BY <1>1, <3>1, RollWindowType DEF DrawsOn, TypeOK
    <3>3. md.merchant \in Address
      BY <3>2 DEF Mandate
    <3> HIDE DEF md
    <3> QED BY <1>9, <3>1, <3>3
  <2>3. ASSUME NEW a \in AccountId, NEW m \in MandateId, NEW amt \in Amount,
               refund(s, a, m, amt)
        PROVE  FundsInv'
    BY <1>7, <2>3 DEF refund, DrawsOn
  <2> QED BY <2>1, <2>2, <2>3, <1>10 DEF ChargeCall
<1>11. ASSUME UNCHANGED <<wallet, accounts>> PROVE FundsInv'
  BY <1>1, <1>11, NoFunds
<1>12. CASE Tick \/ UNCHANGED vars
  BY <1>11, <1>12 DEF Tick, vars, objects
<1>13. ASSUME NEW s \in Address, PlanCall(s) \/ SubscriberCall(s) PROVE FundsInv'
  <2>1. UNCHANGED <<wallet, accounts>>
    BY <1>13 DEF PlanCall, SubscriberCall, create_plan_fixed, create_plan_payg,
                 NewPlan, deactivate_plan, close_plan, revoke, pause, resume,
                 close_mandate
  <2> QED BY <2>1, <1>11
<1>14. ASSUME NEW s \in Address, AuthorizeCall(s) PROVE FundsInv'
  <2>1. ASSUME NEW a, NEW plan, NEW q, NEW l, NEW max_per_charge,
               new_mandate(s, a, plan, q, l, max_per_charge)
        PROVE  FundsInv'
    BY <1>11, <2>1 DEF new_mandate
  <2>2. ASSUME NEW a, NEW p, NEW merchant, NEW l, NEW t,
               authorize_fixed(s, a, p, t, merchant, l)
        PROVE  FundsInv'
    BY <2>1, <2>2 DEF authorize_fixed
  <2>3. ASSUME NEW a, NEW p, NEW merchant, NEW l, NEW t, NEW keeper,
               authorize_metered(s, a, p, t, merchant, keeper, l)
        PROVE  FundsInv'
    BY <2>1, <2>3 DEF authorize_metered
  <2> QED BY <2>2, <2>3, <1>14 DEF AuthorizeCall
<1>15. ASSUME NEW s \in Address, AccountCall(s) PROVE FundsInv'
  BY <1>3, <1>4, <1>5, <1>6, <1>8, <1>15 DEF AccountCall
<1> QED BY <1>10, <1>12, <1>13, <1>14, <1>15 DEF Next

\* No transaction creates or destroys money, in however many accounts, charges
\* and refunds it moves: wallets and balances together are always the supply.
THEOREM FundsAreConserved == Spec => []FundsConserved
<1>1. Spec => []FundsInv
  BY InitFunds, FundsStep, PTL DEF Spec
<1>2. FundsInv => FundsConserved
  BY DEF FundsInv
<1> QED BY <1>1, <1>2, PTL

-----------------------------------------------------------------------------
(* The rate cap over any span of time.  While a span as long as the window *)
(* is open, what was charged in it is in the current window, or else it is *)
(* the current window and one more for the window the span began in and    *)
(* for every resume since: a window that begins in the span by running out *)
(* outlasts it.  Once the span is over, nothing is added to it.            *)

Spent(m, t) == Total(InWindowFrom(m, t))
Restarts(m, t) == Cardinality(ResumesInWindowFrom(m, t))

RateTerms ==
    \A m \in DOMAIN mandates :
        /\ mandates[m].mode = "PAYG" =>
              /\ mandates[m].rate_cap = consent[m].rate_cap
              /\ mandates[m].rate_window_ms = consent[m].rate_window_ms
        /\ mandates[m].mode = "FIXED" => consent[m].rate_window_ms = 0

FreshAfterResume ==
    \A m \in DOMAIN mandates, r \in resumes :
        r.mandate = m /\ r.seq = mandates[m].charge_seq
          => mandates[m].window_spent = 0

\* Of a mandate whose window began at start and holds spent.
OpenBound(m, t, start, spent) ==
    /\ start < t => Spent(m, t) <= spent
    /\ Spent(m, t) <= spent + (1 + Restarts(m, t)) * consent[m].rate_cap

OpenSpans ==
    \A m \in DOMAIN mandates, t \in Nat :
        /\ mandates[m].mode = "PAYG"
        /\ clock < t + consent[m].rate_window_ms
        => OpenBound(m, t, mandates[m].window_start_ms, mandates[m].window_spent)

AllSpans ==
    \A m \in DOMAIN consent, t \in Nat :
        Spent(m, t) <= (2 + Restarts(m, t)) * consent[m].rate_cap

SpanInv ==
    /\ IInv
    /\ IsFiniteSet(charges)
    /\ IsFiniteSet(resumes)
    /\ RateTerms
    /\ FreshAfterResume
    /\ OpenSpans
    /\ AllSpans

\* The arithmetic of the bounds.
LEMMA CapArithmetic ==
    ASSUME NEW n \in Nat, NEW cap \in Nat
    PROVE  /\ (1 + n) * cap \in Nat
           /\ (2 + n) * cap = (1 + n) * cap + cap
           /\ (1 + (n + 1)) * cap = (1 + n) * cap + cap
           /\ (2 + (n + 1)) * cap = (2 + n) * cap + cap
OBVIOUS

\* What sums of charges are.
LEMMA TotalInt ==
    ASSUME NEW E, IsFiniteSet(E), \A e \in E : e.amount \in Int
    PROVE  Total(E) \in Int
<1> DEFINE f == [e \in E |-> e.amount]
<1>1. DOMAIN f = E /\ \A e \in E : f[e] \in Int
  OBVIOUS
<1> HIDE DEF f
<1>2. SumFunction(f) \in Int
  BY <1>1, SumInt DEF SumFunction
<1> QED BY <1>2 DEF f, Total

\* Nothing adds up to nothing.
LEMMA TotalEmpty == Total({}) = 0
<1> DEFINE f == [e \in {} |-> e.amount]
<1>1. DOMAIN f = {}
  OBVIOUS
<1>2. SumFunction(f) = 0
  BY <1>1, SumEmpty DEF SumFunction
<1> QED BY <1>2 DEF Total

\* One more charge adds its amount.
LEMMA TotalAdd ==
    ASSUME NEW E, IsFiniteSet(E), NEW e, e \notin E,
           \A x \in E \cup {e} : x.amount \in Int
    PROVE  Total(E \cup {e}) = Total(E) + e.amount
<1> DEFINE f == [x \in E |-> x.amount]
           g == [x \in E \cup {e} |-> x.amount]
<1>1. /\ DOMAIN f = E /\ DOMAIN g = E \cup {e}
      /\ \A x \in E : f[x] \in Int /\ g[x] = f[x] /\ g[x] \in Int
      /\ g[e] = e.amount /\ g[e] \in Int
  OBVIOUS
<1> HIDE DEF f, g
<1>2. SumFunctionOnSet(g, E \cup {e}) = g[e] + SumFunctionOnSet(g, E)
  BY <1>1, SumAdd
<1>3. SumFunctionOnSet(g, E) = SumFunctionOnSet(f, E)
  BY <1>1, SumSame
<1>4. SumFunctionOnSet(f, E) \in Int
  BY <1>1, SumInt
<1>5. SumFunction(g) = SumFunction(f) + e.amount
  BY <1>1, <1>2, <1>3, <1>4 DEF SumFunction
<1> QED BY <1>5 DEF f, g, Total

\* What the quantities of the bounds are.
LEMMA SpanTypes ==
    ASSUME SpanInv
    PROVE  /\ clock \in Nat
           /\ \A m \in DOMAIN consent :
                 consent[m].rate_cap \in Nat /\ consent[m].rate_window_ms \in Nat
           /\ \A m \in DOMAIN mandates :
                 /\ m \in DOMAIN consent
                 /\ mandates[m] \in Mandate
                 /\ mandates[m].window_start_ms \in Nat
                 /\ mandates[m].window_spent \in Nat
                 /\ mandates[m].rate_window_ms \in Nat
                 /\ mandates[m].charge_seq \in Nat
                 /\ mandates[m].window_start_ms <= clock
                 /\ mandates[m].mode \in {"FIXED", "PAYG"}
                 /\ mandates[m].mode = "PAYG" =>
                       mandates[m].window_spent <= consent[m].rate_cap
           /\ \A m, t : /\ IsFiniteSet(InWindowFrom(m, t))
                        /\ IsFiniteSet(ResumesInWindowFrom(m, t))
                        /\ Spent(m, t) \in Int
                        /\ Restarts(m, t) \in Nat
           /\ \A e \in charges : /\ e.at \in Nat /\ e.at <= clock
                                 /\ e.seq \in Nat /\ e.amount \in Nat
           /\ \A r \in resumes : /\ r.at \in Nat /\ r.at <= clock
                                 /\ r.seq \in Nat
<1>1. /\ clock \in Nat
      /\ \A m \in DOMAIN consent :
            consent[m].rate_cap \in Nat /\ consent[m].rate_window_ms \in Nat
  BY DEF SpanInv, IInv, TypeOK, Consent, U64
<1>2. ASSUME NEW m \in DOMAIN mandates
      PROVE  /\ m \in DOMAIN consent
             /\ mandates[m] \in Mandate
             /\ mandates[m].window_start_ms \in Nat
             /\ mandates[m].window_spent \in Nat
             /\ mandates[m].rate_window_ms \in Nat
             /\ mandates[m].charge_seq \in Nat
             /\ mandates[m].window_start_ms <= clock
             /\ mandates[m].mode \in {"FIXED", "PAYG"}
             /\ mandates[m].mode = "PAYG" =>
                   mandates[m].window_spent <= consent[m].rate_cap
  <2>1. m \in DOMAIN consent /\ mandates[m] \in Mandate
    BY DEF SpanInv, IInv, TypeOK
  <2>2. /\ mandates[m].window_start_ms <= clock
        /\ mandates[m].window_spent <= mandates[m].rate_cap
        /\ mandates[m].mode = "PAYG" => mandates[m].rate_cap = consent[m].rate_cap
    BY DEF SpanInv, IInv, Past, WithinLimits, RateTerms
  <2> QED BY <2>1, <2>2 DEF Mandate, U64
<1>3. \A e \in charges : /\ e.at \in Nat /\ e.at <= clock
                         /\ e.seq \in Nat /\ e.amount \in Nat
  BY DEF SpanInv, IInv, TypeOK, Past, Charged, U64
<1>4. \A r \in resumes : r.at \in Nat /\ r.at <= clock /\ r.seq \in Nat
  BY DEF SpanInv, IInv, TypeOK, Past, U64
<1>5. ASSUME NEW m, NEW t
      PROVE  /\ IsFiniteSet(InWindowFrom(m, t))
             /\ IsFiniteSet(ResumesInWindowFrom(m, t))
             /\ Spent(m, t) \in Int
             /\ Restarts(m, t) \in Nat
  <2>1. /\ InWindowFrom(m, t) \in SUBSET charges
        /\ ResumesInWindowFrom(m, t) \in SUBSET resumes
    BY DEF InWindowFrom, ResumesInWindowFrom, ChargesOf
  <2>2. /\ IsFiniteSet(InWindowFrom(m, t))
        /\ IsFiniteSet(ResumesInWindowFrom(m, t))
    BY <2>1, FS_Subset DEF SpanInv
  <2>3. \A e \in InWindowFrom(m, t) : e.amount \in Int
    BY <1>3, <2>1
  <2> QED BY <2>2, <2>3, TotalInt, FS_CardinalityType DEF Spent, Restarts
<1> QED BY <1>1, <1>2, <1>3, <1>4, <1>5

\* At the start nothing was signed and nothing charged.
LEMMA InitSpan == Init => SpanInv
<1> SUFFICES ASSUME Init PROVE SpanInv
  OBVIOUS
<1>1. IInv
  BY InitInv
<1>2. IsFiniteSet(charges) /\ IsFiniteSet(resumes)
  BY FS_EmptySet DEF Init
<1>3. RateTerms /\ FreshAfterResume /\ OpenSpans /\ AllSpans
  BY DEF Init, RateTerms, FreshAfterResume, OpenSpans, AllSpans
<1> QED BY <1>1, <1>2, <1>3 DEF SpanInv

\* A step that charges nothing and restarts no window: time may pass, and
\* mandates may close.
LEMMA QuietSpan ==
    ASSUME SpanInv, IInv',
           DOMAIN mandates' \subseteq DOMAIN mandates,
           \A m \in DOMAIN mandates' :
               /\ mandates'[m].mode = mandates[m].mode
               /\ mandates'[m].rate_cap = mandates[m].rate_cap
               /\ mandates'[m].rate_window_ms = mandates[m].rate_window_ms
               /\ mandates'[m].window_start_ms = mandates[m].window_start_ms
               /\ mandates'[m].window_spent = mandates[m].window_spent
               /\ mandates'[m].charge_seq = mandates[m].charge_seq,
           clock' \in {clock, clock + 1},
           UNCHANGED history
    PROVE  SpanInv'
<1>1. UNCHANGED <<charges, consent, resumes>>
  BY DEF history
<1>2. \A m, t : /\ Spent(m, t)' = Spent(m, t)
                /\ Restarts(m, t)' = Restarts(m, t)
  BY <1>1 DEF Spent, Restarts, InWindowFrom, ResumesInWindowFrom, ChargesOf
<1>3. RateTerms' /\ FreshAfterResume'
  BY <1>1 DEF SpanInv, RateTerms, FreshAfterResume
<1>4. AllSpans'
  BY <1>1, <1>2 DEF SpanInv, AllSpans
<1>5. OpenSpans'
  <2> SUFFICES ASSUME NEW m \in DOMAIN mandates', NEW t \in Nat,
                      mandates'[m].mode = "PAYG",
                      clock' < t + consent'[m].rate_window_ms
               PROVE  OpenBound(m, t, mandates[m].window_start_ms,
                                mandates[m].window_spent)'
    BY DEF OpenSpans
  <2>1. clock < t + consent[m].rate_window_ms
    BY <1>1, SpanTypes
  <2>2. OpenBound(m, t, mandates[m].window_start_ms, mandates[m].window_spent)
    BY <2>1 DEF SpanInv, OpenSpans
  <2> QED BY <1>1, <1>2, <2>2 DEF OpenBound
<1> QED BY <1>1, <1>3, <1>4, <1>5 DEF SpanInv

\* A new mandate has no charges and no resumes.
LEMMA NewMandateSpan ==
    ASSUME SpanInv, IInv',
           NEW m \in MandateId \ DOMAIN consent, NEW md \in Mandate, NEW c,
           mandates' = Put(mandates, m, md), consent' = Put(consent, m, c),
           md.mode = "PAYG" => /\ md.rate_cap = c.rate_cap
                               /\ md.rate_window_ms = c.rate_window_ms,
           md.mode = "FIXED" => c.rate_window_ms = 0,
           md.window_spent = 0,
           UNCHANGED <<clock, charges, resumes>>
    PROVE  SpanInv'
<1>1. /\ m \notin DOMAIN mandates
      /\ DOMAIN mandates' = DOMAIN mandates \cup {m}
      /\ DOMAIN consent' = DOMAIN consent \cup {m}
      /\ mandates'[m] = md /\ consent'[m] = c
      /\ \A x \in DOMAIN mandates : x # m /\ mandates'[x] = mandates[x]
      /\ \A x \in DOMAIN consent : x # m /\ consent'[x] = consent[x]
      /\ DOMAIN mandates \subseteq DOMAIN consent
  BY DEF Put, SpanInv, IInv, TypeOK
<1>2. \A e \in charges : e.mandate # m
  BY DEF SpanInv, IInv, TypeOK
<1>3. \A r \in resumes : r.mandate # m
  BY DEF SpanInv, IInv, TypeOK
<1>4. \A x \in DOMAIN consent : \A t : /\ Spent(x, t)' = Spent(x, t)
                                        /\ Restarts(x, t)' = Restarts(x, t)
  BY <1>1 DEF Spent, Restarts, InWindowFrom, ResumesInWindowFrom, ChargesOf
<1>5. \A t : Spent(m, t)' = 0 /\ Restarts(m, t)' = 0
  <2> TAKE t
  <2>1. InWindowFrom(m, t)' = {} /\ ResumesInWindowFrom(m, t)' = {}
    BY <1>2, <1>3 DEF InWindowFrom, ResumesInWindowFrom, ChargesOf
  <2> QED BY <2>1, TotalEmpty, FS_EmptySet DEF Spent, Restarts
<1>6. c.rate_cap \in Nat
  BY <1>1 DEF IInv, TypeOK, Consent, U64
<1>7. RateTerms' /\ FreshAfterResume'
  BY <1>1, <1>3 DEF SpanInv, RateTerms, FreshAfterResume
<1>8. AllSpans'
  <2>1. ASSUME NEW t \in Nat
        PROVE  Spent(m, t)' <= (2 + Restarts(m, t)') * c.rate_cap
    BY <1>5, <1>6
  <2> QED BY <2>1, <1>1, <1>4 DEF SpanInv, AllSpans
<1>9. OpenSpans'
  <2> SUFFICES ASSUME NEW x \in DOMAIN mandates', NEW t \in Nat,
                      mandates'[x].mode = "PAYG",
                      clock' < t + consent'[x].rate_window_ms
               PROVE  OpenBound(x, t, mandates[x].window_start_ms,
                                mandates[x].window_spent)'
    BY DEF OpenSpans
  <2>1. CASE x = m
    <3>1. /\ Spent(m, t)' = 0 /\ mandates'[x].window_spent = 0
          /\ (1 + Restarts(m, t)') * consent'[m].rate_cap \in Nat
      BY <2>1, <1>1, <1>5, <1>6
    <3> QED BY <2>1, <3>1 DEF OpenBound
  <2>2. CASE x # m
    <3>1. /\ x \in DOMAIN mandates /\ x \in DOMAIN consent
          /\ mandates'[x] = mandates[x] /\ consent'[x] = consent[x]
      BY <2>2, <1>1
    <3>2. OpenBound(x, t, mandates[x].window_start_ms, mandates[x].window_spent)
      BY <3>1 DEF SpanInv, OpenSpans
    <3> QED BY <1>4, <3>1, <3>2 DEF OpenBound
  <2> QED BY <2>1, <2>2
<1> QED BY <1>7, <1>8, <1>9 DEF SpanInv

\* A resume restarts the window, and is counted unless it repeats one: then
\* nothing was charged since.
LEMMA ResumeSpan ==
    ASSUME SpanInv, IInv', NEW m \in DOMAIN mandates, NEW md,
           mandates' = [mandates EXCEPT ![m] = md],
           md.mode = mandates[m].mode,
           md.rate_cap = mandates[m].rate_cap,
           md.rate_window_ms = mandates[m].rate_window_ms,
           md.charge_seq = mandates[m].charge_seq,
           md.window_spent = 0,
           md.window_start_ms = clock,
           resumes' = resumes \cup
             {[mandate |-> m, at |-> clock, seq |-> mandates[m].charge_seq]},
           UNCHANGED <<clock, charges, consent>>
    PROVE  SpanInv'
<1> DEFINE r == [mandate |-> m, at |-> clock, seq |-> mandates[m].charge_seq]
<1>1. /\ DOMAIN mandates' = DOMAIN mandates
      /\ mandates'[m] = md
      /\ \A x \in DOMAIN mandates : x # m => mandates'[x] = mandates[x]
  OBVIOUS
<1>2. /\ r.mandate = m /\ r.at = clock /\ r.seq = mandates[m].charge_seq
      /\ resumes' = resumes \cup {r}
  OBVIOUS
<1> HIDE DEF r
<1>3. IsFiniteSet(charges') /\ IsFiniteSet(resumes')
  BY <1>2, FS_AddElement DEF SpanInv
<1>4. RateTerms' /\ FreshAfterResume'
  BY <1>1, <1>2 DEF SpanInv, RateTerms, FreshAfterResume
<1>5. \A x, t : Spent(x, t)' = Spent(x, t)
  BY DEF Spent, InWindowFrom, ChargesOf
<1>6. ASSUME NEW x, NEW t
      PROVE  /\ Restarts(x, t)' \in Nat
             /\ Restarts(x, t)' >= Restarts(x, t)
             /\ x # m => Restarts(x, t)' = Restarts(x, t)
             /\ /\ x = m /\ r \notin resumes
                /\ t <= clock /\ clock < t + consent[m].rate_window_ms
                => Restarts(x, t)' = Restarts(x, t) + 1
  <2> DEFINE R == ResumesInWindowFrom(x, t)
             Q == ResumesInWindowFrom(x, t)'
  <2>1. IsFiniteSet(R) /\ Restarts(x, t) = Cardinality(R)
    BY SpanTypes DEF Restarts
  <2>2. Q \in {R, R \cup {r}}
    BY <1>2 DEF ResumesInWindowFrom
  <2>3. x # m => Q = R
    BY <1>2 DEF ResumesInWindowFrom
  <2>4. /\ x = m /\ r \notin resumes
        /\ t <= clock /\ clock < t + consent[m].rate_window_ms
        => Q = R \cup {r} /\ r \notin R
    BY <1>2 DEF ResumesInWindowFrom
  <2>5. Restarts(x, t)' = Cardinality(Q)
    BY DEF Restarts
  <2> HIDE DEF R, Q
  <2>6. /\ Cardinality(R) \in Nat
        /\ Cardinality(R \cup {r}) \in Nat
        /\ Cardinality(R \cup {r}) >= Cardinality(R)
        /\ r \notin R => Cardinality(R \cup {r}) = Cardinality(R) + 1
    <3>1. Cardinality(R) \in Nat
      BY <2>1, FS_CardinalityType
    <3>2. CASE r \in R
      <4>1. R \cup {r} = R
        BY <3>2
      <4> QED BY <3>1, <3>2, <4>1
    <3>3. CASE r \notin R
      <4>1. Cardinality(R \cup {r}) = Cardinality(R) + 1
        BY <2>1, <3>3, FS_AddElement
      <4> QED BY <3>1, <4>1
    <3> QED BY <3>2, <3>3
  <2>7. /\ Cardinality(Q) \in {Cardinality(R), Cardinality(R \cup {r})}
        /\ x # m => Cardinality(Q) = Cardinality(R)
        /\ /\ x = m /\ r \notin resumes
           /\ t <= clock /\ clock < t + consent[m].rate_window_ms
           => /\ r \notin R
              /\ Cardinality(Q) = Cardinality(R \cup {r})
    BY <2>2, <2>3, <2>4, Zenon
  <2> QED BY <2>1, <2>5, <2>6, <2>7
<1>7. ASSUME NEW x \in DOMAIN consent, NEW t
      PROVE  /\ (1 + Restarts(x, t)) * consent[x].rate_cap
                  <= (1 + Restarts(x, t)') * consent[x].rate_cap
             /\ (2 + Restarts(x, t)) * consent[x].rate_cap
                  <= (2 + Restarts(x, t)') * consent[x].rate_cap
  <2> DEFINE n == Restarts(x, t)
             k == Restarts(x, t)'
             cap == consent[x].rate_cap
  <2>1. n \in Nat /\ k \in Nat /\ n <= k /\ cap \in Nat
    BY <1>6, SpanTypes
  <2> HIDE DEF n, k, cap
  <2>2. (1 + n) * cap <= (1 + k) * cap /\ (2 + n) * cap <= (2 + k) * cap
    BY <2>1
  <2> QED BY <2>2 DEF n, k, cap
<1>8. AllSpans'
  <2> SUFFICES ASSUME NEW x \in DOMAIN consent, NEW t \in Nat
               PROVE  Spent(x, t) <= (2 + Restarts(x, t)') * consent[x].rate_cap
    BY <1>5 DEF AllSpans
  <2>1. /\ Spent(x, t) <= (2 + Restarts(x, t)) * consent[x].rate_cap
        /\ Spent(x, t) \in Int
        /\ consent[x].rate_cap \in Nat
        /\ Restarts(x, t) \in Nat /\ Restarts(x, t)' \in Nat
    BY <1>6, SpanTypes DEF SpanInv, AllSpans
  <2> QED BY <2>1, <1>7
<1>9. OpenSpans'
  <2> SUFFICES ASSUME NEW x \in DOMAIN mandates, NEW t \in Nat,
                      mandates'[x].mode = "PAYG",
                      clock < t + consent[x].rate_window_ms
               PROVE  OpenBound(x, t, mandates[x].window_start_ms,
                                mandates[x].window_spent)'
    BY <1>1 DEF OpenSpans
  <2>1. OpenBound(x, t, mandates[x].window_start_ms, mandates[x].window_spent)
    BY <1>1 DEF SpanInv, OpenSpans
  <2>2. /\ x \in DOMAIN consent
        /\ consent[x].rate_cap \in Nat
        /\ Spent(x, t) \in Int
        /\ Restarts(x, t) \in Nat /\ Restarts(x, t)' \in Nat
        /\ mandates[x].window_spent \in Nat
        /\ mandates[x].window_start_ms \in Nat /\ clock \in Nat
        /\ mandates[x].window_spent <= consent[x].rate_cap
    BY <1>1, <1>6, SpanTypes
  <2> DEFINE cap == consent[x].rate_cap
             lo == (1 + Restarts(x, t)) * cap
             hi == (1 + Restarts(x, t)') * cap
  <2>3. lo \in Nat /\ hi \in Nat /\ lo <= hi
    BY <2>2, <1>7, CapArithmetic
  <2>4. CASE x # m
    <3>1. mandates'[x] = mandates[x]
      BY <2>4, <1>1
    <3>2. /\ mandates[x].window_start_ms < t
             => Spent(x, t) <= mandates[x].window_spent
          /\ Spent(x, t) <= mandates[x].window_spent + lo
      BY <2>1 DEF OpenBound
    <3> HIDE DEF lo, hi
    <3>3. Spent(x, t) <= mandates[x].window_spent + hi
      BY <2>2, <2>3, <3>2
    <3> QED BY <3>1, <3>2, <3>3, <1>5 DEF OpenBound, hi
  <2>5. CASE x = m /\ clock < t
    <3>1. InWindowFrom(x, t) = {}
      BY <2>5, <2>2, SpanTypes DEF InWindowFrom, ChargesOf
    <3>2. Spent(x, t) = 0
      BY <3>1, TotalEmpty DEF Spent
    <3>3. Spent(x, t)' = 0 /\ mandates'[x].window_spent = 0
      BY <2>5, <3>2, <1>1, <1>5
    <3> QED BY <2>3, <3>3 DEF OpenBound
  <2>6. CASE x = m /\ t <= clock /\ r \in resumes
    <3>1. mandates[x].window_spent = 0
      BY <2>6, <1>2 DEF SpanInv, FreshAfterResume
    <3>2. mandates'[x].window_spent = 0
      BY <2>6, <1>1
    <3>3. Restarts(x, t)' = Restarts(x, t)
      <4>1. resumes' = resumes
        BY <2>6, <1>2
      <4> QED BY <4>1 DEF Restarts, ResumesInWindowFrom
    <3>4. ~ (mandates'[x].window_start_ms < t)
      BY <2>2, <2>6, <1>1
    <3> QED BY <2>1, <3>1, <3>2, <3>3, <3>4, <1>5 DEF OpenBound
  <2>7. CASE x = m /\ t <= clock /\ r \notin resumes
    <3>1. Restarts(x, t)' = Restarts(x, t) + 1
      BY <2>7, <1>6
    <3>2. hi = lo + cap
      BY <2>2, <3>1, CapArithmetic
    <3>3. Spent(x, t) <= mandates[x].window_spent + lo
      BY <2>1 DEF OpenBound
    <3> HIDE DEF lo, hi
    <3>4. Spent(x, t) <= hi
      BY <2>2, <2>3, <3>2, <3>3
    <3>5. mandates'[x].window_spent = 0
      BY <2>7, <1>1
    <3>6. ~ (mandates'[x].window_start_ms < t)
      BY <2>2, <2>7, <1>1
    <3>7. Spent(x, t)' <= mandates'[x].window_spent + hi
      BY <3>4, <3>5, <1>5, <2>3
    <3> QED BY <3>6, <3>7 DEF OpenBound, hi
  <2> QED BY <2>2, <2>4, <2>5, <2>6, <2>7
<1> QED BY <1>3, <1>4, <1>8, <1>9 DEF SpanInv

\* A charge goes to the current window.  If it restarts the window, the old
\* one began before every span that is still open.
LEMMA ChargeSpan ==
    ASSUME SpanInv, IInv', NEW m \in DOMAIN mandates, NEW md, NEW e,
           mandates' = [mandates EXCEPT ![m] = md],
           charges' = charges \cup {e},
           e.mandate = m, e.at = clock, e.amount \in Nat, e.seq = md.charge_seq,
           md.mode = mandates[m].mode,
           md.rate_cap = mandates[m].rate_cap,
           md.rate_window_ms = mandates[m].rate_window_ms,
           md.charge_seq = mandates[m].charge_seq + 1,
           md.window_spent \in Nat,
           md.mode = "PAYG" =>
              /\ md.window_spent <= md.rate_cap
              /\ \/ /\ md.window_start_ms = mandates[m].window_start_ms
                    /\ md.window_spent = mandates[m].window_spent + e.amount
                 \/ /\ clock >= mandates[m].window_start_ms
                                  + mandates[m].rate_window_ms
                    /\ md.window_start_ms = clock
                    /\ md.window_spent = e.amount,
           UNCHANGED <<clock, consent, resumes>>
    PROVE  SpanInv'
<1>1. /\ DOMAIN mandates' = DOMAIN mandates
      /\ mandates'[m] = md
      /\ \A x \in DOMAIN mandates : x # m => mandates'[x] = mandates[x]
  OBVIOUS
<1>2. e \notin charges
  <2> SUFFICES ASSUME e \in charges PROVE FALSE
    OBVIOUS
  <2>1. e.seq \in {f.seq : f \in ChargesOf(m)}
    BY DEF ChargesOf
  <2>2. e.seq \in 1 .. mandates[m].charge_seq
    BY <2>1 DEF SpanInv, IInv, BooksMatchEvents
  <2> QED BY <2>2, SpanTypes
<1>3. IsFiniteSet(charges') /\ IsFiniteSet(resumes')
  BY FS_AddElement DEF SpanInv
<1>4. RateTerms'
  BY <1>1 DEF SpanInv, RateTerms
<1>5. FreshAfterResume'
  <2> SUFFICES ASSUME NEW x \in DOMAIN mandates, NEW r \in resumes,
                      r.mandate = x, r.seq = mandates'[x].charge_seq
               PROVE  mandates'[x].window_spent = 0
    BY <1>1 DEF FreshAfterResume
  <2>1. CASE x = m
    <3>1. r.seq <= mandates[m].charge_seq
      BY <2>1 DEF SpanInv, IInv, CursorIsPast
    <3>2. r.seq = mandates[m].charge_seq + 1
      BY <2>1, <1>1
    <3> QED BY <3>1, <3>2, SpanTypes
  <2>2. CASE x # m
    BY <2>2, <1>1 DEF SpanInv, FreshAfterResume
  <2> QED BY <2>1, <2>2
<1>6. \A x, t : Restarts(x, t)' = Restarts(x, t)
  BY DEF Restarts, ResumesInWindowFrom
<1>7. ASSUME NEW x, NEW t
      PROVE  Spent(x, t)' = IF /\ x = m /\ t <= clock
                               /\ clock < t + consent[m].rate_window_ms
                            THEN Spent(x, t) + e.amount ELSE Spent(x, t)
  <2> DEFINE E == InWindowFrom(x, t)
  <2>1. InWindowFrom(x, t)' = IF /\ x = m /\ t <= clock
                                 /\ clock < t + consent[m].rate_window_ms
                              THEN E \cup {e} ELSE E
    BY DEF InWindowFrom, ChargesOf
  <2>2. IsFiniteSet(E) /\ e \notin E /\ \A f \in E \cup {e} : f.amount \in Int
    <3>1. E \subseteq charges
      BY DEF InWindowFrom, ChargesOf
    <3>2. \A f \in charges : f.amount \in Int
      BY SpanTypes
    <3>3. IsFiniteSet(E)
      BY SpanTypes
    <3> HIDE DEF E
    <3> QED BY <1>2, <3>1, <3>2, <3>3
  <2>3. Total(E \cup {e}) = Total(E) + e.amount
    <3> HIDE DEF E
    <3> QED BY <2>2, TotalAdd
  <2> QED BY <2>1, <2>3 DEF Spent
<1>8. ASSUME NEW t \in Nat, md.mode = "PAYG", t <= clock,
             clock < t + consent[m].rate_window_ms
      PROVE  OpenBound(m, t, mandates[m].window_start_ms,
                       mandates[m].window_spent)'
  <2> DEFINE cap == consent[m].rate_cap
             lo == (1 + Restarts(m, t)) * cap
  <2>1. OpenBound(m, t, mandates[m].window_start_ms, mandates[m].window_spent)
    BY <1>8 DEF SpanInv, OpenSpans
  <2>2. /\ cap \in Nat
        /\ Spent(m, t) \in Int
        /\ Restarts(m, t) \in Nat
        /\ mandates[m].window_spent \in Nat
        /\ mandates[m].window_start_ms \in Nat /\ clock \in Nat
        /\ mandates[m].window_spent <= cap
        /\ mandates[m].rate_window_ms = consent[m].rate_window_ms
        /\ consent[m].rate_window_ms \in Nat
    BY <1>8, SpanTypes DEF SpanInv, RateTerms
  <2>3. lo \in Nat /\ cap <= lo
    BY <2>2
  <2>4. /\ mandates[m].window_start_ms < t
             => Spent(m, t) <= mandates[m].window_spent
        /\ Spent(m, t) <= mandates[m].window_spent + lo
    BY <2>1 DEF OpenBound
  <2> HIDE DEF lo
  <2>5. /\ md.window_start_ms < t => Spent(m, t) + e.amount <= md.window_spent
        /\ Spent(m, t) + e.amount <= md.window_spent + lo
    <3>1. CASE /\ md.window_start_ms = mandates[m].window_start_ms
               /\ md.window_spent = mandates[m].window_spent + e.amount
      BY <3>1, <2>2, <2>3, <2>4
    <3>2. CASE /\ clock >= mandates[m].window_start_ms
                             + mandates[m].rate_window_ms
               /\ md.window_start_ms = clock
               /\ md.window_spent = e.amount
      BY <3>2, <1>8, <2>2, <2>3, <2>4
    <3> QED BY <3>1, <3>2, <1>8
  <2>6. Spent(m, t)' = Spent(m, t) + e.amount /\ Restarts(m, t)' = Restarts(m, t)
    BY <1>6, <1>7, <1>8
  <2> QED BY <2>5, <2>6, <1>1 DEF OpenBound, lo
<1>9. OpenSpans'
  <2> SUFFICES ASSUME NEW x \in DOMAIN mandates, NEW t \in Nat,
                      mandates'[x].mode = "PAYG",
                      clock < t + consent[x].rate_window_ms
               PROVE  OpenBound(x, t, mandates[x].window_start_ms,
                                mandates[x].window_spent)'
    BY <1>1 DEF OpenSpans
  <2>1. CASE x # m
    <3>1. mandates'[x] = mandates[x] /\ Spent(x, t)' = Spent(x, t)
      BY <2>1, <1>1, <1>7
    <3>2. OpenBound(x, t, mandates[x].window_start_ms, mandates[x].window_spent)
      BY <3>1 DEF SpanInv, OpenSpans
    <3> QED BY <3>1, <3>2, <1>6 DEF OpenBound
  <2>2. CASE x = m /\ t <= clock
    BY <2>2, <1>1, <1>8
  <2>3. CASE x = m /\ clock < t
    <3>1. InWindowFrom(x, t) = {}
      BY <2>3, SpanTypes DEF InWindowFrom, ChargesOf
    <3>2. Spent(x, t) = 0
      BY <3>1, TotalEmpty DEF Spent
    <3>3. Spent(x, t)' = 0
      BY <2>3, <3>2, <1>7, SpanTypes
    <3>4. /\ (1 + Restarts(x, t)') * consent'[x].rate_cap \in Nat
          /\ mandates'[x].window_spent \in Nat
      BY <2>3, <1>1, <1>6, SpanTypes, CapArithmetic
    <3> QED BY <3>3, <3>4 DEF OpenBound
  <2> QED BY <2>1, <2>2, <2>3, SpanTypes
<1>10. AllSpans'
  <2> SUFFICES ASSUME NEW x \in DOMAIN consent, NEW t \in Nat
               PROVE  Spent(x, t)' <= (2 + Restarts(x, t)) * consent[x].rate_cap
    BY <1>6 DEF AllSpans
  <2>1. CASE ~ (x = m /\ t <= clock /\ clock < t + consent[m].rate_window_ms)
    <3>1. Spent(x, t)' = Spent(x, t)
      BY <2>1, <1>7
    <3> QED BY <3>1 DEF SpanInv, AllSpans
  <2>2. CASE x = m /\ t <= clock /\ clock < t + consent[m].rate_window_ms
    <3> DEFINE cap == consent[m].rate_cap
               lo == (1 + Restarts(m, t)) * cap
    <3>1. md.mode = "PAYG"
      \* the window of a FIXED mandate is empty
      <4>1. md.mode # "FIXED"
        BY <2>2, SpanTypes DEF SpanInv, RateTerms
      <4> QED BY <4>1, SpanTypes
    <3>2. OpenBound(m, t, mandates[m].window_start_ms, mandates[m].window_spent)'
      BY <2>2, <3>1, <1>8
    <3>3. Spent(m, t)' <= md.window_spent + lo
      BY <3>2, <1>1, <1>6 DEF OpenBound
    <3>4. md.window_spent <= cap
      BY <3>1 DEF SpanInv, RateTerms
    <3>5. /\ cap \in Nat /\ Restarts(m, t) \in Nat /\ Spent(m, t)' \in Int
          /\ lo \in Nat
      <4>1. cap \in Nat /\ Restarts(m, t) \in Nat /\ Spent(m, t) \in Int
        BY SpanTypes
      <4>2. Spent(m, t)' \in Int
        BY <4>1, <1>7
      <4> QED BY <4>1, <4>2, CapArithmetic
    <3>6. (2 + Restarts(m, t)) * cap = lo + cap
      BY <3>5, CapArithmetic
    <3> HIDE DEF lo, cap
    <3>7. Spent(m, t)' <= (2 + Restarts(m, t)) * cap
      BY <3>3, <3>4, <3>5, <3>6
    <3> QED BY <2>2, <3>7 DEF cap
  <2> QED BY <2>1, <2>2
<1> QED BY <1>3, <1>4, <1>5, <1>9, <1>10 DEF SpanInv

\* Every call is one of these steps.
LEMMA AuthorizeSpan ==
    ASSUME SpanInv, IInv', NEW s \in Address, AuthorizeCall(s)
    PROVE  SpanInv'
<1>1. ASSUME NEW a, NEW plan, NEW q, NEW l, NEW max_per_charge,
             new_mandate(s, a, plan, q, l, max_per_charge),
             plan.mode = "PAYG" => /\ plan.rate_cap = q.rate_cap
                                   /\ plan.rate_window_ms = q.rate_window_ms,
             plan.mode = "FIXED" => q.rate_window_ms = 0
      PROVE  SpanInv'
  <2> DEFINE not_before == clock + l.first_charge_after_ms
             md == [account_id |-> a, subscriber |-> s,
                merchant |-> plan.merchant, mode |-> plan.mode,
                price |-> plan.price, interval_ms |-> plan.interval_ms,
                last_charged_ms |-> FirstCursor(plan.interval_ms),
                rate_cap |-> plan.rate_cap,
                rate_window_ms |-> plan.rate_window_ms,
                window_start_ms |-> clock, window_spent |-> 0,
                authorized_keeper |-> plan.keeper,
                spent_total |-> 0, total_budget |-> l.total_budget,
                expiry_ms |-> l.expiry_ms, charge_seq |-> 0,
                refunded_total |-> 0, max_per_charge |-> max_per_charge,
                not_before_ms |-> not_before, status |-> "ACTIVE"]
             c == [subscriber |-> s, merchant |-> q.merchant,
                charger |-> q.charger, price |-> q.price,
                interval_ms |-> q.interval_ms, rate_cap |-> q.rate_cap,
                rate_window_ms |-> q.rate_window_ms,
                total_budget |-> l.total_budget, expiry_ms |-> l.expiry_ms,
                max_per_charge |-> IF plan.mode = "FIXED"
                                     THEN q.price ELSE l.max_per_charge,
                not_before_ms |-> not_before]
  <2>1. PICK m \in MandateId \ DOMAIN consent :
           mandates' = Put(mandates, m, md) /\ consent' = Put(consent, m, c)
    BY <1>1 DEF new_mandate
  <2>2. UNCHANGED <<clock, charges, resumes>>
    BY <1>1 DEF new_mandate
  <2>3. /\ md.mode = "PAYG" => /\ md.rate_cap = c.rate_cap
                               /\ md.rate_window_ms = c.rate_window_ms
        /\ md.mode = "FIXED" => c.rate_window_ms = 0
        /\ md.window_spent = 0
    BY <1>1
  <2> HIDE DEF md, c
  <2>4. md \in Mandate
    BY <2>1 DEF Put, IInv, TypeOK
  <2> QED BY <2>1, <2>2, <2>3, <2>4, NewMandateSpan
<1>2. ASSUME NEW a, NEW p, NEW merchant, NEW l, NEW t,
             authorize_fixed(s, a, p, t, merchant, l)
      PROVE  SpanInv'
  <2> DEFINE q == [merchant |-> merchant, charger |-> Address,
                   price |-> t.price, interval_ms |-> t.interval_ms,
                   rate_cap |-> 0, rate_window_ms |-> 0]
  <2>1. /\ new_mandate(s, a, plans[p], q, l, plans[p].price)
        /\ plans[p].mode = "FIXED"
    BY <1>2 DEF authorize_fixed, EchoesFixed
  <2>2. q.rate_window_ms = 0
    OBVIOUS
  <2> HIDE DEF q
  <2> QED BY <2>1, <2>2, <1>1
<1>3. ASSUME NEW a, NEW p, NEW merchant, NEW l, NEW t, NEW keeper,
             authorize_metered(s, a, p, t, merchant, keeper, l)
      PROVE  SpanInv'
  <2> DEFINE q == [merchant |-> merchant, charger |-> {merchant, keeper},
                   price |-> 0, interval_ms |-> 0,
                   rate_cap |-> t.rate_cap,
                   rate_window_ms |-> t.rate_window_ms]
  <2>1. /\ new_mandate(s, a, plans[p], q, l, l.max_per_charge)
        /\ plans[p].mode = "PAYG"
        /\ plans[p].rate_cap = q.rate_cap
        /\ plans[p].rate_window_ms = q.rate_window_ms
    BY <1>3 DEF authorize_metered, EchoesMetered
  <2> HIDE DEF q
  <2> QED BY <2>1, <1>1
<1> QED BY <1>2, <1>3 DEF AuthorizeCall

\* A charge of either mode; a refund leaves the window alone.
LEMMA ChargeCallSpan ==
    ASSUME SpanInv, IInv', NEW s \in Address, ChargeCall(s)
    PROVE  SpanInv'
<1>0. \A amt \in Amount : amt \in Nat
  BY InputAssumption DEF U64
<1>1. ASSUME NEW a, NEW m \in DOMAIN mandates, NEW amt \in Amount, NEW key,
             NEW md \in Mandate, settle(s, a, m, md, amt, key),
             md.mode = mandates[m].mode,
             md.rate_cap = mandates[m].rate_cap,
             md.rate_window_ms = mandates[m].rate_window_ms,
             md.charge_seq = mandates[m].charge_seq,
             md.mode = "PAYG" =>
                /\ md.window_spent <= md.rate_cap
                /\ \/ /\ md.window_start_ms = mandates[m].window_start_ms
                      /\ md.window_spent = mandates[m].window_spent + amt
                   \/ /\ clock >= mandates[m].window_start_ms
                                    + mandates[m].rate_window_ms
                      /\ md.window_start_ms = clock
                      /\ md.window_spent = amt
      PROVE  SpanInv'
  <2> DEFINE new == Spend(md, amt)
             e == [mandate |-> m, amount |-> amt,
                   spent_total |-> md.spent_total + amt,
                   seq |-> Spend(md, amt).charge_seq, by |-> s,
                   to |-> md.merchant, at |-> clock, key |-> key]
  <2>1. /\ mandates' = [mandates EXCEPT ![m] = new]
        /\ charges' = charges \cup {e}
        /\ UNCHANGED <<clock, consent, resumes>>
    BY <1>1 DEF settle
  <2>2. /\ new.mode = md.mode
        /\ new.rate_cap = md.rate_cap
        /\ new.rate_window_ms = md.rate_window_ms
        /\ new.charge_seq = md.charge_seq + 1
        /\ new.window_spent = md.window_spent
        /\ new.window_start_ms = md.window_start_ms
        /\ new.window_spent \in Nat
    BY <1>1 DEF Spend, Mandate, U64
  <2>3. /\ e.mandate = m /\ e.at = clock /\ e.amount = amt /\ e.amount \in Nat
        /\ e.seq = new.charge_seq
    BY <1>0
  <2> HIDE DEF new, e
  <2> QED BY <1>1, <2>1, <2>2, <2>3, ChargeSpan
<1>2. ASSUME NEW a \in AccountId, NEW m \in MandateId, NEW amt \in Amount,
             charge(s, a, m, amt)
      PROVE  SpanInv'
  <2> DEFINE md == [mandates[m] EXCEPT !.last_charged_ms = Cursor(mandates[m])]
  <2>1. m \in DOMAIN mandates /\ mandates[m].mode = "FIXED"
    BY <1>2 DEF charge, Chargeable, DrawsOn
  <2>2. mandates[m] \in Mandate /\ clock \in U64
    BY <2>1 DEF SpanInv, IInv, TypeOK
  <2>3. /\ md \in Mandate
        /\ md.mode = mandates[m].mode /\ md.mode # "PAYG"
        /\ md.rate_cap = mandates[m].rate_cap
        /\ md.rate_window_ms = mandates[m].rate_window_ms
        /\ md.charge_seq = mandates[m].charge_seq
    BY <2>1, <2>2 DEF Mandate, Cursor
  <2>4. settle(s, a, m, md, amt, NoKey)
    BY <1>2 DEF charge
  <2> HIDE DEF md
  <2> QED BY <1>1, <2>1, <2>3, <2>4
<1>3. ASSUME NEW a \in AccountId, NEW m \in MandateId, NEW amt \in Amount,
             NEW seq \in 0 .. MaxCharges, charge_metered(s, a, m, amt, seq)
      PROVE  SpanInv'
  <2> DEFINE rolled == RollWindow(mandates[m])
             md == [rolled EXCEPT !.window_spent = @ + amt]
  <2>1. m \in DOMAIN mandates
    BY <1>3 DEF charge_metered, Chargeable, DrawsOn
  <2>2. mandates[m] \in Mandate /\ clock \in U64
    BY <2>1 DEF SpanInv, IInv, TypeOK
  <2>3. rolled \in Mandate
    BY <2>2, RollWindowType
  <2>4. rolled.window_spent + amt <= rolled.rate_cap /\ settle(s, a, m, md, amt, seq)
    BY <1>3 DEF charge_metered, UnderCap
  <2>5. /\ rolled.mode = mandates[m].mode
        /\ rolled.rate_cap = mandates[m].rate_cap
        /\ rolled.rate_window_ms = mandates[m].rate_window_ms
        /\ rolled.charge_seq = mandates[m].charge_seq
        /\ \/ /\ rolled.window_start_ms = mandates[m].window_start_ms
              /\ rolled.window_spent = mandates[m].window_spent
           \/ /\ clock >= mandates[m].window_start_ms + mandates[m].rate_window_ms
              /\ rolled.window_start_ms = clock
              /\ rolled.window_spent = 0
    BY <2>2 DEF RollWindow, Mandate
  <2> HIDE DEF rolled
  <2>6. rolled.window_spent + amt \in U64
    BY <1>0, <2>3, <2>4, TimeAssumption DEF Mandate, U64
  <2>7. /\ md \in Mandate
        /\ md.mode = rolled.mode
        /\ md.rate_cap = rolled.rate_cap
        /\ md.rate_window_ms = rolled.rate_window_ms
        /\ md.charge_seq = rolled.charge_seq
        /\ md.window_start_ms = rolled.window_start_ms
        /\ md.window_spent = rolled.window_spent + amt
    BY <2>3, <2>6 DEF Mandate
  <2> HIDE DEF md
  <2>8. 0 + amt = amt
    BY <1>0
  <2> QED BY <1>1, <2>1, <2>4, <2>5, <2>7, <2>8
<1>4. ASSUME NEW a \in AccountId, NEW m \in MandateId, NEW amt \in Amount,
             refund(s, a, m, amt)
      PROVE  SpanInv'
  <2>1. /\ mandates' = [mandates EXCEPT ![m] = Refunded(mandates[m], amt)]
        /\ UNCHANGED <<clock, history>>
        /\ m \in DOMAIN mandates
    BY <1>4 DEF refund, DrawsOn
  <2>2. mandates[m] \in Mandate
    BY <2>1 DEF SpanInv, IInv, TypeOK
  <2>3. \A x \in DOMAIN mandates' :
           /\ mandates'[x].mode = mandates[x].mode
           /\ mandates'[x].rate_cap = mandates[x].rate_cap
           /\ mandates'[x].rate_window_ms = mandates[x].rate_window_ms
           /\ mandates'[x].window_start_ms = mandates[x].window_start_ms
           /\ mandates'[x].window_spent = mandates[x].window_spent
           /\ mandates'[x].charge_seq = mandates[x].charge_seq
    BY <2>1, <2>2 DEF Refunded, Mandate
  <2>4. DOMAIN mandates' \subseteq DOMAIN mandates
    BY <2>1
  <2> QED BY <2>1, <2>3, <2>4, QuietSpan
<1> QED BY <1>2, <1>3, <1>4 DEF ChargeCall

\* The subscriber's controls: of them only resume touches the window.
LEMMA SubscriberSpan ==
    ASSUME SpanInv, IInv', NEW s \in Address, SubscriberCall(s)
    PROVE  SpanInv'
<1>1. ASSUME NEW m \in MandateId, revoke(s, m) \/ pause(s, m)
      PROVE  SpanInv'
  <2>1. /\ m \in DOMAIN mandates
        /\ UNCHANGED <<clock, history>>
        /\ \E status : mandates' = [mandates EXCEPT ![m].status = status]
    BY <1>1 DEF revoke, pause
  <2>2. mandates[m] \in Mandate
    BY <2>1 DEF SpanInv, IInv, TypeOK
  <2>3. \A x \in DOMAIN mandates' :
           /\ mandates'[x].mode = mandates[x].mode
           /\ mandates'[x].rate_cap = mandates[x].rate_cap
           /\ mandates'[x].rate_window_ms = mandates[x].rate_window_ms
           /\ mandates'[x].window_start_ms = mandates[x].window_start_ms
           /\ mandates'[x].window_spent = mandates[x].window_spent
           /\ mandates'[x].charge_seq = mandates[x].charge_seq
    BY <2>1, <2>2 DEF Mandate
  <2>4. DOMAIN mandates' \subseteq DOMAIN mandates
    BY <2>1
  <2> QED BY <2>1, <2>3, <2>4, QuietSpan
<1>2. ASSUME NEW m \in MandateId, resume(s, m)
      PROVE  SpanInv'
  <2> DEFINE md == Resumed(mandates[m])
  <2>1. /\ m \in DOMAIN mandates
        /\ mandates' = [mandates EXCEPT ![m] = md]
        /\ resumes' = resumes \cup
             {[mandate |-> m, at |-> clock, seq |-> mandates[m].charge_seq]}
        /\ UNCHANGED <<clock, charges, consent>>
    BY <1>2 DEF resume
  <2>2. mandates[m] \in Mandate
    BY <2>1 DEF SpanInv, IInv, TypeOK
  <2>3. /\ md.mode = mandates[m].mode
        /\ md.rate_cap = mandates[m].rate_cap
        /\ md.rate_window_ms = mandates[m].rate_window_ms
        /\ md.charge_seq = mandates[m].charge_seq
        /\ md.window_spent = 0
        /\ md.window_start_ms = clock
    BY <2>2 DEF Resumed, Mandate
  <2> HIDE DEF md
  <2> QED BY <2>1, <2>3, ResumeSpan
<1>3. ASSUME NEW m \in MandateId, close_mandate(s, m)
      PROVE  SpanInv'
  <2>1. /\ DOMAIN mandates' \subseteq DOMAIN mandates
        /\ \A x \in DOMAIN mandates' : mandates'[x] = mandates[x]
        /\ UNCHANGED <<clock, history>>
    BY <1>3 DEF close_mandate, Delete, Restrict
  <2> QED BY <2>1, QuietSpan
<1> QED BY <1>1, <1>2, <1>3 DEF SubscriberCall

\* Every step keeps the bounds.
LEMMA SpanStep ==
    ASSUME SpanInv, [Next]_vars
    PROVE  SpanInv'
<1>1. IInv'
  BY StepInv DEF SpanInv
<1>2. ASSUME UNCHANGED <<mandates, history>>, clock' \in {clock, clock + 1}
      PROVE  SpanInv'
  BY <1>1, <1>2, QuietSpan
<1>3. CASE Tick \/ UNCHANGED vars
  BY <1>2, <1>3 DEF Tick, vars, objects
<1>4. ASSUME NEW s \in Address, AccountCall(s) \/ PlanCall(s)
      PROVE  SpanInv'
  <2>1. UNCHANGED <<clock, mandates, history>>
    BY <1>4 DEF AccountCall, PlanCall, open_account, deposit, withdraw,
                withdraw_all, close_account, create_plan_fixed,
                create_plan_payg, NewPlan, deactivate_plan, close_plan
  <2> QED BY <2>1, <1>2
<1>5. ASSUME NEW s \in Address,
             AuthorizeCall(s) \/ ChargeCall(s) \/ SubscriberCall(s)
      PROVE  SpanInv'
  BY <1>1, <1>5, AuthorizeSpan, ChargeCallSpan, SubscriberSpan
<1> QED BY <1>3, <1>4, <1>5 DEF Next

\* In no span of time as long as the rate window is a mandate charged more
\* than two rate caps, and one more for every resume in it, wherever the
\* contract's own windows fall and however charges and pauses are timed.
THEOREM SpansAreCapped == Spec => []SpanCap
<1>1. Spec => []SpanInv
  BY InitSpan, SpanStep, PTL DEF Spec
<1>2. SpanInv => SpanCap
  <2> SUFFICES ASSUME SpanInv, NEW e \in charges
               PROVE  Total(InWindowFrom(e.mandate, e.at))
                        <= (2 + Cardinality(ResumesInWindowFrom(e.mandate, e.at)))
                             * consent[e.mandate].rate_cap
    BY DEF SpanCap
  <2>1. e.mandate \in DOMAIN consent /\ e.at \in Nat
    BY SpanTypes DEF SpanInv, IInv, TypeOK
  <2> QED BY <2>1 DEF SpanInv, AllSpans, Spent, Restarts
<1> QED BY <1>1, <1>2, PTL
=============================================================================
