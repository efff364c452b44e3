------------------------------- MODULE Probes -------------------------------
(***************************************************************************)
(* The read-only probes of the chain: accountExposure (sdk/src/exposure.ts)*)
(* and scheduleLag (sdk/src/lag.ts), over the mandates of one account.     *)
(*                                                                         *)
(* A probe reads mandates and the account in different awaits; charges and *)
(* the subscriber come in between.  The chain is what the contract's guards*)
(* (contracts/sources/subscription.move, charge and charge_metered) see.   *)
(* Dates are countdowns that go on below zero: ticks until the interval is *)
(* over, until not_before, until the rate window is over.                  *)
(***************************************************************************)
EXTENDS Integers, FiniteSetsExt, Functions

CONSTANTS
    Fixed, Payg,     \* mandate ids of either mode
    Amounts,         \* what a metered charge may ask for
    Fee,             \* the price of a Fixed mandate
    TotalBudget, RateCap,
    Period,          \* interval_ms and rate_window_ms
    Margin,          \* dueMarginMs
    Deposits         \* the account's balances

ASSUME ProbesAssumption ==
    /\ {Fee, TotalBudget, RateCap, Period, Margin} \subseteq Nat
    /\ Amounts \subseteq Nat \ {0} /\ Deposits \subseteq Nat
    /\ Fixed \cap Payg = {} /\ IsFiniteSet(Fixed \cup Payg)

VARIABLES
    terms,      \* per mandate: status, spent, wait, window, expired
    trial,      \* ticks until not_before, which the mandates share
    account,    \* the account's balance
    probe,      \* which probe runs, and what it has read
    report,     \* what it has answered
    pulled,     \* history: coins charged since the last exposure answer
    acted       \* history: chain or subscriber moved since the probe began

probes == <<terms, trial, account, probe, report, pulled, acted>>

All == Fixed \cup Payg
Floor == -Margin         \* bound: how far the countdowns go below zero
Unread == -1
NoRows == [m \in {} |-> 0]
AtRest == [kind |-> "none", authorized |-> Unread, rows |-> NoRows, balance |-> Unread]
NoReport == [kind |-> "none", atRisk |-> 0, rows |-> NoRows, owed |-> 0]
Moves == {"charge", "subscriber", "time"}

ProbesInit ==
    /\ terms = [m \in All |-> [status |-> "active", spent |-> 0, wait |-> 0,
                               window |-> 0, expired |-> FALSE]]
    /\ trial \in {0, Period + Margin}
    /\ account \in Deposits
    /\ probe = AtRest /\ report = NoReport
    /\ pulled = 0 /\ acted = {}

-----------------------------------------------------------------------------
(* The contract.                                                           *)

Left(m) == TotalBudget - terms[m].spent
InForce(m) == terms[m].status = "active" /\ ~terms[m].expired
Charges(m, amount) ==
    /\ InForce(m) /\ amount <= Left(m) /\ amount <= account /\ trial <= 0
    /\ IF m \in Fixed THEN amount = Fee /\ terms[m].wait <= 0
       ELSE (IF terms[m].wait <= 0 THEN 0 ELSE terms[m].window) + amount <= RateCap

\* The chain moves: a lag answer is of the past, an exposure answer is until
\* the subscriber signs something.
Moved(who) ==
    /\ acted' = IF probe.kind = "none" /\ report = NoReport THEN {} ELSE acted \cup {who}
    /\ report' = IF report.kind = "lag" \/ who = "subscriber" THEN NoReport ELSE report
    /\ UNCHANGED probe

Pull(m, amount) ==
    /\ Charges(m, amount)
    /\ LET t == terms[m]
           rolled == t.wait <= 0
       IN  terms' = [terms EXCEPT ![m] =
               [t EXCEPT !.spent = @ + amount,
                         !.wait = IF rolled THEN Period ELSE @,
                         !.window = IF m \in Fixed THEN 0
                                    ELSE IF rolled THEN amount ELSE @ + amount]]
    /\ account' = account - amount
    /\ pulled' = IF report.kind = "exposure" THEN pulled + amount ELSE 0
    /\ Moved("charge") /\ UNCHANGED trial

\* Deposits (a refund is one), withdrawals, pauses, resumptions, revocations.
SubscriberActs ==
    /\ \/ account' \in Deposits \ {account} /\ terms' = terms
       \/ /\ account' = account
          /\ \E m \in All : \E s \in {"active", "paused", "revoked"} \ {terms[m].status} :
                terms[m].status # "revoked" /\ terms' = [terms EXCEPT ![m].status = s]
    /\ pulled' = 0
    /\ Moved("subscriber") /\ UNCHANGED trial

Lower(n) == IF n > Floor THEN n - 1 ELSE n
PassTime ==
    /\ \E gone \in SUBSET All :
        terms' = [m \in All |-> [terms[m] EXCEPT !.wait = Lower(@),
                                                 !.expired = @ \/ m \in gone]]
    /\ trial' = Lower(trial)
    /\ Moved("time") /\ UNCHANGED <<account, pulled>>

Chain == <<terms, trial, account>>

-----------------------------------------------------------------------------
(* accountExposure: both reads are under way at once.                      *)

Begin(kind) ==
    /\ probe = AtRest
    /\ probe' = [AtRest EXCEPT !.kind = kind]
    /\ report' = NoReport /\ pulled' = 0 /\ acted' = {}
    /\ UNCHANGED Chain

remaining_PerWindow(t) == Min({RateCap, TotalBudget - t.spent})
remaining(t) == TotalBudget - t.spent

totalAuthorized ==
    SumFunctionOnSet([m \in All |-> remaining(terms[m])], {m \in All : terms[m].status = "active"})

ReadMandates ==
    /\ probe.kind = "exposure" /\ probe.authorized = Unread
    /\ probe' = [probe EXCEPT !.authorized = totalAuthorized]
    /\ UNCHANGED <<Chain, report, pulled, acted>>

ReadAccount ==
    /\ probe.balance = Unread
    /\ \/ probe.kind = "exposure"
       \/ \E m \in DOMAIN probe.rows : probe.rows[m].state = "behind"
    /\ probe' = [probe EXCEPT !.balance = account]
    /\ UNCHANGED <<Chain, report, pulled, acted>>

accountExposure ==
    /\ probe.kind = "exposure" /\ probe.authorized # Unread /\ probe.balance # Unread
    /\ report' = [NoReport EXCEPT !.kind = "exposure",
                                  !.atRisk = Min({probe.authorized, probe.balance})]
    /\ probe' = AtRest /\ pulled' = 0
    /\ UNCHANGED <<Chain, acted>>

-----------------------------------------------------------------------------
(* scheduleLag: the mandates, then the account when one is behind.         *)

\* The later of the two dates decides.
untilDue(t) == Max({t.wait, trial})

windowHeadroom(t) == IF t.wait <= 0 THEN RateCap ELSE Max({RateCap - t.window, 0})

lagState(m, t) ==
    CASE t.status # "active"                 -> t.status
      [] t.status = "active" /\ t.expired    -> "expired"
      [] InForce(m) /\ m \in Payg            -> "payg_headroom"
      [] InForce(m) /\ m \in Fixed ->
            IF t.spent + Fee <= TotalBudget /\ untilDue(t) <= -Margin THEN "behind" ELSE "on_schedule"

lagRow(m) == [state |-> lagState(m, terms[m]),
              headroom |-> IF lagState(m, terms[m]) = "payg_headroom"
                           THEN Min({windowHeadroom(terms[m]), remaining(terms[m])}) ELSE 0]

\* An id that cannot be read is counted, not fatal.
ReadRows ==
    /\ probe.kind = "lag" /\ probe.rows = NoRows
    /\ \E missing \in SUBSET All :
        probe' = [probe EXCEPT !.rows = [m \in All |->
            IF m \in missing THEN [state |-> "unreadable", headroom |-> 0] ELSE lagRow(m)]]
    /\ UNCHANGED <<Chain, report, pulled, acted>>

Settled(row) ==
    IF row.state # "behind" THEN row
    ELSE [row EXCEPT !.state = IF probe.balance >= Fee THEN "arrears_fundable" ELSE "arrears_starved"]

scheduleLag ==
    /\ probe.kind = "lag" /\ probe.rows # NoRows
    /\ probe.balance # Unread \/ \A m \in All : probe.rows[m].state # "behind"
    /\ LET rows == [m \in All |-> Settled(probe.rows[m])]
       IN  report' = [kind |-> "lag", atRisk |-> 0, rows |-> rows,
                      owed |-> Fee * Cardinality({m \in All : rows[m].state = "arrears_fundable"})]
    /\ probe' = AtRest /\ pulled' = 0
    /\ UNCHANGED <<Chain, acted>>

ProbesNext ==
    \/ \E m \in All : \E amount \in Amounts \cup {Fee} : Pull(m, amount)
    \/ SubscriberActs \/ PassTime
    \/ Begin("exposure") \/ Begin("lag") \/ ReadMandates \/ ReadRows \/ ReadAccount
    \/ accountExposure \/ scheduleLag

ProbesSpec == ProbesInit /\ [][ProbesNext]_probes

-----------------------------------------------------------------------------
(* Properties.                                                             *)

\* exposure.ts 23: atRisk is the worst case.  Whatever is charged while the
\* probe reads and after its answer, no more than atRisk is pulled after the
\* answer unless the subscriber signs, resumes or deposits again.
LossIsWithinAtRisk ==
    report.kind = "exposure" /\ "subscriber" \notin acted => pulled <= report.atRisk

\* scheduleLag and the contract agree on who can be charged: when nothing has
\* moved since the probe began, a fundable mandate can be charged at once, one
\* that could be charged for longer than the margin is reported, a PAYG
\* mandate past its trial takes an amount if and only if it is within the
\* headroom and the balance, and catching up collects at most what is owed.
LagAgreesWithContract ==
    report.kind = "lag" /\ acted = {} =>
        LET state == [m \in All |-> report.rows[m].state]
            late == {m \in Fixed : Charges(m, Fee) /\ untilDue(terms[m]) <= -Margin
                                      /\ state[m] # "unreadable"}
        IN  /\ \A m \in Fixed : state[m] = "arrears_fundable" => Charges(m, Fee)
            /\ \A m \in late : state[m] = "arrears_fundable"
            /\ trial <= 0 => \A m \in Payg : state[m] = "payg_headroom" =>
                  \A amount \in Amounts :
                      Charges(m, amount) <=> amount <= report.rows[m].headroom /\ amount <= account
            /\ \A due \in SUBSET late : Fee * Cardinality(due) <= account
                                           => Fee * Cardinality(due) <= report.owed

\* Both probes hold good although they read in several awaits while charges,
\* withdrawals and the clock go on.
ProbesAreTrue == LossIsWithinAtRisk /\ LagAgreesWithContract
=============================================================================
