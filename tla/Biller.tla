------------------------------ MODULE Biller ------------------------------
(***************************************************************************)
(* IsubBiller: usage records of one PAYG mandate are taken in, settled in  *)
(* batches by charge_metered, and booked in the store.  One step per       *)
(* await, so that the chain, the subscriber, other flushes and a crash can *)
(* come between any two.                                                   *)
(*                                                                         *)
(* The store and the chain survive a crash; loc, the local variables of    *)
(* the settle calls, does not.  Of the journal the biller only ever reads  *)
(* the last submit of each sequence number and the charged entries: they   *)
(* are lastSubmit and ledger.  The chain is the slice of the contract the  *)
(* biller sees; landed is the list of its Charged events, each with the    *)
(* records the amount stands for.                                          *)
(***************************************************************************)
EXTENDS Integers, Sequences, FiniteSets, FiniteSetsExt

CONSTANTS
    Usage,          \* usage ids, numbered in settling order (atMs, usageId)
    AmountOf,       \* the frozen price of each record
    Runs,           \* callers of flush: the poll loop, a session's threshold
    MaxRetries,     \* attempts per settle
    Budget,         \* the mandate's total_budget
    RateCap,        \* its rate_cap
    MaxPerCharge,   \* its max_per_charge
    MaxBalance,     \* bound: the most the account is ever topped up to
    LateLanding     \* whether a transaction may land after its call failed

ASSUME BillerAssumption ==
    /\ Usage \subseteq Nat
    /\ AmountOf \in [Usage -> Nat \ {0}]
    /\ MaxRetries \in Nat \ {0}
    /\ Budget \in Nat
    /\ RateCap \in Nat
    /\ MaxPerCharge \in Nat
    /\ MaxBalance \in Nat
    /\ LateLanding \in BOOLEAN

Sum(ids) == MapThenSumSet(LAMBDA u : AmountOf[u], ids)

VARIABLES
    recorded,       \* store: usage records
    billed,         \* store: records marked billed
    lastSubmit,     \* journal: the records of the last submit per seq
    ledger,         \* journal: the charged entries
    landed,         \* chain: the records of each charge; charge_seq charges
    mandate,        \* chain: the mandate's other fields
    balance,        \* chain: the account's balance
    pending,        \* transactions that failed to the caller and may yet land
    up,             \* whether the process runs
    outage,         \* whether calls and the process may still fail
    loc,            \* the local variables of each settle
    alarms          \* why charge.failed was emitted after the last attempt

store == <<recorded, billed, lastSubmit, ledger>>
chain == <<landed, mandate, balance, pending>>
proc == <<up, outage>>
vars == <<store, chain, proc, loc, alarms>>

\* The chain's Clock against not_before and expiry.
Phase == {"EARLY", "OPEN", "EXPIRED"}

\* What nowMs, taken when flush is called, says of the mandate's times.  It is
\* compared with a tolerance to not_before, may lag the chain at expiry, may
\* be ahead of it at the end of a rate window, and grows old during a settle.
Views(phase, windowOver) ==
    {[phase |-> p, window_over |-> w] :
        p \in CASE phase = "EARLY" -> {"EARLY", "OPEN"}
                [] phase = "OPEN" -> {"OPEN"}
                [] phase = "EXPIRED" -> {"OPEN", "EXPIRED"},
        w \in {windowOver, TRUE}}

Idle == [pc |-> "idle", attempt |-> 0, failure |-> "none",
         view |-> [phase |-> "EARLY", window_over |-> FALSE],
         orphans |-> {}, rows |-> {}, limit |-> 0, seq |-> 0, batch |-> {}]

Init ==
    /\ recorded = {}
    /\ billed = {}
    /\ lastSubmit = <<>>
    /\ ledger = <<>>
    /\ landed = <<>>
    /\ mandate \in [spent : {0}, window_spent : {0}, window_over : {FALSE},
                    status : {"ACTIVE"}, phase : {"EARLY", "OPEN"}]
    /\ balance = 0
    /\ pending = {}
    /\ up = TRUE
    /\ outage = TRUE
    /\ loc = [r \in Runs |-> Idle]
    /\ alarms = {}

chargeSeq == Len(landed)

-----------------------------------------------------------------------------
(* The chain.                                                              *)

\* The contract's checks in its order; 0 when the charge goes through.
AbortCode(tx) ==
    LET amount == Sum(tx.ids)
        window_spent == IF mandate.window_over THEN 0 ELSE mandate.window_spent
    IN  IF mandate.status # "ACTIVE" THEN 4
        ELSE IF mandate.phase = "EXPIRED" THEN 5
        ELSE IF mandate.phase = "EARLY" THEN 6
        ELSE IF tx.seq # chargeSeq THEN 20
        ELSE IF ~(window_spent + amount <= RateCap) THEN 8
        ELSE IF ~(amount <= MaxPerCharge) THEN 24
        ELSE IF ~(mandate.spent + amount <= Budget) THEN 9
        ELSE IF ~(amount <= balance) THEN 10
        ELSE 0

charge_metered(tx) ==
    LET amount == Sum(tx.ids) IN
    /\ AbortCode(tx) = 0
    /\ landed' = Append(landed, tx.ids)
    /\ mandate' = [mandate EXCEPT
                     !.spent = @ + amount,
                     !.window_spent = amount +
                        IF mandate.window_over THEN 0 ELSE @,
                     !.window_over = FALSE]
    /\ balance' = balance - amount

\* A transaction whose call failed lands after all, or is dropped.
land_late ==
    \E tx \in pending :
        /\ pending' = pending \ {tx}
        /\ \/ charge_metered(tx)
           \/ UNCHANGED <<landed, mandate, balance>>
        /\ UNCHANGED <<store, proc, loc, alarms>>

Environment == UNCHANGED <<store, landed, pending, proc, loc, alarms>>

time_passes ==
    /\ \/ /\ mandate.phase = "EARLY"
          /\ mandate' = [mandate EXCEPT !.phase = "OPEN"]
       \/ /\ mandate.phase = "OPEN"
          /\ mandate' = [mandate EXCEPT !.phase = "EXPIRED"]
    /\ UNCHANGED balance
    /\ Environment

window_elapses ==
    /\ ~mandate.window_over
    /\ mandate' = [mandate EXCEPT !.window_over = TRUE]
    /\ UNCHANGED balance
    /\ Environment

subscriber_deposits ==
    /\ balance < MaxBalance
    /\ balance' = MaxBalance
    /\ UNCHANGED mandate
    /\ Environment

subscriber_withdraws ==
    /\ balance > 0
    /\ balance' = balance - 1
    /\ UNCHANGED mandate
    /\ Environment

subscriber_pauses ==
    /\ mandate.status = "ACTIVE"
    /\ mandate' = [mandate EXCEPT !.status = "PAUSED"]
    /\ UNCHANGED balance
    /\ Environment

subscriber_resumes ==
    /\ mandate.status = "PAUSED"
    /\ mandate' = [mandate EXCEPT !.status = "ACTIVE", !.window_spent = 0,
                                  !.window_over = FALSE]
    /\ UNCHANGED balance
    /\ Environment

subscriber_revokes ==
    /\ mandate.status # "REVOKED"
    /\ mandate' = [mandate EXCEPT !.status = "REVOKED"]
    /\ UNCHANGED balance
    /\ Environment

-----------------------------------------------------------------------------
(* Ingest.                                                                 *)

\* A second report of the same usageId changes nothing.
recordUsage(u) ==
    /\ up
    /\ recorded' = recorded \cup {u}
    /\ UNCHANGED <<billed, lastSubmit, ledger, chain, proc, loc, alarms>>

-----------------------------------------------------------------------------
(* flush, and one settle of it.                                            *)

At(r, pc) == up /\ loc[r].pc = pc
Set(r, new) == loc' = [loc EXCEPT ![r] = new]
Goto(r, pc) == Set(r, [loc[r] EXCEPT !.pc = pc])

\* settle returns or throws: flush reports it and the caller is done.
Return(r) ==
    /\ Set(r, Idle)
    /\ UNCHANGED alarms

\* The end of an attempt: another one, or the retries are exhausted.
NextAttempt(r, failure) ==
    IF loc[r].attempt < MaxRetries
      THEN /\ Set(r, [Idle EXCEPT !.pc = "recover", !.view = loc[r].view,
                                  !.attempt = loc[r].attempt + 1,
                                  !.failure = failure])
           /\ UNCHANGED alarms
      ELSE /\ Set(r, Idle)
           /\ alarms' = alarms \cup ({failure} \ {"none"})

flush(r) ==
    /\ At(r, "idle")
    /\ \E view \in Views(mandate.phase, mandate.window_over) :
          Set(r, [Idle EXCEPT !.pc = "queued", !.view = view])
    /\ UNCHANGED <<store, chain, proc, alarms>>

\* Mutant of flushOne: a settle does not wait for the one before it.
flushOne_Unchained(r) ==
    /\ At(r, "queued")
    /\ Set(r, [loc[r] EXCEPT !.pc = "recover", !.attempt = 1])
    /\ UNCHANGED <<store, chain, proc, alarms>>

\* flushOne chains the settles of a mandate: one runs at a time.
flushOne(r) ==
    /\ At(r, "queued")
    /\ \A q \in Runs \ {r} : loc[q].pc \in {"idle", "queued"}
    /\ Set(r, [loc[r] EXCEPT !.pc = "recover", !.attempt = 1])
    /\ UNCHANGED <<store, chain, proc, alarms>>

\* The submits with no charged entry, and among them those that landed.
Unsettled == DOMAIN lastSubmit \ {ledger[i].seq - 1 : i \in DOMAIN ledger}

\* Mutants of Orphans: none is looked for; the chain's seq is not compared.
Orphans_Ignored == {}
Orphans_Unchecked == Unsettled

Orphans == {seq \in Unsettled : seq < chargeSeq}

recoverOrphan(r) ==
    /\ At(r, "recover")
    /\ Set(r, [loc[r] EXCEPT !.orphans = Orphans,
                 !.pc = IF Orphans = {} THEN "unbilled" ELSE "mark"])
    /\ UNCHANGED <<store, chain, proc, alarms>>

Oldest(r) == CHOOSE s \in loc[r].orphans : \A t \in loc[r].orphans : s <= t

\* Mutant of recover_mark: everything unbilled, not the submit's records.
recover_mark_All(r) ==
    /\ At(r, "mark")
    /\ billed' = recorded
    /\ Goto(r, "backfill")
    /\ UNCHANGED <<recorded, lastSubmit, ledger, chain, proc, alarms>>

recover_mark(r) ==
    /\ At(r, "mark")
    /\ billed' = billed \cup lastSubmit[Oldest(r)]
    /\ Goto(r, "backfill")
    /\ UNCHANGED <<recorded, lastSubmit, ledger, chain, proc, alarms>>

recover_backfill(r) ==
    /\ At(r, "backfill")
    /\ ledger' = Append(ledger, [seq |-> Oldest(r) + 1,
                                 ids |-> lastSubmit[Oldest(r)]])
    /\ LET left == loc[r].orphans \ {Oldest(r)} IN
          Set(r, [loc[r] EXCEPT !.orphans = left,
                    !.pc = IF left = {} THEN "unbilled" ELSE "mark"])
    /\ UNCHANGED <<recorded, billed, lastSubmit, chain, proc, alarms>>

read_unbilled(r) ==
    /\ At(r, "unbilled")
    /\ LET rows == recorded \ billed IN
          IF rows = {}
            THEN Return(r)
            ELSE /\ Set(r, [loc[r] EXCEPT !.rows = rows, !.pc = "mandate"])
                 /\ UNCHANGED alarms
    /\ UNCHANGED <<store, chain, proc>>

Min2(x, y) == IF x < y THEN x ELSE y

\* spendableNow but for the account's balance, which is read afterwards.
spendable(view) ==
    LET windowLeft == IF view.window_over THEN RateCap
                        ELSE RateCap - mandate.window_spent
    IN  IF view.phase = "EARLY" THEN 0
          ELSE Min2(Budget - mandate.spent, Min2(windowLeft, MaxPerCharge))

read_mandate(r) ==
    /\ At(r, "mandate")
    /\ IF loc[r].view.phase = "EXPIRED" \/ mandate.status # "ACTIVE"
         THEN Return(r)
         ELSE /\ Set(r, [loc[r] EXCEPT !.limit = spendable(loc[r].view),
                                       !.seq = chargeSeq, !.pc = "account"])
              /\ UNCHANGED alarms
    /\ UNCHANGED <<store, chain, proc>>

\* Mutant of Batch: a record that fits exactly is left out.
Batch_Strict(rows, limit) ==
    {u \in rows : Sum({v \in rows : v <= u}) < limit}

\* Whole records, oldest first, up to the first that does not fit.
Batch(rows, limit) ==
    {u \in rows : Sum({v \in rows : v <= u}) <= limit}

\* Mutant of read_account: the first submit of a seq stays the recorded one.
read_account_FirstSubmit(r) ==
    /\ At(r, "account")
    /\ LET batch == Batch(loc[r].rows, Min2(loc[r].limit, balance))
           seq == loc[r].seq
       IN  /\ batch # {}
           /\ lastSubmit' = [s \in DOMAIN lastSubmit \cup {seq} |->
                               IF s \in DOMAIN lastSubmit
                                 THEN lastSubmit[s] ELSE batch]
           /\ Set(r, [loc[r] EXCEPT !.batch = batch, !.pc = "submit"])
    /\ UNCHANGED <<recorded, billed, ledger, chain, proc, alarms>>

\* getAccount returns: the batch, and its submit entry in the journal.
read_account(r) ==
    /\ At(r, "account")
    /\ LET batch == Batch(loc[r].rows, Min2(loc[r].limit, balance))
           seq == loc[r].seq
       IN  IF batch = {}
             THEN Return(r) /\ UNCHANGED lastSubmit
             ELSE /\ lastSubmit' = [s \in DOMAIN lastSubmit \cup {seq} |->
                                      IF s = seq THEN batch ELSE lastSubmit[s]]
                  /\ Set(r, [loc[r] EXCEPT !.batch = batch, !.pc = "submit"])
                  /\ UNCHANGED alarms
    /\ UNCHANGED <<recorded, billed, ledger, chain, proc>>

Tx(r) == [seq |-> loc[r].seq, ids |-> loc[r].batch]

\* The charge lands, and the caller learns of it or does not (a lost ack).
charge_lands(r) ==
    /\ At(r, "submit")
    /\ charge_metered(Tx(r))
    /\ Goto(r, "commit")
    /\ UNCHANGED <<store, pending, proc, alarms>>

charge_ack_lost(r) ==
    /\ At(r, "submit")
    /\ charge_metered(Tx(r))
    /\ NextAttempt(r, "error")
    /\ UNCHANGED <<store, pending, proc>>

\* Over a cap: the next attempt takes less.  Short of money, or too early: the
\* usage is carried.  Everything else may have landed: the next attempt sees.
charge_aborts(r) ==
    /\ At(r, "submit")
    /\ LET code == AbortCode(Tx(r)) IN
          /\ code # 0
          /\ CASE code \in {8, 9, 24} -> NextAttempt(r, loc[r].failure)
               [] code \in {6, 10} -> Return(r)
               [] OTHER -> NextAttempt(r, "error")
    /\ UNCHANGED <<store, chain, proc>>

\* No answer and, so far, no effect.
charge_fails(r) ==
    /\ At(r, "submit")
    /\ pending' = IF LateLanding THEN pending \cup {Tx(r)} ELSE pending
    /\ NextAttempt(r, "error")
    /\ UNCHANGED <<store, landed, mandate, balance, proc>>

\* commitCharge.
commit_mark(r) ==
    /\ At(r, "commit")
    /\ billed' = billed \cup loc[r].batch
    /\ Goto(r, "journal")
    /\ UNCHANGED <<recorded, lastSubmit, ledger, chain, proc, alarms>>

commit_journal(r) ==
    /\ At(r, "journal")
    /\ ledger' = Append(ledger, [seq |-> loc[r].seq + 1,
                                 ids |-> loc[r].batch])
    /\ IF loc[r].batch = loc[r].rows
         THEN Return(r)
         ELSE NextAttempt(r, loc[r].failure)
    /\ UNCHANGED <<recorded, billed, lastSubmit, chain, proc>>

\* The store fails under commitCharge: the catch takes it for a failed charge.
commit_fails(r) ==
    /\ At(r, "commit") \/ At(r, "journal")
    /\ NextAttempt(r, "commit")
    /\ UNCHANGED <<store, chain, proc>>

\* A read of the chain or a write of the store fails: settle throws.
settle_throws(r) ==
    /\ \E pc \in {"recover", "mark", "backfill", "unbilled", "mandate",
                  "account"} : At(r, pc)
    /\ Return(r)
    /\ UNCHANGED <<store, chain, proc>>

crash ==
    /\ outage
    /\ up
    /\ up' = FALSE
    /\ loc' = [r \in Runs |-> Idle]
    /\ \/ UNCHANGED <<landed, mandate, balance>>
       \* A transaction was on its way.
       \/ \E r \in Runs : At(r, "submit") /\ charge_metered(Tx(r))
    /\ pending' = pending \cup
         {Tx(r) : r \in {q \in Runs : LateLanding /\ At(q, "submit")}}
    /\ UNCHANGED <<store, outage, alarms>>

restart ==
    /\ ~up
    /\ up' = TRUE
    /\ UNCHANGED <<store, chain, outage, loc, alarms>>

outage_ends ==
    /\ outage
    /\ outage' = FALSE
    /\ UNCHANGED <<store, chain, up, loc, alarms>>

-----------------------------------------------------------------------------
SettleStep(r) ==
    \/ flushOne(r)
    \/ recoverOrphan(r)
    \/ recover_mark(r)
    \/ recover_backfill(r)
    \/ read_unbilled(r)
    \/ read_mandate(r)
    \/ read_account(r)
    \/ charge_lands(r)
    \/ charge_aborts(r)
    \/ commit_mark(r)
    \/ commit_journal(r)

Fault(r) ==
    /\ outage
    /\ \/ charge_ack_lost(r)
       \/ charge_fails(r)
       \/ commit_fails(r)
       \/ settle_throws(r)

Subscriber ==
    \/ subscriber_deposits
    \/ subscriber_withdraws
    \/ subscriber_pauses
    \/ subscriber_resumes
    \/ subscriber_revokes

Next ==
    \/ \E u \in Usage : recordUsage(u)
    \/ \E r \in Runs : flush(r) \/ SettleStep(r) \/ Fault(r)
    \/ crash
    \/ restart
    \/ outage_ends
    \/ land_late
    \/ time_passes
    \/ window_elapses
    \/ Subscriber

Spec == Init /\ [][Next]_vars

\* The poll loop keeps flushing, a supervisor restarts a crashed process, time
\* passes and calls return.  An outage of the chain's node or the store, and a
\* series of crashes, ends: without that nothing can be promised.
Fairness ==
    /\ WF_vars(restart)
    /\ WF_vars(outage_ends)
    /\ WF_vars(window_elapses)
    /\ \A r \in Runs : WF_vars(flush(r)) /\ WF_vars(SettleStep(r))

FairSpec == Spec /\ Fairness

-----------------------------------------------------------------------------
(* Properties.                                                             *)

Entry == [seq : Nat, ids : SUBSET Usage]

Local == [pc : {"idle", "queued", "recover", "mark", "backfill", "unbilled",
                "mandate", "account", "submit", "commit", "journal"},
          attempt : 0 .. MaxRetries, failure : {"none", "error", "commit"},
          view : [phase : Phase, window_over : BOOLEAN],
          orphans : SUBSET Nat, rows : SUBSET Usage, limit : Int, seq : Nat,
          batch : SUBSET Usage]

\* Every variable has its type.
TypeOK ==
    /\ recorded \in SUBSET Usage
    /\ billed \in SUBSET Usage
    /\ DOMAIN lastSubmit \subseteq Nat
    /\ \A s \in DOMAIN lastSubmit : lastSubmit[s] \in SUBSET Usage
    /\ ledger \in Seq(Entry)
    /\ landed \in Seq(SUBSET Usage)
    /\ mandate \in [spent : Int, window_spent : Int, window_over : BOOLEAN,
                    status : {"ACTIVE", "PAUSED", "REVOKED"}, phase : Phase]
    /\ balance \in Int
    /\ pending \subseteq Entry
    /\ up \in BOOLEAN
    /\ outage \in BOOLEAN
    /\ loc \in [Runs -> Local]
    /\ alarms \subseteq {"error", "commit"}

Charged == UNION {landed[i] : i \in DOMAIN landed}
Booked == UNION {ledger[i].ids : i \in DOMAIN ledger}

\* No usage record is charged twice (G1), whatever acks are lost and wherever
\* the process crashes between the charge and the note of it.
ChargedOnce ==
    \A i \in DOMAIN landed, j \in DOMAIN landed :
        i # j => landed[i] \cap landed[j] = {}

\* Nothing is written off: a record is marked billed only when a charge for it
\* landed.
BilledWasCharged == billed \subseteq Charged

\* The journal is the merchant's ledger: its charged entries are the chain's
\* charges, in the chain's order, with the same membership, each once, and
\* only the newest charge may still be missing.
LedgerFollowsChain ==
    /\ Len(ledger) \in {Len(landed) - 1, Len(landed)}
    /\ \A i \in DOMAIN ledger : ledger[i] = [seq |-> i, ids |-> landed[i]]

\* A settle that is about to charge knows the books: whatever was charged is
\* booked, and its batch is none of it.
SubmitsKnowTheBooks ==
    \A r \in Runs :
        loc[r].pc = "submit" =>
            /\ Charged \subseteq billed
            /\ loc[r].batch \cap Charged = {}
            /\ loc[r].batch \subseteq recorded

\* However late a transaction lands, the ledger never counts a charge twice or
\* one the chain does not have, so that the drift reconcile reports is the
\* number of charges the journal misses.  (The variables have their types.)
LedgerCountsCharges ==
    /\ TypeOK
    /\ \A i \in DOMAIN ledger, j \in DOMAIN ledger :
          i # j => ledger[i].seq # ledger[j].seq
    /\ \A i \in DOMAIN ledger : ledger[i].seq \in 1 .. Len(landed)

\* What the comment above commitCharge's call says: a failure to record a
\* charge that landed is not reported as a charge failure.
CommitFailureIsNoChargeFailure == "commit" \notin alarms

\* The biller implements metered billing.
Billing == INSTANCE UsageBilling WITH
    accepted <- recorded, charged <- Charged, booked <- billed,
    paid <- mandate.spent
ImplementsBilling == Billing!Spec

\* Once the mandate stays chargeable and the account stays funded, every
\* record taken in is charged and booked in the end.
Collectable ==
    /\ mandate.status = "ACTIVE"
    /\ mandate.phase = "OPEN"
    /\ balance >= Sum(recorded \ Charged)
UsageIsBilled ==
    \A u \in Usage : <>[]Collectable /\ <>(u \in recorded) => <>[](u \in billed)
=============================================================================
