----------------------------- MODULE Scheduler -----------------------------
(***************************************************************************)
(* The phase orchestrator of sdk/src/scheduler.ts over its SQL store       *)
(* (sqlScheduleStore of sql-store.ts), for one subscription.               *)
(*                                                                         *)
(* The plan is a sequence of phases.  A phase that costs less than the     *)
(* signed price is reached silently, and the difference is refunded for    *)
(* every later charge; one that costs more waits for a new mandate.  The   *)
(* keeper charges the live mandate at its own price all the while, and the *)
(* merchant, the subscriber and other ticks act between the awaits of a    *)
(* tick: nothing in the code keeps two ticks apart.                        *)
(***************************************************************************)
EXTENDS Integers, Sequences, FiniteSetsExt

CONSTANTS
    Phases,       \* ascending in start: [start, kind, price]
    Ticks,        \* the calls of tick that may be in progress at a time
    MaxMandates,  \* bound: mandates signed, the first and one per upgrade
    MaxSeq,       \* bound: charges of a mandate
    MaxTime,      \* bound: the clock
    MaxSchedules, \* bound: registrations of one process
    MaxFaults     \* bound: crashes and failing calls

ASSUME SchedulerAssumption ==
    /\ Phases \in Seq([start : Nat, kind : {"fixed", "payg"}, price : Nat])
    /\ Len(Phases) > 0
    /\ \A i, j \in DOMAIN Phases : i < j => Phases[i].start < Phases[j].start
    /\ MaxMandates \in Nat \ {0}
    /\ {MaxSeq, MaxTime, MaxSchedules, MaxFaults} \subseteq Nat

VARIABLES
    now,
    chain,    \* per mandate: price, live, refunded_total, charges
    objs,     \* the process's schedule objects; the map has the last one
    ready,    \* initialized
    disk,     \* the store's row, or NoSchedule
    tick,     \* where each tick in progress is, and what it has read
    late,     \* refunds whose call failed and that may land yet
    slips,    \* history: did ticks overlap, was a schedule replaced in use
    faults

scheduler == <<now, chain, objs, ready, disk, tick, late, slips, faults>>
process == <<objs, ready, disk, tick, slips>>

\* The mandates in the order the subscriber signs them.
MandateId == 1..MaxMandates
First == 1
NoSeq == -1
NoPhase == 0

\* registered (history) is the phase the schedule was registered in.
Schedule ==
    [mandate : MandateId, cursor : DOMAIN Phases,
     status : {"active", "awaiting_consent", "cancelled"},
     through : NoSeq..MaxSeq, pending : {NoPhase} \cup DOMAIN Phases,
     registered : DOMAIN Phases]
NoSchedule == [mandate |-> First, cursor |-> 1, status |-> "none",
               through |-> NoSeq, pending |-> NoPhase, registered |-> 1]
mem == IF objs = <<>> THEN NoSchedule ELSE objs[Len(objs)]

\* A charge is made in a phase; refunds (history) are the phases whose
\* difference was sent back for it.
ChargeState == [phase : DOMAIN Phases, refunds : Seq(DOMAIN Phases)]
ChargeOf(phase) == [phase |-> phase, refunds |-> <<>>]
MandateState ==
    [price : Nat, live : BOOLEAN, refunded : Nat, charges : Seq(ChargeState)]
charge_seq(m) == Len(chain[m].charges)

TickState ==
    [at : {"idle", "load", "list", "read", "advance", "refund", "refunded"},
     time : Nat, obj : Nat, mandate : MandateId, price : Nat, seq : 0..MaxSeq]
Idle == [at |-> "idle", time |-> 0, obj |-> 0, mandate |-> First, price |-> 0, seq |-> 0]

priceOf(i) == Phases[i].price
Arrived(from, time) == {i \in DOMAIN Phases : i > from /\ Phases[i].start <= time}

SchedulerTypeOK ==
    /\ now \in 0..MaxTime
    /\ chain \in [MandateId -> MandateState]
    /\ objs \in Seq(Schedule) /\ ready \in BOOLEAN
    /\ disk \in Schedule \cup {NoSchedule}
    /\ tick \in [Ticks -> TickState]
    /\ \A t \in Ticks : tick[t].at \in {"read", "advance", "refund", "refunded"} =>
          tick[t].obj \in DOMAIN objs
    /\ late \subseteq [mandate : MandateId, amount : Nat, fault : Nat]
    /\ slips \in [overlap : BOOLEAN, replaced : BOOLEAN]
    /\ faults \in 0..MaxFaults

\* The first mandate covers the first phase, or a later one: a trial is free
\* under the price of the phase that follows it.
SchedulerInit ==
    /\ now = 0
    /\ \E i \in DOMAIN Phases :
          /\ priceOf(1) <= priceOf(i)
          /\ chain = [m \in MandateId |-> [price |-> priceOf(i), live |-> m = First,
                                          refunded |-> 0, charges |-> <<>>]]
    /\ objs = <<>> /\ ready = FALSE /\ disk = NoSchedule
    /\ tick = [t \in Ticks |-> Idle]
    /\ late = {}
    /\ slips = [overlap |-> FALSE, replaced |-> FALSE]
    /\ faults = 0

Fault == faults < MaxFaults /\ faults' = faults + 1

-----------------------------------------------------------------------------
(* The chain.                                                              *)

EffectivePhase == Max({1} \cup Arrived(1, now))

Charge(m) ==
    /\ chain[m].live /\ charge_seq(m) < MaxSeq
    /\ chain' = [chain EXCEPT ![m].charges = Append(@, ChargeOf(EffectivePhase))]
    /\ UNCHANGED <<now, process, late, faults>>

\* The contract takes back at most what the mandate has spent.
Refundable(m, amount) == chain[m].refunded + amount <= chain[m].price * charge_seq(m)

LateRefund(r) ==
    /\ r \in late /\ late' = late \ {r}
    /\ Refundable(r.mandate, r.amount)
    /\ chain' = [chain EXCEPT ![r.mandate].refunded = @ + r.amount]
    /\ UNCHANGED <<now, process, faults>>

Elapse ==
    /\ now < MaxTime /\ now' = now + 1
    /\ UNCHANGED <<chain, process, late, faults>>

\* The subscriber signs the phase that waits, and revokes the old mandate.
SignUpgrade ==
    /\ disk.status = "awaiting_consent" /\ chain[disk.mandate].live
    /\ disk.mandate + 1 \in MandateId
    /\ chain' = [chain EXCEPT ![disk.mandate].live = FALSE,
                              ![disk.mandate + 1].live = TRUE,
                              ![disk.mandate + 1].price = priceOf(disk.pending)]
    /\ UNCHANGED <<now, process, late, faults>>

-----------------------------------------------------------------------------
(* The merchant's calls.                                                   *)

\* The object is changed first; the upsert may throw, and leaves the row alone.
Upserted(s) ==
    \/ disk' = s /\ faults' = faults
    \/ disk' = disk /\ Fault
Changed(o, s) == objs' = [objs EXCEPT ![o] = s] /\ Upserted(s)

Busy == \E t \in Ticks : tick[t].at # "idle"
Waiting == "awaiting_consent" \in {mem.status, disk.status}

\* The first call of a process loads the row.
Loaded == objs' = IF disk = NoSchedule THEN objs ELSE Append(objs, disk)
init ==
    /\ ~ready /\ ready' = TRUE
    /\ Loaded
    /\ UNCHANGED <<now, chain, disk, tick, late, slips, faults>>

\* The merchant registers the plan, early or late, once or again: a new object
\* takes the place of the one before, which ticks may still have in hand.
schedule ==
    /\ ready /\ Len(objs) < MaxSchedules
    /\ \E m \in MandateId :
          LET s == [mandate |-> m, cursor |-> EffectivePhase, status |-> "active",
                    through |-> NoSeq, pending |-> NoPhase, registered |-> EffectivePhase]
          IN  chain[m].live /\ objs' = Append(objs, s) /\ Upserted(s)
    /\ slips' = [slips EXCEPT !.replaced = @ \/ Busy \/ Waiting]
    /\ UNCHANGED <<now, chain, ready, tick, late>>

\* The merchant repoints the schedule to the mandate the subscriber has now.
applyConsent ==
    /\ ready /\ mem.status = "awaiting_consent" /\ mem.pending # NoPhase
    /\ \E m \in MandateId \ {mem.mandate} :
          /\ chain[m].live
          /\ Changed(Len(objs), [mem EXCEPT !.mandate = m, !.cursor = mem.pending,
                                   !.status = "active", !.through = NoSeq, !.pending = NoPhase])
    /\ UNCHANGED <<now, chain, ready, tick, late, slips>>

cancel ==
    /\ ready /\ mem.status \in {"active", "awaiting_consent"}
    /\ Changed(Len(objs), [mem EXCEPT !.status = "cancelled"])
    /\ UNCHANGED <<now, chain, ready, tick, late, slips>>

-----------------------------------------------------------------------------
(* A tick takes the time, awaits init, lists the schedule, awaits the      *)
(* mandate, advances the cursor, awaits the upsert, and refunds.           *)

Offchain == UNCHANGED <<now, chain, late>>
Goes(t, at) == tick' = [tick EXCEPT ![t].at = at]
Ends(t) == tick' = [tick EXCEPT ![t] = Idle]
Object(t) == objs[tick[t].obj]

TickStart(t) ==
    /\ tick[t].at = "idle"
    /\ tick' = [tick EXCEPT ![t].at = IF ready THEN "list" ELSE "load", ![t].time = now]
    /\ slips' = [slips EXCEPT !.overlap = @ \/ Busy]
    /\ Offchain /\ UNCHANGED <<objs, ready, disk, faults>>

\* Calls that awaited init together load the row one after the other.
TickLoad(t) ==
    /\ tick[t].at = "load" /\ Goes(t, "list")
    /\ Loaded /\ ready' = TRUE
    /\ slips' = [slips EXCEPT !.replaced = @ \/ ready]
    /\ Offchain /\ UNCHANGED <<disk, faults>>

TickList(t) ==
    /\ tick[t].at = "list"
    /\ IF mem.status \in {"active", "awaiting_consent"}
          THEN tick' = [tick EXCEPT ![t].at = "read", ![t].obj = Len(objs), ![t].mandate = mem.mandate]
          ELSE Ends(t)
    /\ Offchain /\ UNCHANGED <<objs, ready, disk, slips, faults>>

\* The mandate is read, or cannot be.
TickRead(t) ==
    LET m == tick[t].mandate IN
    /\ tick[t].at = "read"
    /\ \/ /\ tick' = [tick EXCEPT ![t].at = "advance", ![t].price = chain[m].price,
                                 ![t].seq = charge_seq(m)]
          /\ faults' = faults
       \/ Ends(t) /\ Fault
    /\ Offchain /\ UNCHANGED <<objs, ready, disk, slips>>

\* What was read is looked up by the mandate the schedule is on by now.
Resolved(t) == tick[t].at = "advance" /\ tick[t].mandate = Object(t).mandate

Skip(t) ==
    /\ tick[t].at = "advance" /\ ~Resolved(t) /\ Ends(t)
    /\ Offchain /\ UNCHANGED <<objs, ready, disk, slips, faults>>

Target(t) == Max({Object(t).cursor} \cup Arrived(Object(t).cursor, tick[t].time))
IsUpgrade_Never(i, price) == FALSE
IsUpgrade(i, price) == Phases[i].kind = "fixed" /\ priceOf(i) > price
IsDowngrade(i, price) == Phases[i].kind = "fixed" /\ priceOf(i) < price
Advances(t) == Object(t).status = "active" /\ Target(t) # Object(t).cursor

\* A throw ends this schedule's part of the tick.
Then(t, at) == IF faults' = faults THEN Goes(t, at) ELSE Ends(t)

AwaitConsent(t) ==
    /\ Resolved(t) /\ Advances(t) /\ IsUpgrade(Target(t), tick[t].price)
    /\ Changed(tick[t].obj, [Object(t) EXCEPT !.status = "awaiting_consent", !.pending = Target(t)])
    /\ Then(t, "refund")
    /\ Offchain /\ UNCHANGED <<ready, slips>>

\* A downgrade takes the charges so far as its baseline.
Baseline_Kept(t) == Object(t).through
Baseline(t) == IF IsDowngrade(Target(t), tick[t].price) THEN tick[t].seq ELSE Object(t).through

Advance(t) ==
    /\ Resolved(t) /\ Advances(t) /\ ~IsUpgrade(Target(t), tick[t].price)
    /\ Changed(tick[t].obj, [Object(t) EXCEPT !.cursor = Target(t), !.through = Baseline(t)])
    /\ Then(t, "refund")
    /\ Offchain /\ UNCHANGED <<ready, slips>>

Stay(t) ==
    /\ Resolved(t) /\ ~Advances(t) /\ Goes(t, "refund")
    /\ Offchain /\ UNCHANGED <<objs, ready, disk, slips, faults>>

Refunds(t) == Object(t).status = "active" /\ IsDowngrade(Object(t).cursor, tick[t].price)
Base_Current(t) == tick[t].seq
Base(t) == IF Object(t).through = NoSeq THEN tick[t].seq ELSE Object(t).through
NewCharges(t) == tick[t].seq - Base(t)
Amount(t) == (tick[t].price - priceOf(Object(t).cursor)) * NewCharges(t)

NoRefund(t) ==
    /\ tick[t].at = "refund" /\ ~(Refunds(t) /\ NewCharges(t) > 0)
    /\ IF Refunds(t) /\ Object(t).through = NoSeq
          THEN Changed(tick[t].obj, [Object(t) EXCEPT !.through = tick[t].seq])
          ELSE UNCHANGED <<objs, disk, faults>>
    /\ Ends(t)
    /\ Offchain /\ UNCHANGED <<ready, slips>>

\* The charges a refund is for, with the phase whose difference it pays.
Marked(charges, from, to, phase) ==
    [i \in DOMAIN charges |->
        IF i \in (from + 1)..to
           THEN [charges[i] EXCEPT !.refunds = Append(charges[i].refunds, phase)]
           ELSE charges[i]]

ProcessDies == objs' = <<>> /\ ready' = FALSE /\ tick' = [t \in Ticks |-> Idle]

\* A refund lands and is answered; its call fails, or the process dies in it,
\* and it lands later or never; or the contract refuses more than was spent.
Refund(t) ==
    LET m == Object(t).mandate
        marked == Marked(chain[m].charges, Base(t), tick[t].seq, Object(t).cursor)
        sent == [chain EXCEPT ![m].charges = marked]
    IN
    /\ tick[t].at = "refund" /\ Refunds(t) /\ NewCharges(t) > 0
    /\ \/ /\ Refundable(m, Amount(t)) /\ Goes(t, "refunded")
          /\ chain' = [sent EXCEPT ![m].refunded = @ + Amount(t)]
          /\ UNCHANGED <<objs, ready, late, faults>>
       \/ /\ chain' = sent /\ Fault
          /\ late' = late \cup {[mandate |-> m, amount |-> Amount(t), fault |-> faults']}
          /\ (Ends(t) /\ UNCHANGED <<objs, ready>>) \/ ProcessDies
       \/ /\ ~Refundable(m, Amount(t)) /\ Ends(t)
          /\ UNCHANGED <<chain, objs, ready, late, faults>>
    /\ UNCHANGED <<now, disk, slips>>

RecordRefund(t) ==
    /\ tick[t].at = "refunded"
    /\ Changed(tick[t].obj, [Object(t) EXCEPT !.through = tick[t].seq])
    /\ Ends(t)
    /\ Offchain /\ UNCHANGED <<ready, slips>>

-----------------------------------------------------------------------------
Crash ==
    /\ ready /\ Fault /\ ProcessDies
    /\ Offchain /\ UNCHANGED <<disk, slips>>

TickStep(t) ==
    \/ TickLoad(t) \/ TickList(t) \/ TickRead(t) \/ Skip(t) \/ AwaitConsent(t)
    \/ Advance(t) \/ Stay(t) \/ NoRefund(t) \/ Refund(t) \/ RecordRefund(t)

SchedulerNext ==
    \/ \E m \in MandateId : Charge(m)
    \/ \E r \in late : LateRefund(r)
    \/ Elapse \/ SignUpgrade \/ init \/ schedule \/ applyConsent \/ cancel \/ Crash
    \/ \E t \in Ticks : TickStart(t) \/ TickStep(t)

SchedulerSpec == SchedulerInit /\ [][SchedulerNext]_scheduler

-----------------------------------------------------------------------------
(* Properties.                                                             *)

\* A price rise waits for consent, whatever the order of ticks, signatures,
\* consents, failing upserts and restarts: the phase in effect costs no more
\* than the live mandate's signature covers, unless the schedule was
\* registered in it, and it is the live mandate the schedule is on.
\* A schedule that was replaced while a tick or a consent had it in hand is
\* excepted: the tick writes what it has over the row of the new one.
UpgradesAreSigned ==
    /\ SchedulerTypeOK
    /\ ~slips.replaced /\ mem.status = "active" =>
          /\ chain[mem.mandate].live
          /\ Phases[mem.cursor].kind = "fixed" /\ mem.cursor # mem.registered
                => priceOf(mem.cursor) <= chain[mem.mandate].price

\* As long as ticks do not overlap, a charge is refunded once, and once more
\* for each failed call or crash; and never the difference to a phase that
\* began after it was made: scheduler.ts 229, "only charges from HERE on get
\* the delta refunded (past periods were correct)".
RefundsArePromised ==
    ~slips.overlap /\ ~slips.replaced =>
        \A m \in MandateId : \A i \in DOMAIN chain[m].charges :
            LET c == chain[m].charges[i]
            IN  /\ Len(c.refunds) <= 1 + faults
                /\ \A k \in DOMAIN c.refunds : c.refunds[k] <= c.phase

\* A charge the scheduler knows to be above the effective price is refunded
\* (or the phase moves on), although ticks fail and the process restarts;
\* unless a lost answer has left more to refund than the contract takes back.
Unrefunded ==
    /\ mem.status = "active" /\ mem.through # NoSeq
    /\ Phases[mem.cursor].kind = "fixed"
    /\ LET due == (chain[mem.mandate].price - priceOf(mem.cursor))
                     * (charge_seq(mem.mandate) - mem.through)
       IN  due > 0 /\ Refundable(mem.mandate, due)
ChargesAreRefunded == Unrefunded ~> ~Unrefunded

\* scheduler.ts 46 and scheduler-design.md 159, the silent refund is
\* idempotent by charge_seq: what a mandate was sent back is at most one
\* difference per charge, the greatest of those it was refunded.
Difference(m, i) ==
    LET c == chain[m].charges[i]
    IN  Max({0} \cup {chain[m].price - priceOf(c.refunds[k]) : k \in DOMAIN c.refunds})
RefundsAreIdempotent ==
    \A m \in MandateId :
        LET Of(i) == Difference(m, i)
        IN  chain[m].refunded <= MapThenSumSet(Of, DOMAIN chain[m].charges)
=============================================================================
