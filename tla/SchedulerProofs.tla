-------------------------- MODULE SchedulerProofs --------------------------
(***************************************************************************)
(* Theorems about Scheduler, for any phase plan, any number of upgrades    *)
(* and of overlapping ticks, and with charges, signatures, registrations,  *)
(* failing calls and crashes in any order: a price rise waits for the      *)
(* signature that covers it; and a tick that runs alone refunds a charge   *)
(* once, but for the calls that failed, and never for a later phase.       *)
(***************************************************************************)
EXTENDS Scheduler, SumTheorems, TLAPS

-----------------------------------------------------------------------------
(* The invariants.                                                         *)

\* What waits is a phase; a process that has loaded nothing has nothing.
Sched == {s \in Schedule : s.status = "awaiting_consent" => s.pending # NoPhase}
TypeInv ==
    /\ SchedulerTypeOK
    /\ objs \in Seq(Sched) /\ disk \in Sched \cup {NoSchedule}
    /\ \A m \in MandateId : charge_seq(m) <= MaxSeq
    /\ ~ready => objs = <<>>

Fixed(i) == Phases[i].kind = "fixed"

\* Signing an upgrade revokes the mandate before: one is live.
OneLive == \E m \in MandateId : \A n \in MandateId : chain[n].live <=> n = m

\* A schedule stands on the live mandate; the next one is live only if the
\* schedule was waiting for it, and then covers the phase.  What waits costs
\* more than the mandate covers, what the schedule has come to does not.
Stands(c, s) ==
    /\ \A m \in MandateId : c[m].live =>
          \/ m = s.mandate
          \/ /\ m = s.mandate + 1
             /\ s.status \in {"awaiting_consent", "cancelled"}
             /\ s.status = "awaiting_consent" => priceOf(s.pending) <= c[m].price
    /\ s.status = "awaiting_consent" =>
          Fixed(s.pending) /\ priceOf(s.pending) > c[s.mandate].price
    /\ s.status = "active" /\ Fixed(s.cursor) /\ s.cursor # s.registered =>
          priceOf(s.cursor) <= c[s.mandate].price

\* The row is never ahead of the schedule in memory, and when it waits for a
\* signature on the same mandate, so does the schedule, for the same phase,
\* or it was cancelled.
Follows(row, s) ==
    /\ row.mandate <= s.mandate
    /\ row.status = "awaiting_consent" /\ row.mandate = s.mandate =>
          /\ s.status \in {"awaiting_consent", "cancelled"}
          /\ s.status = "awaiting_consent" => s.pending = row.pending

\* A tick has the schedule in hand that the map has, and knows the price of
\* the mandate it read: the schedule's, or one the schedule has left since.
Knows(t) == tick[t].at \in {"advance", "refund", "refunded"}
Listed(t) == tick[t].at = "read" \/ Knows(t)
KnowsPrice(t) ==
    Listed(t) =>
        /\ tick[t].obj = Len(objs) /\ tick[t].mandate <= mem.mandate
        /\ Knows(t) => tick[t].price = chain[tick[t].mandate].price

Consented ==
    /\ OneLive
    /\ Stands(chain, disk)
    /\ objs # <<>> => Stands(chain, mem) /\ Follows(disk, mem)
    /\ \A t \in Ticks : KnowsPrice(t)
UpgradeInv == TypeInv /\ (~slips.replaced => Consented)

EffectiveAt(time) == Max({1} \cup Arrived(1, time))
Begun(i, time) == i = 1 \/ Phases[i].start <= time
Calm == ~slips.replaced /\ ~slips.overlap

Alone == \A t, u \in Ticks : tick[t].at # "idle" /\ tick[u].at # "idle" => t = u

\* A charge after the last one a downgrade has refunded was made in the phase
\* or later, and was refunded by failed calls at most; and by the refund that
\* is answered and not yet recorded.
Sent == IF \E t \in Ticks : tick[t].at = "refunded" THEN 1 ELSE 0
Books(c, s, n) ==
    s.through # NoSeq /\ IsDowngrade(s.cursor, c[s.mandate].price) =>
        \A i \in DOMAIN c[s.mandate].charges : i > s.through =>
            /\ c[s.mandate].charges[i].phase >= s.cursor
            /\ Len(c[s.mandate].charges[i].refunds) <= n

\* The phases of a schedule have begun.
Reached(s, time) == s.cursor <= EffectiveAt(time) /\ s.pending <= EffectiveAt(time)

\* The charges after those a tick read are in its phase or later, and were
\* not refunded.
Fresh(c, k) ==
    /\ k.seq <= Len(c[k.mandate].charges)
    /\ \A i \in DOMAIN c[k.mandate].charges : i > k.seq =>
          /\ c[k.mandate].charges[i].phase >= EffectiveAt(k.time)
          /\ c[k.mandate].charges[i].refunds = <<>>

\* A tick that read one mandate does not refund on another: the schedule left
\* it for a phase that costs more.
Holds(k, s) ==
    /\ k.at \in {"refund", "refunded"} /\ k.mandate # s.mandate =>
          /\ k.at = "refund" /\ s.status # "awaiting_consent"
          /\ s.status = "active" => ~IsDowngrade(s.cursor, k.price)
    /\ k.at = "refunded" => s.status # "awaiting_consent"

InHand(t) ==
    tick[t].at # "idle" =>
        /\ tick[t].time <= now
        /\ Reached(mem, tick[t].time) /\ Reached(disk, tick[t].time)
        /\ Knows(t) => Fresh(chain, tick[t])
        /\ Holds(tick[t], mem)

Promised(c, n) ==
    \A m \in MandateId : \A i \in DOMAIN c[m].charges :
        /\ Len(c[m].charges[i].refunds) <= 1 + n
        /\ \A k \in DOMAIN c[m].charges[i].refunds :
              c[m].charges[i].refunds[k] <= c[m].charges[i].phase

Kept ==
    /\ Alone
    /\ Promised(chain, faults)
    /\ Books(chain, mem, faults + Sent) /\ Books(chain, disk, faults + Sent)
    /\ Reached(mem, now) /\ Reached(disk, now)
    /\ \A t \in Ticks : InHand(t)
RefundInv == Calm => Kept

-----------------------------------------------------------------------------
(* The phases.                                                             *)

\* A set of phases has a last one.
LEMMA LastPhase ==
    ASSUME NEW S, S \subseteq DOMAIN Phases, S # {}
    PROVE  Max(S) \in S /\ \A i \in S : i <= Max(S)
<1> DEFINE n == Len(Phases)
           T == {n - i : i \in S}
<1>1. DOMAIN Phases = 1..n /\ n \in Nat
  BY SchedulerAssumption
<1>2. T \subseteq Nat /\ T # {}
  BY <1>1
<1>3. PICK m \in T : \A k \in T : m <= k
  <2> HIDE DEF T
  <2> QED BY <1>2, LeastNumber
<1>4. PICK i \in S : m = n - i
  BY <1>3
<1>5. ASSUME NEW j \in S PROVE i >= j
  <2>1. n - j \in T
    OBVIOUS
  <2>2. n - i <= n - j
    BY <1>3, <1>4, <2>1
  <2> QED BY <1>1, <2>2
<1>6. Max(S) \in S /\ \A j \in S : Max(S) >= j
  BY <1>5 DEF Max
<1> QED BY <1>1, <1>6

\* The first phase is one.
LEMMA FirstPhase == 1 \in DOMAIN Phases /\ DOMAIN Phases \subseteq Nat
BY SchedulerAssumption

\* A price is an amount.
LEMMA PhaseTyped ==
    ASSUME NEW i \in DOMAIN Phases
    PROVE  priceOf(i) \in Nat /\ Phases[i].start \in Nat
<1> DEFINE Phase == [start : Nat, kind : {"fixed", "payg"}, price : Nat]
<1>1. Phases \in Seq(Phase)
  BY SchedulerAssumption
<1>2. Phases[i] \in Phase
  <2> HIDE DEF Phase
  <2> QED BY <1>1
<1> QED BY <1>2 DEF priceOf

\* The effective phase has begun, and none after it has.
LEMMA Effective ==
    ASSUME NEW time \in Nat
    PROVE  /\ EffectiveAt(time) \in DOMAIN Phases
           /\ Begun(EffectiveAt(time), time)
           /\ \A i \in DOMAIN Phases : Begun(i, time) => i <= EffectiveAt(time)
<1> DEFINE S == {1} \cup Arrived(1, time)
<1>1. S \subseteq DOMAIN Phases /\ S # {}
  BY FirstPhase DEF Arrived
<1>2. Max(S) \in S /\ \A i \in S : i <= Max(S)
  BY <1>1, LastPhase
<1>3. \A i \in DOMAIN Phases : Begun(i, time) => i \in S
  BY FirstPhase, SchedulerAssumption DEF Arrived, Begun
<1>4. \A i \in S : Begun(i, time)
  BY DEF Arrived, Begun
<1> QED BY <1>1, <1>2, <1>3, <1>4 DEF EffectiveAt

\* The cursor advances to the effective phase.
LEMMA TargetIsEffective ==
    ASSUME NEW time \in Nat, NEW c \in DOMAIN Phases, Begun(c, time)
    PROVE  Max({c} \cup Arrived(c, time)) = EffectiveAt(time)
<1> DEFINE S == {c} \cup Arrived(c, time)
<1>1. S \subseteq DOMAIN Phases /\ S # {}
  BY DEF Arrived
<1>2. Max(S) \in S /\ \A i \in S : i <= Max(S)
  BY <1>1, LastPhase
<1>3. EffectiveAt(time) \in S
  <2> PICK e : e = EffectiveAt(time)
    OBVIOUS
  <2>1. e \in DOMAIN Phases /\ Begun(e, time) /\ c <= e
    BY Effective
  <2>2. DOMAIN Phases = 1..Len(Phases) /\ Len(Phases) \in Nat
    BY SchedulerAssumption
  <2>3. c = e \/ (e > c /\ e # 1)
    BY <2>1, <2>2
  <2> QED BY <2>1, <2>3 DEF Arrived, Begun
<1>4. \A i \in S : Begun(i, time)
  BY DEF Arrived, Begun
<1>5. Max(S) <= EffectiveAt(time)
  BY <1>1, <1>2, <1>4, Effective
<1>6. Max(S) \in Nat /\ EffectiveAt(time) \in Nat
  BY <1>1, <1>2, Effective, FirstPhase
<1> QED BY <1>2, <1>3, <1>5, <1>6

\* Time only takes the plan forward.
LEMMA PhasesAdvance ==
    ASSUME NEW t \in Nat, NEW u \in Nat, t <= u
    PROVE  /\ \A i \in DOMAIN Phases : Begun(i, t) => Begun(i, u)
           /\ EffectiveAt(t) <= EffectiveAt(u)
<1>1. \A i \in DOMAIN Phases : Begun(i, t) => Begun(i, u)
  BY PhaseTyped DEF Begun
<1> QED BY <1>1, Effective
-----------------------------------------------------------------------------
(* What the types say.                                                     *)

LEMMA Constant ==
    /\ First \in MandateId /\ MandateId \subseteq Nat
    /\ MaxSeq \in Nat /\ MaxTime \in Nat /\ MaxFaults \in Nat
    /\ 1 \in DOMAIN Phases /\ DOMAIN Phases \subseteq Nat /\ 0 \notin DOMAIN Phases
BY SchedulerAssumption, FirstPhase DEF First, MandateId

\* A schedule, or none.
LEMMA RowTyped ==
    ASSUME NEW s \in Sched \cup {NoSchedule}
    PROVE  /\ s.mandate \in MandateId /\ s.mandate \in Nat
           /\ s.cursor \in DOMAIN Phases /\ s.cursor \in Nat
           /\ s.through \in NoSeq..MaxSeq /\ s.through \in Int
           /\ s.pending \in {NoPhase} \cup DOMAIN Phases /\ s.pending \in Nat
           /\ s.status # "none" => s \in Sched
           /\ s.status = "awaiting_consent" => s.pending \in DOMAIN Phases
<1>1. CASE s \in Sched
  <2>1. s \in Schedule /\ (s.status = "awaiting_consent" => s.pending # NoPhase)
    BY <1>1 DEF Sched
  <2>2. /\ s.mandate \in MandateId /\ s.cursor \in DOMAIN Phases
        /\ s.through \in NoSeq..MaxSeq /\ s.pending \in {NoPhase} \cup DOMAIN Phases
    BY <2>1 DEF Schedule
  <2>3. s.mandate \in Nat /\ s.cursor \in Nat
    BY <2>2, Constant
  <2>4. s.through \in Int
    BY <2>2, Constant DEF NoSeq
  <2>5. s.pending \in Nat
    BY <2>2, Constant DEF NoPhase
  <2> QED BY <1>1, <2>1, <2>2, <2>3, <2>4, <2>5
<1>2. CASE s = NoSchedule
  BY <1>2, Constant DEF NoSchedule, NoPhase, NoSeq
<1> QED BY <1>1, <1>2

\* The schedule in the map is the last object.
LEMMA MemTyped ==
    ASSUME TypeInv
    PROVE  /\ mem \in Sched \cup {NoSchedule}
           /\ Len(objs) \in Nat
           /\ objs = <<>> => mem = NoSchedule
           /\ objs # <<>> => /\ mem = objs[Len(objs)] /\ mem \in Sched
                             /\ Len(objs) \in DOMAIN objs
           /\ mem.status # "none" => objs # <<>>
<1>1. objs \in Seq(Sched)
  BY DEF TypeInv
<1>2. objs # <<>> => Len(objs) \in DOMAIN objs /\ objs[Len(objs)] \in Sched
  BY <1>1
<1> QED BY <1>1, <1>2 DEF mem, NoSchedule

LEMMA Typed ==
    ASSUME TypeInv
    PROVE  /\ now \in Nat /\ now \in 0..MaxTime /\ faults \in 0..MaxFaults /\ faults \in Nat
           /\ chain \in [MandateId -> MandateState]
           /\ \A m \in MandateId :
                 /\ chain[m] \in MandateState /\ chain[m].price \in Nat
                 /\ chain[m].refunded \in Nat /\ chain[m].live \in BOOLEAN
                 /\ chain[m].charges \in Seq(ChargeState)
                 /\ charge_seq(m) \in 0..MaxSeq /\ charge_seq(m) \in Nat
           /\ tick \in [Ticks -> TickState]
           /\ \A t \in Ticks :
                 /\ tick[t] \in TickState
                 /\ tick[t].time \in Nat /\ tick[t].price \in Nat
                 /\ tick[t].seq \in 0..MaxSeq /\ tick[t].seq \in Nat
                 /\ tick[t].mandate \in MandateId /\ tick[t].mandate \in Nat
                 /\ Listed(t) => tick[t].obj \in DOMAIN objs
           /\ objs \in Seq(Sched) /\ ready \in BOOLEAN
           /\ disk \in Sched \cup {NoSchedule}
           /\ slips \in [overlap : BOOLEAN, replaced : BOOLEAN]
<1>1. SchedulerTypeOK /\ \A m \in MandateId : charge_seq(m) <= MaxSeq
  BY DEF TypeInv
<1>2. now \in Nat /\ now \in 0..MaxTime /\ faults \in 0..MaxFaults /\ faults \in Nat
  BY <1>1, Constant DEF SchedulerTypeOK
<1>3. ASSUME NEW m \in MandateId
      PROVE  /\ chain[m] \in MandateState /\ chain[m].price \in Nat
             /\ chain[m].refunded \in Nat /\ chain[m].live \in BOOLEAN
             /\ chain[m].charges \in Seq(ChargeState)
             /\ charge_seq(m) \in 0..MaxSeq /\ charge_seq(m) \in Nat
  <2>1. chain[m] \in MandateState
    BY <1>1 DEF SchedulerTypeOK
  <2>2. chain[m].charges \in Seq(ChargeState)
    BY <2>1 DEF MandateState
  <2>3. charge_seq(m) \in 0..MaxSeq /\ charge_seq(m) \in Nat
    BY <1>1, <2>2, Constant DEF charge_seq
  <2> QED BY <2>1, <2>2, <2>3 DEF MandateState
<1>4. ASSUME NEW t \in Ticks
      PROVE  /\ tick[t] \in TickState
             /\ tick[t].time \in Nat /\ tick[t].price \in Nat
             /\ tick[t].seq \in 0..MaxSeq /\ tick[t].seq \in Nat
             /\ tick[t].mandate \in MandateId /\ tick[t].mandate \in Nat
             /\ Listed(t) => tick[t].obj \in DOMAIN objs
  <2>1. tick[t] \in TickState
    BY <1>1 DEF SchedulerTypeOK
  <2>2. /\ tick[t].time \in Nat /\ tick[t].price \in Nat
        /\ tick[t].seq \in 0..MaxSeq /\ tick[t].mandate \in MandateId
    BY <2>1 DEF TickState
  <2>3. Listed(t) => tick[t].obj \in DOMAIN objs
    BY <1>1 DEF SchedulerTypeOK, Listed, Knows
  <2>4. tick[t].mandate \in Nat
    BY <2>2, Constant
  <2>5. tick[t].seq \in Nat
    BY <2>2, Constant
  <2> QED BY <2>1, <2>2, <2>3, <2>4, <2>5
<1>5. chain \in [MandateId -> MandateState] /\ tick \in [Ticks -> TickState]
      /\ ready \in BOOLEAN /\ slips \in [overlap : BOOLEAN, replaced : BOOLEAN]
  BY <1>1 DEF SchedulerTypeOK
<1>6. objs \in Seq(Sched) /\ disk \in Sched \cup {NoSchedule}
  BY DEF TypeInv
<1> QED BY <1>2, <1>3, <1>4, <1>5, <1>6

\* What is to be shown of a step, one variable at a time.
LEMMA TypeStep ==
    ASSUME TypeInv,
           now' \in 0..MaxTime, faults' \in 0..MaxFaults,
           chain' \in [MandateId -> MandateState],
           \A m \in MandateId : charge_seq(m)' <= MaxSeq,
           objs' \in Seq(Sched), ready' \in BOOLEAN, ~ready' => objs' = <<>>,
           disk' \in Sched \cup {NoSchedule},
           tick' \in [Ticks -> TickState],
           \A t \in Ticks : Listed(t)' => tick'[t].obj \in DOMAIN objs',
           late' \subseteq [mandate : MandateId, amount : Nat, fault : Nat],
           slips' \in [overlap : BOOLEAN, replaced : BOOLEAN]
    PROVE  TypeInv'
<1>1. objs' \in Seq(Schedule)
  <2>1. Sched \subseteq Schedule
    BY DEF Sched
  <2>2. \A i \in DOMAIN objs' : objs'[i] \in Schedule
    BY <2>1
  <2> QED BY <2>2
<1>2. disk' \in Schedule \cup {NoSchedule}
  BY DEF Sched
<1>3. \A t \in Ticks : tick'[t].at \in {"read", "advance", "refund", "refunded"} =>
          tick'[t].obj \in DOMAIN objs'
  BY DEF Listed, Knows
<1>4. SchedulerTypeOK'
  BY <1>1, <1>2, <1>3 DEF SchedulerTypeOK
<1> QED BY <1>4 DEF TypeInv

\* A tick moves on: the others stay.
LEMMA TickSet ==
    ASSUME TypeInv, NEW t \in Ticks, NEW r \in TickState, tick' = [tick EXCEPT ![t] = r]
    PROVE  /\ tick' \in [Ticks -> TickState] /\ tick'[t] = r
           /\ \A u \in Ticks \ {t} : tick'[u] = tick[u]
BY Typed

LEMMA TickGoes ==
    ASSUME TypeInv, NEW t \in Ticks,
           NEW at \in {"list", "read", "advance", "refund", "refunded"}, Goes(t, at)
    PROVE  /\ tick' \in [Ticks -> TickState]
           /\ tick'[t].at = at /\ tick'[t].time = tick[t].time /\ tick'[t].obj = tick[t].obj
           /\ tick'[t].mandate = tick[t].mandate /\ tick'[t].price = tick[t].price
           /\ tick'[t].seq = tick[t].seq
           /\ \A u \in Ticks \ {t} : tick'[u] = tick[u]
<1> DEFINE r == [tick[t] EXCEPT !.at = at]
<1>1. tick[t] \in TickState
  BY Typed
<1>2. r \in TickState
  BY <1>1 DEF TickState
<1>3. tick' = [tick EXCEPT ![t] = r]
  BY DEF Goes
<1>4. /\ tick' \in [Ticks -> TickState] /\ tick'[t] = r
      /\ \A u \in Ticks \ {t} : tick'[u] = tick[u]
  <2> HIDE DEF r
  <2> QED BY <1>2, <1>3, TickSet
<1>5. /\ r.at = at /\ r.time = tick[t].time /\ r.obj = tick[t].obj
      /\ r.mandate = tick[t].mandate /\ r.price = tick[t].price /\ r.seq = tick[t].seq
  BY <1>1 DEF TickState
<1> QED BY <1>4, <1>5

LEMMA IdleTyped == Idle \in TickState /\ Idle.at = "idle"
BY Constant DEF Idle, TickState

LEMMA TickEnds ==
    ASSUME TypeInv, NEW t \in Ticks, Ends(t)
    PROVE  /\ tick' \in [Ticks -> TickState] /\ tick'[t] = Idle /\ tick'[t].at = "idle"
           /\ \A u \in Ticks \ {t} : tick'[u] = tick[u]
BY IdleTyped, TickSet DEF Ends

\* A fault is counted.
LEMMA FaultTyped ==
    ASSUME TypeInv
    PROVE  /\ Fault => faults' \in 0..MaxFaults /\ faults' = faults + 1
           /\ faults' = faults => faults' \in 0..MaxFaults
BY Typed, Constant DEF Fault

\* A write of an object that may fail.
LEMMA Written ==
    ASSUME TypeInv, NEW o \in DOMAIN objs, NEW s \in Sched, Changed(o, s)
    PROVE  /\ objs' \in Seq(Sched) /\ Len(objs') = Len(objs) /\ DOMAIN objs' = DOMAIN objs
           /\ objs # <<>> /\ objs' # <<>>
           /\ o = Len(objs) => mem' = s
           /\ disk' \in {s, disk} /\ disk' \in Sched \cup {NoSchedule}
           /\ \/ disk' = s /\ faults' = faults
              \/ disk' = disk /\ faults' = faults + 1
           /\ faults' \in 0..MaxFaults
<1>1. objs \in Seq(Sched) /\ disk \in Sched \cup {NoSchedule}
  BY DEF TypeInv
<1>2. objs' = [objs EXCEPT ![o] = s] /\ Upserted(s)
  BY DEF Changed
<1>3. objs' \in Seq(Sched) /\ Len(objs') = Len(objs) /\ objs # <<>> /\ objs' # <<>>
      /\ DOMAIN objs' = DOMAIN objs /\ objs'[o] = s
  BY <1>1, <1>2
<1>4. o = Len(objs) => mem' = s
  BY <1>3 DEF mem
<1>5. /\ \/ disk' = s /\ faults' = faults
         \/ disk' = disk /\ faults' = faults + 1
      /\ faults' \in 0..MaxFaults
  BY <1>2, FaultTyped DEF Upserted, Fault
<1> QED BY <1>1, <1>3, <1>4, <1>5

\* A new object is the one in the map.
LEMMA Appended ==
    ASSUME TypeInv, NEW s \in Sched, objs' = Append(objs, s)
    PROVE  /\ objs' \in Seq(Sched) /\ objs' # <<>> /\ mem' = s
           /\ Len(objs') = Len(objs) + 1 /\ DOMAIN objs \subseteq DOMAIN objs'
<1>1. objs \in Seq(Sched)
  BY DEF TypeInv
<1>2. /\ objs' \in Seq(Sched) /\ objs' # <<>> /\ objs'[Len(objs')] = s
      /\ Len(objs') = Len(objs) + 1 /\ DOMAIN objs \subseteq DOMAIN objs'
  BY <1>1
<1> QED BY <1>2 DEF mem

LEMMA LoadedTyped ==
    ASSUME TypeInv, Loaded
    PROVE  /\ objs' \in Seq(Sched) /\ DOMAIN objs \subseteq DOMAIN objs'
           /\ disk = NoSchedule => objs' = objs /\ mem' = mem
           /\ disk # NoSchedule => objs' # <<>> /\ mem' = disk
<1>1. CASE disk = NoSchedule
  BY <1>1 DEF Loaded, TypeInv, mem
<1>2. CASE disk # NoSchedule
  <2>1. disk \in Sched /\ objs' = Append(objs, disk)
    BY <1>2 DEF Loaded, TypeInv
  <2> QED BY <1>2, <2>1, Appended
<1> QED BY <1>1, <1>2

-----------------------------------------------------------------------------
(* The types are kept.                                                     *)

LEMMA TypeInit == SchedulerInit => TypeInv
<1> SUFFICES ASSUME SchedulerInit PROVE TypeInv
  OBVIOUS
<1>1. PICK i \in DOMAIN Phases :
          chain = [m \in MandateId |-> [price |-> priceOf(i), live |-> m = First,
                                        refunded |-> 0, charges |-> <<>>]]
  BY DEF SchedulerInit
<1>2. \A m \in MandateId : chain[m] \in MandateState /\ chain[m].charges = <<>>
  BY <1>1, PhaseTyped DEF MandateState
<1>3. chain \in [MandateId -> MandateState]
  BY <1>1, <1>2
<1>4. \A m \in MandateId : charge_seq(m) <= MaxSeq
  BY <1>2, Constant DEF charge_seq
<1>5. tick \in [Ticks -> TickState] /\ \A t \in Ticks : tick[t].at = "idle"
  BY IdleTyped DEF SchedulerInit
<1>6. now \in 0..MaxTime /\ faults \in 0..MaxFaults
  BY Constant DEF SchedulerInit
<1>7. SchedulerTypeOK
  <2>1. \A t \in Ticks : tick[t].at \in {"read", "advance", "refund", "refunded"} =>
            tick[t].obj \in DOMAIN objs
    BY <1>5
  <2>2. slips \in [overlap : BOOLEAN, replaced : BOOLEAN]
    BY DEF SchedulerInit
  <2>3. objs = <<>> /\ ready = FALSE /\ disk = NoSchedule /\ late = {}
    BY DEF SchedulerInit
  <2>4. objs \in Seq(Schedule) /\ late \subseteq [mandate : MandateId, amount : Nat, fault : Nat]
    BY <2>3
  <2> QED BY <1>3, <1>5, <1>6, <2>1, <2>2, <2>3, <2>4 DEF SchedulerTypeOK
<1> QED BY <1>4, <1>7 DEF SchedulerInit, TypeInv

\* A step of the chain or of the clock.
LEMMA ChainTypeStep ==
    ASSUME TypeInv, UNCHANGED process, now' \in 0..MaxTime, faults' = faults,
           chain' \in [MandateId -> MandateState],
           \A m \in MandateId : Len(chain'[m].charges) <= MaxSeq,
           late' \subseteq late
    PROVE  TypeInv'
<1>1. /\ objs' = objs /\ ready' = ready /\ disk' = disk /\ tick' = tick /\ slips' = slips
  BY DEF process
<1>2. \A t \in Ticks : Listed(t)' => tick'[t].obj \in DOMAIN objs'
  BY <1>1, Typed DEF Listed, Knows
<1>3. late' \subseteq [mandate : MandateId, amount : Nat, fault : Nat]
  BY DEF TypeInv, SchedulerTypeOK
<1>4. \A m \in MandateId : charge_seq(m)' <= MaxSeq
  BY DEF charge_seq
<1>5. ~ready' => objs' = <<>>
  BY <1>1 DEF TypeInv
<1> QED BY <1>1, <1>2, <1>3, <1>4, <1>5, Typed, TypeStep

\* A step of one mandate.
LEMMA MandateTyped ==
    ASSUME TypeInv, NEW m \in MandateId, NEW r \in MandateState, Len(r.charges) <= MaxSeq,
           chain' = [chain EXCEPT ![m] = r]
    PROVE  /\ chain' \in [MandateId -> MandateState] /\ chain'[m] = r
           /\ \A n \in MandateId \ {m} : chain'[n] = chain[n]
           /\ \A n \in MandateId : Len(chain'[n].charges) <= MaxSeq
<1>1. /\ chain' \in [MandateId -> MandateState] /\ chain'[m] = r
      /\ \A n \in MandateId \ {m} : chain'[n] = chain[n]
  BY Typed
<1>2. \A n \in MandateId : Len(chain[n].charges) <= MaxSeq
  BY DEF TypeInv, charge_seq
<1> QED BY <1>1, <1>2

\* A charge goes at the end, in the effective phase.
LEMMA Charged ==
    ASSUME TypeInv, NEW m \in MandateId, Charge(m)
    PROVE  /\ TypeInv'
           /\ UNCHANGED <<now, process, late, faults>>
           /\ \A n \in MandateId : /\ chain'[n].price = chain[n].price
                                   /\ chain'[n].live = chain[n].live
           /\ \A n \in MandateId \ {m} : chain'[n] = chain[n]
           /\ charge_seq(m)' = charge_seq(m) + 1
           /\ \A i \in 1..charge_seq(m) : chain'[m].charges[i] = chain[m].charges[i]
           /\ chain'[m].charges[charge_seq(m) + 1] = ChargeOf(EffectiveAt(now))
<1>1. EffectivePhase = EffectiveAt(now)
  BY DEF EffectivePhase, EffectiveAt
<1>2. ChargeOf(EffectivePhase) \in ChargeState
  <2>1. EffectivePhase \in DOMAIN Phases
    BY <1>1, Typed, Effective
  <2> QED BY <2>1 DEF ChargeOf, ChargeState
<1> DEFINE cs == Append(chain[m].charges, ChargeOf(EffectivePhase))
           r == [chain[m] EXCEPT !.charges = cs]
<1>3. /\ cs \in Seq(ChargeState) /\ Len(cs) = charge_seq(m) + 1 /\ Len(cs) <= MaxSeq
      /\ \A i \in 1..charge_seq(m) : cs[i] = chain[m].charges[i]
      /\ cs[charge_seq(m) + 1] = ChargeOf(EffectiveAt(now))
  <2>1. chain[m].charges \in Seq(ChargeState) /\ charge_seq(m) = Len(chain[m].charges)
    BY Typed DEF charge_seq
  <2>2. charge_seq(m) < MaxSeq
    BY DEF Charge
  <2>3. Len(cs) <= MaxSeq
    BY <2>1, <2>2, Constant
  <2> QED BY <1>1, <1>2, <2>1, <2>3
<1>4. /\ r \in MandateState /\ r.charges = cs
      /\ r.price = chain[m].price /\ r.live = chain[m].live
  <2> HIDE DEF cs
  <2> QED BY <1>3, Typed DEF MandateState
<1>5. chain' = [chain EXCEPT ![m] = r]
  BY DEF Charge
<1> HIDE DEF cs, r
<1>6. /\ chain' \in [MandateId -> MandateState] /\ chain'[m] = r
      /\ \A n \in MandateId \ {m} : chain'[n] = chain[n]
      /\ \A n \in MandateId : Len(chain'[n].charges) <= MaxSeq
  BY <1>3, <1>4, <1>5, MandateTyped
<1>7. UNCHANGED <<now, process, late, faults>>
  BY DEF Charge
<1>8. TypeInv'
  BY <1>6, <1>7, Typed, ChainTypeStep
<1>9. charge_seq(m)' = charge_seq(m) + 1
  BY <1>3, <1>4, <1>6 DEF charge_seq
<1> QED BY <1>3, <1>4, <1>6, <1>7, <1>8, <1>9

\* A refund that lands late changes the amount sent back.
LEMMA LateLands ==
    ASSUME TypeInv, NEW r \in late, LateRefund(r)
    PROVE  /\ TypeInv'
           /\ UNCHANGED <<now, process, faults>>
           /\ \A n \in MandateId : /\ chain'[n].price = chain[n].price
                                   /\ chain'[n].live = chain[n].live
                                   /\ chain'[n].charges = chain[n].charges
<1>1. r.mandate \in MandateId /\ r.amount \in Nat
  BY DEF TypeInv, SchedulerTypeOK
<1> DEFINE x == [chain[r.mandate] EXCEPT !.refunded = @ + r.amount]
<1>2. /\ x \in MandateState /\ x.price = chain[r.mandate].price
      /\ x.live = chain[r.mandate].live /\ x.charges = chain[r.mandate].charges
  <2>1. chain[r.mandate] \in MandateState /\ chain[r.mandate].refunded + r.amount \in Nat
    BY <1>1, Typed
  <2> QED BY <2>1 DEF MandateState
<1>3. chain' = [chain EXCEPT ![r.mandate] = x]
  BY DEF LateRefund
<1>4. Len(x.charges) <= MaxSeq
  BY <1>1, <1>2 DEF TypeInv, charge_seq
<1> HIDE DEF x
<1>5. /\ chain' \in [MandateId -> MandateState] /\ chain'[r.mandate] = x
      /\ \A n \in MandateId \ {r.mandate} : chain'[n] = chain[n]
      /\ \A n \in MandateId : Len(chain'[n].charges) <= MaxSeq
  BY <1>1, <1>2, <1>3, <1>4, MandateTyped
<1>6. UNCHANGED <<now, process, faults>> /\ late' \subseteq late
  BY DEF LateRefund
<1>7. TypeInv'
  BY <1>5, <1>6, Typed, ChainTypeStep
<1> QED BY <1>2, <1>5, <1>6, <1>7

LEMMA TypeElapse ==
    ASSUME TypeInv, Elapse
    PROVE  TypeInv' /\ now' \in Nat /\ now <= now' /\ UNCHANGED <<chain, process, late, faults>>
<1>1. now' \in 0..MaxTime /\ now <= now'
  BY Typed, Constant DEF Elapse
<1>2. UNCHANGED <<chain, process, late, faults>>
  BY DEF Elapse
<1>3. \A m \in MandateId : Len(chain'[m].charges) <= MaxSeq
  BY <1>2 DEF TypeInv, charge_seq
<1>4. chain' \in [MandateId -> MandateState]
  BY <1>2, Typed
<1>5. TypeInv'
  BY <1>1, <1>2, <1>3, <1>4, ChainTypeStep
<1> QED BY <1>1, <1>2, <1>5

\* A signature makes the next mandate live, at the price that waited.
LEMMA Signed ==
    ASSUME TypeInv, SignUpgrade
    PROVE  /\ TypeInv'
           /\ UNCHANGED <<now, process, late, faults>>
           /\ disk.mandate \in MandateId /\ disk.mandate + 1 \in MandateId
           /\ disk.status = "awaiting_consent" /\ disk.pending \in DOMAIN Phases
           /\ chain[disk.mandate].live
           /\ ~chain'[disk.mandate].live /\ chain'[disk.mandate].price = chain[disk.mandate].price
           /\ chain'[disk.mandate + 1].live
           /\ chain'[disk.mandate + 1].price = priceOf(disk.pending)
           /\ \A n \in MandateId \ {disk.mandate, disk.mandate + 1} : chain'[n] = chain[n]
           /\ \A n \in MandateId : chain'[n].charges = chain[n].charges
<1>1. /\ disk.status = "awaiting_consent" /\ chain[disk.mandate].live
      /\ disk.mandate + 1 \in MandateId
      /\ UNCHANGED <<now, process, late, faults>>
  BY DEF SignUpgrade
<1>2. /\ disk.mandate \in MandateId /\ disk.mandate \in Nat
      /\ disk.pending \in DOMAIN Phases
  BY <1>1, Typed, RowTyped
<1> DEFINE a == disk.mandate
           b == disk.mandate + 1
           x == [chain[a] EXCEPT !.live = FALSE]
           y == [chain[b] EXCEPT !.live = TRUE, !.price = priceOf(disk.pending)]
<1>3. /\ x \in MandateState /\ ~x.live /\ x.price = chain[a].price
      /\ x.charges = chain[a].charges
  BY <1>2, Typed DEF MandateState
<1>4. /\ y \in MandateState /\ y.live /\ y.price = priceOf(disk.pending)
      /\ y.charges = chain[b].charges
  BY <1>1, <1>2, Typed, PhaseTyped DEF MandateState
<1>5. a # b
  BY <1>2
<1>6. chain' = [chain EXCEPT ![a] = x, ![b] = y]
  <2>1. chain' = [chain EXCEPT ![a].live = FALSE, ![b].live = TRUE,
                               ![b].price = priceOf(disk.pending)]
    BY DEF SignUpgrade
  <2>2. chain \in [MandateId -> MandateState]
    BY Typed
  <2> QED BY <1>1, <1>2, <1>5, <2>1, <2>2
<1> HIDE DEF a, b, x, y
<1>7. a \in MandateId /\ b \in MandateId
  BY <1>1, <1>2 DEF a, b
<1>8. /\ chain' \in [MandateId -> MandateState] /\ chain'[a] = x /\ chain'[b] = y
      /\ \A n \in MandateId \ {a, b} : chain'[n] = chain[n]
  BY <1>3, <1>4, <1>5, <1>6, <1>7, Typed
<1>9. \A n \in MandateId : chain'[n].charges = chain[n].charges
  BY <1>3, <1>4, <1>7, <1>8
<1>10. \A m \in MandateId : Len(chain'[m].charges) <= MaxSeq
  BY <1>9 DEF TypeInv, charge_seq
<1>11. TypeInv'
  BY <1>1, <1>8, <1>10, Typed, ChainTypeStep
<1> QED BY <1>1, <1>2, <1>3, <1>4, <1>8, <1>9, <1>11 DEF a, b

\* A step of the process: what it leaves alone on the chain stays.
LEMMA ProcessTypeStep ==
    ASSUME TypeInv, Offchain, faults' \in 0..MaxFaults,
           objs' \in Seq(Sched), DOMAIN objs \subseteq DOMAIN objs',
           ready' \in BOOLEAN, ~ready' => objs' = <<>>,
           disk' \in Sched \cup {NoSchedule},
           tick' \in [Ticks -> TickState],
           \A t \in Ticks : tick'[t] = tick[t] \/ (Listed(t)' => tick'[t].obj \in DOMAIN objs'),
           slips' \in [overlap : BOOLEAN, replaced : BOOLEAN]
    PROVE  TypeInv'
<1>1. UNCHANGED <<now, chain, late>>
  BY DEF Offchain
<1>2. \A t \in Ticks : Listed(t)' => tick'[t].obj \in DOMAIN objs'
  BY Typed DEF Listed, Knows
<1>3. \A m \in MandateId : charge_seq(m)' <= MaxSeq
  BY <1>1 DEF TypeInv, charge_seq
<1>4. late' \subseteq [mandate : MandateId, amount : Nat, fault : Nat]
  BY <1>1 DEF TypeInv, SchedulerTypeOK
<1> QED BY <1>1, <1>2, <1>3, <1>4, Typed, TypeStep

LEMMA SlipsTyped ==
    ASSUME TypeInv, NEW b \in BOOLEAN
    PROVE  /\ slips' = [slips EXCEPT !.replaced = @ \/ b] =>
                /\ slips' \in [overlap : BOOLEAN, replaced : BOOLEAN]
                /\ slips'.overlap = slips.overlap
                /\ slips'.replaced <=> slips.replaced \/ b
           /\ slips' = [slips EXCEPT !.overlap = @ \/ b] =>
                /\ slips' \in [overlap : BOOLEAN, replaced : BOOLEAN]
                /\ slips'.replaced = slips.replaced
                /\ slips'.overlap <=> slips.overlap \/ b
BY Typed

\* The merchant's calls.
LEMMA InitCalled ==
    ASSUME TypeInv, init
    PROVE  /\ TypeInv' /\ Offchain /\ Loaded /\ objs = <<>>
           /\ UNCHANGED <<disk, tick, slips, faults>>
<1>1. /\ ~ready /\ ready' = TRUE /\ Loaded /\ Offchain
      /\ UNCHANGED <<disk, tick, slips, faults>>
  BY DEF init, Offchain
<1>2. TypeInv'
  BY <1>1, LoadedTyped, Typed, ProcessTypeStep
<1> QED BY <1>1, <1>2 DEF TypeInv

Registers(m, s) ==
    /\ s = [mandate |-> m, cursor |-> EffectivePhase, status |-> "active",
            through |-> NoSeq, pending |-> NoPhase, registered |-> EffectivePhase]
    /\ chain[m].live /\ objs' = Append(objs, s) /\ Upserted(s)

LEMMA Registered ==
    ASSUME TypeInv, schedule
    PROVE  /\ TypeInv' /\ Offchain /\ UNCHANGED tick /\ objs' # <<>>
           /\ slips'.overlap = slips.overlap
           /\ slips'.replaced <=> slips.replaced \/ Busy \/ Waiting
           /\ \E m \in MandateId, s \in Sched :
                 /\ Registers(m, s) /\ mem' = s
                 /\ \/ disk' = s /\ faults' = faults
                    \/ disk' = disk /\ faults' = faults + 1
<1>1. PICK m \in MandateId : \E s : Registers(m, s)
  BY DEF schedule, Registers
<1>2. PICK s : Registers(m, s)
  BY <1>1
<1>3. s \in Sched
  <2>1. EffectivePhase \in DOMAIN Phases
    BY Typed, Effective DEF EffectivePhase, EffectiveAt
  <2> QED BY <1>2, <2>1, Constant DEF Registers, Sched, Schedule, NoSeq, NoPhase
<1>4. /\ objs' \in Seq(Sched) /\ objs' # <<>> /\ mem' = s
      /\ DOMAIN objs \subseteq DOMAIN objs'
  BY <1>2, <1>3, Appended DEF Registers
<1>5. /\ \/ disk' = s /\ faults' = faults
         \/ disk' = disk /\ faults' = faults + 1
      /\ faults' \in 0..MaxFaults
  BY <1>2, FaultTyped DEF Registers, Upserted, Fault
<1>6. Offchain /\ UNCHANGED <<ready, tick>> /\ ready
      /\ slips' = [slips EXCEPT !.replaced = @ \/ (Busy \/ Waiting)]
  BY DEF schedule, Offchain
<1>7. (Busy \/ Waiting) \in BOOLEAN
  BY DEF Busy, Waiting
<1>8. /\ slips' \in [overlap : BOOLEAN, replaced : BOOLEAN]
      /\ slips'.overlap = slips.overlap
      /\ slips'.replaced <=> slips.replaced \/ Busy \/ Waiting
  BY <1>6, <1>7, SlipsTyped
<1>9. TypeInv'
  BY <1>3, <1>4, <1>5, <1>6, <1>8, Typed, ProcessTypeStep
<1> QED BY <1>2, <1>3, <1>4, <1>5, <1>6, <1>8, <1>9

\* A write of the schedule in the map.
Puts(s) ==
    /\ s \in Sched /\ mem' = s /\ objs # <<>> /\ objs' # <<>> /\ Len(objs') = Len(objs)
    /\ \/ disk' = s /\ faults' = faults
       \/ disk' = disk /\ faults' = faults + 1

LEMMA PutTyped ==
    ASSUME TypeInv, objs # <<>>, NEW s \in Sched, Changed(Len(objs), s), Offchain,
           UNCHANGED <<ready, tick, slips>>
    PROVE  TypeInv' /\ Puts(s)
<1>1. Len(objs) \in DOMAIN objs
  BY MemTyped
<1>2. /\ objs' \in Seq(Sched) /\ Len(objs') = Len(objs) /\ DOMAIN objs' = DOMAIN objs
      /\ objs' # <<>> /\ mem' = s /\ disk' \in Sched \cup {NoSchedule}
      /\ \/ disk' = s /\ faults' = faults
         \/ disk' = disk /\ faults' = faults + 1
      /\ faults' \in 0..MaxFaults
  BY <1>1, Written
<1>3. ~ready' => objs' = <<>>
  BY DEF TypeInv
<1>4. TypeInv'
  BY <1>2, <1>3, Typed, ProcessTypeStep
<1> QED BY <1>2, <1>4 DEF Puts

Repointed(m) == [mem EXCEPT !.mandate = m, !.cursor = mem.pending, !.status = "active",
                            !.through = NoSeq, !.pending = NoPhase]

LEMMA Consent ==
    ASSUME TypeInv, applyConsent
    PROVE  /\ TypeInv' /\ Offchain /\ UNCHANGED <<tick, slips>>
           /\ mem.status = "awaiting_consent" /\ mem \in Sched
           /\ \E m \in MandateId \ {mem.mandate} : chain[m].live /\ Puts(Repointed(m))
<1>1. PICK m \in MandateId \ {mem.mandate} :
          chain[m].live /\ Changed(Len(objs), Repointed(m))
  BY DEF applyConsent, Repointed
<1>2. mem.status = "awaiting_consent" /\ Offchain /\ UNCHANGED <<ready, tick, slips>>
  BY DEF applyConsent, Offchain
<1>3. objs # <<>> /\ mem \in Sched
  BY <1>2, MemTyped, RowTyped
<1>4. Repointed(m) \in Sched
  <2>1. mem \in Schedule /\ mem.pending \in DOMAIN Phases
    BY <1>2, <1>3, RowTyped DEF Sched
  <2>2. NoSeq \in NoSeq..MaxSeq
    BY Constant DEF NoSeq
  <2>3. Repointed(m) \in Schedule /\ Repointed(m).status = "active"
    BY <2>1, <2>2 DEF Repointed, Schedule
  <2> QED BY <2>3 DEF Sched
<1> QED BY <1>1, <1>2, <1>3, <1>4, PutTyped

Cancelled == [mem EXCEPT !.status = "cancelled"]

LEMMA Cancels ==
    ASSUME TypeInv, cancel
    PROVE  TypeInv' /\ Offchain /\ UNCHANGED <<tick, slips>> /\ Puts(Cancelled) /\ mem \in Sched
<1>1. /\ mem.status \in {"active", "awaiting_consent"} /\ Changed(Len(objs), Cancelled)
      /\ Offchain /\ UNCHANGED <<ready, tick, slips>>
  BY DEF cancel, Offchain, Cancelled
<1>2. objs # <<>> /\ mem \in Sched
  BY <1>1, MemTyped, RowTyped
<1>3. Cancelled \in Sched
  BY <1>2 DEF Cancelled, Sched, Schedule
<1> QED BY <1>1, <1>2, <1>3, PutTyped

\* The process dies: nothing is left in memory.
LEMMA Dies ==
    ASSUME TypeInv, ProcessDies, disk' = disk, slips' = slips, faults' \in 0..MaxFaults,
           now' = now, chain' \in [MandateId -> MandateState],
           \A m \in MandateId : charge_seq(m)' <= MaxSeq,
           late' \subseteq [mandate : MandateId, amount : Nat, fault : Nat]
    PROVE  TypeInv' /\ objs' = <<>> /\ mem' = NoSchedule /\ \A t \in Ticks : tick'[t] = Idle
<1>1. objs' = <<>> /\ ready' = FALSE /\ tick' = [t \in Ticks |-> Idle]
  BY DEF ProcessDies
<1>2. \A t \in Ticks : tick'[t] = Idle /\ ~Listed(t)'
  BY <1>1, IdleTyped DEF Listed, Knows
<1>3. tick' \in [Ticks -> TickState]
  BY <1>1, IdleTyped
<1>4. objs' \in Seq(Sched)
  BY <1>1
<1>5. TypeInv'
  BY <1>1, <1>2, <1>3, <1>4, Typed, TypeStep
<1> QED BY <1>1, <1>2, <1>5 DEF mem

LEMMA Crashes ==
    ASSUME TypeInv, Crash
    PROVE  /\ TypeInv' /\ Offchain /\ UNCHANGED <<disk, slips>> /\ faults' = faults + 1
           /\ objs' = <<>> /\ mem' = NoSchedule /\ \A t \in Ticks : tick'[t] = Idle
<1>1. Fault /\ ProcessDies /\ Offchain /\ UNCHANGED <<disk, slips>>
  BY DEF Crash
<1>2. faults' \in 0..MaxFaults /\ faults' = faults + 1
  BY <1>1, FaultTyped
<1>3. now' = now /\ chain' = chain /\ late' = late
  BY <1>1 DEF Offchain
<1>4. /\ \A m \in MandateId : charge_seq(m)' <= MaxSeq
      /\ late' \subseteq [mandate : MandateId, amount : Nat, fault : Nat]
  BY <1>3 DEF TypeInv, charge_seq, SchedulerTypeOK
<1> QED BY <1>1, <1>2, <1>3, <1>4, Typed, Dies

-----------------------------------------------------------------------------
(* The steps of a tick.                                                    *)

\* The other ticks stay where they are.
Others(t) == \A u \in Ticks \ {t} : tick'[u] = tick[u]

LEMMA Starts ==
    ASSUME TypeInv, NEW t \in Ticks, TickStart(t)
    PROVE  /\ TypeInv' /\ Offchain /\ UNCHANGED <<objs, disk, faults>> /\ mem' = mem
           /\ tick[t].at = "idle" /\ Others(t)
           /\ tick'[t].at \in {"load", "list"} /\ tick'[t].time = now
           /\ slips'.replaced = slips.replaced
           /\ slips'.overlap <=> slips.overlap \/ Busy
<1> DEFINE at == IF ready THEN "list" ELSE "load"
           r == [tick[t] EXCEPT !.at = at, !.time = now]
<1>1. r \in TickState /\ r.at \in {"load", "list"} /\ r.time = now
  BY Typed DEF TickState
<1>2. tick' = [tick EXCEPT ![t] = r]
  BY Typed DEF TickStart
<1> HIDE DEF r
<1>3. tick' \in [Ticks -> TickState] /\ tick'[t] = r /\ Others(t)
  BY <1>1, <1>2, TickSet DEF Others
<1>4. /\ slips' \in [overlap : BOOLEAN, replaced : BOOLEAN]
      /\ slips'.replaced = slips.replaced
      /\ slips'.overlap <=> slips.overlap \/ Busy
  <2>1. slips' = [slips EXCEPT !.overlap = @ \/ Busy] /\ Busy \in BOOLEAN
    BY DEF TickStart, Busy
  <2> QED BY <2>1, SlipsTyped
<1>5. Offchain /\ UNCHANGED <<objs, ready, disk, faults>> /\ tick[t].at = "idle"
  BY DEF TickStart
<1>6. ~Listed(t)'
  BY <1>1, <1>3 DEF Listed, Knows
<1>7. \A u \in Ticks : tick'[u] = tick[u] \/ (Listed(u)' => tick'[u].obj \in DOMAIN objs')
  BY <1>3, <1>6 DEF Others
<1>8. ~ready' => objs' = <<>>
  BY <1>5 DEF TypeInv
<1>9. TypeInv'
  BY <1>3, <1>4, <1>5, <1>7, <1>8, Typed, ProcessTypeStep
<1> QED BY <1>1, <1>3, <1>4, <1>5, <1>9 DEF mem

LEMMA Loads ==
    ASSUME TypeInv, NEW t \in Ticks, TickLoad(t)
    PROVE  /\ TypeInv' /\ Offchain /\ UNCHANGED <<disk, faults>> /\ Loaded
           /\ tick[t].at = "load" /\ tick'[t].at = "list" /\ tick'[t].time = tick[t].time
           /\ Others(t) /\ slips'.overlap = slips.overlap
           /\ slips'.replaced <=> slips.replaced \/ ready
           /\ ~ready => objs = <<>>
<1>1. /\ tick[t].at = "load" /\ Goes(t, "list") /\ Loaded /\ ready' = TRUE
      /\ slips' = [slips EXCEPT !.replaced = @ \/ ready]
      /\ Offchain /\ UNCHANGED <<disk, faults>>
  BY DEF TickLoad
<1>2. /\ tick' \in [Ticks -> TickState] /\ tick'[t].at = "list"
      /\ tick'[t].time = tick[t].time /\ Others(t)
  BY <1>1, TickGoes DEF Others
<1>3. /\ slips' \in [overlap : BOOLEAN, replaced : BOOLEAN]
      /\ slips'.overlap = slips.overlap
      /\ slips'.replaced <=> slips.replaced \/ ready
  BY <1>1, Typed, SlipsTyped
<1>4. \A u \in Ticks : tick'[u] = tick[u] \/ (Listed(u)' => tick'[u].obj \in DOMAIN objs')
  BY <1>2 DEF Others, Listed, Knows
<1>5. objs' \in Seq(Sched) /\ DOMAIN objs \subseteq DOMAIN objs'
  BY <1>1, LoadedTyped
<1>6. TypeInv'
  BY <1>1, <1>2, <1>3, <1>4, <1>5, Typed, ProcessTypeStep
<1> QED BY <1>1, <1>2, <1>3, <1>6 DEF TypeInv

\* A step that only moves the tick.
LEMMA TickMoves ==
    ASSUME TypeInv, NEW t \in Ticks, Offchain, UNCHANGED <<objs, ready, disk, slips>>,
           faults' \in 0..MaxFaults,
           tick' \in [Ticks -> TickState], Others(t),
           Listed(t)' => tick'[t].obj \in DOMAIN objs
    PROVE  TypeInv' /\ mem' = mem
<1>1. \A u \in Ticks : tick'[u] = tick[u] \/ (Listed(u)' => tick'[u].obj \in DOMAIN objs')
  BY DEF Others
<1>2. ~ready' => objs' = <<>>
  BY DEF TypeInv
<1>3. TypeInv'
  BY <1>1, <1>2, Typed, ProcessTypeStep
<1> QED BY <1>3 DEF mem

\* What a tick has read stays with it.
Same(t) ==
    /\ tick'[t].time = tick[t].time /\ tick'[t].obj = tick[t].obj
    /\ tick'[t].mandate = tick[t].mandate /\ tick'[t].price = tick[t].price
    /\ tick'[t].seq = tick[t].seq

LEMMA Lists ==
    ASSUME TypeInv, NEW t \in Ticks, TickList(t)
    PROVE  /\ TypeInv' /\ Offchain /\ UNCHANGED <<objs, disk, slips, faults>> /\ mem' = mem
           /\ tick[t].at = "list" /\ Others(t)
           /\ \/ tick'[t].at = "idle"
              \/ /\ tick'[t].at = "read" /\ tick'[t].time = tick[t].time
                 /\ tick'[t].obj = Len(objs) /\ tick'[t].mandate = mem.mandate
<1>1. /\ tick[t].at = "list" /\ Offchain
      /\ UNCHANGED <<objs, ready, disk, slips, faults>>
  BY DEF TickList
<1>2. CASE mem.status \in {"active", "awaiting_consent"}
  <2> DEFINE r == [tick[t] EXCEPT !.at = "read", !.obj = Len(objs), !.mandate = mem.mandate]
  <2>1. Len(objs) \in DOMAIN objs /\ Len(objs) \in Nat /\ mem.mandate \in MandateId
    BY <1>2, MemTyped, RowTyped
  <2>2. /\ r \in TickState /\ r.at = "read" /\ r.time = tick[t].time
        /\ r.obj = Len(objs) /\ r.mandate = mem.mandate
    BY <2>1, Typed DEF TickState
  <2>3. tick' = [tick EXCEPT ![t] = r]
    BY <1>2, Typed DEF TickList
  <2> HIDE DEF r
  <2>4. tick' \in [Ticks -> TickState] /\ tick'[t] = r /\ Others(t)
    BY <2>2, <2>3, TickSet DEF Others
  <2>5. TypeInv' /\ mem' = mem
    BY <1>1, <2>1, <2>2, <2>4, Typed, TickMoves
  <2> QED BY <1>1, <2>2, <2>4, <2>5
<1>3. CASE mem.status \notin {"active", "awaiting_consent"}
  <2>1. Ends(t)
    BY <1>3 DEF TickList
  <2>2. tick' \in [Ticks -> TickState] /\ tick'[t].at = "idle" /\ Others(t)
    BY <2>1, TickEnds DEF Others
  <2>3. TypeInv' /\ mem' = mem
    BY <1>1, <2>2, Typed, TickMoves DEF Listed, Knows
  <2> QED BY <1>1, <2>2, <2>3
<1> QED BY <1>2, <1>3

LEMMA Reads ==
    ASSUME TypeInv, NEW t \in Ticks, TickRead(t)
    PROVE  /\ TypeInv' /\ Offchain /\ UNCHANGED <<objs, disk, slips>> /\ mem' = mem
           /\ tick[t].at = "read" /\ Others(t)
           /\ \/ tick'[t].at = "idle" /\ faults' = faults + 1
              \/ /\ tick'[t].at = "advance" /\ faults' = faults
                 /\ tick'[t].time = tick[t].time /\ tick'[t].obj = tick[t].obj
                 /\ tick'[t].mandate = tick[t].mandate
                 /\ tick'[t].price = chain[tick[t].mandate].price
                 /\ tick'[t].seq = charge_seq(tick[t].mandate)
<1> DEFINE m == tick[t].mandate
           r == [tick[t] EXCEPT !.at = "advance", !.price = chain[m].price,
                                !.seq = charge_seq(m)]
<1>1. tick[t].at = "read" /\ Offchain /\ UNCHANGED <<objs, ready, disk, slips>>
  BY DEF TickRead
<1>2. CASE tick' = [tick EXCEPT ![t] = r] /\ faults' = faults
  <2>1. m \in MandateId /\ chain[m].price \in Nat /\ charge_seq(m) \in 0..MaxSeq
    BY Typed
  <2>2. /\ r \in TickState /\ r.at = "advance" /\ r.time = tick[t].time
        /\ r.obj = tick[t].obj /\ r.mandate = m /\ r.price = chain[m].price
        /\ r.seq = charge_seq(m)
    <3>1. tick[t] \in TickState
      BY Typed
    <3> QED BY <2>1, <3>1 DEF TickState
  <2> HIDE DEF r
  <2>3. tick' \in [Ticks -> TickState] /\ tick'[t] = r /\ Others(t)
    BY <1>2, <2>2, TickSet DEF Others
  <2>4. tick'[t].obj \in DOMAIN objs
    BY <1>1, <2>2, <2>3, Typed DEF Listed
  <2>5. TypeInv' /\ mem' = mem
    BY <1>1, <1>2, <2>3, <2>4, Typed, TickMoves
  <2> QED BY <1>1, <1>2, <2>2, <2>3, <2>5
<1>3. CASE Ends(t) /\ Fault
  <2>1. tick' \in [Ticks -> TickState] /\ tick'[t].at = "idle" /\ Others(t)
    BY <1>3, TickEnds DEF Others
  <2>2. faults' \in 0..MaxFaults /\ faults' = faults + 1
    BY <1>3, FaultTyped
  <2>3. TypeInv' /\ mem' = mem
    BY <1>1, <2>1, <2>2, TickMoves DEF Listed, Knows
  <2> QED BY <1>1, <2>1, <2>2, <2>3
<1> QED BY <1>2, <1>3, Typed DEF TickRead

LEMMA Skips ==
    ASSUME TypeInv, NEW t \in Ticks, Skip(t)
    PROVE  /\ TypeInv' /\ Offchain /\ UNCHANGED <<objs, disk, slips, faults>> /\ mem' = mem
           /\ Others(t) /\ tick'[t].at = "idle" /\ tick[t].at = "advance"
<1>1. /\ tick[t].at = "advance" /\ Ends(t) /\ Offchain
      /\ UNCHANGED <<objs, ready, disk, slips, faults>>
  BY DEF Skip
<1>2. tick' \in [Ticks -> TickState] /\ tick'[t].at = "idle" /\ Others(t)
  BY <1>1, TickEnds DEF Others
<1> QED BY <1>1, <1>2, Typed, TickMoves DEF Listed, Knows

LEMMA Stays ==
    ASSUME TypeInv, NEW t \in Ticks, Stay(t)
    PROVE  /\ TypeInv' /\ Offchain /\ UNCHANGED <<objs, disk, slips, faults>> /\ mem' = mem
           /\ Others(t) /\ tick[t].at = "advance" /\ tick'[t].at = "refund" /\ Same(t)
           /\ Resolved(t) /\ ~Advances(t)
<1>1. /\ Resolved(t) /\ ~Advances(t) /\ Goes(t, "refund") /\ Offchain
      /\ UNCHANGED <<objs, ready, disk, slips, faults>> /\ tick[t].at = "advance"
  BY DEF Stay, Resolved
<1>2. /\ tick' \in [Ticks -> TickState] /\ tick'[t].at = "refund" /\ Others(t) /\ Same(t)
  BY <1>1, TickGoes DEF Others, Same
<1>3. tick'[t].obj \in DOMAIN objs
  BY <1>1, <1>2, Typed DEF Same, Listed, Knows
<1> QED BY <1>1, <1>2, <1>3, Typed, TickMoves

LEMMA ObjectTyped ==
    ASSUME TypeInv, NEW t \in Ticks, Listed(t)
    PROVE  /\ tick[t].obj \in DOMAIN objs /\ Object(t) \in Sched /\ Object(t) \in Schedule
           /\ Object(t).mandate \in MandateId /\ Object(t).cursor \in DOMAIN Phases
           /\ Object(t).through \in NoSeq..MaxSeq /\ Object(t).through \in Int
           /\ tick[t].obj = Len(objs) => Object(t) = mem /\ objs # <<>>
<1>1. tick[t].obj \in DOMAIN objs /\ objs \in Seq(Sched)
  BY Typed
<1>2. Object(t) \in Sched
  BY <1>1 DEF Object
<1>3. objs # <<>>
  BY <1>1
<1>4. tick[t].obj = Len(objs) => Object(t) = mem
  BY <1>3 DEF Object, mem
<1>5. Object(t) \in Schedule
  BY <1>2 DEF Sched
<1> QED BY <1>1, <1>2, <1>3, <1>4, <1>5, RowTyped

\* A tick that writes the object it has in hand, which may not be in the map.
LEMMA ObjectPut ==
    ASSUME TypeInv, NEW t \in Ticks, Listed(t), NEW s \in Sched,
           Changed(tick[t].obj, s), Offchain, UNCHANGED <<ready, slips>>,
           tick' \in [Ticks -> TickState], Others(t),
           Listed(t)' => tick'[t].obj = tick[t].obj
    PROVE  TypeInv' /\ (tick[t].obj = Len(objs) => Puts(s))
<1>1. tick[t].obj \in DOMAIN objs
  BY ObjectTyped
<1>2. /\ objs' \in Seq(Sched) /\ Len(objs') = Len(objs) /\ DOMAIN objs' = DOMAIN objs
      /\ objs # <<>> /\ objs' # <<>>
      /\ tick[t].obj = Len(objs) => mem' = s
      /\ disk' \in Sched \cup {NoSchedule}
      /\ \/ disk' = s /\ faults' = faults
         \/ disk' = disk /\ faults' = faults + 1
      /\ faults' \in 0..MaxFaults
  BY <1>1, Written
<1>3. ~ready' => objs' = <<>>
  BY <1>2 DEF TypeInv
<1>4. \A u \in Ticks : tick'[u] = tick[u] \/ (Listed(u)' => tick'[u].obj \in DOMAIN objs')
  BY <1>1, <1>2 DEF Others
<1>5. TypeInv'
  BY <1>2, <1>3, <1>4, Typed, ProcessTypeStep
<1> QED BY <1>2, <1>5 DEF Puts

LEMMA ThenGoes ==
    ASSUME TypeInv, NEW t \in Ticks, Then(t, "refund"), NEW s, Upserted(s)
    PROVE  /\ tick' \in [Ticks -> TickState] /\ Others(t)
           /\ \/ tick'[t].at = "refund" /\ Same(t) /\ faults' = faults
              \/ tick'[t].at = "idle" /\ faults' = faults + 1
<1>1. CASE faults' = faults
  BY <1>1, TickGoes DEF Then, Others, Same
<1>2. CASE faults' # faults
  <2>1. faults' = faults + 1
    BY <1>2 DEF Upserted, Fault
  <2>2. Ends(t)
    BY <1>2 DEF Then
  <2> QED BY <2>1, <2>2, TickEnds DEF Others
<1> QED BY <1>1, <1>2

LEMMA TargetTyped ==
    ASSUME TypeInv, NEW t \in Ticks, Listed(t)
    PROVE  Target(t) \in DOMAIN Phases
<1> DEFINE S == {Object(t).cursor} \cup Arrived(Object(t).cursor, tick[t].time)
<1>1. S \subseteq DOMAIN Phases /\ S # {}
  BY ObjectTyped DEF Arrived
<1>2. Max(S) \in S
  BY <1>1, LastPhase
<1> QED BY <1>1, <1>2 DEF Target

Awaited(t) == [Object(t) EXCEPT !.status = "awaiting_consent", !.pending = Target(t)]

LEMMA Awaits ==
    ASSUME TypeInv, NEW t \in Ticks, AwaitConsent(t)
    PROVE  /\ TypeInv' /\ Offchain /\ UNCHANGED slips /\ Others(t)
           /\ tick[t].at = "advance" /\ Resolved(t) /\ Advances(t)
           /\ Target(t) \in DOMAIN Phases /\ IsUpgrade(Target(t), tick[t].price)
           /\ \/ tick'[t].at = "refund" /\ Same(t)
              \/ tick'[t].at = "idle"
           /\ tick[t].obj = Len(objs) => Puts(Awaited(t))
<1>1. /\ Resolved(t) /\ Advances(t) /\ IsUpgrade(Target(t), tick[t].price)
      /\ Changed(tick[t].obj, Awaited(t)) /\ Then(t, "refund")
      /\ Offchain /\ UNCHANGED <<ready, slips>>
  BY DEF AwaitConsent, Awaited
<1>2. tick[t].at = "advance" /\ Listed(t)
  BY <1>1 DEF Resolved, Listed, Knows
<1>3. Target(t) \in DOMAIN Phases
  BY <1>2, TargetTyped
<1>4. Awaited(t) \in Sched
  <2>1. Awaited(t) \in Schedule /\ Awaited(t).pending = Target(t)
    BY <1>2, <1>3, ObjectTyped DEF Awaited, Schedule
  <2> QED BY <1>3, <2>1, Constant DEF Sched, NoPhase
<1>5. /\ tick' \in [Ticks -> TickState] /\ Others(t)
      /\ \/ tick'[t].at = "refund" /\ Same(t)
         \/ tick'[t].at = "idle"
  BY <1>1, ThenGoes DEF Changed
<1>6. Listed(t)' => tick'[t].obj = tick[t].obj
  BY <1>5 DEF Listed, Knows, Same
<1> QED BY <1>1, <1>2, <1>3, <1>4, <1>5, <1>6, ObjectPut

Advanced(t) == [Object(t) EXCEPT !.cursor = Target(t), !.through = Baseline(t)]

LEMMA CursorAdvances ==
    ASSUME TypeInv, NEW t \in Ticks, Advance(t)
    PROVE  /\ TypeInv' /\ Offchain /\ UNCHANGED slips /\ Others(t)
           /\ tick[t].at = "advance" /\ Resolved(t) /\ Advances(t)
           /\ Target(t) \in DOMAIN Phases /\ ~IsUpgrade(Target(t), tick[t].price)
           /\ \/ tick'[t].at = "refund" /\ Same(t)
              \/ tick'[t].at = "idle"
           /\ tick[t].obj = Len(objs) => Puts(Advanced(t))
<1>1. /\ Resolved(t) /\ Advances(t) /\ ~IsUpgrade(Target(t), tick[t].price)
      /\ Changed(tick[t].obj, Advanced(t)) /\ Then(t, "refund")
      /\ Offchain /\ UNCHANGED <<ready, slips>>
  BY DEF Advance, Advanced
<1>2. tick[t].at = "advance" /\ Listed(t)
  BY <1>1 DEF Resolved, Listed, Knows
<1>3. Target(t) \in DOMAIN Phases
  BY <1>2, TargetTyped
<1>4. Advanced(t) \in Sched
  <2>1. Baseline(t) \in NoSeq..MaxSeq
    BY <1>2, ObjectTyped, Typed, Constant DEF Baseline, NoSeq
  <2>2. Advanced(t) \in Schedule /\ Advanced(t).status = Object(t).status
        /\ Object(t).status = "active"
    BY <1>1, <1>2, <1>3, <2>1, ObjectTyped DEF Advanced, Schedule, Advances
  <2> QED BY <2>2 DEF Sched
<1>5. /\ tick' \in [Ticks -> TickState] /\ Others(t)
      /\ \/ tick'[t].at = "refund" /\ Same(t)
         \/ tick'[t].at = "idle"
  BY <1>1, ThenGoes DEF Changed
<1>6. Listed(t)' => tick'[t].obj = tick[t].obj
  BY <1>5 DEF Listed, Knows, Same
<1> QED BY <1>1, <1>2, <1>3, <1>4, <1>5, <1>6, ObjectPut

\* The charges a tick has seen are reconciled.
Reconciled(t) == [Object(t) EXCEPT !.through = tick[t].seq]

LEMMA ReconciledTyped ==
    ASSUME TypeInv, NEW t \in Ticks, Listed(t)
    PROVE  Reconciled(t) \in Sched
<1>1. /\ Object(t) \in Sched /\ Object(t) \in Schedule
      /\ tick[t].seq \in NoSeq..MaxSeq
  BY ObjectTyped, Typed, Constant DEF NoSeq
<1>2. Reconciled(t) \in Schedule /\ Reconciled(t).status = Object(t).status
      /\ Reconciled(t).pending = Object(t).pending
  BY <1>1 DEF Reconciled, Schedule
<1> QED BY <1>1, <1>2 DEF Sched

LEMMA RefundsNothing ==
    ASSUME TypeInv, NEW t \in Ticks, NoRefund(t)
    PROVE  /\ TypeInv' /\ Offchain /\ UNCHANGED slips /\ Others(t)
           /\ tick[t].at = "refund" /\ tick'[t].at = "idle"
           /\ \/ UNCHANGED <<objs, disk, faults>> /\ mem' = mem
              \/ /\ Refunds(t) /\ Object(t).through = NoSeq
                 /\ tick[t].obj = Len(objs) => Puts(Reconciled(t))
<1>1. /\ tick[t].at = "refund" /\ Ends(t) /\ Offchain /\ UNCHANGED <<ready, slips>>
  BY DEF NoRefund
<1>2. tick' \in [Ticks -> TickState] /\ tick'[t].at = "idle" /\ Others(t)
  BY <1>1, TickEnds DEF Others
<1>3. ~Listed(t)' /\ Listed(t)
  BY <1>1, <1>2 DEF Listed, Knows
<1>4. CASE Refunds(t) /\ Object(t).through = NoSeq
  <2>1. Changed(tick[t].obj, Reconciled(t))
    BY <1>4 DEF NoRefund, Reconciled
  <2> QED BY <1>1, <1>2, <1>3, <1>4, <2>1, ReconciledTyped, ObjectPut
<1>5. CASE ~(Refunds(t) /\ Object(t).through = NoSeq)
  <2>1. UNCHANGED <<objs, disk, faults>>
    BY <1>5 DEF NoRefund
  <2> QED BY <1>1, <1>2, <1>3, <2>1, Typed, TickMoves
<1> QED BY <1>4, <1>5

LEMMA Records ==
    ASSUME TypeInv, NEW t \in Ticks, RecordRefund(t)
    PROVE  /\ TypeInv' /\ Offchain /\ UNCHANGED slips /\ Others(t)
           /\ tick[t].at = "refunded" /\ tick'[t].at = "idle"
           /\ tick[t].obj = Len(objs) => Puts(Reconciled(t))
<1>1. /\ tick[t].at = "refunded" /\ Ends(t) /\ Offchain /\ UNCHANGED <<ready, slips>>
      /\ Changed(tick[t].obj, Reconciled(t))
  BY DEF RecordRefund, Reconciled
<1>2. tick' \in [Ticks -> TickState] /\ tick'[t].at = "idle" /\ Others(t)
  BY <1>1, TickEnds DEF Others
<1>3. ~Listed(t)' /\ Listed(t)
  BY <1>1, <1>2 DEF Listed, Knows
<1> QED BY <1>1, <1>2, <1>3, ReconciledTyped, ObjectPut

\* The charges a refund pays are marked with its phase; the others stay.
LEMMA MarkedTyped ==
    ASSUME NEW cs \in Seq(ChargeState), NEW from \in Int, NEW to \in Int,
           NEW phase \in DOMAIN Phases
    PROVE  LET new == Marked(cs, from, to, phase)
           IN  /\ new \in Seq(ChargeState) /\ Len(new) = Len(cs) /\ DOMAIN new = DOMAIN cs
               /\ \A i \in DOMAIN cs :
                     /\ new[i].phase = cs[i].phase
                     /\ i <= from \/ i > to => new[i].refunds = cs[i].refunds
                     /\ i > from /\ i <= to => new[i].refunds = Append(cs[i].refunds, phase)
<1> DEFINE new == Marked(cs, from, to, phase)
           marked(i) == [cs[i] EXCEPT !.refunds = Append(cs[i].refunds, phase)]
<1>1. new = [i \in 1..Len(cs) |-> IF i \in (from + 1)..to THEN marked(i) ELSE cs[i]]
      /\ Len(cs) \in Nat /\ DOMAIN cs = 1..Len(cs)
  BY DEF Marked
<1>2. ASSUME NEW i \in 1..Len(cs)
      PROVE  /\ marked(i) \in ChargeState /\ marked(i).phase = cs[i].phase
             /\ marked(i).refunds = Append(cs[i].refunds, phase)
             /\ cs[i] \in ChargeState
  <2>1. cs[i] \in ChargeState
    OBVIOUS
  <2>2. cs[i].phase \in DOMAIN Phases /\ Append(cs[i].refunds, phase) \in Seq(DOMAIN Phases)
    BY <2>1 DEF ChargeState
  <2> QED BY <2>1, <2>2 DEF ChargeState
<1>3. \A i \in 1..Len(cs) : /\ i \in (from + 1)..to => new[i] = marked(i)
                            /\ i \notin (from + 1)..to => new[i] = cs[i]
  BY <1>1
<1>4. new \in [1..Len(cs) -> ChargeState]
  <2>1. \A i \in 1..Len(cs) : (IF i \in (from + 1)..to THEN marked(i) ELSE cs[i]) \in ChargeState
    BY <1>2
  <2> HIDE DEF marked
  <2> QED BY <1>1, <2>1
<1> HIDE DEF new, marked
<1>5. new \in Seq(ChargeState) /\ Len(new) = Len(cs) /\ DOMAIN new = DOMAIN cs
  BY <1>1, <1>4
<1>6. \A i \in DOMAIN cs : i \in (from + 1)..to <=> i > from /\ i <= to
  BY <1>1
<1>7. \A i \in DOMAIN cs :
          /\ new[i].phase = cs[i].phase
          /\ i <= from \/ i > to => new[i].refunds = cs[i].refunds
          /\ i > from /\ i <= to => new[i].refunds = Append(cs[i].refunds, phase)
  BY <1>1, <1>2, <1>3, <1>6
<1> QED BY <1>5, <1>7 DEF new

LEMMA Product == ASSUME NEW a \in Nat, NEW b \in Nat PROVE a * b \in Nat
OBVIOUS

LEMMA AmountTyped ==
    ASSUME TypeInv, NEW t \in Ticks, Listed(t), Refunds(t), NewCharges(t) > 0
    PROVE  /\ Amount(t) \in Nat /\ Base(t) \in Int
           /\ Object(t).through # NoSeq /\ Base(t) = Object(t).through
<1>1. /\ tick[t].price \in Nat /\ priceOf(Object(t).cursor) \in Nat
      /\ tick[t].seq \in Nat /\ Object(t).through \in Int
  BY ObjectTyped, Typed, PhaseTyped
<1>2. tick[t].price - priceOf(Object(t).cursor) \in Nat
  BY <1>1 DEF Refunds, IsDowngrade
<1>3. Object(t).through # NoSeq /\ Base(t) = Object(t).through
  BY <1>1 DEF NewCharges, Base
<1>4. NewCharges(t) \in Nat
  BY <1>1, <1>3 DEF NewCharges
<1> QED BY <1>1, <1>2, <1>3, <1>4, Product DEF Amount

\* A refund marks the charges it is for, whether it is answered or not.
Pays(t) ==
    LET m == Object(t).mandate
    IN  /\ \A n \in MandateId : /\ chain'[n].price = chain[n].price
                                /\ chain'[n].live = chain[n].live
        /\ \A n \in MandateId \ {m} : chain'[n].charges = chain[n].charges
        /\ chain'[m].charges =
              Marked(chain[m].charges, Base(t), tick[t].seq, Object(t).cursor)

LEMMA Refunded ==
    ASSUME TypeInv, NEW t \in Ticks, Refund(t)
    PROVE  /\ TypeInv' /\ UNCHANGED <<now, disk, slips>>
           /\ tick[t].at = "refund" /\ Refunds(t) /\ NewCharges(t) > 0
           /\ \/ /\ Pays(t) /\ UNCHANGED <<objs, faults>> /\ mem' = mem
                 /\ tick'[t].at = "refunded" /\ Same(t) /\ Others(t)
              \/ /\ Pays(t) /\ faults' = faults + 1
                 /\ \/ objs' = objs /\ mem' = mem /\ tick'[t].at = "idle" /\ Others(t)
                    \/ objs' = <<>> /\ mem' = NoSchedule /\ \A u \in Ticks : tick'[u] = Idle
              \/ /\ UNCHANGED <<chain, objs, faults>> /\ mem' = mem
                 /\ tick'[t].at = "idle" /\ Others(t)
<1> DEFINE m == Object(t).mandate
           marked == Marked(chain[m].charges, Base(t), tick[t].seq, Object(t).cursor)
           sent == [chain EXCEPT ![m].charges = marked]
<1>1. /\ tick[t].at = "refund" /\ Refunds(t) /\ NewCharges(t) > 0 /\ Listed(t)
      /\ UNCHANGED <<now, disk, slips>>
  BY DEF Refund, Listed, Knows
<1>2. /\ m \in MandateId /\ Object(t).cursor \in DOMAIN Phases
      /\ tick[t].seq \in Int /\ Base(t) \in Int /\ Amount(t) \in Nat
  <2>1. tick[t].seq \in Nat
    BY Typed
  <2> QED BY <1>1, <2>1, ObjectTyped, AmountTyped
<1>3. marked \in Seq(ChargeState) /\ Len(marked) = Len(chain[m].charges)
  <2>1. chain[m].charges \in Seq(ChargeState)
    BY <1>2, Typed
  <2>2. \A cs \in Seq(ChargeState), from \in Int, to \in Int, phase \in DOMAIN Phases :
            LET new == Marked(cs, from, to, phase)
            IN  new \in Seq(ChargeState) /\ Len(new) = Len(cs)
    BY MarkedTyped
  <2> QED BY <1>2, <2>1, <2>2
<1>4. Len(marked) <= MaxSeq
  BY <1>2, <1>3 DEF TypeInv, charge_seq
<1> HIDE DEF marked
<1> DEFINE Frame ==
        /\ chain' \in [MandateId -> MandateState]
        /\ \A n \in MandateId : Len(chain'[n].charges) <= MaxSeq
        /\ \A n \in MandateId : /\ chain'[n].price = chain[n].price
                                /\ chain'[n].live = chain[n].live
        /\ \A n \in MandateId \ {m} : chain'[n].charges = chain[n].charges
        /\ chain'[m].charges = marked
<1>5. ASSUME NEW r \in MandateState, chain' = [chain EXCEPT ![m] = r],
             r.charges = marked, r.price = chain[m].price, r.live = chain[m].live
      PROVE  Frame
  <2>1. Len(r.charges) <= MaxSeq
    BY <1>4, <1>5
  <2>2. /\ chain' \in [MandateId -> MandateState] /\ chain'[m] = r
        /\ \A n \in MandateId \ {m} : chain'[n] = chain[n]
        /\ \A n \in MandateId : Len(chain'[n].charges) <= MaxSeq
    BY <1>2, <1>5, <2>1, MandateTyped
  <2> QED BY <1>5, <2>2
<1>6. chain[m] \in MandateState /\ chain[m].refunded \in Nat
  BY <1>2, Typed
<1>7. Frame => Pays(t)
  BY DEF Pays, marked
<1>8. ASSUME Frame, faults' \in 0..MaxFaults, UNCHANGED <<objs, ready>>,
             late' \subseteq [mandate : MandateId, amount : Nat, fault : Nat],
             tick' \in [Ticks -> TickState], Others(t), tick'[t].at = "refunded" => Same(t),
             tick'[t].at \in {"idle", "refunded"}
      PROVE  TypeInv' /\ mem' = mem
  <2>1. \A m_1 \in MandateId : charge_seq(m_1)' <= MaxSeq
    BY <1>8 DEF charge_seq
  <2>2. \A u \in Ticks : Listed(u)' => tick'[u].obj \in DOMAIN objs'
    <3>1. Listed(t)' => tick'[t].obj \in DOMAIN objs'
      BY <1>1, <1>8, Typed DEF Listed, Knows, Same
    <3>2. \A u \in Ticks \ {t} : Listed(u)' => tick'[u].obj \in DOMAIN objs'
      BY <1>8, Typed DEF Listed, Knows, Others
    <3> QED BY <3>1, <3>2
  <2>3. ~ready' => objs' = <<>>
    BY <1>8 DEF TypeInv
  <2>4. TypeInv'
    BY <1>1, <1>8, <2>1, <2>2, <2>3, Typed, TypeStep
  <2> QED BY <1>8, <2>4 DEF mem
<1>9. late \subseteq [mandate : MandateId, amount : Nat, fault : Nat]
  BY DEF TypeInv, SchedulerTypeOK
<1>10. CASE /\ chain' = [sent EXCEPT ![m].refunded = @ + Amount(t)] /\ Goes(t, "refunded")
            /\ UNCHANGED <<objs, ready, late, faults>>
  <2> DEFINE r == [chain[m] EXCEPT !.charges = marked, !.refunded = @ + Amount(t)]
  <2>1. r \in MandateState
    <3>1. chain[m].refunded + Amount(t) \in Nat
      BY <1>2, <1>6
    <3> QED BY <1>3, <1>6, <3>1 DEF MandateState
  <2>2. r.charges = marked /\ r.price = chain[m].price /\ r.live = chain[m].live
    BY <1>6 DEF MandateState
  <2>3. chain' = [chain EXCEPT ![m] = r]
    BY <1>2, <1>6, <1>10, Typed DEF MandateState
  <2>4. Frame
    <3> HIDE DEF r, Frame
    <3> QED BY <2>1, <2>2, <2>3, <1>5
  <2>5. /\ tick' \in [Ticks -> TickState] /\ tick'[t].at = "refunded" /\ Same(t) /\ Others(t)
    BY <1>10, TickGoes DEF Same, Others
  <2>6. TypeInv' /\ mem' = mem
    <3> HIDE DEF Frame
    <3> QED BY <1>8, <1>9, <1>10, <2>4, <2>5, Typed
  <2>7. Pays(t)
    BY <1>7, <2>4
  <2> QED BY <1>1, <1>10, <2>5, <2>6, <2>7
<1>11. CASE /\ chain' = sent /\ Fault
            /\ late' = late \cup {[mandate |-> m, amount |-> Amount(t), fault |-> faults']}
            /\ (Ends(t) /\ UNCHANGED <<objs, ready>>) \/ ProcessDies
  <2> DEFINE r == [chain[m] EXCEPT !.charges = marked]
  <2>1. r \in MandateState
    BY <1>3, <1>6 DEF MandateState
  <2>2. r.charges = marked /\ r.price = chain[m].price /\ r.live = chain[m].live
    BY <1>6 DEF MandateState
  <2>3. chain' = [chain EXCEPT ![m] = r]
    BY <1>11
  <2>4. Frame
    <3> HIDE DEF r, Frame
    <3> QED BY <2>1, <2>2, <2>3, <1>5
  <2>5. Pays(t)
    BY <1>7, <2>4
  <2>7. faults' \in 0..MaxFaults /\ faults' = faults + 1
    BY <1>11, FaultTyped
  <2>6. late' \subseteq [mandate : MandateId, amount : Nat, fault : Nat]
    <3>1. faults' \in Nat
      BY <2>7, SchedulerAssumption DEF SchedulerAssumption
    <3> QED BY <1>2, <1>9, <1>11, <3>1
  <2>8. CASE Ends(t) /\ UNCHANGED <<objs, ready>>
    <3>1. tick' \in [Ticks -> TickState] /\ tick'[t].at = "idle" /\ Others(t)
      BY <2>8, TickEnds DEF Others
    <3>2. TypeInv' /\ mem' = mem
      <4> HIDE DEF Frame
      <4> QED BY <1>8, <2>4, <2>6, <2>7, <2>8, <3>1
    <3> QED BY <1>1, <2>5, <2>7, <2>8, <3>1, <3>2
  <2>9. CASE ProcessDies
    <3>1. \A n \in MandateId : charge_seq(n)' <= MaxSeq
      BY <2>4 DEF charge_seq
    <3>2. /\ TypeInv' /\ objs' = <<>> /\ mem' = NoSchedule
          /\ \A u \in Ticks : tick'[u] = Idle
      BY <1>1, <2>4, <2>6, <2>7, <2>9, <3>1, Dies
    <3> QED BY <1>1, <2>5, <2>7, <3>2
  <2> QED BY <1>11, <2>8, <2>9
<1>12. CASE Ends(t) /\ UNCHANGED <<chain, objs, ready, late, faults>>
  <2>1. tick' \in [Ticks -> TickState] /\ tick'[t].at = "idle" /\ Others(t)
    BY <1>12, TickEnds DEF Others
  <2>2. Offchain
    BY <1>1, <1>12 DEF Offchain
  <2>3. TypeInv' /\ mem' = mem
    BY <1>1, <1>12, <2>1, <2>2, Typed, TickMoves DEF Listed, Knows
  <2> QED BY <1>1, <1>12, <2>1, <2>3
<1> QED
  <2>1. \/ /\ chain' = [sent EXCEPT ![m].refunded = @ + Amount(t)] /\ Goes(t, "refunded")
           /\ UNCHANGED <<objs, ready, late, faults>>
        \/ /\ chain' = sent /\ Fault
           /\ late' = late \cup {[mandate |-> m, amount |-> Amount(t), fault |-> faults']}
           /\ (Ends(t) /\ UNCHANGED <<objs, ready>>) \/ ProcessDies
        \/ Ends(t) /\ UNCHANGED <<chain, objs, ready, late, faults>>
    BY DEF Refund, marked
  <2> QED BY <2>1, <1>10, <1>11, <1>12

-----------------------------------------------------------------------------
(* A price rise waits for its signature.                                   *)

LEMMA UpgradeInit == SchedulerInit => UpgradeInv
<1> SUFFICES ASSUME SchedulerInit PROVE UpgradeInv
  OBVIOUS
<1>1. PICK i \in DOMAIN Phases :
          chain = [m \in MandateId |-> [price |-> priceOf(i), live |-> m = First,
                                        refunded |-> 0, charges |-> <<>>]]
  BY DEF SchedulerInit
<1>2. \A m \in MandateId : chain[m].live <=> m = First
  BY <1>1
<1>3. OneLive
  BY <1>2, Constant DEF OneLive
<1>4. objs = <<>> /\ disk = NoSchedule /\ \A t \in Ticks : tick[t].at = "idle"
  BY IdleTyped DEF SchedulerInit
<1>5. Stands(chain, disk)
  BY <1>2, <1>4 DEF Stands, NoSchedule
<1>6. \A t \in Ticks : KnowsPrice(t)
  BY <1>4 DEF KnowsPrice, Listed, Knows
<1> QED BY <1>3, <1>4, <1>5, <1>6, TypeInit DEF UpgradeInv, Consented

\* Which mandates are live, and at what price, is all a schedule stands on.
LEMMA SamePrices ==
    ASSUME TypeInv, \A n \in MandateId : chain'[n].price = chain[n].price
                                         /\ chain'[n].live = chain[n].live
    PROVE  /\ OneLive => OneLive'
           /\ \A s \in Sched \cup {NoSchedule} : Stands(chain, s) => Stands(chain', s)
<1>1. OneLive => OneLive'
  BY DEF OneLive
<1>2. ASSUME NEW s \in Sched \cup {NoSchedule}, Stands(chain, s) PROVE Stands(chain', s)
  <2>1. s.mandate \in MandateId
    BY RowTyped
  <2> QED BY <1>2, <2>1 DEF Stands
<1> QED BY <1>1, <1>2

LEMMA ConsentedChain ==
    ASSUME UpgradeInv, Consented, UNCHANGED process,
           \A n \in MandateId : chain'[n].price = chain[n].price
                                /\ chain'[n].live = chain[n].live
    PROVE  Consented'
<1>1. TypeInv /\ objs' = objs /\ mem' = mem /\ disk' = disk /\ tick' = tick
  BY DEF UpgradeInv, process, mem
<1>2. OneLive' /\ Stands(chain', disk) /\ (objs # <<>> => Stands(chain', mem))
  BY <1>1, SamePrices, Typed, MemTyped DEF Consented
<1>3. \A t \in Ticks : KnowsPrice(t)'
  BY <1>1, Typed DEF Consented, KnowsPrice, Listed, Knows
<1> QED BY <1>1, <1>2, <1>3 DEF Consented

\* Ticks that go on with what they have read.
Carries(u) ==
    \/ tick'[u] = tick[u]
    \/ tick'[u].at \notin {"read", "advance", "refund", "refunded"}
    \/ Same(u) /\ Knows(u)

LEMMA TicksKnow ==
    ASSUME UpgradeInv, Consented, Offchain, Len(objs') = Len(objs),
           mem.mandate <= mem'.mandate, mem'.mandate \in Nat,
           \A u \in Ticks : Carries(u)
    PROVE  \A u \in Ticks : KnowsPrice(u)'
<1> TAKE u \in Ticks
<1>1. CASE tick'[u].at \notin {"read", "advance", "refund", "refunded"}
  BY <1>1 DEF KnowsPrice, Listed, Knows
<1>2. CASE (tick'[u] = tick[u] \/ (Same(u) /\ Knows(u))) /\ Listed(u)
  <2>1. /\ tick'[u].obj = tick[u].obj /\ tick'[u].mandate = tick[u].mandate
        /\ tick'[u].price = tick[u].price
    BY <1>2 DEF Same, Knows
  <2>2. /\ tick[u].obj = Len(objs) /\ tick[u].mandate <= mem.mandate
        /\ Knows(u) => tick[u].price = chain[tick[u].mandate].price
    BY <1>2 DEF Consented, KnowsPrice
  <2>3. tick[u].mandate \in Nat /\ mem.mandate \in Nat /\ chain' = chain
    BY Typed, MemTyped, RowTyped DEF UpgradeInv, Offchain
  <2>4. tick'[u].obj = Len(objs')
    BY <2>1, <2>2
  <2>5. tick'[u].mandate <= mem'.mandate
    BY <2>1, <2>2, <2>3
  <2>6. Knows(u)' => Knows(u)
    BY <1>2 DEF Same, Knows
  <2>7. Knows(u)' => tick'[u].price = chain'[tick'[u].mandate].price
    BY <2>1, <2>2, <2>3, <2>6
  <2> QED BY <2>4, <2>5, <2>7 DEF KnowsPrice
<1>3. CASE tick'[u] = tick[u] /\ ~Listed(u)
  BY <1>3 DEF KnowsPrice, Listed, Knows
<1> QED BY <1>1, <1>2, <1>3 DEF Carries, Listed

\* The schedule is written, and the row with it or not.
LEMMA ConsentedPut ==
    ASSUME UpgradeInv, Consented, Offchain, NEW s \in Sched, Puts(s),
           Stands(chain, s), mem.mandate <= s.mandate, Follows(disk, s),
           \A u \in Ticks : Carries(u)
    PROVE  Consented'
<1>1. chain' = chain /\ mem' = s /\ objs' # <<>> /\ Len(objs') = Len(objs) /\ disk' \in {s, disk}
  BY DEF Offchain, Puts
<1>2. s.mandate \in Nat
  BY RowTyped
<1>3. Follows(s, s)
  BY <1>2 DEF Follows
<1>4. \A u \in Ticks : KnowsPrice(u)'
  BY <1>1, <1>2, TicksKnow
<1>5. OneLive'
  BY <1>1 DEF Consented, OneLive
<1>6. Stands(chain', disk') /\ Stands(chain', mem') /\ Follows(disk', mem')
  BY <1>1, <1>3 DEF Consented
<1> QED BY <1>4, <1>5, <1>6 DEF Consented

\* A tick alone moves.
LEMMA ConsentedMove ==
    ASSUME UpgradeInv, Consented, Offchain, UNCHANGED <<objs, disk>>, mem' = mem,
           \A u \in Ticks : KnowsPrice(u)'
    PROVE  Consented'
BY DEF Consented, Offchain, OneLive

\* The row is loaded into an empty memory.
LEMMA ConsentedLoad ==
    ASSUME UpgradeInv, Consented, Offchain, Loaded, objs = <<>>, disk' = disk,
           \A u \in Ticks : tick'[u] = tick[u] \/ tick'[u].at = "list"
    PROVE  Consented'
<1>1. chain' = chain
  BY DEF Offchain
<1>2. \A u \in Ticks : ~Listed(u)
  BY Typed DEF UpgradeInv
<1>3. \A u \in Ticks : KnowsPrice(u)'
  BY <1>2 DEF KnowsPrice, Listed, Knows
<1>4. CASE disk = NoSchedule
  <2>1. objs' = <<>>
    BY <1>4 DEF Loaded
  <2> QED BY <1>1, <1>3, <2>1 DEF Consented, OneLive
<1>5. CASE disk # NoSchedule
  <2>1. objs' # <<>> /\ mem' = disk
    BY <1>5, LoadedTyped DEF UpgradeInv
  <2>2. Follows(disk, disk)
    BY Typed, RowTyped DEF Follows, UpgradeInv
  <2> QED BY <1>1, <1>3, <2>1, <2>2 DEF Consented, OneLive
<1> QED BY <1>4, <1>5

LEMMA ConsentedDies ==
    ASSUME UpgradeInv, Consented, disk' = disk, objs' = <<>>, \A u \in Ticks : tick'[u] = Idle,
           \A n \in MandateId : chain'[n].price = chain[n].price
                                /\ chain'[n].live = chain[n].live
    PROVE  Consented'
<1>1. OneLive' /\ Stands(chain', disk)
  BY SamePrices, Typed DEF Consented, UpgradeInv
<1>2. \A u \in Ticks : KnowsPrice(u)'
  BY IdleTyped DEF KnowsPrice, Listed, Knows
<1> QED BY <1>1, <1>2 DEF Consented

\* Only the schedule's own mandate is replaced.
LEMMA SignedIsIts ==
    ASSUME UpgradeInv, Consented, SignUpgrade, objs # <<>>
    PROVE  mem.mandate = disk.mandate /\ Stands(chain, mem) /\ Follows(disk, mem)
<1>1. Stands(chain, mem) /\ Follows(disk, mem)
  BY DEF Consented
<1>2. disk.mandate \in MandateId /\ chain[disk.mandate].live
  BY Signed DEF UpgradeInv
<1>3. disk.mandate = mem.mandate \/ disk.mandate = mem.mandate + 1
  BY <1>1, <1>2 DEF Stands
<1>4. disk.mandate <= mem.mandate /\ mem.mandate \in Nat /\ disk.mandate \in Nat
  BY <1>1, Typed, MemTyped, RowTyped DEF Follows, UpgradeInv
<1> QED BY <1>1, <1>3, <1>4

LEMMA UpgradeSigned ==
    ASSUME UpgradeInv, Consented, SignUpgrade
    PROVE  Consented'
<1> DEFINE a == disk.mandate
           b == disk.mandate + 1
<1>1. /\ UNCHANGED process
      /\ a \in MandateId /\ b \in MandateId
      /\ disk.status = "awaiting_consent" /\ disk.pending \in DOMAIN Phases
      /\ chain[a].live
      /\ ~chain'[a].live /\ chain'[a].price = chain[a].price
      /\ chain'[b].live /\ chain'[b].price = priceOf(disk.pending)
      /\ \A n \in MandateId \ {a, b} : chain'[n] = chain[n]
  BY Signed DEF UpgradeInv
<1>2. objs' = objs /\ mem' = mem /\ disk' = disk /\ tick' = tick
  BY <1>1 DEF process, mem
<1>3. a \in Nat /\ b = a + 1 /\ a # b /\ MandateId \subseteq Nat
  BY <1>1, Constant
<1>4. \A n \in MandateId : chain[n].live => n = a
  BY <1>1 DEF Consented, OneLive
<1>5. \A n \in MandateId : chain'[n].live => n = b
  BY <1>1, <1>4
<1>6. OneLive'
  BY <1>1, <1>5 DEF OneLive
<1>7. Stands(chain, disk)
  BY DEF Consented
<1>8. priceOf(disk.pending) \in Nat
  BY <1>1, PhaseTyped
<1>9. Stands(chain', disk')
  <2>1. \A m \in MandateId : chain'[m].live =>
            /\ m = a + 1 /\ disk.status \in {"awaiting_consent", "cancelled"}
            /\ disk.status = "awaiting_consent" => priceOf(disk.pending) <= chain'[m].price
    BY <1>1, <1>3, <1>5, <1>8
  <2>2. disk.status = "awaiting_consent" =>
            Fixed(disk.pending) /\ priceOf(disk.pending) > chain'[a].price
    BY <1>1, <1>7 DEF Stands
  <2> QED BY <1>1, <1>2, <2>1, <2>2 DEF Stands
<1>10. ASSUME objs # <<>>
       PROVE  /\ mem.mandate = a /\ mem.status \in {"awaiting_consent", "cancelled"}
              /\ mem.status = "awaiting_consent" => mem.pending = disk.pending
              /\ Stands(chain', mem)
  <2>1. Stands(chain, mem) /\ Follows(disk, mem)
    BY <1>10, SignedIsIts
  <2>2. mem.mandate = a
    BY <1>10, SignedIsIts
  <2>3. /\ mem.status \in {"awaiting_consent", "cancelled"}
        /\ mem.status = "awaiting_consent" => mem.pending = disk.pending
    BY <1>1, <2>1, <2>2 DEF Follows
  <2>4. \A m \in MandateId : chain'[m].live =>
            /\ m = a + 1
            /\ mem.status = "awaiting_consent" => priceOf(mem.pending) <= chain'[m].price
    BY <1>1, <1>3, <1>5, <1>8, <2>3
  <2>5. mem.status = "awaiting_consent" =>
            Fixed(mem.pending) /\ priceOf(mem.pending) > chain'[a].price
    BY <1>1, <2>1, <2>2 DEF Stands
  <2> QED BY <2>2, <2>3, <2>4, <2>5 DEF Stands
<1>11. \A t \in Ticks : KnowsPrice(t)'
  <2> TAKE t \in Ticks
  <2>1. ASSUME Listed(t) PROVE chain'[tick[t].mandate].price = chain[tick[t].mandate].price
    <3>1. objs # <<>> /\ tick[t].mandate <= mem.mandate /\ tick[t].mandate \in MandateId
          /\ tick[t].mandate \in Nat
      BY <2>1, ObjectTyped, Typed DEF Consented, KnowsPrice, UpgradeInv
    <3>2. tick[t].mandate <= a
      BY <1>10, <3>1
    <3>3. tick[t].mandate # b
      BY <1>3, <3>1, <3>2
    <3> QED BY <1>1, <3>1, <3>3
  <2>2. KnowsPrice(t) /\ (Knows(t)' <=> Knows(t)) /\ (Listed(t)' <=> Listed(t))
    BY <1>2 DEF Consented, Knows, Listed
  <2>3. Knows(t) => Listed(t)
    BY DEF Listed
  <2> QED BY <1>2, <2>1, <2>2, <2>3 DEF KnowsPrice
<1>12. Follows(disk', mem') \/ objs' = <<>>
  BY <1>2 DEF Consented
<1> QED BY <1>2, <1>6, <1>9, <1>10, <1>11, <1>12 DEF Consented

LEMMA UpgradeSchedule ==
    ASSUME UpgradeInv, Consented, schedule, ~slips'.replaced
    PROVE  Consented'
<1>1. /\ Offchain /\ UNCHANGED tick /\ objs' # <<>> /\ ~Busy /\ ~Waiting
  BY Registered DEF UpgradeInv
<1>2. PICK m \in MandateId, s \in Sched :
          /\ Registers(m, s) /\ mem' = s
          /\ \/ disk' = s /\ faults' = faults
             \/ disk' = disk /\ faults' = faults + 1
  BY Registered DEF UpgradeInv
<1>3. /\ s.mandate = m /\ s.status = "active" /\ s.cursor = s.registered /\ chain[m].live
  BY <1>2 DEF Registers
<1>4. \A n \in MandateId : chain[n].live => n = m
  BY <1>3 DEF Consented, OneLive
<1>5. Stands(chain, s)
  BY <1>3, <1>4 DEF Stands
<1>6. disk.mandate <= m /\ m \in Nat
  <2>1. m = disk.mandate \/ m = disk.mandate + 1
    BY <1>3 DEF Consented, Stands
  <2> QED BY <2>1, Typed, RowTyped DEF UpgradeInv
<1>7. Follows(disk, s) /\ Follows(s, s)
  BY <1>1, <1>3, <1>6 DEF Follows, Waiting
<1>8. \A t \in Ticks : KnowsPrice(t)'
  BY <1>1 DEF Busy, KnowsPrice, Listed, Knows
<1>9. chain' = chain
  BY <1>1 DEF Offchain
<1> QED BY <1>2, <1>5, <1>7, <1>8, <1>9 DEF Consented, OneLive

LEMMA UpgradeConsent ==
    ASSUME UpgradeInv, Consented, applyConsent
    PROVE  Consented'
<1>1. /\ Offchain /\ UNCHANGED <<tick, slips>>
      /\ mem.status = "awaiting_consent" /\ mem \in Sched
      /\ \E m \in MandateId \ {mem.mandate} : chain[m].live /\ Puts(Repointed(m))
  BY Consent DEF UpgradeInv
<1>2. PICK m \in MandateId \ {mem.mandate} : chain[m].live /\ Puts(Repointed(m))
  BY <1>1
<1> DEFINE s == Repointed(m)
<1>3. /\ s.mandate = m /\ s.cursor = mem.pending /\ s.status = "active"
      /\ s.registered = mem.registered /\ s \in Sched
  BY <1>1, <1>2 DEF Repointed, Sched, Schedule, Puts
<1>4. objs # <<>> /\ Stands(chain, mem) /\ Follows(disk, mem)
  BY <1>2 DEF Puts, Consented
<1>5. m = mem.mandate + 1 /\ priceOf(mem.pending) <= chain[m].price
  BY <1>1, <1>2, <1>4 DEF Stands
<1>6. \A n \in MandateId : chain[n].live => n = m
  BY <1>2 DEF Consented, OneLive
<1>7. Stands(chain, s)
  BY <1>3, <1>5, <1>6 DEF Stands
<1>8. mem.mandate <= m /\ disk.mandate < m
  BY <1>4, <1>5, MemTyped, Typed, RowTyped DEF Follows, UpgradeInv
<1>9. Follows(disk, s)
  <2>1. disk.mandate \in Nat /\ m \in Nat
    BY Typed, RowTyped, Constant DEF UpgradeInv
  <2> QED BY <1>3, <1>8, <2>1 DEF Follows
<1> HIDE DEF s
<1> QED BY <1>1, <1>2, <1>3, <1>7, <1>8, <1>9, ConsentedPut DEF Carries, s

LEMMA UpgradeCancel ==
    ASSUME UpgradeInv, Consented, cancel
    PROVE  Consented'
<1>1. Offchain /\ UNCHANGED <<tick, slips>> /\ Puts(Cancelled) /\ mem \in Sched
  BY Cancels DEF UpgradeInv
<1>2. /\ Cancelled.mandate = mem.mandate /\ Cancelled.status = "cancelled"
      /\ Cancelled \in Sched
  BY <1>1 DEF Cancelled, Sched, Schedule, Puts
<1>3. objs # <<>> /\ Stands(chain, mem) /\ Follows(disk, mem)
  BY <1>1 DEF Puts, Consented
<1>4. Stands(chain, Cancelled)
  BY <1>2, <1>3 DEF Stands
<1>5. Follows(disk, Cancelled) /\ mem.mandate <= Cancelled.mandate
  <2>1. mem.mandate \in Nat
    BY <1>1, RowTyped
  <2> QED BY <1>2, <1>3, <2>1 DEF Follows
<1> QED BY <1>1, <1>2, <1>4, <1>5, ConsentedPut DEF Carries

\* What a tick that has read knows, as long as no schedule was replaced.
LEMMA PriceIsRight ==
    ASSUME UpgradeInv, Consented, NEW t \in Ticks, Knows(t)
    PROVE  /\ tick[t].obj = Len(objs) /\ Object(t) = mem /\ mem \in Sched /\ mem \in Schedule
           /\ tick[t].price = chain[tick[t].mandate].price
           /\ tick[t].mandate <= mem.mandate
           /\ Stands(chain, mem) /\ Follows(disk, mem) /\ mem.mandate \in Nat
<1>1. Listed(t)
  BY DEF Listed
<1>2. /\ tick[t].obj = Len(objs) /\ tick[t].price = chain[tick[t].mandate].price
      /\ tick[t].mandate <= mem.mandate
  BY <1>1 DEF Consented, KnowsPrice
<1>3. Object(t) = mem /\ objs # <<>> /\ mem \in Sched /\ mem \in Schedule
  BY <1>1, <1>2, ObjectTyped DEF UpgradeInv
<1> QED BY <1>2, <1>3, RowTyped DEF Consented

LEMMA UpgradeAwaits ==
    ASSUME UpgradeInv, Consented, NEW t \in Ticks, AwaitConsent(t)
    PROVE  Consented'
<1>1. /\ Offchain /\ Others(t) /\ tick[t].at = "advance" /\ Resolved(t) /\ Advances(t)
      /\ Target(t) \in DOMAIN Phases /\ IsUpgrade(Target(t), tick[t].price)
      /\ \/ tick'[t].at = "refund" /\ Same(t)
         \/ tick'[t].at = "idle"
      /\ tick[t].obj = Len(objs) => Puts(Awaited(t))
  BY Awaits DEF UpgradeInv
<1>2. Knows(t)
  BY <1>1 DEF Knows
<1>3. /\ tick[t].obj = Len(objs) /\ Object(t) = mem /\ mem \in Schedule
      /\ tick[t].price = chain[tick[t].mandate].price
      /\ Stands(chain, mem) /\ Follows(disk, mem) /\ mem.mandate \in Nat
  BY <1>2, PriceIsRight
<1> DEFINE s == Awaited(t)
<1>4. Puts(s) /\ s \in Sched
  BY <1>1, <1>3 DEF Puts
<1>5. s.mandate = mem.mandate /\ s.status = "awaiting_consent" /\ s.pending = Target(t)
  BY <1>3 DEF Awaited, Schedule
<1>6. tick[t].mandate = mem.mandate /\ mem.status = "active"
  BY <1>1, <1>3 DEF Resolved, Advances
<1>7. Stands(chain, s)
  <2>1. Fixed(s.pending) /\ priceOf(s.pending) > chain[s.mandate].price
    BY <1>1, <1>3, <1>5, <1>6 DEF IsUpgrade, Fixed
  <2> QED BY <1>3, <1>5, <1>6, <2>1 DEF Stands
<1>8. Follows(disk, s) /\ mem.mandate <= s.mandate
  BY <1>3, <1>5, <1>6 DEF Follows
<1>9. \A u \in Ticks : Carries(u)
  BY <1>1, <1>2 DEF Carries, Others
<1> HIDE DEF s
<1> QED BY <1>1, <1>4, <1>7, <1>8, <1>9, ConsentedPut

LEMMA UpgradeAdvance ==
    ASSUME UpgradeInv, Consented, NEW t \in Ticks, Advance(t)
    PROVE  Consented'
<1>1. /\ Offchain /\ Others(t) /\ tick[t].at = "advance" /\ Resolved(t) /\ Advances(t)
      /\ Target(t) \in DOMAIN Phases /\ ~IsUpgrade(Target(t), tick[t].price)
      /\ \/ tick'[t].at = "refund" /\ Same(t)
         \/ tick'[t].at = "idle"
      /\ tick[t].obj = Len(objs) => Puts(Advanced(t))
  BY CursorAdvances DEF UpgradeInv
<1>2. Knows(t)
  BY <1>1 DEF Knows
<1>3. /\ tick[t].obj = Len(objs) /\ Object(t) = mem /\ mem \in Schedule
      /\ tick[t].price = chain[tick[t].mandate].price
      /\ Stands(chain, mem) /\ Follows(disk, mem) /\ mem.mandate \in Nat
  BY <1>2, PriceIsRight
<1> DEFINE s == Advanced(t)
<1>4. Puts(s) /\ s \in Sched
  BY <1>1, <1>3 DEF Puts
<1>5. /\ s.mandate = mem.mandate /\ s.status = mem.status /\ s.cursor = Target(t)
      /\ s.pending = mem.pending
  BY <1>3 DEF Advanced, Schedule
<1>6. tick[t].mandate = mem.mandate /\ mem.status = "active"
  BY <1>1, <1>3 DEF Resolved, Advances
<1>7. Stands(chain, s)
  <2>1. Fixed(s.cursor) => priceOf(s.cursor) <= chain[s.mandate].price
    <3>1. chain[s.mandate].price \in Nat /\ priceOf(s.cursor) \in Nat
      BY <1>1, <1>5, <1>6, Typed, PhaseTyped DEF UpgradeInv
    <3> QED BY <1>1, <1>3, <1>5, <1>6, <3>1 DEF IsUpgrade, Fixed
  <2> QED BY <1>3, <1>5, <1>6, <2>1 DEF Stands
<1>8. Follows(disk, s) /\ mem.mandate <= s.mandate
  BY <1>3, <1>5 DEF Follows
<1>9. \A u \in Ticks : Carries(u)
  BY <1>1, <1>2 DEF Carries, Others
<1> HIDE DEF s
<1> QED BY <1>1, <1>4, <1>7, <1>8, <1>9, ConsentedPut

\* What is reconciled does not count.
LEMMA UpgradeReconciled ==
    ASSUME UpgradeInv, Consented, NEW t \in Ticks, Knows(t), Offchain, Others(t),
           tick'[t].at = "idle", tick[t].obj = Len(objs) => Puts(Reconciled(t))
    PROVE  Consented'
<1>1. /\ tick[t].obj = Len(objs) /\ Object(t) = mem /\ mem \in Schedule
      /\ Stands(chain, mem) /\ Follows(disk, mem) /\ mem.mandate \in Nat
  BY PriceIsRight
<1> DEFINE s == Reconciled(t)
<1>2. Puts(s) /\ s \in Sched
  BY <1>1 DEF Puts
<1>3. /\ s.mandate = mem.mandate /\ s.status = mem.status /\ s.cursor = mem.cursor
      /\ s.pending = mem.pending /\ s.registered = mem.registered
  BY <1>1 DEF Reconciled, Schedule
<1>4. Stands(chain, s) /\ Follows(disk, s) /\ mem.mandate <= s.mandate
  BY <1>1, <1>3 DEF Stands, Follows
<1>5. \A u \in Ticks : Carries(u)
  BY DEF Carries, Others
<1> HIDE DEF s
<1> QED BY <1>2, <1>4, <1>5, ConsentedPut

\* A step that writes nothing.
LEMMA UpgradeMoves ==
    ASSUME UpgradeInv, Consented, NEW t \in Ticks, Offchain, UNCHANGED <<objs, disk>>,
           mem' = mem, Others(t), Carries(t)
    PROVE  Consented'
<1>1. \A u \in Ticks : Carries(u)
  BY DEF Carries, Others
<1>2. mem.mandate \in Nat
  BY MemTyped, RowTyped DEF UpgradeInv
<1>3. \A u \in Ticks : KnowsPrice(u)'
  BY <1>1, <1>2, TicksKnow
<1> QED BY <1>3, ConsentedMove

LEMMA UpgradeReads ==
    ASSUME UpgradeInv, Consented, NEW t \in Ticks, TickList(t) \/ TickRead(t)
    PROVE  Consented'
<1>1. CASE TickList(t)
  <2>1. /\ Offchain /\ UNCHANGED <<objs, disk>> /\ mem' = mem /\ Others(t)
        /\ \/ tick'[t].at = "idle"
           \/ /\ tick'[t].at = "read" /\ tick'[t].obj = Len(objs)
              /\ tick'[t].mandate = mem.mandate
    BY <1>1, Lists DEF UpgradeInv
  <2>2. mem.mandate \in Nat /\ chain' = chain
    BY <2>1, MemTyped, RowTyped DEF UpgradeInv, Offchain
  <2>3. KnowsPrice(t)'
    BY <2>1, <2>2 DEF KnowsPrice, Listed, Knows
  <2>4. \A u \in Ticks \ {t} : KnowsPrice(u)'
    BY <2>1, <2>2 DEF Consented, KnowsPrice, Listed, Knows, Others
  <2> QED BY <2>1, <2>3, <2>4, ConsentedMove
<1>2. CASE TickRead(t)
  <2>1. /\ Offchain /\ UNCHANGED <<objs, disk>> /\ mem' = mem /\ Others(t) /\ tick[t].at = "read"
        /\ \/ tick'[t].at = "idle"
           \/ /\ tick'[t].at = "advance" /\ tick'[t].obj = tick[t].obj
              /\ tick'[t].mandate = tick[t].mandate
              /\ tick'[t].price = chain[tick[t].mandate].price
    BY <1>2, Reads DEF UpgradeInv
  <2>2. chain' = chain /\ Listed(t)
    BY <2>1 DEF Offchain, Listed
  <2>3. KnowsPrice(t)'
    BY <2>1, <2>2 DEF Consented, KnowsPrice, Listed, Knows
  <2>4. \A u \in Ticks \ {t} : KnowsPrice(u)'
    BY <2>1, <2>2 DEF Consented, KnowsPrice, Listed, Knows, Others
  <2> QED BY <2>1, <2>3, <2>4, ConsentedMove
<1> QED BY <1>1, <1>2

LEMMA UpgradeRefund ==
    ASSUME UpgradeInv, Consented, NEW t \in Ticks, Refund(t)
    PROVE  Consented'
<1>1. /\ UNCHANGED <<now, disk, slips>> /\ tick[t].at = "refund"
      /\ \/ /\ Pays(t) /\ UNCHANGED <<objs, faults>> /\ mem' = mem
            /\ tick'[t].at = "refunded" /\ Same(t) /\ Others(t)
         \/ /\ Pays(t) /\ faults' = faults + 1
            /\ \/ objs' = objs /\ mem' = mem /\ tick'[t].at = "idle" /\ Others(t)
               \/ objs' = <<>> /\ mem' = NoSchedule /\ \A u \in Ticks : tick'[u] = Idle
         \/ /\ UNCHANGED <<chain, objs, faults>> /\ mem' = mem
            /\ tick'[t].at = "idle" /\ Others(t)
  BY Refunded DEF UpgradeInv
<1>2. \A n \in MandateId : chain'[n].price = chain[n].price /\ chain'[n].live = chain[n].live
  BY <1>1 DEF Pays
<1>3. CASE objs' = <<>> /\ \A u \in Ticks : tick'[u] = Idle
  BY <1>1, <1>2, <1>3, ConsentedDies
<1>4. CASE /\ objs' = objs /\ mem' = mem /\ Others(t)
           /\ tick'[t].at = "idle" \/ (tick'[t].at = "refunded" /\ Same(t))
  <2>1. OneLive' /\ Stands(chain', disk') /\ (objs # <<>> => Stands(chain', mem'))
    BY <1>1, <1>2, <1>4, SamePrices, Typed, MemTyped DEF Consented, UpgradeInv
  <2>2. \A u \in Ticks : tick[u].mandate \in MandateId
    BY Typed DEF UpgradeInv
  <2>3. \A u \in Ticks \ {t} : KnowsPrice(u)'
    BY <1>2, <1>4, <2>2 DEF Consented, KnowsPrice, Listed, Knows, Others
  <2>4. KnowsPrice(t)'
    <3>1. CASE tick'[t].at = "idle"
      BY <3>1 DEF KnowsPrice, Listed, Knows
    <3>2. CASE tick'[t].at = "refunded" /\ Same(t)
      <4>1. Listed(t) /\ Knows(t) /\ KnowsPrice(t)
        BY <1>1 DEF Consented, Listed, Knows
      <4> QED BY <1>2, <1>4, <2>2, <3>2, <4>1 DEF KnowsPrice, Same
    <3> QED BY <1>4, <3>1, <3>2
  <2> QED BY <1>1, <1>4, <2>1, <2>3, <2>4 DEF Consented
<1> QED BY <1>1, <1>3, <1>4

LEMMA UpgradeTick ==
    ASSUME UpgradeInv, NEW t \in Ticks, TickStart(t) \/ TickStep(t)
    PROVE  UpgradeInv'
<1> DEFINE Good == TypeInv' /\ (~slips'.replaced => ~slips.replaced /\ (Consented => Consented'))
<1>0. TypeInv /\ (Good => UpgradeInv')
  BY DEF UpgradeInv
<1>1. CASE TickStart(t)
  <2>1. /\ TypeInv' /\ Offchain /\ UNCHANGED <<objs, disk>> /\ mem' = mem /\ Others(t)
        /\ tick'[t].at \in {"load", "list"} /\ slips'.replaced = slips.replaced
    BY <1>0, <1>1, Starts
  <2> QED BY <1>0, <2>1, UpgradeMoves DEF Carries
<1>2. CASE TickLoad(t)
  <2>1. /\ TypeInv' /\ Offchain /\ Loaded /\ disk' = disk /\ Others(t) /\ tick'[t].at = "list"
        /\ slips'.replaced <=> slips.replaced \/ ready
        /\ ~ready => objs = <<>>
    BY <1>0, <1>2, Loads
  <2>2. \A u \in Ticks : tick'[u] = tick[u] \/ tick'[u].at = "list"
    BY <2>1 DEF Others
  <2> QED BY <1>0, <2>1, <2>2, ConsentedLoad
<1>3. CASE TickList(t)
  BY <1>0, <1>3, Lists, UpgradeReads
<1>4. CASE TickRead(t)
  BY <1>0, <1>4, Reads, UpgradeReads
<1>5. CASE Skip(t)
  <2>1. /\ TypeInv' /\ Offchain /\ UNCHANGED <<objs, disk, slips>> /\ mem' = mem /\ Others(t)
        /\ tick'[t].at = "idle"
    BY <1>0, <1>5, Skips
  <2> QED BY <1>0, <2>1, UpgradeMoves DEF Carries
<1>6. CASE AwaitConsent(t)
  BY <1>0, <1>6, Awaits, UpgradeAwaits
<1>7. CASE Advance(t)
  BY <1>0, <1>7, CursorAdvances, UpgradeAdvance
<1>8. CASE Stay(t)
  <2>1. /\ TypeInv' /\ Offchain /\ UNCHANGED <<objs, disk, slips>> /\ mem' = mem /\ Others(t)
        /\ tick[t].at = "advance" /\ Same(t)
    BY <1>0, <1>8, Stays
  <2> QED BY <1>0, <2>1, UpgradeMoves DEF Carries, Knows
<1>9. CASE NoRefund(t)
  <2>1. /\ TypeInv' /\ Offchain /\ UNCHANGED slips /\ Others(t)
        /\ tick[t].at = "refund" /\ tick'[t].at = "idle"
        /\ \/ UNCHANGED <<objs, disk, faults>> /\ mem' = mem
           \/ tick[t].obj = Len(objs) => Puts(Reconciled(t))
    BY <1>0, <1>9, RefundsNothing
  <2>2. CASE UNCHANGED <<objs, disk, faults>> /\ mem' = mem
    BY <1>0, <2>1, <2>2, UpgradeMoves DEF Carries
  <2>3. CASE tick[t].obj = Len(objs) => Puts(Reconciled(t))
    BY <1>0, <2>1, <2>3, UpgradeReconciled DEF Knows
  <2> QED BY <2>1, <2>2, <2>3
<1>10. CASE Refund(t)
  BY <1>0, <1>10, Refunded, UpgradeRefund
<1>11. CASE RecordRefund(t)
  <2>1. /\ TypeInv' /\ Offchain /\ UNCHANGED slips /\ Others(t)
        /\ tick[t].at = "refunded" /\ tick'[t].at = "idle"
        /\ tick[t].obj = Len(objs) => Puts(Reconciled(t))
    BY <1>0, <1>11, Records
  <2> QED BY <1>0, <2>1, UpgradeReconciled DEF Knows
<1> QED BY <1>1, <1>2, <1>3, <1>4, <1>5, <1>6, <1>7, <1>8, <1>9, <1>10, <1>11 DEF TickStep

LEMMA UpgradeStep == UpgradeInv /\ [SchedulerNext]_scheduler => UpgradeInv'
<1> SUFFICES ASSUME UpgradeInv, [SchedulerNext]_scheduler PROVE UpgradeInv'
  OBVIOUS
<1> DEFINE Good == TypeInv' /\ (~slips'.replaced => ~slips.replaced /\ (Consented => Consented'))
<1>0. TypeInv /\ (Good => UpgradeInv')
  BY DEF UpgradeInv
<1>1. CASE \E m \in MandateId : Charge(m)
  <2> PICK m \in MandateId : Charge(m)
    BY <1>1
  <2>1. /\ TypeInv' /\ UNCHANGED process
        /\ \A n \in MandateId : /\ chain'[n].price = chain[n].price
                                /\ chain'[n].live = chain[n].live
    BY <1>0, Charged
  <2> QED BY <1>0, <2>1, ConsentedChain DEF process
<1>2. CASE \E r \in late : LateRefund(r)
  <2> PICK r \in late : LateRefund(r)
    BY <1>2
  <2>1. /\ TypeInv' /\ UNCHANGED process
        /\ \A n \in MandateId : /\ chain'[n].price = chain[n].price
                                /\ chain'[n].live = chain[n].live
    BY <1>0, LateLands
  <2> QED BY <1>0, <2>1, ConsentedChain DEF process
<1>3. CASE Elapse
  BY <1>0, <1>3, TypeElapse, ConsentedChain DEF process
<1>4. CASE SignUpgrade
  BY <1>0, <1>4, Signed, UpgradeSigned DEF process
<1>5. CASE init
  <2>1. /\ TypeInv' /\ Offchain /\ Loaded /\ objs = <<>> /\ UNCHANGED <<disk, tick, slips>>
    BY <1>0, <1>5, InitCalled
  <2> QED BY <1>0, <2>1, ConsentedLoad
<1>6. CASE schedule
  BY <1>0, <1>6, Registered, UpgradeSchedule
<1>7. CASE applyConsent
  BY <1>0, <1>7, Consent, UpgradeConsent
<1>8. CASE cancel
  BY <1>0, <1>8, Cancels, UpgradeCancel
<1>9. CASE Crash
  <2>1. /\ TypeInv' /\ Offchain /\ UNCHANGED <<disk, slips>>
        /\ objs' = <<>> /\ \A t \in Ticks : tick'[t] = Idle
    BY <1>0, <1>9, Crashes
  <2> QED BY <1>0, <2>1, ConsentedDies DEF Offchain
<1>10. CASE \E t \in Ticks : TickStart(t) \/ TickStep(t)
  BY <1>10, UpgradeTick
<1>11. CASE UNCHANGED scheduler
  <2>1. UNCHANGED <<now, chain, objs, ready, disk, tick, late, slips, faults>>
    BY <1>11 DEF scheduler
  <2>2. UNCHANGED process
    BY <2>1 DEF process
  <2>3. \A m \in MandateId : Len(chain'[m].charges) <= MaxSeq
    BY <1>0, <2>1 DEF TypeInv, charge_seq
  <2>4. TypeInv'
    BY <1>0, <2>1, <2>2, <2>3, Typed, ChainTypeStep
  <2> QED BY <1>0, <2>1, <2>2, <2>4, ConsentedChain
<1> QED BY <1>1, <1>2, <1>3, <1>4, <1>5, <1>6, <1>7, <1>8, <1>9, <1>10, <1>11 DEF SchedulerNext

\* Every price rise waits for the signature that covers it, except in a
\* phase the schedule was registered in.
THEOREM RisesAreSigned == SchedulerSpec => []UpgradesAreSigned
<1>1. SchedulerInit => UpgradeInv
  BY UpgradeInit
<1>2. UpgradeInv /\ [SchedulerNext]_scheduler => UpgradeInv'
  BY UpgradeStep
<1>3. UpgradeInv => UpgradesAreSigned
  <2> SUFFICES ASSUME UpgradeInv PROVE UpgradesAreSigned
    OBVIOUS
  <2>1. SchedulerTypeOK
    BY DEF UpgradeInv, TypeInv
  <2>2. ASSUME ~slips.replaced, mem.status = "active"
        PROVE  /\ chain[mem.mandate].live
               /\ Phases[mem.cursor].kind = "fixed" /\ mem.cursor # mem.registered
                     => priceOf(mem.cursor) <= chain[mem.mandate].price
    <3>1. objs # <<>> /\ OneLive
      BY <2>2, MemTyped DEF UpgradeInv, Consented
    <3>2. Stands(chain, mem)
      BY <2>2, <3>1 DEF UpgradeInv, Consented
    <3>3. PICK m \in MandateId : chain[m].live
      BY <3>1 DEF OneLive
    <3>4. mem.mandate = m
      BY <2>2, <3>2, <3>3 DEF Stands
    <3> QED BY <2>2, <3>2, <3>3, <3>4 DEF Stands, Fixed
  <2> QED BY <2>1, <2>2 DEF UpgradesAreSigned
<1> QED BY <1>1, <1>2, <1>3, PTL DEF SchedulerSpec

-----------------------------------------------------------------------------
(* A charge is refunded once, but for calls that failed.                   *)

LEMMA EffectiveTyped ==
    ASSUME NEW time \in Nat
    PROVE  EffectiveAt(time) \in DOMAIN Phases /\ EffectiveAt(time) \in Nat /\ EffectiveAt(time) >= 1
<1>1. EffectiveAt(time) \in DOMAIN Phases
  BY Effective
<1>2. DOMAIN Phases = 1..Len(Phases) /\ Len(Phases) \in Nat
  BY SchedulerAssumption
<1> QED BY <1>1, <1>2

\* The charges of a mandate, and what each holds.
LEMMA ChargesTyped ==
    ASSUME TypeInv, NEW m \in MandateId
    PROVE  /\ DOMAIN chain[m].charges = 1..charge_seq(m) /\ charge_seq(m) \in Nat
           /\ charge_seq(m) = Len(chain[m].charges)
           /\ \A i \in DOMAIN chain[m].charges :
                 /\ i \in Nat /\ i <= charge_seq(m)
                 /\ chain[m].charges[i].phase \in Nat
                 /\ chain[m].charges[i].refunds \in Seq(DOMAIN Phases)
                 /\ Len(chain[m].charges[i].refunds) \in Nat
<1>1. chain[m].charges \in Seq(ChargeState) /\ charge_seq(m) \in Nat
  BY Typed
<1>2. DOMAIN chain[m].charges = 1..charge_seq(m) /\ charge_seq(m) = Len(chain[m].charges)
  BY <1>1 DEF charge_seq
<1>3. ASSUME NEW i \in DOMAIN chain[m].charges
      PROVE  /\ chain[m].charges[i].phase \in Nat
             /\ chain[m].charges[i].refunds \in Seq(DOMAIN Phases)
             /\ Len(chain[m].charges[i].refunds) \in Nat
  <2>1. chain[m].charges[i] \in ChargeState
    BY <1>1
  <2>2. /\ chain[m].charges[i].phase \in DOMAIN Phases
        /\ chain[m].charges[i].refunds \in Seq(DOMAIN Phases)
    BY <2>1 DEF ChargeState
  <2> QED BY <2>2, Constant
<1> QED BY <1>1, <1>2, <1>3

\* More failures excuse more.
LEMMA BooksGrow ==
    ASSUME TypeInv, NEW s \in Sched \cup {NoSchedule}, NEW n \in Nat, NEW k \in Nat, n <= k,
           Books(chain, s, n)
    PROVE  Books(chain, s, k)
<1>1. s.mandate \in MandateId
  BY RowTyped
<1>2. \A i \in DOMAIN chain[s.mandate].charges :
          Len(chain[s.mandate].charges[i].refunds) \in Nat
  BY <1>1, ChargesTyped
<1> QED BY <1>2 DEF Books

LEMMA PromisedGrows ==
    ASSUME TypeInv, NEW n \in Nat, NEW k \in Nat, n <= k, Promised(chain, n)
    PROVE  Promised(chain, k)
<1>1. \A m \in MandateId : \A i \in DOMAIN chain[m].charges :
          Len(chain[m].charges[i].refunds) \in Nat
  BY ChargesTyped
<1> QED BY <1>1 DEF Promised

\* A new charge is in a phase no schedule and no tick is ahead of.
LEMMA ChargeKeeps ==
    ASSUME TypeInv, NEW m \in MandateId, Charge(m)
    PROVE  /\ \A n \in Nat : Promised(chain, n) => Promised(chain', n)
           /\ \A s \in Sched \cup {NoSchedule}, n \in Nat :
                 Books(chain, s, n) /\ s.cursor <= EffectiveAt(now) => Books(chain', s, n)
           /\ \A k \in TickState :
                 Fresh(chain, k) /\ k.time <= now => Fresh(chain', k)
<1>1. /\ TypeInv'
      /\ \A n \in MandateId : chain'[n].price = chain[n].price
      /\ \A n \in MandateId \ {m} : chain'[n] = chain[n]
      /\ charge_seq(m)' = charge_seq(m) + 1
      /\ \A i \in 1..charge_seq(m) : chain'[m].charges[i] = chain[m].charges[i]
      /\ chain'[m].charges[charge_seq(m) + 1] = ChargeOf(EffectiveAt(now))
  BY Charged
<1> DEFINE q == charge_seq(m)
           e == EffectiveAt(now)
<1>2. /\ q \in Nat /\ q = Len(chain[m].charges) /\ DOMAIN chain[m].charges = 1..q
      /\ now \in Nat /\ e \in Nat
  BY ChargesTyped, Typed, EffectiveTyped
<1>3. /\ chain'[m].charges \in Seq(ChargeState) /\ Len(chain'[m].charges) = q + 1
      /\ DOMAIN chain'[m].charges = 1..(q + 1)
  <2>1. chain' \in [MandateId -> MandateState]
    BY <1>1 DEF TypeInv, SchedulerTypeOK
  <2>2. chain'[m] \in MandateState
    BY <2>1
  <2>3. chain'[m].charges \in Seq(ChargeState)
    BY <2>2 DEF MandateState
  <2>4. Len(chain'[m].charges) = q + 1
    BY <1>1 DEF charge_seq
  <2> QED BY <2>3, <2>4
<1>4. ChargeOf(e).phase = e /\ ChargeOf(e).refunds = <<>>
  BY DEF ChargeOf
<1> HIDE DEF q, e
<1>5. \A i \in DOMAIN chain'[m].charges :
          \/ i \in DOMAIN chain[m].charges /\ chain'[m].charges[i] = chain[m].charges[i]
          \/ i = q + 1 /\ chain'[m].charges[i] = ChargeOf(e)
  <2>1. \A i \in DOMAIN chain'[m].charges : i \in 1..q \/ i = q + 1
    BY <1>2, <1>3
  <2>2. /\ \A i \in 1..q : chain'[m].charges[i] = chain[m].charges[i]
        /\ chain'[m].charges[q + 1] = ChargeOf(e)
    BY <1>1 DEF q, e
  <2> QED BY <1>2, <2>1, <2>2
<1>6. ASSUME NEW n \in Nat, Promised(chain, n) PROVE Promised(chain', n)
  <2>1. ASSUME NEW i \in DOMAIN chain'[m].charges
        PROVE  /\ Len(chain'[m].charges[i].refunds) <= 1 + n
               /\ \A k \in DOMAIN chain'[m].charges[i].refunds :
                     chain'[m].charges[i].refunds[k] <= chain'[m].charges[i].phase
    BY <1>4, <1>5, <1>6 DEF Promised
  <2>2. \A x \in MandateId \ {m} : chain'[x] = chain[x]
    BY <1>1
  <2> QED BY <1>6, <2>1, <2>2 DEF Promised
<1>7. ASSUME NEW s \in Sched \cup {NoSchedule}, NEW n \in Nat,
             Books(chain, s, n), s.cursor <= e
      PROVE  Books(chain', s, n)
  <2>1. s.mandate \in MandateId /\ s.cursor \in Nat /\ s.through \in Int
    BY RowTyped
  <2>2. CASE s.mandate = m
    <3>1. chain'[m].price = chain[m].price
      BY <1>1
    <3> QED BY <1>2, <1>4, <1>5, <1>7, <2>1, <2>2, <3>1 DEF Books
  <2>3. CASE s.mandate # m
    BY <1>1, <1>7, <2>1, <2>3 DEF Books
  <2> QED BY <2>2, <2>3
<1>8. ASSUME NEW k \in TickState, Fresh(chain, k), k.time <= now PROVE Fresh(chain', k)
  <2>1. k.mandate \in MandateId /\ k.time \in Nat /\ k.seq \in Nat
    BY Constant DEF TickState
  <2>2. EffectiveAt(k.time) <= e /\ EffectiveAt(k.time) \in Nat
    BY <1>2, <1>8, <2>1, PhasesAdvance, EffectiveTyped DEF e
  <2>3. CASE k.mandate = m
    <3>1. k.seq <= q + 1
      BY <1>2, <1>8, <2>1, <2>3 DEF Fresh
    <3> QED BY <1>2, <1>3, <1>4, <1>5, <1>8, <2>1, <2>2, <2>3, <3>1 DEF Fresh
  <2>4. CASE k.mandate # m
    BY <1>1, <1>8, <2>1, <2>4 DEF Fresh
  <2> QED BY <2>3, <2>4
<1> QED BY <1>6, <1>7, <1>8 DEF e

\* As long as the charges stay and the schedule's price does.
LEMMA SameCharges ==
    ASSUME TypeInv, \A m \in MandateId : chain'[m].charges = chain[m].charges
    PROVE  /\ \A n \in Nat : Promised(chain, n) => Promised(chain', n)
           /\ \A s \in Sched \cup {NoSchedule}, n \in Nat :
                 Books(chain, s, n) /\ chain'[s.mandate].price = chain[s.mandate].price
                    => Books(chain', s, n)
           /\ \A k \in TickState : Fresh(chain, k) => Fresh(chain', k)
<1>1. ASSUME NEW n \in Nat, Promised(chain, n) PROVE Promised(chain', n)
  BY <1>1 DEF Promised
<1>2. ASSUME NEW s \in Sched \cup {NoSchedule}, NEW n \in Nat, Books(chain, s, n),
             chain'[s.mandate].price = chain[s.mandate].price
      PROVE  Books(chain', s, n)
  BY <1>2, RowTyped DEF Books
<1>3. ASSUME NEW k \in TickState, Fresh(chain, k) PROVE Fresh(chain', k)
  BY <1>3 DEF Fresh, TickState
<1> QED BY <1>1, <1>2, <1>3

\* What is reconciled up to what a tick read has nothing left to refund.
LEMMA FreshBooks ==
    ASSUME TypeInv, NEW k \in TickState, Fresh(chain, k), NEW s \in Sched, NEW n \in Nat,
           s.mandate = k.mandate, s.through = k.seq, s.cursor <= EffectiveAt(k.time)
    PROVE  Books(chain, s, n)
<1>1. k.mandate \in MandateId /\ k.time \in Nat /\ s.cursor \in Nat
  BY RowTyped DEF TickState
<1>2. EffectiveAt(k.time) \in Nat
  BY <1>1, EffectiveTyped
<1>3. \A i \in DOMAIN chain[k.mandate].charges : chain[k.mandate].charges[i].phase \in Nat
  BY <1>1, ChargesTyped
<1> QED BY <1>1, <1>2, <1>3 DEF Books, Fresh

LEMMA NoneMore == ASSUME NEW a \in Nat, NEW b \in {0} PROVE a + b = a
OBVIOUS

LEMMA StillMore ==
    ASSUME NEW a \in Nat, NEW b \in Nat, NEW c \in Nat, a <= b
    PROVE  a + c \in Nat /\ b + c \in Nat /\ a + c <= b + c
OBVIOUS

LEMMA RefundInit == SchedulerInit => RefundInv
<1> SUFFICES ASSUME SchedulerInit PROVE Kept
  BY DEF RefundInv
<1>1. PICK i \in DOMAIN Phases :
          chain = [m \in MandateId |-> [price |-> priceOf(i), live |-> m = First,
                                        refunded |-> 0, charges |-> <<>>]]
  BY DEF SchedulerInit
<1>2. \A m \in MandateId : chain[m].charges = <<>>
  BY <1>1
<1>3. Promised(chain, faults)
  BY <1>2 DEF Promised
<1>4. /\ disk = NoSchedule /\ mem = NoSchedule /\ now = 0
      /\ \A t \in Ticks : tick[t].at = "idle"
  BY IdleTyped DEF SchedulerInit, mem
<1>5. Books(chain, mem, faults + Sent) /\ Books(chain, disk, faults + Sent)
  BY <1>4 DEF Books, NoSchedule
<1>6. Reached(mem, now) /\ Reached(disk, now)
  BY <1>4, EffectiveTyped DEF Reached, NoSchedule, NoPhase
<1> QED BY <1>3, <1>4, <1>5, <1>6 DEF Kept, Alone, InHand

\* A schedule that is reached stays so.
LEMMA ReachedTyped ==
    ASSUME NEW s \in Sched \cup {NoSchedule}, NEW t \in Nat, NEW u \in Nat, t <= u,
           Reached(s, t)
    PROVE  Reached(s, u)
<1>1. s.cursor \in Nat /\ s.pending \in Nat
  BY RowTyped
<1>2. EffectiveAt(t) <= EffectiveAt(u) /\ EffectiveAt(t) \in Nat /\ EffectiveAt(u) \in Nat
  BY PhasesAdvance, EffectiveTyped
<1> QED BY <1>1, <1>2 DEF Reached

LEMMA SentTyped ==
    /\ Sent \in {0, 1}
    /\ (\A t \in Ticks : tick[t].at # "refunded") => Sent = 0
    /\ \A t \in Ticks : tick[t].at = "refunded" => Sent = 1
BY DEF Sent

LEMMA SentTypedNext ==
    /\ Sent' \in {0, 1}
    /\ (\A t \in Ticks : tick'[t].at # "refunded") => Sent' = 0
    /\ \A t \in Ticks : tick'[t].at = "refunded" => Sent' = 1
BY DEF Sent

\* A tick in progress is the only one.
LEMMA OnlyTick ==
    ASSUME Alone, NEW t \in Ticks, tick[t].at # "idle", Others(t)
    PROVE  /\ \A u \in Ticks \ {t} : tick[u].at = "idle" /\ tick'[u].at = "idle"
           /\ Alone'
           /\ tick[t].at # "refunded" => Sent = 0
           /\ tick'[t].at # "refunded" => Sent' = 0
           /\ tick[t].at = "refunded" => Sent = 1
           /\ tick'[t].at = "refunded" => Sent' = 1
<1>1. \A u \in Ticks \ {t} : tick[u].at = "idle" /\ tick'[u].at = "idle"
  BY DEF Alone, Others
<1>2. Alone'
  BY <1>1 DEF Alone
<1>3. tick[t].at # "refunded" => \A u \in Ticks : tick[u].at # "refunded"
  BY <1>1
<1>4. tick'[t].at # "refunded" => \A u \in Ticks : tick'[u].at # "refunded"
  BY <1>1
<1> QED BY <1>1, <1>2, <1>3, <1>4, SentTyped, SentTypedNext

\* A step of the tick that writes the schedule.
LEMMA KeptPut ==
    ASSUME UpgradeInv, Kept, NEW t \in Ticks, tick[t].at # "idle", Others(t), Offchain,
           tick[t].at # "refunded", tick'[t].at # "refunded",
           NEW s \in Sched, Puts(s), Books(chain, s, faults'),
           Reached(s, tick[t].time),
           \/ tick'[t].at = "idle"
           \/ tick'[t].at = "refund" /\ Same(t) /\ Knows(t) /\ tick[t].mandate = s.mandate
    PROVE  Kept'
<1>1. /\ TypeInv /\ chain' = chain /\ now' = now /\ mem' = s /\ disk' \in {s, disk}
      /\ disk' \in Sched \cup {NoSchedule}
      /\ faults' \in {faults, faults + 1} /\ faults \in Nat /\ faults' \in Nat
  BY Typed DEF Offchain, Puts, UpgradeInv
<1>2. /\ \A u \in Ticks \ {t} : tick'[u].at = "idle"
      /\ Alone' /\ Sent = 0 /\ Sent' = 0
  BY OnlyTick DEF Kept
<1>3. Promised(chain', faults')
  BY <1>1, PromisedGrows DEF Kept
<1>4. faults + Sent = faults /\ faults' + Sent' = faults'
  BY <1>1, <1>2
<1>5. Books(chain, disk, faults')
  <2>1. Books(chain, disk, faults)
    BY <1>4 DEF Kept
  <2>2. faults <= faults'
    BY <1>1
  <2> QED BY <1>1, <2>1, <2>2, BooksGrow, Typed
<1>6. Books(chain', mem', faults' + Sent') /\ Books(chain', disk', faults' + Sent')
  BY <1>1, <1>4, <1>5
<1>7. /\ tick[t].time \in Nat /\ tick[t].time <= now /\ now \in Nat
      /\ Reached(disk, tick[t].time)
  BY <1>1, Typed DEF Kept, InHand
<1>8. Reached(mem', now') /\ Reached(disk', now')
  BY <1>1, <1>7, ReachedTyped DEF Kept
<1>9. InHand(t)'
  <2>1. CASE tick'[t].at = "idle"
    BY <2>1 DEF InHand
  <2>2. CASE tick'[t].at = "refund" /\ Same(t) /\ Knows(t) /\ tick[t].mandate = s.mandate
    <3>1. Fresh(chain, tick[t])
      BY <2>2 DEF Kept, InHand
    <3>2. Fresh(chain', tick'[t])
      BY <1>1, <2>2, <3>1 DEF Fresh, Same
    <3>3. Holds(tick'[t], mem')
      BY <1>1, <2>2 DEF Holds, Same
    <3>4. tick'[t].time = tick[t].time
      BY <2>2 DEF Same
    <3> QED BY <1>1, <1>7, <3>2, <3>3, <3>4 DEF InHand
  <2> QED BY <2>1, <2>2
<1>10. \A u \in Ticks : InHand(u)'
  BY <1>2, <1>9 DEF InHand
<1> QED BY <1>2, <1>3, <1>6, <1>8, <1>10 DEF Kept

\* A step of the tick that writes nothing.
LEMMA KeptMove ==
    ASSUME UpgradeInv, Kept, NEW t \in Ticks, tick[t].at # "idle", Others(t), Offchain,
           UNCHANGED disk, mem' = mem, faults' \in {faults, faults + 1},
           tick[t].at # "refunded", tick'[t].at # "refunded", InHand(t)'
    PROVE  Kept'
<1>1. /\ TypeInv /\ chain' = chain /\ now' = now
      /\ faults \in Nat /\ faults' \in Nat /\ faults <= faults'
  BY Typed DEF Offchain, UpgradeInv
<1>2. /\ \A u \in Ticks \ {t} : tick'[u].at = "idle"
      /\ Alone' /\ Sent = 0 /\ Sent' = 0
  BY OnlyTick DEF Kept
<1>3. Promised(chain', faults')
  BY <1>1, PromisedGrows DEF Kept
<1>4. faults + Sent = faults /\ faults' + Sent' = faults'
  <2>1. Sent = 0 /\ Sent' = 0
    BY <1>2
  <2>2. faults \in Nat /\ faults' \in Nat
    BY <1>1
  <2> QED BY <2>1, <2>2, NoneMore
<1>5. Books(chain', mem', faults' + Sent') /\ Books(chain', disk', faults' + Sent')
  <2>1. Books(chain, mem, faults) /\ Books(chain, disk, faults)
    BY <1>4 DEF Kept
  <2> QED BY <1>1, <1>4, <2>1, BooksGrow, Typed, MemTyped
<1>6. Reached(mem', now') /\ Reached(disk', now')
  BY <1>1 DEF Kept
<1>7. \A u \in Ticks : InHand(u)'
  BY <1>2 DEF InHand
<1> QED BY <1>2, <1>3, <1>5, <1>6, <1>7 DEF Kept

\* No tick is in progress.
LEMMA KeptIdle ==
    ASSUME \A u \in Ticks : tick'[u].at = "idle", faults' \in Nat,
           Promised(chain', faults'), Books(chain', mem', faults'),
           Books(chain', disk', faults'), Reached(mem', now'), Reached(disk', now')
    PROVE  Kept'
<1>1. Sent' = 0
  BY SentTypedNext
<1>2. faults' + Sent' = faults'
  BY <1>1, NoneMore
<1>3. Alone' /\ \A u \in Ticks : InHand(u)'
  BY DEF Alone, InHand
<1> QED BY <1>2, <1>3 DEF Kept

\* The chain moves, and the process does not.
LEMMA KeptChain ==
    ASSUME Kept, UNCHANGED <<process, now, faults>>,
           Promised(chain', faults),
           Books(chain', mem, faults + Sent), Books(chain', disk, faults + Sent),
           \A t \in Ticks : Knows(t) /\ Fresh(chain, tick[t]) /\ tick[t].time <= now
                               => Fresh(chain', tick[t])
    PROVE  Kept'
<1>1. /\ objs' = objs /\ mem' = mem /\ disk' = disk /\ tick' = tick
      /\ now' = now /\ faults' = faults
  BY DEF process, mem
<1>2. Sent' = Sent /\ Alone'
  BY <1>1 DEF Sent, Alone, Kept
<1>3. \A t \in Ticks : InHand(t)'
  BY <1>1 DEF InHand, Knows, Kept
<1> QED BY <1>1, <1>2, <1>3 DEF Kept

LEMMA CountTyped ==
    ASSUME TypeInv
    PROVE  faults \in Nat /\ faults + Sent \in Nat /\ faults <= faults + Sent
           /\ faults + Sent <= faults + 1 /\ faults + 1 \in Nat
BY Typed, SentTyped

LEMMA RefundCharge ==
    ASSUME UpgradeInv, Kept, NEW m \in MandateId, Charge(m)
    PROVE  Kept'
<1>1. TypeInv /\ UNCHANGED <<process, now, faults>>
  BY Charged DEF UpgradeInv
<1>2. /\ Promised(chain', faults)
      /\ Books(chain', mem, faults + Sent) /\ Books(chain', disk, faults + Sent)
  BY <1>1, ChargeKeeps, CountTyped, Typed, MemTyped DEF Kept, Reached
<1>3. \A t \in Ticks : Fresh(chain, tick[t]) /\ tick[t].time <= now => Fresh(chain', tick[t])
  BY <1>1, ChargeKeeps, Typed
<1> QED BY <1>1, <1>2, <1>3, KeptChain

LEMMA RefundLate ==
    ASSUME UpgradeInv, Kept, NEW r \in late, LateRefund(r)
    PROVE  Kept'
<1>1. /\ TypeInv /\ UNCHANGED <<process, now, faults>>
      /\ \A n \in MandateId : chain'[n].price = chain[n].price
      /\ \A n \in MandateId : chain'[n].charges = chain[n].charges
  BY LateLands DEF UpgradeInv
<1>2. mem.mandate \in MandateId /\ disk.mandate \in MandateId
  BY <1>1, Typed, MemTyped, RowTyped
<1>3. /\ Promised(chain', faults)
      /\ Books(chain', mem, faults + Sent) /\ Books(chain', disk, faults + Sent)
  BY <1>1, <1>2, SameCharges, CountTyped, Typed, MemTyped DEF Kept
<1>4. \A t \in Ticks : Fresh(chain, tick[t]) => Fresh(chain', tick[t])
  BY <1>1, SameCharges, Typed
<1> QED BY <1>1, <1>3, <1>4, KeptChain

LEMMA RefundSigned ==
    ASSUME UpgradeInv, Consented, Kept, SignUpgrade
    PROVE  Kept'
<1>1. /\ TypeInv /\ UNCHANGED <<process, now, faults>>
      /\ chain'[disk.mandate].price = chain[disk.mandate].price
      /\ \A n \in MandateId : chain'[n].charges = chain[n].charges
  BY Signed DEF UpgradeInv
<1>2. Books(chain', disk, faults + Sent)
  BY <1>1, SameCharges, CountTyped, Typed DEF Kept
<1>3. Books(chain', mem, faults + Sent)
  <2>1. CASE objs = <<>>
    <3>1. mem.through = NoSeq
      BY <1>1, <2>1, MemTyped DEF NoSchedule
    <3> QED BY <3>1 DEF Books
  <2>2. CASE objs # <<>>
    <3>1. mem.mandate = disk.mandate
      BY <2>2, SignedIsIts
    <3> QED BY <1>1, <3>1, SameCharges, CountTyped, MemTyped DEF Kept
  <2> QED BY <2>1, <2>2
<1>4. Promised(chain', faults)
  BY <1>1, SameCharges, CountTyped DEF Kept
<1>5. \A t \in Ticks : Fresh(chain, tick[t]) => Fresh(chain', tick[t])
  BY <1>1, SameCharges, Typed
<1> QED BY <1>1, <1>2, <1>3, <1>4, <1>5, KeptChain

LEMMA RefundElapse ==
    ASSUME UpgradeInv, Kept, Elapse
    PROVE  Kept'
<1>1. TypeInv /\ now' \in Nat /\ now <= now' /\ UNCHANGED <<chain, process, late, faults>>
  BY TypeElapse DEF UpgradeInv
<1>2. /\ objs' = objs /\ mem' = mem /\ disk' = disk /\ tick' = tick
      /\ chain' = chain /\ faults' = faults
  BY <1>1 DEF process, mem
<1>3. Sent' = Sent /\ Alone'
  BY <1>2 DEF Sent, Alone, Kept
<1>4. Reached(mem', now') /\ Reached(disk', now')
  BY <1>1, <1>2, ReachedTyped, Typed, MemTyped DEF Kept
<1>5. \A t \in Ticks : InHand(t)'
  <2> TAKE t \in Ticks
  <2>1. now \in Nat /\ tick[t].time \in Nat
    BY <1>1, Typed
  <2>2. tick[t].time <= now => tick[t].time <= now'
    BY <1>1, <2>1
  <2> QED BY <1>2, <2>2 DEF InHand, Knows, Kept
<1> QED BY <1>2, <1>3, <1>4, <1>5 DEF Kept

LEMMA RefundLoads ==
    ASSUME UpgradeInv, Kept, Offchain, Loaded, objs = <<>>, UNCHANGED <<disk, faults>>,
           Sent' = Sent, Alone',
           \A u \in Ticks : \/ tick'[u] = tick[u]
                            \/ /\ tick[u].at = "load" /\ tick'[u].at = "list"
                               /\ tick'[u].time = tick[u].time
    PROVE  Kept'
<1>1. /\ TypeInv /\ chain' = chain /\ now' = now /\ mem' \in {mem, disk}
  BY LoadedTyped DEF Offchain, UpgradeInv
<1>2. \A u \in Ticks : ~Listed(u)
  BY <1>1, Typed
<1>3. \A u \in Ticks : InHand(u)'
  <2> TAKE u \in Ticks
  <2>1. /\ ~Knows(u)' /\ tick'[u].at \notin {"refund", "refunded"}
        /\ tick'[u].time = tick[u].time /\ (tick'[u].at # "idle" => tick[u].at # "idle")
    BY <1>2 DEF Listed, Knows
  <2>2. Holds(tick'[u], mem')
    BY <2>1 DEF Holds
  <2> QED BY <1>1, <2>1, <2>2 DEF InHand, Kept
<1> QED BY <1>1, <1>3 DEF Kept

LEMMA RefundSchedule ==
    ASSUME UpgradeInv, Kept, schedule, ~slips'.replaced
    PROVE  Kept'
<1>1. /\ Offchain /\ UNCHANGED tick /\ ~Busy
  BY Registered DEF UpgradeInv
<1>2. PICK m \in MandateId, s \in Sched :
          /\ Registers(m, s) /\ mem' = s
          /\ \/ disk' = s /\ faults' = faults
             \/ disk' = disk /\ faults' = faults + 1
  BY Registered DEF UpgradeInv
<1>3. s.through = NoSeq /\ s.cursor = EffectiveAt(now) /\ s.pending = 0
  BY <1>2 DEF Registers, EffectivePhase, EffectiveAt, NoPhase
<1>4. /\ TypeInv /\ chain' = chain /\ now' = now /\ now \in Nat
      /\ faults \in Nat /\ faults' \in Nat /\ faults <= faults'
  BY <1>1, <1>2, Typed DEF Offchain, UpgradeInv
<1>5. \A u \in Ticks : tick[u].at = "idle" /\ tick'[u].at = "idle"
  BY <1>1 DEF Busy
<1>6. Sent = 0 /\ faults + Sent = faults
  BY <1>4, <1>5, SentTyped
<1>7. Books(chain, s, faults') /\ Books(chain, disk, faults')
  <2>1. Books(chain, disk, faults)
    BY <1>6 DEF Kept
  <2> QED BY <1>3, <1>4, <2>1, BooksGrow, Typed DEF Books
<1>8. Promised(chain, faults')
  BY <1>4, PromisedGrows DEF Kept
<1>9. Reached(s, now) /\ Reached(disk, now)
  BY <1>3, <1>4, EffectiveTyped DEF Reached, Kept
<1>10. /\ Promised(chain', faults') /\ Books(chain', mem', faults')
       /\ Books(chain', disk', faults') /\ Reached(mem', now') /\ Reached(disk', now')
  BY <1>2, <1>4, <1>7, <1>8, <1>9
<1> QED BY <1>4, <1>5, <1>10, KeptIdle

\* The merchant writes the schedule while a tick may be in progress.
LEMMA KeptCall ==
    ASSUME UpgradeInv, Kept, Offchain, UNCHANGED tick, NEW s \in Sched, Puts(s),
           Books(chain, s, faults + Sent), Reached(s, now),
           \A t \in Ticks : tick[t].at # "idle" =>
              Reached(s, tick[t].time) /\ Holds(tick[t], s)
    PROVE  Kept'
<1>1. /\ TypeInv /\ chain' = chain /\ now' = now /\ mem' = s /\ disk' \in {s, disk}
      /\ faults \in Nat /\ faults' \in Nat /\ faults <= faults'
  BY Typed DEF Offchain, Puts, UpgradeInv
<1>2. Sent' = Sent /\ Alone' /\ Sent \in Nat
  BY SentTyped DEF Sent, Alone, Kept
<1>3. Promised(chain', faults')
  BY <1>1, PromisedGrows DEF Kept
<1>4. Books(chain, s, faults' + Sent) /\ Books(chain, disk, faults' + Sent)
  <2>1. faults + Sent \in Nat /\ faults' + Sent \in Nat /\ faults + Sent <= faults' + Sent
    <3>1. faults \in Nat /\ faults' \in Nat /\ faults <= faults' /\ Sent \in Nat
      BY <1>1, <1>2
    <3> QED BY <3>1, StillMore
  <2> QED BY <1>1, <2>1, BooksGrow, Typed DEF Kept
<1>5. /\ Books(chain', mem', faults' + Sent') /\ Books(chain', disk', faults' + Sent')
      /\ Reached(mem', now') /\ Reached(disk', now')
  BY <1>1, <1>2, <1>4 DEF Kept
<1>6. \A t \in Ticks : InHand(t)'
  BY <1>1 DEF InHand, Knows, Kept
<1> QED BY <1>2, <1>3, <1>5, <1>6 DEF Kept

LEMMA RefundConsent ==
    ASSUME UpgradeInv, Consented, Kept, applyConsent
    PROVE  Kept'
<1>1. /\ TypeInv /\ Offchain /\ UNCHANGED tick
      /\ mem.status = "awaiting_consent" /\ mem \in Sched
      /\ \E m \in MandateId \ {mem.mandate} : chain[m].live /\ Puts(Repointed(m))
  BY Consent DEF UpgradeInv
<1>2. PICK m \in MandateId \ {mem.mandate} : chain[m].live /\ Puts(Repointed(m))
  BY <1>1
<1> DEFINE s == Repointed(m)
<1>3. /\ s.mandate = m /\ s.cursor = mem.pending /\ s.status = "active"
      /\ s.through = NoSeq /\ s.pending = 0 /\ s \in Sched
  BY <1>1, <1>2 DEF Repointed, Sched, Schedule, Puts, NoPhase
<1>4. Books(chain, s, faults + Sent)
  BY <1>3 DEF Books
<1>5. \A time \in Nat : Reached(mem, time) => Reached(s, time)
  BY <1>3, EffectiveTyped DEF Reached
<1>6. /\ mem.mandate \in MandateId /\ mem.pending \in DOMAIN Phases /\ mem.mandate \in Nat
      /\ chain[mem.mandate].price \in Nat /\ priceOf(mem.pending) \in Nat
  BY <1>1, RowTyped, Typed, PhaseTyped
<1>7. Stands(chain, mem)
  BY <1>2 DEF Consented, Puts
<1>8. ASSUME NEW t \in Ticks, tick[t].at # "idle" PROVE Holds(tick[t], s)
  <2>1. Holds(tick[t], mem)
    BY <1>8 DEF Kept, InHand
  <2>2. CASE tick[t].at \notin {"refund", "refunded"}
    BY <2>2 DEF Holds
  <2>3. CASE tick[t].at \in {"refund", "refunded"}
    <3>1. tick[t].mandate = mem.mandate /\ tick[t].at = "refund"
      BY <1>1, <2>1, <2>3 DEF Holds
    <3>2. tick[t].price = chain[mem.mandate].price
      BY <2>3, <3>1, PriceIsRight DEF Knows
    <3>3. ~IsDowngrade(s.cursor, tick[t].price)
      BY <1>1, <1>3, <1>6, <1>7, <3>2 DEF Stands, IsDowngrade
    <3> QED BY <1>3, <3>1, <3>3 DEF Holds
  <2> QED BY <2>2, <2>3
<1> HIDE DEF s
<1>9. Reached(s, now) /\ \A t \in Ticks : tick[t].at # "idle" => Reached(s, tick[t].time)
  BY <1>1, <1>5, Typed DEF Kept, InHand
<1> QED BY <1>1, <1>2, <1>3, <1>4, <1>8, <1>9, KeptCall DEF s

LEMMA RefundCancel ==
    ASSUME UpgradeInv, Kept, cancel
    PROVE  Kept'
<1>1. Offchain /\ UNCHANGED <<tick, slips>> /\ Puts(Cancelled) /\ mem \in Sched
  BY Cancels DEF UpgradeInv
<1>2. /\ Cancelled.mandate = mem.mandate /\ Cancelled.status = "cancelled"
      /\ Cancelled.cursor = mem.cursor /\ Cancelled.through = mem.through
      /\ Cancelled.pending = mem.pending /\ Cancelled \in Sched
  BY <1>1 DEF Cancelled, Sched, Schedule, Puts
<1>3. Books(chain, Cancelled, faults + Sent)
  BY <1>2 DEF Books, Kept
<1>4. Reached(Cancelled, now)
  BY <1>2 DEF Reached, Kept
<1>5. \A t \in Ticks : tick[t].at # "idle" =>
          Reached(Cancelled, tick[t].time) /\ Holds(tick[t], Cancelled)
  BY <1>2 DEF Reached, Holds, Kept, InHand
<1> QED BY <1>1, <1>2, <1>3, <1>4, <1>5, KeptCall

LEMMA RefundCrash ==
    ASSUME UpgradeInv, Kept, Crash
    PROVE  Kept'
<1>1. /\ TypeInv /\ Offchain /\ UNCHANGED disk /\ faults' = faults + 1
      /\ mem' = NoSchedule /\ \A t \in Ticks : tick'[t] = Idle
  BY Crashes DEF UpgradeInv
<1>2. chain' = chain /\ now' = now /\ now \in Nat
  BY <1>1, Typed DEF Offchain
<1>3. Promised(chain', faults')
  BY <1>1, <1>2, CountTyped, PromisedGrows DEF Kept
<1>4. Books(chain', disk', faults')
  BY <1>1, <1>2, CountTyped, BooksGrow, Typed DEF Kept
<1>5. Books(chain', mem', faults')
  BY <1>1 DEF Books, NoSchedule
<1>6. Reached(mem', now') /\ Reached(disk', now')
  BY <1>1, <1>2, EffectiveTyped DEF Reached, NoSchedule, NoPhase, Kept
<1>7. \A t \in Ticks : tick'[t].at = "idle"
  BY <1>1, IdleTyped
<1>8. faults' \in Nat
  BY <1>1, CountTyped
<1> QED BY <1>3, <1>4, <1>5, <1>6, <1>7, <1>8, KeptIdle

\* What a tick that runs alone knows.
LEMMA AloneKnows ==
    ASSUME UpgradeInv, Consented, Kept, NEW t \in Ticks, Knows(t)
    PROVE  /\ TypeInv /\ tick[t] \in TickState /\ tick[t].time \in Nat
           /\ tick[t].obj = Len(objs) /\ Object(t) = mem /\ mem \in Sched /\ mem \in Schedule
           /\ tick[t].price = chain[tick[t].mandate].price
           /\ Fresh(chain, tick[t]) /\ Holds(tick[t], mem) /\ Reached(mem, tick[t].time)
           /\ mem.cursor \in Nat /\ mem.pending \in Nat
BY PriceIsRight, RowTyped, Typed DEF Kept, InHand, Knows, UpgradeInv

LEMMA TargetReached ==
    ASSUME TypeInv, NEW t \in Ticks, Listed(t), Object(t).cursor <= EffectiveAt(tick[t].time)
    PROVE  Target(t) <= EffectiveAt(tick[t].time)
<1> DEFINE S == {Object(t).cursor} \cup Arrived(Object(t).cursor, tick[t].time)
<1>1. S \subseteq DOMAIN Phases /\ S # {}
  BY ObjectTyped DEF Arrived
<1>2. Max(S) \in S
  BY <1>1, LastPhase
<1>3. \A i \in S : i <= EffectiveAt(tick[t].time)
  BY Effective, Typed DEF Arrived, Begun
<1> QED BY <1>2, <1>3 DEF Target

LEMMA RefundStart ==
    ASSUME UpgradeInv, Kept, NEW t \in Ticks, TickStart(t), ~slips'.overlap
    PROVE  Kept'
<1>1. /\ TypeInv /\ Offchain /\ UNCHANGED <<objs, disk, faults>> /\ mem' = mem
      /\ Others(t) /\ ~Busy /\ tick'[t].at \in {"load", "list"} /\ tick'[t].time = now
  BY Starts DEF UpgradeInv
<1>2. chain' = chain /\ now' = now /\ now \in Nat
  BY <1>1, Typed DEF Offchain
<1>3. \A u \in Ticks : tick[u].at = "idle" /\ tick'[u].at # "refunded"
  BY <1>1 DEF Busy, Others
<1>4. Sent = 0 /\ Sent' = 0
  BY <1>3, SentTyped, SentTypedNext
<1>5. \A u \in Ticks \ {t} : tick'[u].at = "idle"
  BY <1>1, <1>3 DEF Others
<1>6. Alone'
  BY <1>5 DEF Alone
<1>7. InHand(t)'
  BY <1>1, <1>2 DEF InHand, Knows, Holds, Kept
<1>8. \A u \in Ticks : InHand(u)'
  BY <1>5, <1>7 DEF InHand
<1> QED BY <1>1, <1>2, <1>4, <1>6, <1>8 DEF Kept

LEMMA RefundReads ==
    ASSUME UpgradeInv, Kept, NEW t \in Ticks, TickList(t) \/ TickRead(t) \/ Skip(t)
    PROVE  Kept'
<1>1. CASE TickList(t)
  <2>1. /\ TypeInv /\ Offchain /\ UNCHANGED <<disk, faults>> /\ mem' = mem
        /\ tick[t].at = "list" /\ Others(t)
        /\ \/ tick'[t].at = "idle"
           \/ tick'[t].at = "read" /\ tick'[t].time = tick[t].time
    BY <1>1, Lists DEF UpgradeInv
  <2>2. InHand(t)'
    BY <2>1 DEF InHand, Knows, Holds, Kept, Offchain
  <2> QED BY <2>1, <2>2, KeptMove
<1>2. CASE TickRead(t)
  <2>1. /\ TypeInv /\ Offchain /\ UNCHANGED disk /\ mem' = mem
        /\ tick[t].at = "read" /\ Others(t) /\ faults' \in {faults, faults + 1}
        /\ \/ tick'[t].at = "idle"
           \/ /\ tick'[t].at = "advance" /\ tick'[t].time = tick[t].time
              /\ tick'[t].mandate = tick[t].mandate
              /\ tick'[t].seq = charge_seq(tick[t].mandate)
    BY <1>2, Reads DEF UpgradeInv
  <2>2. InHand(t)'
    <3>1. CASE tick'[t].at = "idle"
      BY <3>1 DEF InHand
    <3>2. CASE tick'[t].at = "advance"
      <4>1. tick[t].mandate \in MandateId /\ chain' = chain
        BY <2>1, Typed DEF Offchain
      <4>2. /\ charge_seq(tick[t].mandate) = Len(chain[tick[t].mandate].charges)
            /\ charge_seq(tick[t].mandate) \in Nat
            /\ \A i \in DOMAIN chain[tick[t].mandate].charges :
                  i \in Nat /\ i <= charge_seq(tick[t].mandate)
        BY <2>1, <4>1, ChargesTyped
      <4>3. Fresh(chain', tick'[t])
        BY <2>1, <3>2, <4>1, <4>2 DEF Fresh
      <4> QED BY <2>1, <3>2, <4>3 DEF InHand, Holds, Kept, Offchain
    <3> QED BY <2>1, <3>1, <3>2
  <2> QED BY <2>1, <2>2, KeptMove
<1>3. CASE Skip(t)
  <2>1. /\ Offchain /\ UNCHANGED <<disk, faults>> /\ mem' = mem
        /\ tick[t].at = "advance" /\ Others(t) /\ tick'[t].at = "idle"
    BY <1>3, Skips DEF UpgradeInv
  <2>2. InHand(t)'
    BY <2>1 DEF InHand
  <2> QED BY <2>1, <2>2, KeptMove
<1> QED BY <1>1, <1>2, <1>3

LEMMA RefundStays ==
    ASSUME UpgradeInv, Consented, Kept, NEW t \in Ticks, Stay(t)
    PROVE  Kept'
<1>1. /\ Offchain /\ UNCHANGED <<disk, faults>> /\ mem' = mem /\ Others(t)
      /\ tick[t].at = "advance" /\ tick'[t].at = "refund" /\ Same(t) /\ Resolved(t)
  BY Stays DEF UpgradeInv
<1>2. Object(t) = mem /\ Fresh(chain, tick[t])
  BY <1>1, AloneKnows DEF Knows
<1>3. tick[t].mandate = mem.mandate /\ chain' = chain
  BY <1>1, <1>2 DEF Resolved, Offchain
<1>4. Fresh(chain', tick'[t]) /\ Holds(tick'[t], mem')
  BY <1>1, <1>2, <1>3 DEF Fresh, Holds, Same
<1>5. InHand(t)'
  BY <1>1, <1>4 DEF InHand, Kept, Same, Offchain
<1> QED BY <1>1, <1>5, KeptMove

\* The books of a schedule that only waits or ends are the same.
LEMMA RefundAwaits ==
    ASSUME UpgradeInv, Consented, Kept, NEW t \in Ticks, AwaitConsent(t)
    PROVE  Kept'
<1>1. /\ Offchain /\ Others(t) /\ tick[t].at = "advance" /\ Resolved(t)
      /\ \/ tick'[t].at = "refund" /\ Same(t)
         \/ tick'[t].at = "idle"
      /\ tick[t].obj = Len(objs) => Puts(Awaited(t))
  BY Awaits DEF UpgradeInv
<1>2. /\ TypeInv /\ tick[t].obj = Len(objs) /\ Object(t) = mem /\ mem \in Schedule
      /\ Reached(mem, tick[t].time)
  BY <1>1, AloneKnows DEF Knows
<1> DEFINE s == Awaited(t)
<1>3. Puts(s) /\ s \in Sched
  BY <1>1, <1>2 DEF Puts
<1>4. /\ s.mandate = mem.mandate /\ s.cursor = mem.cursor /\ s.through = mem.through
      /\ s.pending = Target(t)
  BY <1>2 DEF Awaited, Schedule
<1>5. Target(t) <= EffectiveAt(tick[t].time)
  BY <1>1, <1>2, TargetReached DEF Reached, Listed, Knows
<1>6. Reached(s, tick[t].time)
  BY <1>2, <1>4, <1>5 DEF Reached
<1>7. Books(chain, s, faults')
  <2>1. Sent = 0
    BY <1>1, OnlyTick DEF Kept
  <2>2. faults \in Nat /\ faults' \in Nat /\ faults <= faults'
    BY <1>2, <1>3, Typed DEF Puts
  <2>3. Books(chain, mem, faults)
    BY <2>1, <2>2, NoneMore DEF Kept
  <2>4. Books(chain, mem, faults')
    BY <1>2, <2>2, <2>3, BooksGrow, MemTyped
  <2> QED BY <1>4, <2>4 DEF Books
<1>8. tick[t].mandate = s.mandate /\ Knows(t)
  BY <1>1, <1>2, <1>4 DEF Resolved, Knows
<1> HIDE DEF s
<1> QED BY <1>1, <1>3, <1>6, <1>7, <1>8, KeptPut

LEMMA RefundAdvances ==
    ASSUME UpgradeInv, Consented, Kept, NEW t \in Ticks, Advance(t)
    PROVE  Kept'
<1>1. /\ Offchain /\ Others(t) /\ tick[t].at = "advance" /\ Resolved(t)
      /\ \/ tick'[t].at = "refund" /\ Same(t)
         \/ tick'[t].at = "idle"
      /\ tick[t].obj = Len(objs) => Puts(Advanced(t))
  BY CursorAdvances DEF UpgradeInv
<1>2. /\ TypeInv /\ tick[t].obj = Len(objs) /\ Object(t) = mem /\ mem \in Schedule
      /\ Reached(mem, tick[t].time) /\ tick[t].price = chain[tick[t].mandate].price
      /\ Fresh(chain, tick[t]) /\ tick[t] \in TickState
  BY <1>1, AloneKnows DEF Knows
<1> DEFINE s == Advanced(t)
<1>3. Puts(s) /\ s \in Sched
  BY <1>1, <1>2 DEF Puts
<1>4. /\ s.mandate = mem.mandate /\ s.cursor = Target(t) /\ s.through = Baseline(t)
      /\ s.pending = mem.pending
  BY <1>2 DEF Advanced, Schedule
<1>5. Target(t) <= EffectiveAt(tick[t].time)
  BY <1>1, <1>2, TargetReached DEF Reached, Listed, Knows
<1>6. Reached(s, tick[t].time)
  BY <1>2, <1>4, <1>5 DEF Reached
<1>7. tick[t].mandate = s.mandate /\ Knows(t)
  BY <1>1, <1>2, <1>4 DEF Resolved, Knows
<1>8. Books(chain, s, faults')
  <2>1. CASE IsDowngrade(Target(t), tick[t].price)
    <3>1. s.through = tick[t].seq
      BY <1>4, <2>1 DEF Baseline
    <3>2. faults' \in Nat
      BY <1>2, <1>3, Typed DEF Puts
    <3> QED BY <1>2, <1>3, <1>4, <1>5, <1>7, <3>1, <3>2, FreshBooks
  <2>2. CASE ~IsDowngrade(Target(t), tick[t].price)
    BY <1>2, <1>4, <1>7, <2>2 DEF Books
  <2> QED BY <2>1, <2>2
<1> HIDE DEF s
<1> QED BY <1>1, <1>3, <1>6, <1>7, <1>8, KeptPut

\* A tick refunds on the mandate that it read.
LEMMA RefundsItsOwn ==
    ASSUME UpgradeInv, Consented, Kept, NEW t \in Ticks,
           \/ tick[t].at = "refund" /\ Refunds(t)
           \/ tick[t].at = "refunded"
    PROVE  tick[t].mandate = mem.mandate /\ Knows(t)
<1>1. Knows(t)
  BY DEF Knows
<1>2. Object(t) = mem /\ Holds(tick[t], mem)
  BY <1>1, AloneKnows
<1> QED BY <1>1, <1>2 DEF Holds, Refunds

\* Reconciled up to what the tick read.
LEMMA ReconciledBooks ==
    ASSUME UpgradeInv, Consented, Kept, NEW t \in Ticks, Knows(t),
           tick[t].mandate = mem.mandate, NEW n \in Nat
    PROVE  /\ Reconciled(t) \in Sched /\ Books(chain, Reconciled(t), n)
           /\ Reached(Reconciled(t), tick[t].time)
<1>1. /\ TypeInv /\ Object(t) = mem /\ mem \in Schedule
      /\ Reached(mem, tick[t].time) /\ Fresh(chain, tick[t]) /\ tick[t] \in TickState
  BY AloneKnows
<1> DEFINE s == Reconciled(t)
<1>2. /\ s.mandate = mem.mandate /\ s.cursor = mem.cursor /\ s.through = tick[t].seq
      /\ s.pending = mem.pending
  BY <1>1 DEF Reconciled, Schedule
<1>3. s \in Sched
  BY <1>1, ReconciledTyped DEF Listed
<1>4. Reached(s, tick[t].time) /\ s.cursor <= EffectiveAt(tick[t].time)
  BY <1>1, <1>2 DEF Reached
<1> HIDE DEF s
<1>5. Books(chain, s, n)
  BY <1>1, <1>2, <1>3, <1>4, FreshBooks
<1> QED BY <1>3, <1>4, <1>5 DEF s

LEMMA RefundNone ==
    ASSUME UpgradeInv, Consented, Kept, NEW t \in Ticks, NoRefund(t)
    PROVE  Kept'
<1>1. /\ TypeInv /\ Offchain /\ Others(t) /\ tick[t].at = "refund" /\ tick'[t].at = "idle"
      /\ \/ UNCHANGED <<objs, disk, faults>> /\ mem' = mem
         \/ /\ Refunds(t) /\ Object(t).through = NoSeq
            /\ tick[t].obj = Len(objs) => Puts(Reconciled(t))
  BY RefundsNothing DEF UpgradeInv
<1>2. CASE UNCHANGED <<objs, disk, faults>> /\ mem' = mem
  <2>1. InHand(t)'
    BY <1>1 DEF InHand
  <2> QED BY <1>1, <1>2, <2>1, KeptMove
<1>3. CASE Refunds(t) /\ (tick[t].obj = Len(objs) => Puts(Reconciled(t)))
  <2>1. tick[t].mandate = mem.mandate /\ Knows(t)
    BY <1>1, <1>3, RefundsItsOwn
  <2>2. Puts(Reconciled(t))
    BY <1>3, <2>1, AloneKnows
  <2>3. faults' \in Nat
    BY <1>1, <2>2, Typed DEF Puts
  <2> QED BY <1>1, <2>1, <2>2, <2>3, ReconciledBooks, KeptPut
<1> QED BY <1>1, <1>2, <1>3

\* A refund is counted for the charges it marks, and for them alone.
LEMMA PaysKeeps ==
    ASSUME UpgradeInv, Consented, Kept, NEW t \in Ticks, tick[t].at = "refund",
           Refunds(t), NewCharges(t) > 0, Pays(t)
    PROVE  /\ Promised(chain', faults)
           /\ \A s \in {mem, disk} : Books(chain', s, faults + 1)
           /\ Fresh(chain', tick[t])
<1>1. tick[t].mandate = mem.mandate /\ Knows(t)
  BY RefundsItsOwn
<1>2. /\ TypeInv /\ tick[t] \in TickState /\ Object(t) = mem /\ mem \in Sched
      /\ tick[t].price = chain[tick[t].mandate].price /\ Fresh(chain, tick[t])
  BY <1>1, AloneKnows
<1>3. Sent = 0 /\ faults \in Nat /\ faults + Sent = faults
  <2>1. \A u \in Ticks \ {t} : tick[u].at = "idle"
    BY DEF Kept, Alone
  <2>2. Sent = 0
    BY <2>1, SentTyped
  <2> QED BY <1>2, <2>2, Typed
<1>4. Promised(chain, faults) /\ Books(chain, mem, faults) /\ Books(chain, disk, faults)
  BY <1>3 DEF Kept
<1> DEFINE m == mem.mandate
           from == mem.through
           to == tick[t].seq
           c == mem.cursor
           old == chain[m].charges
           new == chain'[m].charges
<1>5. /\ m \in MandateId /\ c \in DOMAIN Phases /\ c \in Nat /\ from \in Int /\ to \in Int
      /\ to \in Nat /\ old \in Seq(ChargeState)
  BY <1>2, RowTyped, Typed
<1>6. Base(t) = from /\ from # NoSeq /\ IsDowngrade(c, chain[m].price)
  <2>1. Listed(t)
    BY <1>1 DEF Listed
  <2>2. Base(t) = from /\ from # NoSeq
    BY <1>2, <2>1, AmountTyped
  <2>3. IsDowngrade(mem.cursor, tick[t].price)
    BY <1>2 DEF Refunds
  <2>4. tick[t].price = chain[mem.mandate].price
    BY <1>1, <1>2
  <2> QED BY <2>2, <2>3, <2>4
<1>7. new = Marked(old, from, to, c)
  BY <1>2, <1>6 DEF Pays
<1>8. /\ Len(new) = Len(old) /\ DOMAIN new = DOMAIN old
      /\ \A i \in DOMAIN old :
            /\ new[i].phase = old[i].phase
            /\ i <= from \/ i > to => new[i].refunds = old[i].refunds
            /\ i > from /\ i <= to => new[i].refunds = Append(old[i].refunds, c)
  <2> PICK w : w = Marked(old, from, to, c)
    OBVIOUS
  <2>1. /\ Len(w) = Len(old) /\ DOMAIN w = DOMAIN old
        /\ \A i \in DOMAIN old :
              /\ w[i].phase = old[i].phase
              /\ i <= from \/ i > to => w[i].refunds = old[i].refunds
              /\ i > from /\ i <= to => w[i].refunds = Append(old[i].refunds, c)
    <3>1. /\ old \in Seq(ChargeState) /\ from \in Int /\ to \in Int /\ c \in DOMAIN Phases
      BY <1>5
    <3> HIDE DEF m, from, to, c, old, new
    <3> QED BY <3>1, MarkedTyped
  <2> QED BY <1>7, <2>1
<1>9. /\ \A n \in MandateId : chain'[n].price = chain[n].price
      /\ \A n \in MandateId \ {m} : chain'[n].charges = chain[n].charges
  BY <1>2 DEF Pays
<1>10. \A i \in DOMAIN old :
          /\ i \in Nat /\ old[i].phase \in Nat /\ old[i].refunds \in Seq(DOMAIN Phases)
          /\ Len(old[i].refunds) \in Nat
  BY <1>2, <1>5, ChargesTyped
<1>11. \A i \in DOMAIN old : i > from => old[i].phase >= c /\ Len(old[i].refunds) <= faults
  BY <1>4, <1>6 DEF Books
<1>12. ASSUME NEW i \in DOMAIN old, i > from, i <= to
       PROVE  /\ Len(new[i].refunds) = Len(old[i].refunds) + 1
              /\ \A k \in DOMAIN new[i].refunds :
                    \/ k \in DOMAIN old[i].refunds /\ new[i].refunds[k] = old[i].refunds[k]
                    \/ new[i].refunds[k] = c
  <2>1. new[i].refunds = Append(old[i].refunds, c)
    BY <1>8, <1>12
  <2>2. old[i].refunds \in Seq(DOMAIN Phases) /\ c \in DOMAIN Phases
    BY <1>5, <1>10
  <2> HIDE DEF new, old, c
  <2>3. PICK r \in Seq(DOMAIN Phases) : r = old[i].refunds
    BY <2>2
  <2>4. Len(Append(r, c)) = Len(r) + 1
        /\ \A k \in DOMAIN Append(r, c) : (k \in DOMAIN r /\ Append(r, c)[k] = r[k]) \/ Append(r, c)[k] = c
    BY <2>2
  <2> QED BY <2>1, <2>3, <2>4
<1>13. Promised(chain', faults)
  <2>1. ASSUME NEW i \in DOMAIN new
        PROVE  /\ Len(new[i].refunds) <= 1 + faults
               /\ \A k \in DOMAIN new[i].refunds : new[i].refunds[k] <= new[i].phase
    <3>1. i \in DOMAIN old /\ i \in Nat /\ new[i].phase = old[i].phase
      BY <1>8, <1>10, <2>1
    <3>2. /\ Len(old[i].refunds) <= 1 + faults
          /\ \A k \in DOMAIN old[i].refunds : old[i].refunds[k] <= old[i].phase
      BY <1>4, <1>5, <3>1 DEF Promised
    <3>3. CASE i > from /\ i <= to
      <4> HIDE DEF new, old, from, to, c
      <4>1. Len(new[i].refunds) = Len(old[i].refunds) + 1
        BY <1>12, <3>1, <3>3
      <4>2. Len(old[i].refunds) <= faults /\ old[i].phase >= c /\ Len(old[i].refunds) \in Nat
        BY <1>10, <1>11, <3>1, <3>3
      <4>3. \A k \in DOMAIN new[i].refunds :
               \/ k \in DOMAIN old[i].refunds /\ new[i].refunds[k] = old[i].refunds[k]
               \/ new[i].refunds[k] = c
        BY <1>12, <3>1, <3>3
      <4>4. c <= old[i].phase
        BY <1>5, <1>10, <3>1, <4>2
      <4>5. Len(new[i].refunds) <= 1 + faults
        BY <1>3, <4>1, <4>2
      <4> QED BY <3>1, <3>2, <4>3, <4>4, <4>5
    <3>4. CASE i <= from \/ i > to
      <4> HIDE DEF new, old, from, to, c
      <4> QED BY <1>8, <3>1, <3>2, <3>4
    <3>5. (i > from /\ i <= to) \/ (i <= from \/ i > to)
      BY <1>5, <3>1
    <3> QED BY <3>3, <3>4, <3>5
  <2> QED BY <1>4, <1>9, <2>1 DEF Promised
<1>14. ASSUME NEW s \in {mem, disk} PROVE Books(chain', s, faults + 1)
  <2>1. s.mandate \in MandateId /\ Books(chain, s, faults) /\ s.through \in Int
    BY <1>2, <1>4, Typed, RowTyped
  <2>2. CASE s.mandate # m
    <3>1. \A i \in DOMAIN chain[s.mandate].charges :
              Len(chain[s.mandate].charges[i].refunds) \in Nat
      BY <1>2, <2>1, ChargesTyped
    <3> QED BY <1>3, <1>9, <2>1, <2>2, <3>1 DEF Books
  <2>3. CASE s.mandate = m
    <3> SUFFICES ASSUME s.through # NoSeq, IsDowngrade(s.cursor, chain[m].price),
                        NEW i \in DOMAIN new, i > s.through
                 PROVE  new[i].phase >= s.cursor /\ Len(new[i].refunds) <= faults + 1
      BY <1>5, <1>9, <2>3 DEF Books
    <3>1. i \in DOMAIN old /\ i \in Nat /\ new[i].phase = old[i].phase
      BY <1>8, <1>10
    <3>2. old[i].phase >= s.cursor /\ Len(old[i].refunds) <= faults
      BY <2>1, <2>3, <3>1 DEF Books
    <3>3. Len(old[i].refunds) \in Nat
      BY <1>10, <3>1
    <3> HIDE DEF new, old, from, to, c
    <3>4. CASE i > from /\ i <= to
      <4>1. Len(new[i].refunds) = Len(old[i].refunds) + 1
        BY <1>12, <3>1, <3>4
      <4> QED BY <1>3, <3>1, <3>2, <3>3, <4>1
    <3>5. CASE i <= from \/ i > to
      BY <1>3, <1>8, <3>1, <3>2, <3>3, <3>5
    <3>6. (i > from /\ i <= to) \/ (i <= from \/ i > to)
      BY <1>5, <3>1
    <3> QED BY <3>4, <3>5, <3>6
  <2> QED BY <2>2, <2>3
<1>15. Fresh(chain', tick[t])
  <2>1. /\ to <= Len(old)
        /\ \A i \in DOMAIN old : i > to =>
              old[i].phase >= EffectiveAt(tick[t].time) /\ old[i].refunds = <<>>
    BY <1>1, <1>2 DEF Fresh
  <2>2. \A i \in DOMAIN new : i > to =>
            new[i].phase >= EffectiveAt(tick[t].time) /\ new[i].refunds = <<>>
    <3> HIDE DEF new, old, from, to, c
    <3> QED BY <1>8, <2>1
  <2> QED BY <1>1, <1>8, <2>1, <2>2 DEF Fresh
<1> QED BY <1>13, <1>14, <1>15

LEMMA RefundPays ==
    ASSUME UpgradeInv, Consented, Kept, NEW t \in Ticks, Refund(t)
    PROVE  Kept'
<1>1. /\ TypeInv /\ UNCHANGED <<now, disk>>
      /\ tick[t].at = "refund" /\ Refunds(t) /\ NewCharges(t) > 0
      /\ \/ /\ Pays(t) /\ UNCHANGED <<objs, faults>> /\ mem' = mem
            /\ tick'[t].at = "refunded" /\ Same(t) /\ Others(t)
         \/ /\ Pays(t) /\ faults' = faults + 1
            /\ \/ objs' = objs /\ mem' = mem /\ tick'[t].at = "idle" /\ Others(t)
               \/ objs' = <<>> /\ mem' = NoSchedule /\ \A u \in Ticks : tick'[u] = Idle
         \/ /\ UNCHANGED <<chain, objs, faults>> /\ mem' = mem
            /\ tick'[t].at = "idle" /\ Others(t)
  BY Refunded DEF UpgradeInv
<1>2. now \in Nat /\ faults \in Nat /\ faults + 1 \in Nat
  BY <1>1, Typed
<1>3. /\ tick[t].mandate = mem.mandate /\ mem.status = "active" /\ Object(t) = mem
  <2>1. tick[t].mandate = mem.mandate /\ Knows(t)
    BY <1>1, RefundsItsOwn
  <2> QED BY <1>1, <2>1, AloneKnows DEF Refunds
<1>4. CASE /\ Pays(t) /\ UNCHANGED <<objs, faults>> /\ mem' = mem
           /\ tick'[t].at = "refunded" /\ Same(t) /\ Others(t)
  <2>1. /\ Promised(chain', faults) /\ Books(chain', mem, faults + 1)
        /\ Books(chain', disk, faults + 1) /\ Fresh(chain', tick[t])
    BY <1>1, <1>4, PaysKeeps
  <2>2. Alone' /\ Sent' = 1 /\ \A u \in Ticks \ {t} : tick'[u].at = "idle"
    BY <1>1, <1>4, OnlyTick DEF Kept
  <2>3. Fresh(chain', tick'[t]) /\ Holds(tick'[t], mem')
    BY <1>3, <1>4, <2>1 DEF Fresh, Holds, Same
  <2>4. InHand(t)'
    BY <1>1, <1>4, <2>3 DEF InHand, Same, Kept
  <2>5. \A u \in Ticks : InHand(u)'
    BY <2>2, <2>4 DEF InHand
  <2>6. faults' + Sent' = faults + 1
    BY <1>4, <2>2
  <2> QED BY <1>1, <1>4, <2>1, <2>2, <2>5, <2>6 DEF Kept
<1>5. CASE /\ Pays(t) /\ faults' = faults + 1
           /\ \/ objs' = objs /\ mem' = mem /\ tick'[t].at = "idle" /\ Others(t)
              \/ objs' = <<>> /\ mem' = NoSchedule /\ \A u \in Ticks : tick'[u] = Idle
  <2>1. /\ Promised(chain', faults) /\ Books(chain', mem, faults + 1)
        /\ Books(chain', disk, faults + 1)
    BY <1>1, <1>5, PaysKeeps
  <2>2. \A u \in Ticks : tick'[u].at = "idle"
    BY <1>1, <1>5, OnlyTick, IdleTyped DEF Kept
  <2>3. Promised(chain', faults')
    <3>1. TypeInv'
      BY <1>1, Refunded
    <3>2. \A m \in MandateId : \A i \in DOMAIN chain'[m].charges :
              Len(chain'[m].charges[i].refunds) \in Nat
      <4>1. \A m \in MandateId : chain'[m].charges \in Seq(ChargeState)
        BY <3>1 DEF TypeInv, SchedulerTypeOK, MandateState
      <4>2. \A m \in MandateId : \A i \in DOMAIN chain'[m].charges :
                chain'[m].charges[i] \in ChargeState
        BY <4>1
      <4> QED BY <4>2 DEF ChargeState
    <3> QED BY <1>2, <1>5, <2>1, <3>2 DEF Promised
  <2>4. Books(chain', mem', faults')
    BY <1>5, <2>1 DEF Books, NoSchedule
  <2>5. Reached(mem', now') /\ Reached(disk', now')
    <3>1. Reached(mem, now') /\ Reached(disk', now')
      BY <1>1, <1>2, <1>5 DEF Kept
    <3>2. EffectiveAt(now') \in Nat /\ EffectiveAt(now') >= 1
      <4>1. now' \in Nat
        BY <1>1, <1>2, <1>5, Typed
      <4>2. PICK e : e = EffectiveAt(now')
        OBVIOUS
      <4>3. e \in DOMAIN Phases
        BY <4>1, <4>2, Effective
      <4>4. e \in 1..Len(Phases) /\ Len(Phases) \in Nat
        BY <4>3, SchedulerAssumption
      <4> QED BY <4>2, <4>4
    <3>3. Reached(NoSchedule, now')
      <4>1. NoSchedule.cursor = 1 /\ NoSchedule.pending = 0
        BY DEF NoSchedule, NoPhase
      <4> QED BY <3>2, <4>1 DEF Reached
    <3> QED BY <1>5, <3>1, <3>3
  <2>6. Books(chain', disk', faults') /\ faults' \in Nat
    BY <1>1, <1>2, <1>5, <2>1
  <2> QED BY <2>2, <2>3, <2>4, <2>5, <2>6, KeptIdle
<1>6. CASE /\ UNCHANGED <<chain, objs, faults>> /\ mem' = mem
           /\ tick'[t].at = "idle" /\ Others(t)
  <2>1. Sent = 0 /\ faults + Sent = faults /\ \A u \in Ticks : tick'[u].at = "idle"
    BY <1>1, <1>2, <1>6, OnlyTick, NoneMore DEF Kept
  <2>2. /\ Promised(chain', faults') /\ Books(chain', mem', faults')
        /\ Books(chain', disk', faults') /\ Reached(mem', now') /\ Reached(disk', now')
        /\ faults' \in Nat
    BY <1>1, <1>2, <1>6, <2>1 DEF Kept
  <2> QED BY <2>1, <2>2, KeptIdle
<1> QED BY <1>1, <1>4, <1>5, <1>6

LEMMA RefundRecords ==
    ASSUME UpgradeInv, Consented, Kept, NEW t \in Ticks, RecordRefund(t)
    PROVE  Kept'
<1>1. /\ TypeInv /\ Offchain /\ Others(t) /\ tick[t].at = "refunded" /\ tick'[t].at = "idle"
      /\ tick[t].obj = Len(objs) => Puts(Reconciled(t))
  BY Records DEF UpgradeInv
<1>2. tick[t].mandate = mem.mandate /\ Knows(t)
  BY <1>1, RefundsItsOwn
<1> DEFINE s == Reconciled(t)
<1>3. Puts(s)
  BY <1>1, <1>2, AloneKnows
<1>4. /\ chain' = chain /\ now' = now /\ mem' = s
      /\ \/ disk' = s /\ faults' = faults
         \/ disk' = disk /\ faults' = faults + 1
      /\ faults \in Nat /\ faults' \in Nat /\ faults + 1 \in Nat /\ faults <= faults'
  BY <1>1, <1>3, Typed DEF Offchain, Puts
<1>5. s \in Sched /\ Books(chain, s, faults') /\ Reached(s, tick[t].time)
  BY <1>2, <1>4, ReconciledBooks
<1>6. Sent = 1 /\ \A u \in Ticks : tick'[u].at = "idle"
  BY <1>1, OnlyTick DEF Kept
<1>7. Promised(chain', faults')
  BY <1>1, <1>4, PromisedGrows DEF Kept
<1>8. Books(chain, disk, faults + 1)
  BY <1>6 DEF Kept
<1>9. Books(chain', mem', faults') /\ Books(chain', disk', faults')
  BY <1>4, <1>5, <1>8
<1>10. tick[t].time \in Nat /\ now \in Nat /\ tick[t].time <= now
  BY <1>1, Typed DEF Kept, InHand
<1>11. Reached(mem', now') /\ Reached(disk', now')
  <2>1. Reached(s, now)
    BY <1>5, <1>10, ReachedTyped
  <2> QED BY <1>4, <2>1 DEF Kept
<1> QED BY <1>4, <1>6, <1>7, <1>9, <1>11, KeptIdle

LEMMA RefundTick ==
    ASSUME UpgradeInv, RefundInv, Calm', NEW t \in Ticks, TickStart(t) \/ TickStep(t)
    PROVE  Kept'
<1> USE DEF UpgradeInv, RefundInv, Calm
<1>1. CASE TickStart(t)
  BY <1>1, Starts, RefundStart
<1>2. CASE TickLoad(t)
  <2>1. /\ Offchain /\ UNCHANGED <<disk, faults>> /\ Loaded
        /\ tick[t].at = "load" /\ tick'[t].at = "list" /\ tick'[t].time = tick[t].time
        /\ Others(t) /\ slips'.overlap = slips.overlap
        /\ slips'.replaced <=> slips.replaced \/ ready
        /\ ~ready => objs = <<>>
    BY <1>2, Loads
  <2>2. Kept /\ objs = <<>>
    BY <2>1
  <2>3. Alone' /\ Sent' = Sent
    BY <2>1, <2>2, OnlyTick DEF Kept
  <2>4. \A u \in Ticks : \/ tick'[u] = tick[u]
                         \/ /\ tick[u].at = "load" /\ tick'[u].at = "list"
                            /\ tick'[u].time = tick[u].time
    BY <2>1 DEF Others
  <2> QED BY <2>1, <2>2, <2>3, <2>4, RefundLoads
<1>3. CASE TickList(t)
  BY <1>3, Lists, RefundReads
<1>4. CASE TickRead(t)
  BY <1>4, Reads, RefundReads
<1>5. CASE Skip(t)
  BY <1>5, Skips, RefundReads
<1>6. CASE AwaitConsent(t)
  BY <1>6, Awaits, RefundAwaits
<1>7. CASE Advance(t)
  BY <1>7, CursorAdvances, RefundAdvances
<1>8. CASE Stay(t)
  BY <1>8, Stays, RefundStays
<1>9. CASE NoRefund(t)
  BY <1>9, RefundsNothing, RefundNone
<1>10. CASE Refund(t)
  BY <1>10, Refunded, RefundPays
<1>11. CASE RecordRefund(t)
  BY <1>11, Records, RefundRecords
<1> QED BY <1>1, <1>2, <1>3, <1>4, <1>5, <1>6, <1>7, <1>8, <1>9, <1>10, <1>11 DEF TickStep

LEMMA RefundStep == UpgradeInv /\ RefundInv /\ [SchedulerNext]_scheduler => RefundInv'
<1> SUFFICES ASSUME UpgradeInv, RefundInv, [SchedulerNext]_scheduler, Calm' PROVE Kept'
  BY DEF RefundInv
<1> USE DEF UpgradeInv, RefundInv, Calm
<1>1. CASE \E m \in MandateId : Charge(m)
  BY <1>1, Charged, RefundCharge DEF process
<1>2. CASE \E r \in late : LateRefund(r)
  BY <1>2, LateLands, RefundLate DEF process
<1>3. CASE Elapse
  BY <1>3, TypeElapse, RefundElapse DEF process
<1>4. CASE SignUpgrade
  BY <1>4, Signed, RefundSigned DEF process
<1>5. CASE init
  <2>1. /\ Offchain /\ Loaded /\ objs = <<>> /\ UNCHANGED <<disk, tick, slips, faults>>
    BY <1>5, InitCalled
  <2>2. Kept /\ Sent' = Sent /\ Alone'
    BY <2>1 DEF Kept, Sent, Alone
  <2> QED BY <2>1, <2>2, RefundLoads
<1>6. CASE schedule
  BY <1>6, Registered, RefundSchedule
<1>7. CASE applyConsent
  BY <1>7, Consent, RefundConsent
<1>8. CASE cancel
  BY <1>8, Cancels, RefundCancel
<1>9. CASE Crash
  BY <1>9, Crashes, RefundCrash
<1>10. CASE \E t \in Ticks : TickStart(t) \/ TickStep(t)
  BY <1>10, RefundTick
<1>11. CASE UNCHANGED scheduler
  <2>1. UNCHANGED <<now, chain, objs, ready, disk, tick, late, slips, faults>>
    BY <1>11 DEF scheduler
  <2>2. mem' = mem /\ Sent' = Sent /\ Kept
    BY <2>1 DEF mem, Sent
  <2> QED BY <2>1, <2>2 DEF Kept, Alone, InHand, Knows
<1> QED BY <1>1, <1>2, <1>3, <1>4, <1>5, <1>6, <1>7, <1>8, <1>9, <1>10, <1>11 DEF SchedulerNext

\* As long as ticks do not overlap, and no schedule is replaced in use, a
\* charge is refunded once and once more for each failure, and never for a
\* phase that began after it.
THEOREM RefundsAreOwed == SchedulerSpec => []RefundsArePromised
<1> DEFINE IInv == UpgradeInv /\ RefundInv
<1>1. SchedulerInit => IInv
  BY UpgradeInit, RefundInit
<1>2. IInv /\ [SchedulerNext]_scheduler => IInv'
  BY UpgradeStep, RefundStep
<1>3. IInv => RefundsArePromised
  BY DEF RefundInv, Kept, Calm, Promised, RefundsArePromised
<1> QED BY <1>1, <1>2, <1>3, PTL DEF SchedulerSpec
=============================================================================
