---------------------------- MODULE BillerProofs ----------------------------
(***************************************************************************)
(* Theorems about Biller, for any usage records, prices, number of flushes *)
(* and retries, and any limits of the mandate: as long as no transaction   *)
(* lands after its call failed, every record is charged at most once; and  *)
(* however late one lands, the ledger never counts more than the chain.    *)
(***************************************************************************)
EXTENDS Biller, SumTheorems, TLAPS

\* A run that holds the mandate's chain in flushOne.
Active(r) == loc[r].pc \notin {"idle", "queued"}

\* The shape of the state.  The amounts are left open: what Sum returns is not
\* needed here.
IsLocal(l) ==
    l = [pc |-> l.pc, attempt |-> l.attempt, failure |-> l.failure,
         view |-> l.view, orphans |-> l.orphans, rows |-> l.rows,
         limit |-> l.limit, seq |-> l.seq, batch |-> l.batch]

Locals ==
    /\ loc = [r \in Runs |-> loc[r]]
    /\ \A r \in Runs : IsLocal(loc[r])

Shape ==
    /\ recorded \subseteq Usage
    /\ landed \in Seq(SUBSET Usage)
    /\ ledger \in Seq(Entry)
    /\ mandate = [spent |-> mandate.spent,
                  window_spent |-> mandate.window_spent,
                  window_over |-> mandate.window_over,
                  status |-> mandate.status, phase |-> mandate.phase]

\* flushOne lets one run in at a time.
OneAtATime == \A r \in Runs, q \in Runs : Active(r) /\ Active(q) => r = q

\* The last submit of each sequence number that landed is what landed, and
\* none is recorded beyond the next number.
SubmitsRecorded ==
    /\ DOMAIN lastSubmit \subseteq 0 .. Len(landed)
    /\ \A i \in 1 .. Len(landed) : /\ i - 1 \in DOMAIN lastSubmit
                                   /\ lastSubmit[i - 1] = landed[i]

\* What was charged: recorded usage, none of it twice; billed once in the
\* ledger, and not before it was charged.
Charges ==
    /\ \A i \in 1 .. Len(landed) : landed[i] # {} /\ landed[i] \subseteq recorded
    /\ \A i \in 1 .. Len(landed), j \in 1 .. Len(landed) :
          i # j => landed[i] \cap landed[j] = {}
    /\ \A i \in 1 .. Len(ledger) : landed[i] \subseteq billed
    /\ \A u \in billed : \E i \in 1 .. Len(landed) : u \in landed[i]

\* What a run knows at each step.
Settled == Len(ledger) = Len(landed)
Knows(r) ==
    LET l == loc[r] IN
    /\ l.pc \in {"mark", "backfill"} => /\ Len(landed) = Len(ledger) + 1
                                        /\ l.orphans = {Len(ledger)}
    /\ l.pc = "backfill" => landed[Len(landed)] \subseteq billed
    /\ l.pc \in {"unbilled", "mandate", "account", "submit"} => Settled
    /\ l.pc \in {"mandate", "account", "submit"} =>
          l.rows \subseteq recorded \ billed
    /\ l.pc \in {"account", "submit"} => l.seq = Len(landed)
    /\ l.pc = "submit" => /\ l.batch # {}
                          /\ l.batch \subseteq l.rows
                          /\ l.seq \in DOMAIN lastSubmit
                          /\ lastSubmit[l.seq] = l.batch
    /\ l.pc \in {"commit", "journal"} => /\ Len(landed) = Len(ledger) + 1
                                         /\ l.seq = Len(ledger)
                                         /\ l.batch = landed[Len(landed)]
    /\ l.pc = "journal" => l.batch \subseteq billed

IInv ==
    /\ Shape
    /\ Locals
    /\ pending = {}
    /\ OneAtATime
    /\ LedgerFollowsChain
    /\ SubmitsRecorded
    /\ Charges
    /\ \A r \in Runs : Knows(r)

-----------------------------------------------------------------------------
\* Init establishes the invariant.
LEMMA InitInv == Init => IInv
<1> SUFFICES ASSUME Init PROVE IInv
  OBVIOUS
<1> USE DEF Init, Idle
<1>1. Shape
  BY DEF Shape
<1>2. Locals
  BY DEF Locals, IsLocal
<1>3. OneAtATime /\ \A r \in Runs : Knows(r)
  BY DEF OneAtATime, Active, Knows
<1>4. LedgerFollowsChain /\ SubmitsRecorded /\ Charges
  BY DEF LedgerFollowsChain, SubmitsRecorded, Charges
<1> QED
  BY <1>1, <1>2, <1>3, <1>4 DEF IInv

\* A run that moves on its own: the others hold nothing, and still do.
LEMMA OneMoves ==
    ASSUME Locals, OneAtATime, NEW r \in Runs, NEW new,
           Active(r) \/ (\A q \in Runs \ {r} : ~Active(q))
                     \/ new.pc \in {"idle", "queued"},
           IsLocal(new), Set(r, new)
    PROVE  /\ loc'[r] = new
           /\ Locals'
           /\ OneAtATime'
           /\ \A q \in Runs \ {r} : loc'[q] = loc[q]
<1>1. loc'[r] = new /\ \A q \in Runs \ {r} : loc'[q] = loc[q]
  BY DEF Locals, Set
<1>2. Locals'
  <2>1. loc' = [q \in Runs |-> loc'[q]]
    BY DEF Locals, Set
  <2>2. \A q \in Runs : IsLocal(loc'[q])
    BY <1>1 DEF Locals
  <2> QED
    BY <2>1, <2>2 DEF Locals, IsLocal
<1>3. OneAtATime'
  BY <1>1 DEF OneAtATime, Active
<1> QED
  BY <1>1, <1>2, <1>3

\* The runs outside the mandate's chain know nothing.
LEMMA Outsiders ==
    ASSUME NEW r \in Runs, ~Active(r)' PROVE Knows(r)'
BY DEF Active, Knows

\* An active run moves: what is left to show.
LEMMA ActiveMoves ==
    ASSUME IInv, NEW r \in Runs, Active(r), NEW new, IsLocal(new), Set(r, new),
           Knows(r)', Shape', pending' = {}, LedgerFollowsChain',
           SubmitsRecorded', Charges'
    PROVE  IInv'
<1>1. Locals' /\ OneAtATime' /\ \A q \in Runs \ {r} : loc'[q] = loc[q]
  BY OneMoves DEF IInv
<1>2. \A q \in Runs \ {r} : Knows(q)'
  <2> TAKE q \in Runs \ {r}
  <2>1. ~Active(q)'
    BY <1>1 DEF IInv, OneAtATime, Active
  <2> QED
    BY <2>1, Outsiders
<1> QED
  BY <1>1, <1>2 DEF IInv

\* The store and the chain stay: so does what is said of them.
LEMMA Quiet ==
    ASSUME IInv, UNCHANGED <<store, chain>>
    PROVE  Shape' /\ pending' = {} /\ LedgerFollowsChain' /\ SubmitsRecorded'
           /\ Charges'
BY DEF IInv, Shape, LedgerFollowsChain, SubmitsRecorded, Charges, store, chain

\* An active run moves and nothing else.
LEMMA QuietMoves ==
    ASSUME IInv, UNCHANGED <<store, chain>>, NEW r \in Runs, Active(r),
           NEW new, IsLocal(new), Set(r, new), Knows(r)'
    PROVE  IInv'
BY Quiet, ActiveMoves

\* The end of an attempt or of the settle.
LEMMA AttemptEnds ==
    ASSUME IInv, NEW r \in Runs, NEW failure,
           Return(r) \/ NextAttempt(r, failure)
    PROVE  \E new : IsLocal(new) /\ Set(r, new) /\ new.pc \in {"idle", "recover"}
<1>1. IsLocal(Idle)
  BY DEF Idle, IsLocal
<1> DEFINE again == [Idle EXCEPT !.pc = "recover", !.view = loc[r].view,
                                 !.attempt = loc[r].attempt + 1,
                                 !.failure = failure]
<1>2. IsLocal(again) /\ again.pc = "recover"
  <2> DEFINE view == loc[r].view
             attempt == loc[r].attempt + 1
  <2>1. again = [Idle EXCEPT !.pc = "recover", !.view = view,
                             !.attempt = attempt, !.failure = failure]
    OBVIOUS
  <2> HIDE DEF again, view, attempt
  <2> QED
    BY <1>1, <2>1 DEF IsLocal
<1>3. Idle.pc = "idle"
  BY DEF Idle
<1>4. Set(r, Idle) \/ Set(r, again)
  BY DEF Return, NextAttempt
<1> HIDE DEF again
<1> QED
  BY <1>1, <1>2, <1>3, <1>4

\* The end of an attempt, with nothing else changed.
LEMMA EndsAreQuiet ==
    ASSUME IInv, UNCHANGED <<store, chain>>, NEW r \in Runs, Active(r),
           NEW failure, Return(r) \/ NextAttempt(r, failure)
    PROVE  IInv'
<1>1. PICK new : IsLocal(new) /\ Set(r, new) /\ new.pc \in {"idle", "recover"}
  BY AttemptEnds
<1>2. loc'[r] = new
  BY <1>1, OneMoves DEF IInv
<1>3. Knows(r)'
  BY <1>1, <1>2 DEF Knows
<1> QED
  BY <1>1, <1>3, QuietMoves

-----------------------------------------------------------------------------
(* The steps that leave every run where it is.                             *)

\* recordUsage: new usage is in nobody's batch yet.
LEMMA RecordStep ==
    ASSUME IInv, NEW u \in Usage, recordUsage(u)
    PROVE  IInv'
<1> USE DEF recordUsage, chain
<1>1. Shape' /\ Charges' /\ SubmitsRecorded' /\ LedgerFollowsChain'
  BY DEF IInv, Shape, Charges, SubmitsRecorded, LedgerFollowsChain
<1>2. Locals' /\ OneAtATime' /\ pending' = {}
  BY DEF IInv, Locals, OneAtATime, Active
<1>3. \A r \in Runs : Knows(r)'
  BY DEF IInv, Knows, Settled
<1> QED
  BY <1>1, <1>2, <1>3 DEF IInv

\* Time and the subscriber change the amounts and the status of the mandate.
LEMMA EnvironmentStep ==
    ASSUME IInv, time_passes \/ window_elapses \/ Subscriber
    PROVE  IInv'
<1>1. Environment
  BY DEF time_passes, window_elapses, Subscriber, subscriber_deposits,
         subscriber_withdraws, subscriber_pauses, subscriber_resumes,
         subscriber_revokes
<1>2. Shape'
  <2>1. mandate' = [spent |-> mandate'.spent,
                    window_spent |-> mandate'.window_spent,
                    window_over |-> mandate'.window_over,
                    status |-> mandate'.status, phase |-> mandate'.phase]
    <3>1. CASE time_passes
      BY <3>1 DEF IInv, Shape, time_passes
    <3>2. CASE window_elapses
      BY <3>2 DEF IInv, Shape, window_elapses
    <3>3. CASE subscriber_deposits
      BY <3>3 DEF IInv, Shape, subscriber_deposits
    <3>4. CASE subscriber_withdraws
      BY <3>4 DEF IInv, Shape, subscriber_withdraws
    <3>5. CASE subscriber_pauses
      BY <3>5 DEF IInv, Shape, subscriber_pauses
    <3>6. CASE subscriber_resumes
      BY <3>6 DEF IInv, Shape, subscriber_resumes
    <3>7. CASE subscriber_revokes
      BY <3>7 DEF IInv, Shape, subscriber_revokes
    <3> QED
      BY <3>1, <3>2, <3>3, <3>4, <3>5, <3>6, <3>7 DEF Subscriber
  <2> QED
    BY <1>1, <2>1 DEF IInv, Shape, Environment, store
<1>3. LedgerFollowsChain' /\ SubmitsRecorded' /\ Charges'
  BY <1>1 DEF IInv, Environment, store, LedgerFollowsChain, SubmitsRecorded,
              Charges
<1>4. Locals' /\ OneAtATime' /\ pending' = {}
  BY <1>1 DEF IInv, Environment, Locals, OneAtATime, Active
<1>5. \A r \in Runs : Knows(r)'
  BY <1>1 DEF IInv, Environment, store, Knows, Settled
<1> QED
  BY <1>2, <1>3, <1>4, <1>5 DEF IInv

-----------------------------------------------------------------------------
(* The charge itself, whoever learns of it.                                *)

\* A charge takes the recorded batch as the newest entry of the chain, which
\* the ledger now lacks.
LEMMA ChargeLands ==
    ASSUME IInv, NEW r \in Runs, loc[r].pc = "submit", charge_metered(Tx(r)),
           UNCHANGED store
    PROVE  /\ Shape' /\ LedgerFollowsChain' /\ SubmitsRecorded' /\ Charges'
           /\ Len(landed') = Len(ledger) + 1
           /\ loc[r].seq = Len(ledger)
           /\ loc[r].batch = landed'[Len(landed')]
<1> DEFINE batch == loc[r].batch
<1>1. landed' = Append(landed, batch)
  BY DEF charge_metered, Tx
<1>2. /\ Len(landed) = Len(ledger) /\ loc[r].seq = Len(landed)
      /\ batch # {} /\ batch \subseteq recorded \ billed
      /\ loc[r].seq \in DOMAIN lastSubmit /\ lastSubmit[loc[r].seq] = batch
  BY DEF IInv, Knows, Settled
<1>3. landed \in Seq(SUBSET Usage) /\ batch \in SUBSET Usage
  BY <1>2 DEF IInv, Shape
<1> HIDE DEF batch
<1>4. /\ landed' \in Seq(SUBSET Usage)
      /\ Len(landed') = Len(landed) + 1
      /\ landed'[Len(landed) + 1] = batch
      /\ \A i \in 1 .. Len(landed) : landed'[i] = landed[i]
      /\ Len(landed) \in Nat
  BY <1>1, <1>3
<1>5. Shape'
  <2>1. mandate' = [spent |-> mandate'.spent,
                    window_spent |-> mandate'.window_spent,
                    window_over |-> mandate'.window_over,
                    status |-> mandate'.status, phase |-> mandate'.phase]
    BY DEF IInv, Shape, charge_metered
  <2> QED
    BY <1>4, <2>1 DEF IInv, Shape, store
<1>6. LedgerFollowsChain'
  <2>1. DOMAIN ledger = 1 .. Len(ledger)
    BY DEF IInv, Shape
  <2> QED
    BY <1>2, <1>4, <2>1 DEF IInv, LedgerFollowsChain, store
<1>7. SubmitsRecorded'
  <2>1. lastSubmit' = lastSubmit
    BY DEF store
  <2>2. DOMAIN lastSubmit \subseteq 0 .. Len(landed) + 1
    BY <1>4 DEF IInv, SubmitsRecorded
  <2>3. ASSUME NEW i \in 1 .. Len(landed) + 1
        PROVE  i - 1 \in DOMAIN lastSubmit /\ lastSubmit[i - 1] = landed'[i]
    <3>1. CASE i = Len(landed) + 1
      <4>1. i - 1 = Len(landed)
        BY <1>4, <3>1
      <4> QED
        BY <1>2, <1>4, <3>1, <4>1
    <3>2. CASE i # Len(landed) + 1
      <4>1. i \in 1 .. Len(landed)
        BY <1>4, <3>2
      <4> QED
        BY <1>4, <4>1 DEF IInv, SubmitsRecorded
    <3> QED
      BY <3>1, <3>2
  <2> QED
    BY <1>4, <2>1, <2>2, <2>3 DEF SubmitsRecorded
<1>8. Charges'
  <2>1. \A i \in 1 .. Len(landed) : landed[i] \cap batch = {}
    BY <1>2 DEF IInv, Charges
  <2> QED
    BY <1>2, <1>4, <2>1 DEF IInv, Charges, store
<1> QED
  BY <1>2, <1>4, <1>5, <1>6, <1>7, <1>8 DEF batch

-----------------------------------------------------------------------------
(* The steps of a run.                                                     *)

\* flush: a caller queues.
LEMMA FlushStep ==
    ASSUME IInv, NEW r \in Runs, flush(r)
    PROVE  IInv'
<1>1. PICK view : Set(r, [Idle EXCEPT !.pc = "queued", !.view = view])
  BY DEF flush
<1> PICK new : new = [Idle EXCEPT !.pc = "queued", !.view = view]
  OBVIOUS
<1>2. IsLocal(new) /\ new.pc = "queued"
  BY DEF Idle, IsLocal
<1>3. Set(r, new)
  BY <1>1
<1>4. /\ loc'[r] = new /\ Locals' /\ OneAtATime'
      /\ \A q \in Runs \ {r} : loc'[q] = loc[q]
  BY <1>2, <1>3, OneMoves DEF IInv
<1>5. UNCHANGED <<store, chain>>
  BY DEF flush
<1>6. \A q \in Runs : Knows(q)'
  BY <1>2, <1>4, <1>5, ZenonT(40) DEF IInv, Knows, Settled, store, chain
<1> QED
  BY <1>4, <1>5, <1>6, Quiet DEF IInv

\* flushOne: a run enters when no other is in.
LEMMA FlushOneStep ==
    ASSUME IInv, NEW r \in Runs, flushOne(r)
    PROVE  IInv'
<1> PICK new : new = [loc[r] EXCEPT !.pc = "recover", !.attempt = 1]
  OBVIOUS
<1>1. IsLocal(loc[r])
  BY DEF IInv, Locals
<1>2. IsLocal(new) /\ new.pc = "recover"
  BY <1>1 DEF IsLocal
<1>3. Set(r, new)
  BY DEF flushOne
<1>4. \A q \in Runs \ {r} : ~Active(q)
  BY DEF flushOne, Active
<1>5. /\ loc'[r] = new /\ Locals' /\ OneAtATime'
      /\ \A q \in Runs \ {r} : loc'[q] = loc[q]
  BY <1>2, <1>3, <1>4, OneMoves DEF IInv
<1>6. UNCHANGED <<store, chain>>
  BY DEF flushOne
<1>7. \A q \in Runs : Knows(q)'
  BY <1>2, <1>5, <1>6, ZenonT(40) DEF IInv, Knows, Settled, store, chain
<1> QED
  BY <1>5, <1>6, <1>7, Quiet DEF IInv

\* The orphan found is the one charge the ledger lacks, if it lacks one.
LEMMA OrphansFound ==
    ASSUME IInv
    PROVE  /\ Orphans = IF Len(landed) = Len(ledger) THEN {} ELSE {Len(ledger)}
           /\ Len(landed) \in {Len(ledger), Len(ledger) + 1}
           /\ Len(ledger) \in Nat
<1>1. Len(ledger) \in Nat /\ DOMAIN ledger = 1 .. Len(ledger)
  BY DEF IInv, Shape
<1>2. Len(landed) \in Nat /\ DOMAIN landed = 1 .. Len(landed)
  BY DEF IInv, Shape
<1>3. Len(landed) \in {Len(ledger), Len(ledger) + 1}
  <2>1. Len(ledger) = Len(landed) - 1 \/ Len(ledger) = Len(landed)
    BY DEF IInv, LedgerFollowsChain
  <2>2. \A m \in Nat, n \in Nat : n = m - 1 => m = n + 1
    OBVIOUS
  <2>3. Len(ledger) \in Nat /\ Len(landed) \in Nat
    BY <1>1, <1>2
  <2>4. CASE Len(ledger) = Len(landed) - 1
    BY <2>2, <2>3, <2>4
  <2>5. CASE Len(ledger) = Len(landed)
    BY <2>5
  <2> QED
    BY <2>1, <2>4, <2>5
<1>4. {ledger[i].seq - 1 : i \in DOMAIN ledger} = 0 .. Len(ledger) - 1
  <2>1. \A i \in DOMAIN ledger : ledger[i].seq = i
    BY DEF IInv, LedgerFollowsChain
  <2>2. ASSUME NEW n \in 0 .. Len(ledger) - 1
        PROVE  \E i \in DOMAIN ledger : n = ledger[i].seq - 1
    <3>1. n + 1 \in DOMAIN ledger
      BY <1>1
    <3>2. n = ledger[n + 1].seq - 1
      BY <2>1, <3>1, <1>1
    <3> QED
      BY <3>1, <3>2
  <2> QED
    BY <1>1, <2>1, <2>2
<1>5. /\ DOMAIN lastSubmit \subseteq 0 .. Len(landed)
      /\ \A i \in 1 .. Len(landed) : i - 1 \in DOMAIN lastSubmit
  BY DEF IInv, SubmitsRecorded
<1>6. Orphans = {seq \in DOMAIN lastSubmit : /\ seq \notin 0 .. Len(ledger) - 1
                                            /\ seq < Len(landed)}
  BY <1>4 DEF Orphans, Unsettled, chargeSeq
<1>7. CASE Len(landed) = Len(ledger)
  BY <1>1, <1>2, <1>5, <1>6, <1>7
<1>8. CASE Len(landed) = Len(ledger) + 1
  <2>1. Len(landed) - 1 \in DOMAIN lastSubmit
    BY <1>1, <1>2, <1>5, <1>8
  <2>2. Len(ledger) \in Orphans
    BY <1>1, <1>6, <1>8, <2>1
  <2>3. \A seq \in Orphans : seq = Len(ledger)
    BY <1>1, <1>5, <1>6, <1>8
  <2>4. Orphans = {Len(ledger)}
    BY <2>2, <2>3
  <2>5. Len(landed) # Len(ledger)
    <3>1. \A n \in Nat : n + 1 # n
      OBVIOUS
    <3> QED
      BY <1>1, <1>8, <3>1
  <2> QED
    BY <1>8, <2>4, <2>5
<1> QED
  BY <1>1, <1>3, <1>7, <1>8

\* recoverOrphan finds the one charge the ledger lacks, or none.
LEMMA RecoverStep ==
    ASSUME IInv, NEW r \in Runs, recoverOrphan(r)
    PROVE  IInv'
<1> PICK new : new = [loc[r] EXCEPT !.orphans = Orphans,
                     !.pc = IF Orphans = {} THEN "unbilled" ELSE "mark"]
  OBVIOUS
<1>1. IsLocal(loc[r]) /\ loc[r].pc = "recover"
  BY DEF IInv, Locals, recoverOrphan, At
<1>2. /\ IsLocal(new) /\ new.orphans = Orphans
      /\ new.pc = IF Orphans = {} THEN "unbilled" ELSE "mark"
  BY <1>1 DEF IsLocal
<1>3. Set(r, new) /\ UNCHANGED <<store, chain>>
  BY DEF recoverOrphan
<1>4. Active(r)
  BY <1>1 DEF Active
<1>5. loc'[r] = new
  BY <1>2, <1>3, <1>4, OneMoves DEF IInv
<1>6. Knows(r)'
  <2>1. landed' = landed /\ ledger' = ledger
    BY <1>3 DEF store, chain
  <2>2. CASE Orphans = {}
    <3>1. Settled'
      BY <2>1, <2>2, OrphansFound DEF Settled
    <3> QED
      BY <1>2, <1>5, <2>2, <3>1 DEF Knows
  <2>3. CASE Orphans # {}
    <3>1. Orphans = {Len(ledger)} /\ Len(landed) = Len(ledger) + 1
      BY <2>3, OrphansFound
    <3> QED
      BY <1>2, <1>5, <2>1, <2>3, <3>1 DEF Knows
  <2> QED
    BY <2>2, <2>3
<1> QED
  BY <1>2, <1>3, <1>4, <1>6, QuietMoves

\* What an orphan run holds, and that marking and booking it is right.
LEMMA OldestOrphan ==
    ASSUME IInv, NEW r \in Runs, loc[r].pc \in {"mark", "backfill"}
    PROVE  /\ Oldest(r) = Len(ledger)
           /\ Len(landed) = Len(ledger) + 1
           /\ Len(ledger) \in Nat
           /\ lastSubmit[Len(ledger)] = landed[Len(landed)]
           /\ landed[Len(landed)] \in SUBSET Usage
<1>1. loc[r].orphans = {Len(ledger)} /\ Len(landed) = Len(ledger) + 1
  BY DEF IInv, Knows
<1>2. Len(ledger) \in Nat
  BY OrphansFound
<1>3. Oldest(r) = Len(ledger)
  BY <1>1, <1>2 DEF Oldest
<1>4. Len(landed) \in 1 .. Len(landed) /\ Len(landed) - 1 = Len(ledger)
  BY <1>1, <1>2
<1>5. lastSubmit[Len(ledger)] = landed[Len(landed)]
  BY <1>4 DEF IInv, SubmitsRecorded
<1>6. landed[Len(landed)] \in SUBSET Usage
  BY <1>4 DEF IInv, Shape
<1> QED
  BY <1>1, <1>2, <1>3, <1>5, <1>6

\* The mark of an orphan: its records were charged.
LEMMA MarkStep ==
    ASSUME IInv, NEW r \in Runs, recover_mark(r)
    PROVE  IInv'
<1> PICK new : new = [loc[r] EXCEPT !.pc = "backfill"]
  OBVIOUS
<1>1. IsLocal(loc[r]) /\ loc[r].pc = "mark"
  BY DEF IInv, Locals, recover_mark, At
<1>2. IsLocal(new) /\ new.pc = "backfill" /\ new.orphans = loc[r].orphans
  BY <1>1 DEF IsLocal
<1>3. Set(r, new) /\ Active(r)
  BY <1>1 DEF recover_mark, Goto, Active
<1>4. loc'[r] = new
  BY <1>2, <1>3, OneMoves DEF IInv
<1>5. /\ billed' = billed \cup landed[Len(landed)]
      /\ UNCHANGED <<recorded, lastSubmit, ledger, chain>>
  BY <1>1, OldestOrphan DEF recover_mark
<1>6. Len(landed) \in 1 .. Len(landed) /\ Len(landed) = Len(ledger) + 1
  BY <1>1, OldestOrphan
<1>7. Shape' /\ LedgerFollowsChain' /\ SubmitsRecorded' /\ pending' = {}
  BY <1>5 DEF IInv, Shape, LedgerFollowsChain, SubmitsRecorded, chain
<1>8. Charges'
  BY <1>5, <1>6 DEF IInv, Charges, chain
<1>9. Knows(r)'
  <2>1. loc[r].orphans = {Len(ledger)}
    BY <1>1 DEF IInv, Knows
  <2> QED
    BY <1>2, <1>4, <1>5, <1>6, <2>1 DEF Knows, chain
<1> QED
  BY <1>2, <1>3, <1>7, <1>8, <1>9, ActiveMoves

\* A new entry makes the ledger as long as the chain, when it is that of the
\* newest charge and its records are billed.
LEMMA Booking ==
    ASSUME IInv, NEW ids \in SUBSET Usage, ids \subseteq billed,
           Len(landed) = Len(ledger) + 1, ids = landed[Len(landed)],
           ledger' = Append(ledger, [seq |-> Len(ledger) + 1, ids |-> ids]),
           UNCHANGED <<recorded, billed, lastSubmit, chain>>
    PROVE  /\ Shape' /\ LedgerFollowsChain' /\ SubmitsRecorded' /\ Charges'
           /\ pending' = {} /\ Settled'
<1> PICK n : n = Len(ledger)
  OBVIOUS
<1> PICK entry : entry = [seq |-> n + 1, ids |-> ids]
  OBVIOUS
<1>1. n \in Nat /\ ledger \in Seq(Entry)
  BY DEF IInv, Shape
<1>2. entry \in Entry
  BY <1>1 DEF Entry
<1>3. ledger' = Append(ledger, entry)
  OBVIOUS
<1>4. /\ ledger' \in Seq(Entry) /\ Len(ledger') = n + 1
      /\ DOMAIN ledger' = 1 .. n + 1
      /\ DOMAIN ledger = 1 .. n
      /\ \A i \in 1 .. n : ledger'[i] = ledger[i]
      /\ ledger'[n + 1] = entry
  BY <1>1, <1>2, <1>3
<1>5. landed' = landed /\ Len(landed) = n + 1
  BY DEF chain
<1>6. Shape' /\ SubmitsRecorded' /\ pending' = {}
  BY <1>4 DEF IInv, Shape, SubmitsRecorded, chain
<1>7. Settled'
  BY <1>4, <1>5 DEF Settled
<1>8. LedgerFollowsChain'
  <2>1. \A i \in 1 .. n : ledger'[i] = [seq |-> i, ids |-> landed[i]]
    BY <1>4 DEF IInv, LedgerFollowsChain
  <2>2. ledger'[n + 1] = [seq |-> n + 1, ids |-> landed[n + 1]]
    BY <1>4, <1>5
  <2>3. \A i \in 1 .. n + 1 : i \in 1 .. n \/ i = n + 1
    BY <1>1
  <2> QED
    BY <1>4, <1>5, <2>1, <2>2, <2>3 DEF LedgerFollowsChain
<1>9. Charges'
  <2>1. \A i \in 1 .. n : landed[i] \subseteq billed
    BY DEF IInv, Charges
  <2>2. \A i \in 1 .. n + 1 : i \in 1 .. n \/ i = n + 1
    BY <1>1
  <2> QED
    BY <1>4, <1>5, <2>1, <2>2 DEF IInv, Charges
<1> QED
  BY <1>6, <1>7, <1>8, <1>9

\* The back-filled entry of an orphan completes the ledger.
LEMMA BackfillStep ==
    ASSUME IInv, NEW r \in Runs, recover_backfill(r)
    PROVE  IInv'
<1>1. IsLocal(loc[r]) /\ loc[r].pc = "backfill" /\ Active(r)
  BY DEF IInv, Locals, recover_backfill, At, Active
<1>2. /\ Oldest(r) = Len(ledger)
      /\ Len(landed) = Len(ledger) + 1
      /\ lastSubmit[Len(ledger)] = landed[Len(landed)]
      /\ landed[Len(landed)] \in SUBSET Usage
      /\ loc[r].orphans = {Len(ledger)}
      /\ landed[Len(landed)] \subseteq billed
  BY <1>1, OldestOrphan DEF IInv, Knows
<1> PICK left : left = loc[r].orphans \ {Oldest(r)}
  OBVIOUS
<1>3. left = {}
  BY <1>2
<1> PICK new : new = [loc[r] EXCEPT !.orphans = left,
                        !.pc = IF left = {} THEN "unbilled" ELSE "mark"]
  OBVIOUS
<1>4. IsLocal(new) /\ new.pc = "unbilled"
  BY <1>1, <1>3 DEF IsLocal
<1>5. Set(r, new)
  BY DEF recover_backfill
<1>6. loc'[r] = new
  BY <1>1, <1>4, <1>5, OneMoves DEF IInv
<1>7. /\ ledger' = Append(ledger, [seq |-> Len(ledger) + 1,
                                   ids |-> landed[Len(landed)]])
      /\ UNCHANGED <<recorded, billed, lastSubmit, chain>>
  BY <1>2 DEF recover_backfill
<1>8. /\ Shape' /\ LedgerFollowsChain' /\ SubmitsRecorded' /\ Charges'
      /\ pending' = {} /\ Settled'
  BY <1>2, <1>7, Booking
<1>9. Knows(r)'
  BY <1>4, <1>6, <1>8 DEF Knows
<1> QED
  BY <1>1, <1>4, <1>5, <1>8, <1>9, ActiveMoves

\* The rows read are recorded and unbilled.
LEMMA UnbilledStep ==
    ASSUME IInv, NEW r \in Runs, read_unbilled(r)
    PROVE  IInv'
<1>1. IsLocal(loc[r]) /\ loc[r].pc = "unbilled" /\ Active(r)
  BY DEF IInv, Locals, read_unbilled, At, Active
<1>2. UNCHANGED <<store, chain>>
  BY DEF read_unbilled
<1>3. CASE recorded \ billed = {}
  BY <1>1, <1>2, <1>3, EndsAreQuiet DEF read_unbilled
<1>4. CASE recorded \ billed # {}
  <2> PICK new : new = [loc[r] EXCEPT !.rows = recorded \ billed,
                                      !.pc = "mandate"]
    OBVIOUS
  <2>1. IsLocal(new) /\ new.pc = "mandate" /\ new.rows = recorded \ billed
    BY <1>1 DEF IsLocal
  <2>2. Set(r, new)
    BY <1>4 DEF read_unbilled
  <2>3. loc'[r] = new
    BY <1>1, <2>1, <2>2, OneMoves DEF IInv
  <2>4. Settled
    BY <1>1 DEF IInv, Knows
  <2>5. Knows(r)'
    BY <1>2, <2>1, <2>3, <2>4 DEF Knows, Settled, store, chain
  <2> QED
    BY <1>1, <1>2, <2>1, <2>2, <2>5, QuietMoves
<1> QED
  BY <1>3, <1>4

\* The sequence number read is that of the next charge.
LEMMA MandateStep ==
    ASSUME IInv, NEW r \in Runs, read_mandate(r)
    PROVE  IInv'
<1>1. IsLocal(loc[r]) /\ loc[r].pc = "mandate" /\ Active(r)
  BY DEF IInv, Locals, read_mandate, At, Active
<1>2. UNCHANGED <<store, chain>>
  BY DEF read_mandate
<1>3. CASE loc[r].view.phase = "EXPIRED" \/ mandate.status # "ACTIVE"
  BY <1>1, <1>2, <1>3, EndsAreQuiet DEF read_mandate
<1>4. CASE ~(loc[r].view.phase = "EXPIRED" \/ mandate.status # "ACTIVE")
  <2> PICK limit : limit = spendable(loc[r].view)
    OBVIOUS
  <2> PICK new : new = [loc[r] EXCEPT !.limit = limit, !.seq = chargeSeq,
                                      !.pc = "account"]
    OBVIOUS
  <2>1. /\ IsLocal(new) /\ new.pc = "account" /\ new.rows = loc[r].rows
        /\ new.seq = Len(landed)
    BY <1>1 DEF IsLocal, chargeSeq
  <2>2. Set(r, new)
    BY <1>4 DEF read_mandate
  <2>3. loc'[r] = new
    BY <1>1, <2>1, <2>2, OneMoves DEF IInv
  <2>4. Settled /\ loc[r].rows \subseteq recorded \ billed
    BY <1>1 DEF IInv, Knows
  <2>5. Knows(r)'
    BY <1>2, <2>1, <2>3, <2>4 DEF Knows, Settled, store, chain
  <2> QED
    BY <1>1, <1>2, <2>1, <2>2, <2>5, QuietMoves
<1> QED
  BY <1>3, <1>4

\* The batch that is journaled as the submit of the next sequence number is
\* unbilled usage, and the submits of the landed charges stay as they are.
LEMMA AccountStep ==
    ASSUME IInv, NEW r \in Runs, read_account(r)
    PROVE  IInv'
<1>1. IsLocal(loc[r]) /\ loc[r].pc = "account" /\ Active(r)
  BY DEF IInv, Locals, read_account, At, Active
<1>2. /\ Settled /\ loc[r].rows \subseteq recorded \ billed
      /\ loc[r].seq = Len(landed)
  BY <1>1 DEF IInv, Knows
<1> PICK batch : batch = Batch(loc[r].rows, Min2(loc[r].limit, balance))
  OBVIOUS
<1>3. batch \subseteq loc[r].rows
  BY DEF Batch
<1>4. CASE batch = {}
  <2>1. Return(r) /\ UNCHANGED <<store, chain>>
    BY <1>4 DEF read_account, store
  <2> QED
    BY <1>1, <2>1, EndsAreQuiet
<1>5. CASE batch # {}
  <2> PICK n : n = Len(landed)
    OBVIOUS
  <2>1. n \in Nat
    BY OrphansFound, <1>2 DEF Settled
  <2> PICK new : new = [loc[r] EXCEPT !.batch = batch, !.pc = "submit"]
    OBVIOUS
  <2>2. /\ IsLocal(new) /\ new.pc = "submit" /\ new.rows = loc[r].rows
        /\ new.seq = n /\ new.batch = batch
    BY <1>1, <1>2 DEF IsLocal
  <2>3. /\ Set(r, new)
        /\ lastSubmit' = [s \in DOMAIN lastSubmit \cup {n} |->
                            IF s = n THEN batch ELSE lastSubmit[s]]
        /\ UNCHANGED <<recorded, billed, ledger, chain>>
    BY <1>2, <1>5 DEF read_account
  <2>4. loc'[r] = new
    BY <1>1, <2>2, <2>3, OneMoves DEF IInv
  <2>5. SubmitsRecorded'
    <3>1. DOMAIN lastSubmit' = DOMAIN lastSubmit \cup {n}
      BY <2>3
    <3>2. DOMAIN lastSubmit' \subseteq 0 .. n
      BY <2>1, <3>1 DEF IInv, SubmitsRecorded
    <3>3. ASSUME NEW i \in 1 .. n
          PROVE  i - 1 \in DOMAIN lastSubmit' /\ lastSubmit'[i - 1] = landed[i]
      <4>1. i - 1 \in DOMAIN lastSubmit /\ lastSubmit[i - 1] = landed[i]
        BY <3>3 DEF IInv, SubmitsRecorded
      <4>2. i - 1 # n
        BY <2>1, <3>3
      <4> QED
        BY <2>3, <4>1, <4>2
    <3>4. landed' = landed
      BY <2>3 DEF chain
    <3> QED
      BY <3>2, <3>3, <3>4 DEF SubmitsRecorded
  <2>6. Shape' /\ LedgerFollowsChain' /\ Charges' /\ pending' = {}
    BY <2>3 DEF IInv, Shape, LedgerFollowsChain, Charges, chain
  <2>7. Knows(r)'
    <3>1. n \in DOMAIN lastSubmit' /\ lastSubmit'[n] = batch
      BY <2>3
    <3>2. landed' = landed /\ Settled'
      BY <1>2, <2>3 DEF Settled, chain
    <3>3. new.rows \subseteq recorded' \ billed'
      BY <1>2, <2>2, <2>3
    <3> QED
      BY <1>3, <1>5, <2>2, <2>4, <3>1, <3>2, <3>3 DEF Knows
  <2> QED
    BY <1>1, <2>2, <2>3, <2>5, <2>6, <2>7, ActiveMoves
<1> QED
  BY <1>4, <1>5

\* The charge lands, whether or not its ack arrives.
LEMMA ChargeStep ==
    ASSUME IInv, NEW r \in Runs, charge_lands(r) \/ charge_ack_lost(r)
    PROVE  IInv'
<1>1. IsLocal(loc[r]) /\ loc[r].pc = "submit" /\ Active(r)
  BY DEF IInv, Locals, charge_lands, charge_ack_lost, At, Active
<1>2. charge_metered(Tx(r)) /\ UNCHANGED <<store, pending>>
  BY DEF charge_lands, charge_ack_lost
<1>3. /\ Shape' /\ LedgerFollowsChain' /\ SubmitsRecorded' /\ Charges'
      /\ Len(landed') = Len(ledger) + 1
      /\ loc[r].seq = Len(ledger)
      /\ loc[r].batch = landed'[Len(landed')]
      /\ pending' = {}
  BY <1>1, <1>2, ChargeLands DEF IInv
<1>4. CASE charge_lands(r)
  <2> PICK new : new = [loc[r] EXCEPT !.pc = "commit"]
    OBVIOUS
  <2>1. /\ IsLocal(new) /\ new.pc = "commit" /\ new.seq = loc[r].seq
        /\ new.batch = loc[r].batch
    BY <1>1 DEF IsLocal
  <2>2. Set(r, new)
    BY <1>4 DEF charge_lands, Goto
  <2>3. loc'[r] = new
    BY <1>1, <2>1, <2>2, OneMoves DEF IInv
  <2>4. Knows(r)'
    BY <1>2, <1>3, <2>1, <2>3 DEF Knows, store
  <2> QED
    BY <1>1, <1>3, <2>1, <2>2, <2>4, ActiveMoves
<1>5. CASE charge_ack_lost(r)
  <2>1. PICK new : /\ IsLocal(new) /\ Set(r, new)
                   /\ new.pc \in {"idle", "recover"}
    BY <1>5, AttemptEnds DEF charge_ack_lost
  <2>2. loc'[r] = new
    BY <1>1, <2>1, OneMoves DEF IInv
  <2>3. Knows(r)'
    BY <2>1, <2>2 DEF Knows
  <2> QED
    BY <1>1, <1>3, <2>1, <2>3, ActiveMoves
<1> QED
  BY <1>4, <1>5

\* An aborted charge changes neither the chain nor the store.
LEMMA AbortStep ==
    ASSUME IInv, NEW r \in Runs, charge_aborts(r)
    PROVE  IInv'
<1>1. Active(r) /\ UNCHANGED <<store, chain>>
  BY DEF charge_aborts, At, Active
<1>2. \/ NextAttempt(r, loc[r].failure)
      \/ Return(r)
      \/ NextAttempt(r, "error")
  BY DEF charge_aborts
<1> QED
  BY <1>1, <1>2, EndsAreQuiet

\* commitCharge marks the records of the charge that landed.
LEMMA CommitMarkStep ==
    ASSUME IInv, NEW r \in Runs, commit_mark(r)
    PROVE  IInv'
<1> PICK new : new = [loc[r] EXCEPT !.pc = "journal"]
  OBVIOUS
<1>1. IsLocal(loc[r]) /\ loc[r].pc = "commit" /\ Active(r)
  BY DEF IInv, Locals, commit_mark, At, Active
<1>2. /\ IsLocal(new) /\ new.pc = "journal" /\ new.seq = loc[r].seq
      /\ new.batch = loc[r].batch
  BY <1>1 DEF IsLocal
<1>3. Set(r, new)
  BY DEF commit_mark, Goto
<1>4. loc'[r] = new
  BY <1>1, <1>2, <1>3, OneMoves DEF IInv
<1>5. /\ Len(landed) = Len(ledger) + 1 /\ loc[r].seq = Len(ledger)
      /\ loc[r].batch = landed[Len(landed)]
  BY <1>1 DEF IInv, Knows
<1>6. Len(landed) \in 1 .. Len(landed)
  BY <1>5, OrphansFound
<1>7. /\ billed' = billed \cup loc[r].batch
      /\ UNCHANGED <<recorded, lastSubmit, ledger, chain>>
  BY DEF commit_mark
<1>8. Shape' /\ LedgerFollowsChain' /\ SubmitsRecorded' /\ pending' = {}
  BY <1>7 DEF IInv, Shape, LedgerFollowsChain, SubmitsRecorded, chain
<1>9. Charges'
  BY <1>5, <1>6, <1>7 DEF IInv, Charges, chain
<1>10. Knows(r)'
  BY <1>2, <1>4, <1>5, <1>7 DEF Knows, chain
<1> QED
  BY <1>1, <1>2, <1>3, <1>8, <1>9, <1>10, ActiveMoves

\* commitCharge completes the ledger.
LEMMA CommitJournalStep ==
    ASSUME IInv, NEW r \in Runs, commit_journal(r)
    PROVE  IInv'
<1>1. loc[r].pc = "journal" /\ Active(r)
  BY DEF commit_journal, At, Active
<1>2. /\ Len(landed) = Len(ledger) + 1 /\ loc[r].seq = Len(ledger)
      /\ loc[r].batch = landed[Len(landed)] /\ loc[r].batch \subseteq billed
  BY <1>1 DEF IInv, Knows
<1>3. loc[r].batch \in SUBSET Usage
  <2>1. Len(landed) \in 1 .. Len(landed)
    BY <1>2, OrphansFound
  <2> QED
    BY <1>2, <2>1 DEF IInv, Shape
<1>4. /\ ledger' = Append(ledger, [seq |-> Len(ledger) + 1,
                                   ids |-> loc[r].batch])
      /\ UNCHANGED <<recorded, billed, lastSubmit, chain>>
  BY <1>2 DEF commit_journal
<1>5. /\ Shape' /\ LedgerFollowsChain' /\ SubmitsRecorded' /\ Charges'
      /\ pending' = {}
  BY <1>2, <1>3, <1>4, Booking
<1>6. Return(r) \/ NextAttempt(r, loc[r].failure)
  BY DEF commit_journal
<1>7. PICK new : IsLocal(new) /\ Set(r, new) /\ new.pc \in {"idle", "recover"}
  BY <1>6, AttemptEnds
<1>8. loc'[r] = new
  BY <1>1, <1>7, OneMoves DEF IInv
<1>9. Knows(r)'
  BY <1>7, <1>8 DEF Knows
<1> QED
  BY <1>1, <1>5, <1>7, <1>9, ActiveMoves

\* Without late landing a fault leaves the store and the chain alone, but for
\* the lost ack of a charge.
LEMMA FaultStep ==
    ASSUME ~LateLanding, IInv, NEW r \in Runs, Fault(r)
    PROVE  IInv'
<1>1. CASE charge_ack_lost(r)
  BY <1>1, ChargeStep
<1>2. CASE charge_fails(r)
  <2>1. Active(r) /\ UNCHANGED <<store, chain>> /\ NextAttempt(r, "error")
    BY <1>2 DEF charge_fails, At, Active, chain
  <2> QED
    BY <2>1, EndsAreQuiet
<1>3. CASE commit_fails(r)
  <2>1. Active(r) /\ UNCHANGED <<store, chain>> /\ NextAttempt(r, "commit")
    BY <1>3 DEF commit_fails, At, Active
  <2> QED
    BY <2>1, EndsAreQuiet
<1>4. CASE settle_throws(r)
  <2>1. Active(r) /\ UNCHANGED <<store, chain>> /\ Return(r)
    BY <1>4 DEF settle_throws, At, Active
  <2> QED
    BY <2>1, EndsAreQuiet
<1> QED
  BY <1>1, <1>2, <1>3, <1>4 DEF Fault

\* A crash takes every run's local variables, and perhaps completes the charge
\* that was on its way.
LEMMA CrashStep ==
    ASSUME ~LateLanding, IInv, crash
    PROVE  IInv'
<1>1. loc' = [r \in Runs |-> Idle] /\ UNCHANGED store
  BY DEF crash
<1>2. Locals'
  <2>1. IsLocal(Idle)
    BY DEF Idle, IsLocal
  <2> QED
    BY <1>1, <2>1 DEF Locals, IsLocal
<1>3. \A r \in Runs : ~Active(r)'
  BY <1>1 DEF Active, Idle
<1>4. OneAtATime' /\ \A r \in Runs : Knows(r)'
  BY <1>3, Outsiders DEF OneAtATime
<1>5. pending' = {}
  BY DEF crash, IInv
<1>6. Shape' /\ LedgerFollowsChain' /\ SubmitsRecorded' /\ Charges'
  <2>1. CASE UNCHANGED <<landed, mandate, balance>>
    BY <1>1, <1>5, <2>1, Quiet DEF chain, IInv
  <2>2. CASE \E r \in Runs : At(r, "submit") /\ charge_metered(Tx(r))
    BY <1>1, <2>2, ChargeLands DEF At
  <2> QED
    BY <2>1, <2>2 DEF crash
<1> QED
  BY <1>2, <1>4, <1>5, <1>6 DEF IInv

\* The process comes back, or the outage ends.
LEMMA ProcessStep ==
    ASSUME IInv, restart \/ outage_ends
    PROVE  IInv'
<1>1. UNCHANGED <<store, chain, loc>>
  BY DEF restart, outage_ends
<1>2. Locals' /\ OneAtATime' /\ \A r \in Runs : Knows(r)'
  BY <1>1 DEF IInv, Locals, OneAtATime, Active, Knows, Settled, store, chain
<1> QED
  BY <1>1, <1>2, Quiet DEF IInv

-----------------------------------------------------------------------------
(* The theorems.                                                           *)

\* Every step keeps the invariant.
LEMMA StepInv == ~LateLanding => (IInv /\ [Next]_vars => IInv')
<1> SUFFICES ASSUME ~LateLanding, IInv, [Next]_vars PROVE IInv'
  OBVIOUS
<1>1. CASE \E u \in Usage : recordUsage(u)
  BY <1>1, RecordStep
<1>2. ASSUME NEW r \in Runs, flush(r) PROVE IInv'
  BY <1>2, FlushStep
<1>3. ASSUME NEW r \in Runs, SettleStep(r) PROVE IInv'
  BY <1>3, FlushOneStep, RecoverStep, MarkStep, BackfillStep, UnbilledStep,
     MandateStep, AccountStep, ChargeStep, AbortStep, CommitMarkStep,
     CommitJournalStep DEF SettleStep
<1>4. ASSUME NEW r \in Runs, Fault(r) PROVE IInv'
  BY <1>4, FaultStep
<1>5. CASE crash
  BY <1>5, CrashStep
<1>6. CASE restart \/ outage_ends
  BY <1>6, ProcessStep
<1>7. CASE land_late
  BY <1>7 DEF land_late, IInv
<1>8. CASE time_passes \/ window_elapses \/ Subscriber
  BY <1>8, EnvironmentStep
<1>9. CASE UNCHANGED vars
  <2>1. UNCHANGED <<store, chain, loc>>
    BY <1>9 DEF vars
  <2>2. Locals' /\ OneAtATime' /\ \A r \in Runs : Knows(r)'
    BY <2>1 DEF IInv, Locals, OneAtATime, Active, Knows, Settled, store, chain
  <2> QED
    BY <2>1, <2>2, Quiet DEF IInv
<1> QED
  BY <1>1, <1>2, <1>3, <1>4, <1>5, <1>6, <1>7, <1>8, <1>9 DEF Next

\* The books, the chain and what each settle holds fit together in every
\* reachable state, when no transaction lands after its call failed.
THEOREM Invariant == ~LateLanding => (Spec => []IInv)
<1> SUFFICES ASSUME ~LateLanding PROVE Spec => []IInv
  OBVIOUS
<1>1. IInv /\ [Next]_vars => IInv'
  BY StepInv
<1> QED
  BY <1>1, InitInv, PTL DEF Spec

\* G1: no usage record is charged twice, whatever acks are lost, calls fail
\* and wherever the process crashes (settle, recoverOrphan, commitCharge).
THEOREM NeverChargedTwice == ~LateLanding => (Spec => []ChargedOnce)
<1>1. IInv => ChargedOnce
  <2>1. IInv => DOMAIN landed = 1 .. Len(landed)
    BY DEF IInv, Shape
  <2> QED
    BY <2>1 DEF IInv, Charges, ChargedOnce
<1> QED
  BY <1>1, Invariant, PTL

\* A record that markBilled marked was charged: recoverOrphan writes nothing
\* off.
THEOREM NothingWrittenOff == ~LateLanding => (Spec => []BilledWasCharged)
<1>1. IInv => BilledWasCharged
  <2>1. IInv => DOMAIN landed = 1 .. Len(landed)
    BY DEF IInv, Shape
  <2> QED
    BY <2>1 DEF IInv, Charges, BilledWasCharged, Charged
<1> QED
  BY <1>1, Invariant, PTL

\* The journal's charged entries are the chain's charges, in order, but for
\* the newest at most.
THEOREM LedgerIsTheChain == ~LateLanding => (Spec => []LedgerFollowsChain)
<1>1. IInv => LedgerFollowsChain
  BY DEF IInv
<1> QED
  BY <1>1, Invariant, PTL

\* A settle that submits has booked every earlier charge and submits no
\* charged record, however many flushes of the mandate run.
THEOREM SubmitsAreInformed == ~LateLanding => (Spec => []SubmitsKnowTheBooks)
<1>1. IInv => SubmitsKnowTheBooks
  <2> SUFFICES ASSUME IInv, NEW r \in Runs, loc[r].pc = "submit"
               PROVE  /\ Charged \subseteq billed
                      /\ loc[r].batch \cap Charged = {}
                      /\ loc[r].batch \subseteq recorded
    BY DEF SubmitsKnowTheBooks
  <2>1. DOMAIN landed = 1 .. Len(landed) /\ Len(ledger) = Len(landed)
    BY DEF IInv, Shape, Knows, Settled
  <2>2. Charged \subseteq billed
    BY <2>1 DEF IInv, Charges, Charged
  <2>3. loc[r].batch \subseteq recorded \ billed
    BY DEF IInv, Knows
  <2> QED
    BY <2>2, <2>3
<1> QED
  BY <1>1, Invariant, PTL

-----------------------------------------------------------------------------
(* The biller implements metered billing.                                  *)

\* Both specifications add amounts in the same way.
LEMMA SameSum == \A ids : Billing!Sum(ids) = Sum(ids)
BY DEF Sum, Billing!Sum, MapThenSumSet, Billing!MapThenSumSet,
       MapThenFoldSet, Billing!MapThenFoldSet

\* The charge is the abstract one: new, recorded usage, within the budget.
LEMMA ChargeRefines ==
    ASSUME IInv, NEW r \in Runs, loc[r].pc = "submit", charge_metered(Tx(r)),
           UNCHANGED store
    PROVE  \E ids \in SUBSET Usage : Billing!Charge(ids)
<1> PICK ids : ids = loc[r].batch
  OBVIOUS
<1>1. ids # {} /\ ids \subseteq recorded \ billed /\ Settled
  BY DEF IInv, Knows
<1>2. DOMAIN landed = 1 .. Len(landed) /\ landed \in Seq(SUBSET Usage)
  BY DEF IInv, Shape
<1>3. ids \cap Charged = {} /\ ids \in SUBSET Usage
  BY <1>1, <1>2 DEF IInv, Shape, Charges, Charged, Settled
<1>4. landed' = Append(landed, ids)
  BY DEF charge_metered, Tx
<1>5. Charged' = Charged \cup ids
  <2>1. /\ DOMAIN landed' = 1 .. Len(landed) + 1
        /\ Len(landed) \in Nat
        /\ landed'[Len(landed) + 1] = ids
        /\ \A i \in 1 .. Len(landed) : landed'[i] = landed[i]
    BY <1>2, <1>3, <1>4
  <2>2. \A i \in 1 .. Len(landed) + 1 :
            i \in 1 .. Len(landed) \/ i = Len(landed) + 1
    BY <2>1
  <2> QED
    BY <1>2, <2>1, <2>2 DEF Charged
<1>6. mandate.spent + Sum(ids) <= Budget
  BY DEF charge_metered, AbortCode, Tx
<1>7. mandate'.spent = mandate.spent + Sum(ids)
  BY DEF charge_metered, Tx, IInv, Shape
<1>8. UNCHANGED <<recorded, billed>>
  BY DEF store
<1> QED
  BY <1>1, <1>3, <1>5, <1>6, <1>7, <1>8, SameSum DEF Billing!Charge

\* The records marked are those of the newest charge.
LEMMA MarksRefine ==
    ASSUME IInv, NEW r \in Runs, recover_mark(r) \/ commit_mark(r)
    PROVE  \E ids \in SUBSET Usage : Billing!Book(ids)
<1> PICK ids : ids = landed[Len(landed)]
  OBVIOUS
<1>1. /\ Len(landed) \in 1 .. Len(landed)
      /\ DOMAIN landed = 1 .. Len(landed)
      /\ landed \in Seq(SUBSET Usage)
  <2>1. Len(landed) = Len(ledger) + 1 /\ Len(ledger) \in Nat
    <3>1. loc[r].pc \in {"mark", "commit"}
      BY DEF recover_mark, commit_mark, At
    <3> QED
      BY <3>1, OrphansFound DEF IInv, Knows
  <2> QED
    BY <2>1 DEF IInv, Shape
<1>2. ids \in SUBSET Usage /\ ids \subseteq Charged
  BY <1>1 DEF Charged
<1>3. /\ billed' = billed \cup ids
      /\ UNCHANGED <<recorded, landed, mandate>>
  <2>1. CASE recover_mark(r)
    BY <2>1, OldestOrphan DEF recover_mark, At, chain
  <2>2. CASE commit_mark(r)
    BY <2>2 DEF commit_mark, At, chain, IInv, Knows
  <2> QED
    BY <2>1, <2>2
<1>4. UNCHANGED <<recorded, Charged, mandate.spent>>
  BY <1>3 DEF Charged
<1> QED
  BY <1>2, <1>3, <1>4 DEF Billing!Book

\* Steps that take in nothing, charge nothing and mark nothing.
LEMMA StuttersRefine ==
    ASSUME UNCHANGED <<recorded, billed, landed, mandate.spent>>
    PROVE  UNCHANGED Billing!vars
BY DEF Billing!vars, Charged

\* Every step of the biller is one of metered billing, or a stutter.
LEMMA StepRefines ==
    ASSUME ~LateLanding, IInv, [Next]_vars
    PROVE  [Billing!Next]_(Billing!vars)
<1> USE DEF store, chain
<1>1. ASSUME NEW u \in Usage, recordUsage(u) PROVE Billing!Next
  <2>1. Billing!Accept(u)
    BY <1>1 DEF recordUsage, Charged, Billing!Accept
  <2> QED
    BY <2>1 DEF Billing!Next
<1>2. ASSUME NEW r \in Runs, charge_lands(r) \/ charge_ack_lost(r)
      PROVE  Billing!Next
  <2>1. \E ids \in SUBSET Usage : Billing!Charge(ids)
    BY <1>2, ChargeRefines DEF charge_lands, charge_ack_lost, At
  <2> QED
    BY <2>1 DEF Billing!Next
<1>3. ASSUME NEW r \in Runs, recover_mark(r) \/ commit_mark(r)
      PROVE  Billing!Next
  BY <1>3, MarksRefine DEF Billing!Next
<1>4. ASSUME NEW r \in Runs, SettleStep(r)
      PROVE  \/ charge_lands(r)
             \/ recover_mark(r) \/ commit_mark(r)
             \/ UNCHANGED <<recorded, billed, landed, mandate>>
  BY <1>4 DEF SettleStep, flushOne, recoverOrphan, recover_backfill,
              read_unbilled, read_mandate, read_account, charge_aborts,
              commit_journal
<1>5. ASSUME NEW r \in Runs, Fault(r)
      PROVE  \/ charge_ack_lost(r)
             \/ UNCHANGED <<recorded, billed, landed, mandate>>
  BY <1>5 DEF Fault, charge_fails, commit_fails, settle_throws
<1>6. ASSUME NEW r \in Runs, flush(r)
      PROVE  UNCHANGED <<recorded, billed, landed, mandate>>
  BY <1>6 DEF flush
<1>7. CASE crash
  <2>1. CASE UNCHANGED <<landed, mandate, balance>>
    BY <1>7, <2>1, StuttersRefine DEF crash
  <2>2. CASE \E r \in Runs : At(r, "submit") /\ charge_metered(Tx(r))
    <3>1. \E ids \in SUBSET Usage : Billing!Charge(ids)
      BY <1>7, <2>2, ChargeRefines DEF crash, At
    <3> QED
      BY <3>1 DEF Billing!Next
  <2> QED
    BY <1>7, <2>1, <2>2 DEF crash
<1>8. CASE restart \/ outage_ends
  BY <1>8, StuttersRefine DEF restart, outage_ends
<1>9. CASE land_late
  BY <1>9 DEF land_late, IInv
<1>10. CASE time_passes \/ window_elapses \/ Subscriber
  <2>1. UNCHANGED <<recorded, billed, landed>>
    BY <1>10 DEF time_passes, window_elapses, Subscriber, subscriber_deposits,
         subscriber_withdraws, subscriber_pauses, subscriber_resumes,
         subscriber_revokes, Environment
  <2>2. mandate'.spent = mandate.spent
    <3>1. CASE time_passes
      BY <3>1 DEF time_passes, IInv, Shape
    <3>2. CASE window_elapses
      BY <3>2 DEF window_elapses, IInv, Shape
    <3>3. CASE Subscriber
      BY <3>3 DEF Subscriber, subscriber_deposits, subscriber_withdraws,
           subscriber_pauses, subscriber_resumes, subscriber_revokes, IInv,
           Shape
    <3> QED
      BY <1>10, <3>1, <3>2, <3>3
  <2> QED
    BY <2>1, <2>2, StuttersRefine
<1>11. CASE UNCHANGED vars
  BY <1>11, StuttersRefine DEF vars
<1>12. ASSUME UNCHANGED <<recorded, billed, landed, mandate>>
       PROVE  UNCHANGED Billing!vars
  BY <1>12, StuttersRefine
<1> QED
  BY <1>1, <1>2, <1>3, <1>4, <1>5, <1>6, <1>7, <1>8, <1>9, <1>10, <1>11,
     <1>12 DEF Next

\* The biller, step by step, is metered billing as UsageBilling states it:
\* each record accepted once, charged at most once and within the budget, and
\* booked only after it was charged.
THEOREM BillingImplemented == ~LateLanding => (Spec => ImplementsBilling)
<1> SUFFICES ASSUME ~LateLanding PROVE Spec => ImplementsBilling
  OBVIOUS
<1>1. Init => Billing!Init
  <2> SUFFICES ASSUME Init PROVE Billing!Init
    OBVIOUS
  <2>1. Charged = {} /\ mandate.spent = 0 /\ recorded = {} /\ billed = {}
    BY DEF Init, Charged
  <2> QED
    BY <2>1 DEF Billing!Init
<1>2. IInv /\ [Next]_vars => [Billing!Next]_(Billing!vars)
  BY StepRefines
<1>3. Spec => []IInv
  BY Invariant
<1> QED
  BY <1>1, <1>2, <1>3, PTL DEF Spec, ImplementsBilling, Billing!Spec

-----------------------------------------------------------------------------
(* The ledger when transactions may land late.  None of the above holds    *)
(* then; what is left is that the ledger never counts more than the chain. *)
(* The chain only grows, so what a run saw on it stays true; only the run  *)
(* that holds the mandate's chain in flushOne writes charged entries; and  *)
(* the number it writes was not booked when it looked.                     *)

LateKnows(r) ==
    LET l == loc[r] IN
    /\ l.rows \subseteq recorded
    /\ l.batch \subseteq recorded
    /\ l.pc \in {"mark", "backfill"} =>
          /\ l.orphans # {}
          /\ l.orphans \subseteq Orphans
    /\ l.pc \in {"commit", "journal"} =>
          /\ l.seq < Len(landed)
          /\ \A i \in DOMAIN ledger : ledger[i].seq # l.seq + 1

LateInv ==
    /\ LedgerCountsCharges
    /\ IsFiniteSet(recorded)
    /\ OneAtATime
    /\ \A tx \in pending : tx.ids \subseteq recorded
    /\ \A r \in Runs : LateKnows(r)

\* What the records of a transaction cost.
LEMMA SumOfRecords ==
    ASSUME NEW ids \in SUBSET Usage, IsFiniteSet(ids)
    PROVE  Sum(ids) \in Int
<1>1. \A u \in ids : AmountOf[u] \in Int
  BY BillerAssumption
<1>2. SumFunctionOnSet(AmountOf, ids) \in Int
  BY <1>1, SumInt
<1> QED BY <1>2 DEF Sum, MapThenSumSet, SumFunctionOnSet, FoldFunctionOnSet

\* A mandate is typed when its fields are.
LEMMA MandateTyped ==
    ASSUME NEW spent \in Int, NEW windowSpent \in Int, NEW over \in BOOLEAN,
           NEW status \in {"ACTIVE", "PAUSED", "REVOKED"}, NEW phase \in Phase
    PROVE  [spent |-> spent, window_spent |-> windowSpent, window_over |-> over,
            status |-> status, phase |-> phase]
             \in [spent : Int, window_spent : Int, window_over : BOOLEAN,
                  status : {"ACTIVE", "PAUSED", "REVOKED"}, phase : Phase]
OBVIOUS

\* At the start there is nothing.
LEMMA LateInit == Init => LateInv
<1> SUFFICES ASSUME Init PROVE LateInv
  OBVIOUS
<1>1. Idle \in Local
  BY BillerAssumption DEF Idle, Local, Phase
<1>2. loc \in [Runs -> Local]
  BY <1>1 DEF Init
<1>3. mandate \in [spent : Int, window_spent : Int, window_over : BOOLEAN,
                   status : {"ACTIVE", "PAUSED", "REVOKED"}, phase : Phase]
  <2>1. /\ mandate = [spent |-> 0, window_spent |-> 0, window_over |-> FALSE,
                      status |-> "ACTIVE", phase |-> mandate.phase]
        /\ mandate.phase \in Phase
    BY DEF Init, Phase
  <2>2. PICK phase \in Phase : phase = mandate.phase
    BY <2>1
  <2>3. [spent |-> 0, window_spent |-> 0, window_over |-> FALSE,
         status |-> "ACTIVE", phase |-> phase]
           \in [spent : Int, window_spent : Int, window_over : BOOLEAN,
                status : {"ACTIVE", "PAUSED", "REVOKED"}, phase : Phase]
    OBVIOUS
  <2> QED BY <2>1, <2>2, <2>3
<1>4. DOMAIN lastSubmit = {}
  BY DEF Init
<1>5. TypeOK
  BY <1>2, <1>3, <1>4 DEF Init, TypeOK
<1>6. LedgerCountsCharges
  BY <1>5 DEF Init, LedgerCountsCharges
<1>7. OneAtATime /\ \A r \in Runs : LateKnows(r)
  BY DEF Init, Idle, OneAtATime, Active, LateKnows
<1>8. IsFiniteSet(recorded) /\ \A tx \in pending : tx.ids \subseteq recorded
  BY FS_EmptySet DEF Init
<1> QED BY <1>6, <1>7, <1>8 DEF LateInv

\* A run moves: only one that holds the mandate's chain, or comes to hold it
\* when nobody does, is active afterwards.
LEMMA RunMoves ==
    ASSUME LateInv, NEW r \in Runs, NEW new \in Local, Set(r, new),
           Active(r) \/ (\A q \in Runs \ {r} : ~Active(q))
                     \/ new.pc \in {"idle", "queued"}
    PROVE  /\ loc' \in [Runs -> Local]
           /\ loc'[r] = new
           /\ \A q \in Runs \ {r} : loc'[q] = loc[q]
           /\ OneAtATime'
<1>1. loc \in [Runs -> Local]
  BY DEF LateInv, LedgerCountsCharges, TypeOK
<1>2. /\ loc' \in [Runs -> Local]
      /\ loc'[r] = new
      /\ \A q \in Runs \ {r} : loc'[q] = loc[q]
  BY <1>1 DEF Set
<1> QED BY <1>2 DEF LateInv, OneAtATime, Active

\* What a run knows stays true while the chain and the store grow and the
\* ledger stays.
LEMMA KnowledgeStays ==
    ASSUME LateInv, NEW q \in Runs, loc'[q] = loc[q],
           ledger' = ledger,
           recorded \subseteq recorded',
           DOMAIN lastSubmit \subseteq DOMAIN lastSubmit',
           Len(landed) <= Len(landed'), Len(landed') \in Nat
    PROVE  LateKnows(q)'
<1>1. LateKnows(q)
  BY DEF LateInv
<1>2. loc[q].seq \in Nat /\ loc[q].orphans \subseteq Nat /\ Len(landed) \in Nat
  BY DEF LateInv, LedgerCountsCharges, TypeOK, Local
<1>3. Orphans \cap Nat \subseteq Orphans'
  BY <1>2 DEF Orphans, Unsettled, chargeSeq
<1> QED BY <1>1, <1>2, <1>3 DEF LateKnows

\* A run outside the mandate's chain knows nothing of the ledger.
LEMMA OutsiderKnows ==
    ASSUME LateInv, NEW q \in Runs, loc'[q] = loc[q], ~Active(q),
           recorded \subseteq recorded'
    PROVE  LateKnows(q)'
BY DEF LateInv, LateKnows, Active

\* The typed parts of the state.
StoreOK ==
    /\ recorded \in SUBSET Usage
    /\ billed \in SUBSET Usage
    /\ DOMAIN lastSubmit \subseteq Nat
    /\ \A s \in DOMAIN lastSubmit : lastSubmit[s] \in SUBSET Usage
    /\ ledger \in Seq(Entry)
ChainOK ==
    /\ landed \in Seq(SUBSET Usage)
    /\ mandate \in [spent : Int, window_spent : Int, window_over : BOOLEAN,
                    status : {"ACTIVE", "PAUSED", "REVOKED"}, phase : Phase]
    /\ balance \in Int
ProcOK ==
    /\ up \in BOOLEAN
    /\ outage \in BOOLEAN
    /\ alarms \subseteq {"error", "commit"}
PendingOK ==
    /\ pending \subseteq Entry
    /\ \A tx \in pending : tx.ids \subseteq recorded

\* A charge goes through: one more on the chain, and nothing else lost.
LEMMA LateCharge ==
    ASSUME LateInv, NEW tx \in Entry, tx.ids \subseteq recorded,
           charge_metered(tx)
    PROVE  /\ ChainOK'
           /\ Len(landed) \in Nat
           /\ Len(landed') = Len(landed) + 1
           /\ tx.seq = Len(landed)
<1>1. TypeOK /\ IsFiniteSet(recorded)
  BY DEF LateInv, LedgerCountsCharges
<1>2. tx.ids \in SUBSET Usage /\ IsFiniteSet(tx.ids)
  BY <1>1, FS_Subset DEF Entry
<1>3. Sum(tx.ids) \in Int
  BY <1>2, SumOfRecords
<1>4. landed' = Append(landed, tx.ids) /\ tx.seq = Len(landed)
  BY DEF charge_metered, AbortCode, chargeSeq
<1>5. /\ landed' \in Seq(SUBSET Usage)
      /\ Len(landed') = Len(landed) + 1
      /\ Len(landed) \in Nat
  BY <1>1, <1>2, <1>4 DEF TypeOK
<1> DEFINE amount == Sum(tx.ids)
<1> HIDE DEF amount
<1>6. mandate' = [mandate EXCEPT
                     !.spent = @ + amount,
                     !.window_spent = amount +
                        IF mandate.window_over THEN 0 ELSE @,
                     !.window_over = FALSE]
      /\ balance' = balance - amount
      /\ amount \in Int
  BY <1>3 DEF charge_metered, amount
<1>7. /\ mandate.spent \in Int /\ mandate.window_spent \in Int
      /\ mandate.status \in {"ACTIVE", "PAUSED", "REVOKED"}
      /\ mandate.phase \in Phase /\ balance \in Int
      /\ mandate = [spent |-> mandate.spent,
                    window_spent |-> mandate.window_spent,
                    window_over |-> mandate.window_over,
                    status |-> mandate.status, phase |-> mandate.phase]
  BY <1>1 DEF TypeOK
<1> DEFINE before == IF mandate.window_over THEN 0 ELSE mandate.window_spent
<1>8. before \in Int
  BY <1>7
<1> PICK spent : spent = mandate.spent + amount
  OBVIOUS
<1> PICK windowSpent : windowSpent = amount + before
  OBVIOUS
<1> PICK status : status = mandate.status
  OBVIOUS
<1> PICK phase : phase = mandate.phase
  OBVIOUS
<1>9. mandate' = [spent |-> spent, window_spent |-> windowSpent,
                  window_over |-> FALSE, status |-> status, phase |-> phase]
  BY <1>6, <1>7
<1> HIDE DEF before
<1>10. spent \in Int /\ windowSpent \in Int /\ balance' \in Int
  BY <1>6, <1>7, <1>8
<1>11. [spent |-> spent, window_spent |-> windowSpent, window_over |-> FALSE,
        status |-> status, phase |-> phase]
           \in [spent : Int, window_spent : Int, window_over : BOOLEAN,
                status : {"ACTIVE", "PAUSED", "REVOKED"}, phase : Phase]
  BY <1>7, <1>10
<1>12. mandate' \in [spent : Int, window_spent : Int, window_over : BOOLEAN,
                     status : {"ACTIVE", "PAUSED", "REVOKED"}, phase : Phase]
  BY <1>9, <1>11
<1> QED BY <1>4, <1>5, <1>10, <1>12 DEF ChainOK

\* A step that books nothing: the chain may grow, the ledger stays.
LEMMA NoBooking ==
    ASSUME LateInv, StoreOK', ChainOK', ProcOK', PendingOK',
           loc' \in [Runs -> Local],
           ledger' = ledger, Len(landed) <= Len(landed'),
           IsFiniteSet(recorded'),
           OneAtATime',
           \A r \in Runs : LateKnows(r)'
    PROVE  LateInv'
<1>1. TypeOK'
  BY DEF TypeOK, StoreOK, ChainOK, ProcOK, PendingOK
<1>2. Len(landed) \in Nat /\ Len(landed') \in Nat
  BY <1>1 DEF LateInv, LedgerCountsCharges, TypeOK
<1>3. ASSUME NEW i \in DOMAIN ledger
      PROVE  ledger[i].seq \in 1 .. Len(landed')
  BY <1>2 DEF LateInv, LedgerCountsCharges
<1>4. LedgerCountsCharges'
  BY <1>1, <1>3 DEF LateInv, LedgerCountsCharges
<1> QED BY <1>4 DEF LateInv, PendingOK

\* A run moves and books nothing.
LEMMA LateMoves ==
    ASSUME LateInv, NEW r \in Runs, NEW new \in Local, Set(r, new),
           Active(r) \/ (\A q \in Runs \ {r} : ~Active(q))
                     \/ new.pc \in {"idle", "queued"},
           StoreOK', ChainOK', ProcOK', PendingOK',
           recorded' = recorded, ledger' = ledger,
           DOMAIN lastSubmit \subseteq DOMAIN lastSubmit',
           Len(landed) <= Len(landed'),
           LateKnows(r)'
    PROVE  LateInv'
<1>1. /\ loc' \in [Runs -> Local]
      /\ \A q \in Runs \ {r} : loc'[q] = loc[q]
      /\ OneAtATime'
  BY RunMoves
<1>2. Len(landed') \in Nat
  BY DEF ChainOK
<1>3. ASSUME NEW q \in Runs \ {r} PROVE LateKnows(q)'
  BY <1>1, <1>2, KnowledgeStays
<1> QED BY <1>1, <1>3, NoBooking DEF LateInv

\* What the state says of its types.
LEMMA LateTypes ==
    ASSUME LateInv
    PROVE  /\ StoreOK /\ ChainOK /\ ProcOK /\ PendingOK
           /\ \A r \in Runs : loc[r] \in Local
           /\ Len(landed) \in Nat
BY DEF LateInv, LedgerCountsCharges, TypeOK, StoreOK, ChainOK, ProcOK, PendingOK

\* The end of an attempt or of a settle.
LEMMA LateAttemptEnds ==
    ASSUME LateInv, NEW r \in Runs, NEW failure \in {"none", "error", "commit"},
           Return(r) \/ NextAttempt(r, failure)
    PROVE  /\ \E new \in Local :
                 /\ Set(r, new)
                 /\ new.pc \in {"idle", "recover"}
                 /\ new.rows = {}
                 /\ new.batch = {}
           /\ alarms' \subseteq {"error", "commit"}
<1>1. Idle \in Local /\ Idle.pc = "idle" /\ Idle.rows = {} /\ Idle.batch = {}
  BY BillerAssumption DEF Idle, Local, Phase
<1> DEFINE view == loc[r].view
           attempt == loc[r].attempt + 1
           again == [Idle EXCEPT !.pc = "recover", !.view = view,
                                 !.attempt = attempt, !.failure = failure]
<1>2. /\ loc[r].view \in [phase : Phase, window_over : BOOLEAN]
      /\ loc[r].attempt \in 0 .. MaxRetries
      /\ alarms \subseteq {"error", "commit"}
  BY LateTypes DEF Local, ProcOK
<1>3. CASE Set(r, Idle) /\ alarms' \subseteq {"error", "commit"}
  BY <1>1, <1>3
<1>4. CASE loc[r].attempt < MaxRetries /\ Set(r, again) /\ UNCHANGED alarms
  <2>1. attempt \in 0 .. MaxRetries
    BY <1>2, <1>4, BillerAssumption
  <2> HIDE DEF attempt, view
  <2>2. view \in [phase : Phase, window_over : BOOLEAN]
    BY <1>2 DEF view
  <2>3. again \in Local /\ again.pc = "recover" /\ again.rows = {}
        /\ again.batch = {}
    BY <1>1, <2>1, <2>2 DEF Local
  <2> HIDE DEF again
  <2> QED BY <1>2, <1>4, <2>3
<1> QED BY <1>2, <1>3, <1>4 DEF Return, NextAttempt

\* An attempt or a settle ends; the chain may have grown.
LEMMA LateEnds ==
    ASSUME LateInv, NEW r \in Runs, Active(r),
           NEW failure \in {"none", "error", "commit"},
           Return(r) \/ NextAttempt(r, failure),
           UNCHANGED <<store, proc>>, ChainOK', PendingOK',
           Len(landed) <= Len(landed')
    PROVE  LateInv'
<1>1. PICK new \in Local : /\ Set(r, new)
                           /\ new.pc \in {"idle", "recover"}
                           /\ new.rows = {}
                           /\ new.batch = {}
  BY LateAttemptEnds
<1>2. alarms' \subseteq {"error", "commit"}
  BY LateAttemptEnds
<1>3. loc'[r] = new
  BY <1>1, RunMoves
<1>4. LateKnows(r)'
  BY <1>1, <1>3 DEF LateKnows
<1>5. StoreOK' /\ ProcOK'
  BY <1>2, LateTypes DEF StoreOK, ProcOK, store, proc
<1> QED BY <1>1, <1>4, <1>5, LateMoves DEF store

\* A run moves and nothing else does, but for the alarms.
LEMMA LateQuiet ==
    ASSUME LateInv, NEW r \in Runs, NEW new \in Local, Set(r, new),
           Active(r) \/ (\A q \in Runs \ {r} : ~Active(q))
                     \/ new.pc \in {"idle", "queued"},
           UNCHANGED <<store, chain, proc, alarms>>,
           LateKnows(r)'
    PROVE  LateInv'
<1>1. StoreOK' /\ ChainOK' /\ ProcOK' /\ PendingOK'
  BY LateTypes DEF StoreOK, ChainOK, ProcOK, PendingOK, store, chain, proc
<1>2. Len(landed) <= Len(landed')
  BY LateTypes DEF chain
<1> QED BY <1>1, <1>2, LateMoves DEF store

-----------------------------------------------------------------------------
\* A record is taken in.
LEMMA LateRecord ==
    ASSUME LateInv, NEW u \in Usage, recordUsage(u)
    PROVE  LateInv'
<1> USE DEF recordUsage, chain, proc
<1>1. StoreOK' /\ ChainOK' /\ ProcOK' /\ PendingOK'
  BY LateTypes DEF StoreOK, ChainOK, ProcOK, PendingOK
<1>2. IsFiniteSet(recorded')
  BY FS_AddElement DEF LateInv
<1>3. loc' \in [Runs -> Local] /\ OneAtATime' /\ Len(landed) <= Len(landed')
      /\ Len(landed') \in Nat
  BY LateTypes DEF LateInv, LedgerCountsCharges, TypeOK, OneAtATime, Active
<1>4. ASSUME NEW q \in Runs PROVE LateKnows(q)'
  BY <1>3, KnowledgeStays
<1> QED BY <1>1, <1>2, <1>3, <1>4, NoBooking

\* The chain changes under the runs, or the process does, but no run moves and
\* nothing is written to the store.
LEMMA LateOutside ==
    ASSUME LateInv, UNCHANGED <<store, loc>>, ChainOK', ProcOK', PendingOK',
           Len(landed) <= Len(landed')
    PROVE  LateInv'
<1>1. StoreOK' /\ IsFiniteSet(recorded')
  BY LateTypes DEF StoreOK, store, LateInv
<1>2. loc' \in [Runs -> Local] /\ OneAtATime' /\ Len(landed') \in Nat
  BY DEF LateInv, LedgerCountsCharges, TypeOK, OneAtATime, Active, ChainOK
<1>3. ASSUME NEW q \in Runs PROVE LateKnows(q)'
  BY <1>2, KnowledgeStays DEF store
<1> QED BY <1>1, <1>2, <1>3, NoBooking DEF store

\* Time and the subscriber.
LEMMA LateEnvironment ==
    ASSUME LateInv, time_passes \/ window_elapses \/ Subscriber
    PROVE  LateInv'
<1>1. Environment
  BY DEF time_passes, window_elapses, Subscriber, subscriber_deposits,
         subscriber_withdraws, subscriber_pauses, subscriber_resumes,
         subscriber_revokes
<1>2. ChainOK /\ Len(landed) \in Nat
  BY LateTypes
<1>3. ChainOK'
  <2> USE DEF ChainOK, Phase
  <2>1. CASE time_passes
    BY <1>1, <1>2, <2>1 DEF time_passes, Environment
  <2>2. CASE window_elapses
    BY <1>1, <1>2, <2>2 DEF window_elapses, Environment
  <2>3. CASE subscriber_deposits
    BY <1>1, <1>2, <2>3, BillerAssumption DEF subscriber_deposits, Environment
  <2>4. CASE subscriber_withdraws
    BY <1>1, <1>2, <2>4 DEF subscriber_withdraws, Environment
  <2>5. CASE subscriber_pauses
    BY <1>1, <1>2, <2>5 DEF subscriber_pauses, Environment
  <2>6. CASE subscriber_resumes
    <3>1. mandate' = [spent |-> mandate.spent, window_spent |-> 0,
                      window_over |-> FALSE, status |-> "ACTIVE",
                      phase |-> mandate.phase]
      BY <1>2, <2>6 DEF subscriber_resumes
    <3>2. mandate.spent \in Int /\ mandate.phase \in Phase
      BY <1>2
    <3>3. mandate' \in [spent : Int, window_spent : Int, window_over : BOOLEAN,
                        status : {"ACTIVE", "PAUSED", "REVOKED"},
                        phase : Phase]
      BY <3>1, <3>2, MandateTyped
    <3> QED BY <1>1, <1>2, <2>6, <3>3 DEF subscriber_resumes, Environment
  <2>7. CASE subscriber_revokes
    BY <1>1, <1>2, <2>7 DEF subscriber_revokes, Environment
  <2> QED BY <2>1, <2>2, <2>3, <2>4, <2>5, <2>6, <2>7 DEF Subscriber
<1>4. ProcOK' /\ PendingOK'
  BY <1>1, LateTypes DEF ProcOK, PendingOK, Environment, proc, store
<1> QED BY <1>1, <1>2, <1>3, <1>4, LateOutside DEF Environment

\* The process comes back, or the outage ends.
LEMMA LateProcess ==
    ASSUME LateInv, restart \/ outage_ends
    PROVE  LateInv'
<1>1. UNCHANGED <<store, chain, loc, alarms>>
  BY DEF restart, outage_ends
<1>2. up' \in BOOLEAN /\ outage' \in BOOLEAN
  BY LateTypes DEF restart, outage_ends, ProcOK
<1>3. ChainOK' /\ PendingOK' /\ Len(landed) <= Len(landed')
  BY <1>1, LateTypes DEF ChainOK, PendingOK, chain, store
<1>4. ProcOK'
  BY <1>1, <1>2, LateTypes DEF ProcOK
<1> QED BY <1>1, <1>3, <1>4, LateOutside

\* A late transaction lands or is dropped.
LEMMA LateLands ==
    ASSUME LateInv, land_late
    PROVE  LateInv'
<1>1. PICK tx \in pending :
        /\ pending' = pending \ {tx}
        /\ \/ charge_metered(tx)
           \/ UNCHANGED <<landed, mandate, balance>>
        /\ UNCHANGED <<store, proc, loc, alarms>>
  BY DEF land_late
<1>2. tx \in Entry /\ tx.ids \subseteq recorded
  BY LateTypes DEF PendingOK
<1>3. PendingOK' /\ ProcOK'
  BY <1>1, LateTypes DEF PendingOK, ProcOK, proc, store
<1>4. ChainOK' /\ Len(landed) <= Len(landed')
  <2>1. CASE charge_metered(tx)
    BY <1>2, <2>1, LateCharge
  <2>2. CASE UNCHANGED <<landed, mandate, balance>>
    BY <2>2, LateTypes DEF ChainOK
  <2> QED BY <1>1, <2>1, <2>2
<1> QED BY <1>1, <1>3, <1>4, LateOutside

-----------------------------------------------------------------------------
\* flush and flushOne.
LEMMA LateFlush ==
    ASSUME LateInv, NEW r \in Runs, flush(r)
    PROVE  LateInv'
<1>1. PICK view \in Views(mandate.phase, mandate.window_over) :
         Set(r, [Idle EXCEPT !.pc = "queued", !.view = view])
  BY DEF flush
<1>2. mandate.phase \in Phase /\ mandate.window_over \in BOOLEAN
  BY LateTypes DEF ChainOK
<1>3. view \in [phase : Phase, window_over : BOOLEAN]
  <2>1. PICK p \in Phase, w \in {mandate.window_over, TRUE} :
           view = [phase |-> p, window_over |-> w]
    BY <1>2 DEF Views, Phase
  <2>2. w \in BOOLEAN
    BY <1>2
  <2> QED BY <2>1, <2>2
<1> PICK new : new = [Idle EXCEPT !.pc = "queued", !.view = view]
  OBVIOUS
<1>4. new \in Local /\ new.pc = "queued" /\ new.rows = {} /\ new.batch = {}
  <2>1. Idle \in Local /\ Idle.rows = {} /\ Idle.batch = {}
    BY BillerAssumption DEF Idle, Local, Phase
  <2> QED BY <1>3, <2>1 DEF Local
<1>5. loc'[r] = new
  BY <1>1, <1>4, RunMoves
<1>6. LateKnows(r)'
  BY <1>4, <1>5 DEF LateKnows
<1> QED BY <1>1, <1>4, <1>6, LateQuiet DEF flush

\* A settle gets its turn.
LEMMA LateFlushOne ==
    ASSUME LateInv, NEW r \in Runs, flushOne(r)
    PROVE  LateInv'
<1> PICK new : new = [loc[r] EXCEPT !.pc = "recover", !.attempt = 1]
  OBVIOUS
<1>1. new \in Local /\ new.pc = "recover" /\ new.rows = loc[r].rows
      /\ new.batch = loc[r].batch
  <2>1. 1 \in 0 .. MaxRetries
    BY BillerAssumption
  <2> QED BY <2>1, LateTypes DEF Local
<1>2. \A q \in Runs \ {r} : ~Active(q)
  BY DEF flushOne, Active
<1>3. Set(r, new)
  BY DEF flushOne
<1>4. loc'[r] = new
  BY <1>1, <1>2, <1>3, RunMoves
<1>5. LateKnows(r)'
  BY <1>1, <1>4 DEF LateKnows, LateInv, flushOne, store
<1> QED BY <1>1, <1>2, <1>3, <1>5, LateQuiet DEF flushOne

\* Orphans are looked for: submits nobody booked, of charges that landed.
LEMMA LateRecover ==
    ASSUME LateInv, NEW r \in Runs, recoverOrphan(r)
    PROVE  LateInv'
<1> DEFINE pc == IF Orphans = {} THEN "unbilled" ELSE "mark"
<1> PICK orphans : orphans = Orphans
  OBVIOUS
<1> PICK new : new = [loc[r] EXCEPT !.orphans = orphans, !.pc = pc]
  OBVIOUS
<1>1. orphans \in SUBSET Nat
  BY LateTypes DEF Orphans, Unsettled, StoreOK
<1>2. new \in Local /\ new.pc = pc /\ new.rows = loc[r].rows
      /\ new.batch = loc[r].batch /\ new.orphans = orphans
  BY <1>1, LateTypes, ZenonT(40) DEF Local
<1>3. Active(r) /\ Set(r, new)
  BY DEF recoverOrphan, At, Active
<1>4. loc'[r] = new
  BY <1>2, <1>3, RunMoves
<1>5. UNCHANGED <<store, chain, proc, alarms>>
  BY DEF recoverOrphan
<1>6. Orphans' = Orphans
  BY <1>5 DEF Orphans, Unsettled, chargeSeq, store, chain
<1>7. LateKnows(r)'
  BY <1>2, <1>4, <1>5, <1>6 DEF LateKnows, LateInv, store
<1> QED BY <1>2, <1>3, <1>5, <1>7, LateQuiet

\* The orphan taken is one of those found.
LEMMA OldestFound ==
    ASSUME LateInv, NEW r \in Runs, loc[r].pc \in {"mark", "backfill"}
    PROVE  /\ Oldest(r) \in loc[r].orphans
           /\ Oldest(r) \in DOMAIN lastSubmit
           /\ Oldest(r) \in 0 .. Len(landed) - 1
           /\ \A i \in DOMAIN ledger : ledger[i].seq # Oldest(r) + 1
           /\ lastSubmit[Oldest(r)] \in SUBSET Usage
<1>1. /\ loc[r].orphans # {} /\ loc[r].orphans \subseteq Orphans
      /\ loc[r].orphans \subseteq Nat
  BY LateTypes DEF LateInv, LateKnows, Local
<1>2. Oldest(r) \in loc[r].orphans
  BY <1>1, LeastNumber DEF Oldest
<1>3. Oldest(r) \in Orphans /\ Oldest(r) \in Nat
  BY <1>1, <1>2
<1> PICK n : n = Oldest(r)
  OBVIOUS
<1>4. n \in DOMAIN lastSubmit /\ n < Len(landed)
      /\ n \notin {ledger[i].seq - 1 : i \in DOMAIN ledger}
  BY <1>3 DEF Orphans, Unsettled, chargeSeq
<1>5. \A i \in DOMAIN ledger : ledger[i].seq # n + 1
  BY <1>3, <1>4
<1>6. n \in 0 .. Len(landed) - 1 /\ lastSubmit[n] \in SUBSET Usage
  BY <1>3, <1>4, LateTypes DEF StoreOK
<1> QED BY <1>2, <1>4, <1>5, <1>6

\* The orphan's records are marked.
LEMMA LateMark ==
    ASSUME LateInv, NEW r \in Runs, recover_mark(r)
    PROVE  LateInv'
<1> PICK new : new = [loc[r] EXCEPT !.pc = "backfill"]
  OBVIOUS
<1>1. new \in Local /\ new.pc = "backfill" /\ new.rows = loc[r].rows
      /\ new.batch = loc[r].batch /\ new.orphans = loc[r].orphans
  BY LateTypes DEF Local
<1>2. Active(r) /\ Set(r, new) /\ loc[r].pc = "mark"
  BY DEF recover_mark, Goto, At, Active
<1>3. loc'[r] = new
  BY <1>1, <1>2, RunMoves
<1>4. UNCHANGED <<recorded, lastSubmit, ledger, chain, proc, alarms>>
  BY DEF recover_mark
<1>5. StoreOK' /\ ChainOK' /\ ProcOK' /\ PendingOK'
      /\ Len(landed) <= Len(landed')
  BY <1>2, <1>4, OldestFound, LateTypes
     DEF recover_mark, StoreOK, ChainOK, ProcOK, PendingOK, chain, proc
<1>6. Orphans' = Orphans
  BY <1>4 DEF Orphans, Unsettled, chargeSeq, chain
<1>7. LateKnows(r)'
  BY <1>1, <1>2, <1>3, <1>4, <1>6 DEF LateKnows, LateInv
<1> QED BY <1>1, <1>2, <1>4, <1>5, <1>7, LateMoves

\* An entry is added to the ledger: of a charge that landed, not yet booked.
LEMMA LateBooks ==
    ASSUME LateInv, NEW r \in Runs, Active(r), NEW new \in Local, Set(r, new),
           NEW n \in 0 .. Len(landed) - 1, NEW ids \in SUBSET Usage,
           \A i \in DOMAIN ledger : ledger[i].seq # n + 1,
           ledger' = Append(ledger, [seq |-> n + 1, ids |-> ids]),
           UNCHANGED <<recorded, billed, lastSubmit, chain, proc>>,
           alarms' \subseteq {"error", "commit"},
           LateKnows(r)'
    PROVE  LateInv'
<1> USE DEF chain, proc
<1>1. ledger \in Seq(Entry) /\ Len(landed) \in Nat
  BY LateTypes DEF StoreOK
<1> PICK entry : entry = [seq |-> n + 1, ids |-> ids]
  OBVIOUS
<1>2. entry \in Entry /\ entry.seq = n + 1
  BY <1>1 DEF Entry
<1>3. /\ ledger' \in Seq(Entry)
      /\ Len(ledger') = Len(ledger) + 1
      /\ DOMAIN ledger = 1 .. Len(ledger) /\ Len(ledger) \in Nat
      /\ DOMAIN ledger' = 1 .. Len(ledger) + 1
      /\ ledger'[Len(ledger) + 1] = entry
      /\ \A i \in 1 .. Len(ledger) : ledger'[i] = ledger[i]
  BY <1>1, <1>2
<1>4. /\ loc' \in [Runs -> Local]
      /\ \A q \in Runs \ {r} : loc'[q] = loc[q]
      /\ OneAtATime'
  BY RunMoves
<1>5. TypeOK'
  BY <1>3, <1>4, LateTypes
     DEF TypeOK, StoreOK, ChainOK, ProcOK, PendingOK
<1>6. \A i \in DOMAIN ledger', j \in DOMAIN ledger' :
          i # j => ledger'[i].seq # ledger'[j].seq
  BY <1>2, <1>3 DEF LateInv, LedgerCountsCharges
<1>7. \A i \in DOMAIN ledger' : ledger'[i].seq \in 1 .. Len(landed)
  BY <1>1, <1>2, <1>3 DEF LateInv, LedgerCountsCharges
<1>8. LedgerCountsCharges'
  BY <1>5, <1>6, <1>7 DEF LedgerCountsCharges
<1>9. ASSUME NEW q \in Runs \ {r} PROVE LateKnows(q)'
  <2>1. ~Active(q)
    BY DEF LateInv, OneAtATime
  <2> QED BY <1>4, <2>1, OutsiderKnows
<1> QED BY <1>4, <1>8, <1>9 DEF LateInv

\* The orphan is booked, and is none any more.
LEMMA LateBackfill ==
    ASSUME LateInv, NEW r \in Runs, recover_backfill(r)
    PROVE  LateInv'
<1> PICK n : n = Oldest(r)
  OBVIOUS
<1> DEFINE left == loc[r].orphans \ {n}
           pc == IF left = {} THEN "unbilled" ELSE "mark"
<1> PICK new : new = [loc[r] EXCEPT !.orphans = left, !.pc = pc]
  OBVIOUS
<1>1. new \in Local /\ new.pc = pc /\ new.rows = loc[r].rows
      /\ new.batch = loc[r].batch /\ new.orphans = left
  BY LateTypes DEF Local
<1>2. Active(r) /\ Set(r, new) /\ loc[r].pc = "backfill"
  BY DEF recover_backfill, At, Active
<1>3. loc'[r] = new
  BY <1>1, <1>2, RunMoves
<1>4. /\ n \in 0 .. Len(landed) - 1 /\ lastSubmit[n] \in SUBSET Usage
      /\ \A i \in DOMAIN ledger : ledger[i].seq # n + 1
  BY <1>2, OldestFound
<1> DEFINE entry == [seq |-> n + 1, ids |-> lastSubmit[n]]
<1>5. /\ ledger' = Append(ledger, entry)
      /\ UNCHANGED <<recorded, billed, lastSubmit, chain, proc, alarms>>
  BY DEF recover_backfill
<1>6. \A k \in Orphans : k # n => k \in Orphans'
  <2>1. ledger \in Seq(Entry) /\ entry \in Entry /\ n \in Nat
    BY <1>4, LateTypes DEF StoreOK, Entry
  <2>2. entry.seq - 1 = n
    BY <2>1
  <2> HIDE DEF entry
  <2>3. \A i \in DOMAIN ledger' : \/ i \in DOMAIN ledger
                                     /\ ledger'[i] = ledger[i]
                                  \/ ledger'[i] = entry
    BY <1>5, <2>1
  <2> QED BY <1>5, <2>2, <2>3 DEF Orphans, Unsettled, chargeSeq, chain
<1>7. LateKnows(r)
  BY DEF LateInv
<1>8. LateKnows(r)'
  BY <1>1, <1>2, <1>3, <1>5, <1>6, <1>7 DEF LateKnows
<1>9. alarms' \subseteq {"error", "commit"}
  BY <1>5, LateTypes DEF ProcOK
<1> QED BY <1>2, <1>1, <1>4, <1>5, <1>8, <1>9, LateBooks

\* The charge's records are marked.
LEMMA LateCommitMark ==
    ASSUME LateInv, NEW r \in Runs, commit_mark(r)
    PROVE  LateInv'
<1> PICK new : new = [loc[r] EXCEPT !.pc = "journal"]
  OBVIOUS
<1>1. new \in Local /\ new.pc = "journal" /\ new.rows = loc[r].rows
      /\ new.batch = loc[r].batch /\ new.seq = loc[r].seq
      /\ loc[r].batch \in SUBSET Usage
  BY LateTypes DEF Local
<1>2. Active(r) /\ Set(r, new) /\ loc[r].pc = "commit"
  BY DEF commit_mark, Goto, At, Active
<1>3. loc'[r] = new
  BY <1>1, <1>2, RunMoves
<1>4. UNCHANGED <<recorded, lastSubmit, ledger, chain, proc, alarms>>
  BY DEF commit_mark
<1>5. StoreOK' /\ ChainOK' /\ ProcOK' /\ PendingOK'
      /\ Len(landed) <= Len(landed')
  BY <1>1, <1>4, LateTypes
     DEF commit_mark, StoreOK, ChainOK, ProcOK, PendingOK, chain, proc
<1>6. LateKnows(r)
  BY DEF LateInv
<1>7. LateKnows(r)'
  BY <1>1, <1>2, <1>3, <1>4, <1>6 DEF LateKnows, chain
<1> QED BY <1>1, <1>2, <1>4, <1>5, <1>7, LateMoves

\* commitCharge books the charge.
LEMMA LateCommitJournal ==
    ASSUME LateInv, NEW r \in Runs, commit_journal(r)
    PROVE  LateInv'
<1>1. Active(r) /\ loc[r].pc = "journal"
  BY DEF commit_journal, At, Active
<1>2. loc[r].failure \in {"none", "error", "commit"} /\ loc[r].seq \in Nat
      /\ loc[r].batch \in SUBSET Usage
  BY LateTypes DEF Local
<1>3. PICK new \in Local : /\ Set(r, new)
                           /\ new.pc \in {"idle", "recover"}
                           /\ new.rows = {}
                           /\ new.batch = {}
  BY <1>2, LateAttemptEnds DEF commit_journal
<1>4. alarms' \subseteq {"error", "commit"}
  BY <1>2, LateAttemptEnds DEF commit_journal
<1>5. loc'[r] = new
  BY <1>1, <1>3, RunMoves
<1>6. LateKnows(r)'
  BY <1>3, <1>5 DEF LateKnows
<1>7. loc[r].seq \in 0 .. Len(landed) - 1
      /\ \A i \in DOMAIN ledger : ledger[i].seq # loc[r].seq + 1
  BY <1>1, <1>2, LateTypes DEF LateInv, LateKnows
<1> QED BY <1>1, <1>2, <1>3, <1>4, <1>6, <1>7, LateBooks DEF commit_journal

-----------------------------------------------------------------------------
\* The unbilled records are read.
LEMMA LateUnbilled ==
    ASSUME LateInv, NEW r \in Runs, read_unbilled(r)
    PROVE  LateInv'
<1>1. Active(r) /\ UNCHANGED <<store, chain, proc>>
  BY DEF read_unbilled, At, Active
<1> PICK rows : rows = recorded \ billed
  OBVIOUS
<1> PICK new : new = [loc[r] EXCEPT !.rows = rows, !.pc = "mandate"]
  OBVIOUS
<1>2. CASE Return(r)
  <2>1. ChainOK' /\ PendingOK' /\ Len(landed) <= Len(landed')
    BY <1>1, LateTypes DEF ChainOK, PendingOK, chain, store
  <2> QED BY <1>1, <1>2, <2>1, LateEnds
<1>3. CASE Set(r, new) /\ UNCHANGED alarms
  <2>1. rows \in SUBSET Usage
    BY LateTypes DEF StoreOK
  <2>2. new \in Local /\ new.pc = "mandate" /\ new.rows = rows
        /\ new.batch = loc[r].batch
    BY <2>1, LateTypes DEF Local
  <2>3. loc'[r] = new
    BY <1>1, <1>3, <2>2, RunMoves
  <2>4. LateKnows(r)'
    BY <1>1, <2>2, <2>3 DEF LateKnows, LateInv, store
  <2> QED BY <1>1, <1>3, <2>2, <2>4, LateQuiet
<1> QED BY <1>2, <1>3 DEF read_unbilled

\* getMandate returns.
LEMMA LateMandate ==
    ASSUME LateInv, NEW r \in Runs, read_mandate(r)
    PROVE  LateInv'
<1>1. Active(r) /\ UNCHANGED <<store, chain, proc>>
  BY DEF read_mandate, At, Active
<1> DEFINE limit == spendable(loc[r].view)
<1> PICK new : new = [loc[r] EXCEPT !.limit = limit, !.seq = chargeSeq,
                                    !.pc = "account"]
  OBVIOUS
<1>2. CASE Return(r)
  <2>1. ChainOK' /\ PendingOK' /\ Len(landed) <= Len(landed')
    BY <1>1, LateTypes DEF ChainOK, PendingOK, chain, store
  <2> QED BY <1>1, <1>2, <2>1, LateEnds
<1>3. CASE Set(r, new) /\ UNCHANGED alarms
  <2>1. limit \in Int /\ chargeSeq \in Nat
    BY LateTypes, BillerAssumption DEF spendable, Min2, ChainOK, chargeSeq
  <2> HIDE DEF limit
  <2>2. new \in Local /\ new.pc = "account" /\ new.rows = loc[r].rows
        /\ new.batch = loc[r].batch
    BY <2>1, LateTypes DEF Local
  <2>3. loc'[r] = new
    BY <1>1, <1>3, <2>2, RunMoves
  <2>4. LateKnows(r)'
    BY <1>1, <2>2, <2>3 DEF LateKnows, LateInv, store
  <2> QED BY <1>1, <1>3, <2>2, <2>4, LateQuiet
<1> QED BY <1>2, <1>3 DEF read_mandate

\* getAccount returns, and the submit is recorded.
LEMMA LateAccount ==
    ASSUME LateInv, NEW r \in Runs, read_account(r)
    PROVE  LateInv'
<1>1. Active(r) /\ UNCHANGED <<recorded, billed, ledger, chain, proc>>
  BY DEF read_account, At, Active
<1>2. ChainOK' /\ PendingOK' /\ Len(landed) <= Len(landed')
  BY <1>1, LateTypes DEF ChainOK, PendingOK, chain
<1> PICK batch : batch = Batch(loc[r].rows, Min2(loc[r].limit, balance))
  OBVIOUS
<1> PICK seq : seq = loc[r].seq
  OBVIOUS
<1> PICK new : new = [loc[r] EXCEPT !.batch = batch, !.pc = "submit"]
  OBVIOUS
<1>3. CASE Return(r) /\ UNCHANGED lastSubmit
  BY <1>1, <1>2, <1>3, LateEnds DEF store
<1>4. CASE /\ lastSubmit' = [s \in DOMAIN lastSubmit \cup {seq} |->
                               IF s = seq THEN batch ELSE lastSubmit[s]]
           /\ Set(r, new)
           /\ UNCHANGED alarms
  <2>1. batch \subseteq loc[r].rows
    BY DEF Batch
  <2>2. batch \in SUBSET Usage /\ seq \in Nat
    BY <2>1, LateTypes DEF Local
  <2>3. new \in Local /\ new.pc = "submit" /\ new.rows = loc[r].rows
        /\ new.batch = batch
    BY <2>2, LateTypes DEF Local
  <2>4. loc'[r] = new
    BY <1>1, <1>4, <2>3, RunMoves
  <2>5. LateKnows(r)'
    BY <1>1, <2>1, <2>3, <2>4 DEF LateKnows, LateInv
  <2>6. /\ DOMAIN lastSubmit' = DOMAIN lastSubmit \cup {seq}
        /\ \A s \in DOMAIN lastSubmit' : lastSubmit'[s] \in SUBSET Usage
    BY <1>4, <2>2, LateTypes DEF StoreOK
  <2>7. StoreOK' /\ ProcOK'
    BY <1>1, <1>4, <2>2, <2>6, LateTypes DEF StoreOK, ProcOK, proc
  <2> QED BY <1>1, <1>2, <1>4, <2>3, <2>5, <2>6, <2>7, LateMoves
<1> QED BY <1>3, <1>4 DEF read_account

-----------------------------------------------------------------------------
\* What a run submits is a transaction of recorded usage.
LEMMA LateTx ==
    ASSUME LateInv, NEW r \in Runs
    PROVE  Tx(r) \in Entry /\ Tx(r).ids \subseteq recorded
BY LateTypes DEF LateInv, LateKnows, Tx, Entry, Local

\* Its charge lands, and is the newest: nobody booked its number.
LEMMA LateChargeLands ==
    ASSUME LateInv, NEW r \in Runs, charge_lands(r)
    PROVE  LateInv'
<1> PICK new : new = [loc[r] EXCEPT !.pc = "commit"]
  OBVIOUS
<1>1. new \in Local /\ new.pc = "commit" /\ new.rows = loc[r].rows
      /\ new.batch = loc[r].batch /\ new.seq = loc[r].seq
  BY LateTypes DEF Local
<1>2. Active(r) /\ Set(r, new)
      /\ UNCHANGED <<store, pending, proc, alarms>>
  BY DEF charge_lands, Goto, At, Active
<1>3. loc'[r] = new
  BY <1>1, <1>2, RunMoves
<1> PICK tx : tx = Tx(r)
  OBVIOUS
<1>4. /\ ChainOK' /\ Len(landed) \in Nat /\ Len(landed') = Len(landed) + 1
      /\ tx.seq = Len(landed)
  BY LateTx, LateCharge DEF charge_lands
<1>5. loc[r].seq = Len(landed)
  BY <1>4 DEF Tx
<1>6. \A i \in DOMAIN ledger : ledger[i].seq # loc[r].seq + 1
  BY <1>4, <1>5 DEF LateInv, LedgerCountsCharges
<1>7. LateKnows(r)'
  BY <1>1, <1>2, <1>3, <1>4, <1>5, <1>6 DEF LateKnows, LateInv, store
<1>8. StoreOK' /\ ProcOK' /\ PendingOK'
  BY <1>2, LateTypes DEF StoreOK, ProcOK, PendingOK, store, proc
<1>9. Len(landed) <= Len(landed')
  BY <1>4
<1> QED BY <1>1, <1>2, <1>4, <1>7, <1>8, <1>9, LateMoves DEF store

\* The charge aborts.
LEMMA LateChargeAborts ==
    ASSUME LateInv, NEW r \in Runs, charge_aborts(r)
    PROVE  LateInv'
<1>1. Active(r) /\ UNCHANGED <<store, chain, proc>>
  BY DEF charge_aborts, At, Active
<1>2. loc[r].failure \in {"none", "error", "commit"}
  BY LateTypes DEF Local
<1>3. \/ Return(r) \/ NextAttempt(r, loc[r].failure) \/ NextAttempt(r, "error")
  BY DEF charge_aborts
<1>4. ChainOK' /\ PendingOK' /\ Len(landed) <= Len(landed')
  BY <1>1, LateTypes DEF ChainOK, PendingOK, chain, store
<1>5. CASE Return(r)
  BY <1>1, <1>4, <1>5, LateEnds
<1>6. CASE NextAttempt(r, loc[r].failure)
  BY <1>1, <1>2, <1>4, <1>6, LateEnds
<1>7. CASE NextAttempt(r, "error")
  BY <1>1, <1>4, <1>7, LateEnds
<1> QED BY <1>3, <1>5, <1>6, <1>7

\* A lost ack, a failed call, a failing store, a failed read.
LEMMA LateFault ==
    ASSUME LateInv, NEW r \in Runs, Fault(r)
    PROVE  LateInv'
<1>1. Tx(r) \in Entry /\ Tx(r).ids \subseteq recorded
  BY LateTx
<1>2. CASE charge_ack_lost(r)
  <2>1. Active(r) /\ UNCHANGED <<store, pending, proc>>
        /\ NextAttempt(r, "error")
    BY <1>2 DEF charge_ack_lost, At, Active
  <2>2. ChainOK' /\ Len(landed) <= Len(landed')
    BY <1>1, <1>2, LateCharge DEF charge_ack_lost
  <2>3. PendingOK'
    BY <2>1, LateTypes DEF PendingOK, store
  <2> QED BY <2>1, <2>2, <2>3, LateEnds
<1>3. CASE charge_fails(r)
  <2>1. Active(r) /\ UNCHANGED <<store, landed, mandate, balance, proc>>
        /\ NextAttempt(r, "error") /\ pending' \subseteq pending \cup {Tx(r)}
    BY <1>3 DEF charge_fails, At, Active
  <2>2. ChainOK' /\ Len(landed) <= Len(landed')
    BY <2>1, LateTypes DEF ChainOK
  <2>3. PendingOK'
    BY <1>1, <2>1, LateTypes DEF PendingOK, store
  <2> QED BY <2>1, <2>2, <2>3, LateEnds
<1>4. CASE commit_fails(r)
  <2>1. Active(r) /\ UNCHANGED <<store, chain, proc>>
        /\ NextAttempt(r, "commit")
    BY <1>4 DEF commit_fails, At, Active
  <2>2. ChainOK' /\ PendingOK' /\ Len(landed) <= Len(landed')
    BY <2>1, LateTypes DEF ChainOK, PendingOK, chain, store
  <2> QED BY <2>1, <2>2, LateEnds
<1>5. CASE settle_throws(r)
  <2>1. Active(r) /\ UNCHANGED <<store, chain, proc>> /\ Return(r)
    BY <1>5 DEF settle_throws, At, Active
  <2>2. ChainOK' /\ PendingOK' /\ Len(landed) <= Len(landed')
    BY <2>1, LateTypes DEF ChainOK, PendingOK, chain, store
  <2> QED BY <2>1, <2>2, LateEnds
<1> QED BY <1>2, <1>3, <1>4, <1>5 DEF Fault

\* The process crashes: every settle is gone, and what was on its way may land.
LEMMA LateCrash ==
    ASSUME LateInv, crash
    PROVE  LateInv'
<1>1. loc' = [r \in Runs |-> Idle] /\ UNCHANGED <<store, outage, alarms>>
      /\ up' = FALSE
  BY DEF crash
<1>2. Idle \in Local /\ Idle.pc = "idle" /\ Idle.rows = {} /\ Idle.batch = {}
  BY BillerAssumption DEF Idle, Local, Phase
<1>3. loc' \in [Runs -> Local] /\ OneAtATime' /\ \A r \in Runs : LateKnows(r)'
  BY <1>1, <1>2 DEF OneAtATime, Active, LateKnows
<1>4. StoreOK' /\ ProcOK' /\ IsFiniteSet(recorded') /\ ledger' = ledger
  BY <1>1, LateTypes DEF StoreOK, ProcOK, store, LateInv
<1>5. PendingOK'
  <2>1. pending' \subseteq pending \cup {Tx(r) : r \in Runs}
    BY DEF crash
  <2> QED BY <1>1, <2>1, LateTx, LateTypes DEF PendingOK, store
<1>6. ChainOK' /\ Len(landed) <= Len(landed')
  <2>1. CASE UNCHANGED <<landed, mandate, balance>>
    BY <2>1, LateTypes DEF ChainOK
  <2>2. ASSUME NEW r \in Runs, charge_metered(Tx(r))
        PROVE  ChainOK' /\ Len(landed) <= Len(landed')
    BY <2>2, LateTx, LateCharge
  <2> QED BY <2>1, <2>2 DEF crash
<1> QED BY <1>3, <1>4, <1>5, <1>6, NoBooking

-----------------------------------------------------------------------------
\* Every step keeps it, late transactions or not.
LEMMA LateStep == LateInv /\ [Next]_vars => LateInv'
<1> SUFFICES ASSUME LateInv, [Next]_vars PROVE LateInv'
  OBVIOUS
<1>1. ASSUME NEW r \in Runs, SettleStep(r) PROVE LateInv'
  BY <1>1, LateFlushOne, LateRecover, LateMark, LateBackfill, LateUnbilled,
     LateMandate, LateAccount, LateChargeLands, LateChargeAborts,
     LateCommitMark, LateCommitJournal DEF SettleStep
<1>2. CASE UNCHANGED vars
  <2>1. UNCHANGED <<store, chain, proc, loc, alarms>>
    BY <1>2 DEF vars
  <2>2. ChainOK' /\ ProcOK' /\ PendingOK' /\ Len(landed) <= Len(landed')
    BY <2>1, LateTypes DEF ChainOK, ProcOK, PendingOK, store, chain, proc
  <2> QED BY <2>1, <2>2, LateOutside
<1> QED
  BY <1>1, <1>2, LateRecord, LateFlush, LateFault, LateCrash, LateProcess,
     LateLands, LateEnvironment DEF Next

\* Whatever fails, crashes or lands late, the journal's charged entries carry
\* distinct numbers of charges the chain has: commitCharge and recoverOrphan
\* never book a charge twice, and the drift reconcile reports is what they
\* have not booked yet.
THEOREM LedgerNeverOvercounts == Spec => []LedgerCountsCharges
<1>1. LateInv => LedgerCountsCharges
  BY DEF LateInv
<1> QED BY <1>1, LateInit, LateStep, PTL DEF Spec
=============================================================================
