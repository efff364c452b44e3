---------------------------- MODULE LeaseProofs ----------------------------
(***************************************************************************)
(* Theorems about Lease, for any number of processes and crashes and any   *)
(* times with Renew below Stale: a lock whose holder runs is not taken,    *)
(* and no other process frees it.                                          *)
(***************************************************************************)
EXTENDS Lease, TLAPS

\* A process that starts without acquiring, because it was closed before, does
\* not hold the lock.
ClosedHoldNothing == \A p \in Proc : Holds(p) => pc[p] # "idle" \/ ~ready[p]

\* When nobody stalls, the lock's heartbeat is as fresh as its holder's last
\* renewal.  A keeper's row is never renewed, and grows stale.
RunnersAreFresh ==
    Kind # "keeper" /\ ~deploy.stalls =>
        \A p \in Proc : Holds(p) /\ pc[p] = "run" => row.age <= quiet[p]

IInv == LeaseTypeOK /\ ClosedHoldNothing /\ RunnersAreFresh

\* The step of a process that leaves its pc, os and flags within their types
\* keeps every variable in its type.
LEMMA TypesOfProcesses ==
    ASSUME LeaseTypeOK, NEW p \in Proc, Step(p)
    PROVE  LeaseTypeOK'
<1>1. CASE AcquireRead(p)
  BY <1>1 DEF AcquireRead, LeaseTypeOK
<1>2. CASE AcquireWrite(p)
  <2>1. os[p] = "up"
    BY <1>2 DEF AcquireWrite, LeaseTypeOK
  <2> QED
    BY <1>2, <2>1, LeaseAssumption DEF AcquireWrite, LeaseTypeOK, RowAcquired, RowOf
<1>3. CASE RunAgain(p)
  BY <1>3, LeaseAssumption DEF RunAgain, LeaseTypeOK
<1>4. CASE Beat(p)
  <2>1. row' \in {row, RowOf(p)} /\ lost' \in [Proc -> BOOLEAN]
    BY <1>4, ZenonT(40) DEF Beat, RowRenewed, LeaseTypeOK
  <2>2. row' = NoRow \/ row' \in [holder : Proc, age : 0..Stale]
    BY <2>1, LeaseAssumption DEF RowOf, LeaseTypeOK
  <2>3. quiet' \in [Proc -> 0..Renew]
    BY <1>4, LeaseAssumption DEF Beat, LeaseTypeOK
  <2>4. UNCHANGED <<deploy, os, pc, ready, saw, stopped, crashes>>
    BY <1>4 DEF Beat
  <2> QED
    BY <2>1, <2>2, <2>3, <2>4 DEF LeaseTypeOK
<1>5. CASE BeatFails(p) \/ StandDown(p)
  BY <1>5 DEF BeatFails, StandDown, LeaseTypeOK, local
<1>6. CASE ServiceStop(p)
  BY <1>6 DEF ServiceStop, LeaseTypeOK, RowReleased
<1>7. CASE KeeperTick(p)
  BY <1>7, LeaseAssumption DEF KeeperTick, LeaseTypeOK, FileSaved, RowOf
<1>8. CASE KeeperAbort(p)
  BY <1>8 DEF KeeperAbort, LeaseTypeOK, local
<1>9. CASE Close(p)
  BY <1>9 DEF Close, LeaseTypeOK, FileReleased, RowReleased, local
<1>10. CASE Die(p)
  BY <1>10, LeaseAssumption DEF Die, Gone, LeaseTypeOK
<1>11. CASE Boot(p)
  BY <1>11 DEF Boot, LeaseTypeOK, local
<1>12. CASE PidReused(p)
  BY <1>12 DEF PidReused, LeaseTypeOK, local
<1> QED
  BY <1>1, <1>2, <1>3, <1>4, <1>5, <1>6, <1>7, <1>8, <1>9, <1>10, <1>11, <1>12
  DEF Step

LEMMA TypesOfTicks ==
    ASSUME LeaseTypeOK, Tick
    PROVE  LeaseTypeOK'
<1>1. row' = NoRow \/ row' \in [holder : Proc, age : 0..Stale]
  <2>1. CASE row = NoRow
    BY <2>1 DEF Tick
  <2>2. ASSUME NEW r \in [holder : Proc, age : 0..Stale]
        PROVE  [r EXCEPT !.age = Cap(@, Stale)] \in [holder : Proc, age : 0..Stale]
    BY LeaseAssumption DEF Cap
  <2> QED
    BY <2>1, <2>2 DEF Tick, LeaseTypeOK
<1>2. quiet' \in [Proc -> 0..Renew]
  <2>1. \A p \in Proc : (IF pc[p] = "run" THEN Cap(quiet[p], Renew) ELSE 0) \in 0..Renew
    <3> SUFFICES ASSUME NEW p \in Proc
                 PROVE  (IF pc[p] = "run" THEN Cap(quiet[p], Renew) ELSE 0) \in 0..Renew
      OBVIOUS
    <3>1. quiet[p] \in 0..Renew
      BY DEF LeaseTypeOK
    <3>2. Cap(quiet[p], Renew) \in 0..Renew
      BY <3>1, LeaseAssumption DEF Cap
    <3> QED
      BY <3>2, LeaseAssumption
  <2> QED
    BY <2>1 DEF Tick
<1> QED
  BY <1>1, <1>2 DEF Tick, LeaseTypeOK

\* Every variable has its type, and only a process that is up runs.
THEOREM LeaseTypes == LeaseSpec => []LeaseTypeOK
<1>1. LeaseInit => LeaseTypeOK
  BY LeaseAssumption DEF LeaseInit, LeaseTypeOK
<1>2. LeaseTypeOK /\ [LeaseNext]_lease => LeaseTypeOK'
  <2> SUFFICES ASSUME LeaseTypeOK, [LeaseNext]_lease PROVE LeaseTypeOK'
    OBVIOUS
  <2>1. CASE UNCHANGED lease
    BY <2>1 DEF lease, LeaseTypeOK
  <2> QED
    BY <2>1, TypesOfProcesses, TypesOfTicks DEF LeaseNext
<1> QED
  BY <1>1, <1>2, PTL DEF LeaseSpec

\* What each process does to a lock it does not hold: nothing, or it takes it,
\* or it frees it.
LEMMA LocksMove ==
    ASSUME LeaseTypeOK, NEW p \in Proc, Step(p)
    PROVE  /\ deploy' = deploy
           /\ \A q \in Proc \ {p} : /\ pc'[q] = pc[q] /\ ready'[q] = ready[q]
                                    /\ quiet'[q] = quiet[q]
           /\ row' \in {row, RowOf(p), NoRow}
<1>1. CASE AcquireRead(p)
  BY <1>1 DEF AcquireRead, LeaseTypeOK
<1>2. CASE AcquireWrite(p)
  BY <1>2 DEF AcquireWrite, LeaseTypeOK, RowAcquired
<1>3. CASE RunAgain(p)
  BY <1>3 DEF RunAgain, LeaseTypeOK
<1>4. CASE Beat(p)
  BY <1>4 DEF Beat, LeaseTypeOK, RowRenewed
<1>5. CASE BeatFails(p) \/ StandDown(p) \/ KeeperAbort(p)
  BY <1>5 DEF BeatFails, StandDown, KeeperAbort, LeaseTypeOK, local
<1>6. CASE ServiceStop(p)
  BY <1>6 DEF ServiceStop, LeaseTypeOK, RowReleased
<1>7. CASE KeeperTick(p)
  BY <1>7 DEF KeeperTick, LeaseTypeOK, FileSaved
<1>8. CASE Close(p)
  BY <1>8 DEF Close, LeaseTypeOK, FileReleased, RowReleased, local
<1>9. CASE Die(p)
  BY <1>9 DEF Die, Gone, LeaseTypeOK
<1>10. CASE Boot(p) \/ PidReused(p)
  BY <1>10 DEF Boot, PidReused, LeaseTypeOK, local
<1> QED
  BY <1>1, <1>2, <1>3, <1>4, <1>5, <1>6, <1>7, <1>8, <1>9, <1>10 DEF Step

\* The process itself, when it holds the lock after its step.
LEMMA HoldersMove ==
    ASSUME IInv, LeaseTypeOK', NEW p \in Proc, Step(p), Holds(p)'
    PROVE  /\ pc'[p] # "idle" \/ ~ready'[p]
           /\ Kind # "keeper" /\ ~deploy.stalls /\ pc'[p] = "run" => row'.age <= quiet'[p]
<1> USE DEF Holds
<1>1. CASE AcquireRead(p)
  BY <1>1 DEF AcquireRead, IInv, LeaseTypeOK, ClosedHoldNothing, RunnersAreFresh
<1>2. CASE AcquireWrite(p)
  BY <1>2 DEF AcquireWrite, IInv, LeaseTypeOK, RowAcquired, RowOf
<1>3. CASE RunAgain(p)
  BY <1>3 DEF RunAgain, IInv, LeaseTypeOK, ClosedHoldNothing
<1>4. CASE Beat(p)
  <2>1. row' = RowOf(p) /\ quiet'[p] = 0 /\ pc'[p] = "run"
    BY <1>4 DEF Beat, RowRenewed, IInv, LeaseTypeOK
  <2> QED
    BY <2>1 DEF RowOf
<1>5. CASE BeatFails(p)
  BY <1>5 DEF BeatFails, IInv, LeaseTypeOK, RunnersAreFresh, Runs, Holds
<1>11. CASE StandDown(p) \/ KeeperAbort(p)
  BY <1>11 DEF StandDown, KeeperAbort, IInv, LeaseTypeOK, local
<1>6. CASE ServiceStop(p)
  BY <1>6, LeaseAssumption DEF ServiceStop, RowReleased, IInv, NoRow
<1>7. CASE KeeperTick(p)
  <2>1. pc'[p] = "run"
    BY <1>7 DEF KeeperTick
  <2>2. CASE Kind = "file"
    BY <1>7, <2>1, <2>2 DEF KeeperTick, FileSaved, RowOf, IInv, LeaseTypeOK
  <2>3. CASE Kind = "keeper"
    BY <2>1, <2>3
  <2> QED
    <3>1. Kind \in {"biller", "keeper", "file"}
      BY LeaseAssumption DEF IInv, LeaseTypeOK, Kind
    <3> QED
      BY <1>7, <2>2, <2>3, <3>1 DEF KeeperTick
<1>8. CASE Close(p)
  BY <1>8, LeaseAssumption DEF Close, FileReleased, RowReleased, NoRow
<1>9. CASE Die(p)
  BY <1>9 DEF Die, Gone, IInv, LeaseTypeOK
<1>10. CASE Boot(p) \/ PidReused(p)
  BY <1>10 DEF Boot, PidReused, IInv, LeaseTypeOK, local, ClosedHoldNothing
<1> QED
  BY <1>1, <1>2, <1>3, <1>4, <1>5, <1>6, <1>7, <1>8, <1>9, <1>10, <1>11 DEF Step

LEMMA ProcessSteps ==
    ASSUME IInv, NEW p \in Proc, Step(p)
    PROVE  IInv'
<1>1. LeaseTypeOK'
  BY TypesOfProcesses DEF IInv
<1>2. /\ deploy' = deploy /\ Kind' = Kind
      /\ \A q \in Proc \ {p} : /\ pc'[q] = pc[q] /\ ready'[q] = ready[q]
                               /\ quiet'[q] = quiet[q]
      /\ row' \in {row, RowOf(p), NoRow}
  BY LocksMove DEF IInv, Kind
<1>3. ASSUME NEW q \in Proc \ {p}, Holds(q)' PROVE Holds(q) /\ row' = row
  BY <1>2, <1>3, LeaseAssumption DEF Holds, RowOf, NoRow
<1>4. ClosedHoldNothing'
  BY <1>1, <1>2, <1>3, HoldersMove DEF ClosedHoldNothing, IInv
<1>5. RunnersAreFresh'
  BY <1>1, <1>2, <1>3, HoldersMove DEF RunnersAreFresh, IInv
<1> QED
  BY <1>1, <1>4, <1>5 DEF IInv

LEMMA TickSteps ==
    ASSUME IInv, Tick
    PROVE  IInv'
<1>1. LeaseTypeOK'
  BY TypesOfTicks DEF IInv
<1>2. ASSUME NEW p \in Proc, Holds(p)'
      PROVE  Holds(p) /\ row'.age = Cap(row.age, Stale)
  BY <1>2 DEF Tick, Holds, IInv, LeaseTypeOK, NoRow
<1>3. ClosedHoldNothing'
  BY <1>2 DEF Tick, ClosedHoldNothing, IInv
<1>4. RunnersAreFresh'
  <2> SUFFICES ASSUME Kind # "keeper", ~deploy.stalls, NEW p \in Proc, Holds(p)', pc[p] = "run"
      PROVE  row'.age <= quiet'[p]
    BY DEF RunnersAreFresh, Tick, Kind
  <2>1. row.age <= quiet[p] /\ quiet[p] < Renew /\ quiet[p] \in 0..Renew /\ row.age \in 0..Stale
    BY <1>2, LeaseAssumption DEF IInv, RunnersAreFresh, Tick, LeaseTypeOK, NoRow
  <2>2. quiet'[p] = quiet[p] + 1
    BY <2>1 DEF Tick, Cap
  <2>3. row'.age = row.age + 1
    BY <1>2, <2>1, LeaseAssumption DEF Cap
  <2> QED
    BY <2>1, <2>2, <2>3
<1> QED
  BY <1>1, <1>3, <1>4 DEF IInv

\* The lock of a process that runs is as fresh as its last renewal.
THEOREM Invariant == LeaseSpec => []IInv
<1>1. LeaseInit => IInv
  <2>1. LeaseInit => LeaseTypeOK
    BY LeaseAssumption DEF LeaseInit, LeaseTypeOK
  <2>2. LeaseInit => ClosedHoldNothing /\ RunnersAreFresh
    BY DEF LeaseInit, ClosedHoldNothing, RunnersAreFresh, Holds
  <2> QED
    BY <2>1, <2>2 DEF IInv
<1>2. IInv /\ [LeaseNext]_lease => IInv'
  <2> SUFFICES ASSUME IInv, [LeaseNext]_lease PROVE IInv'
    OBVIOUS
  <2>1. CASE UNCHANGED lease
    BY <2>1 DEF lease, IInv, LeaseTypeOK, ClosedHoldNothing, RunnersAreFresh, Holds, Kind
  <2> QED
    BY <2>1, ProcessSteps, TickSteps DEF LeaseNext
<1> QED
  BY <1>1, <1>2, PTL DEF LeaseSpec

\* Without stalls, the read of acquireLock answers that the lock is held as
\* long as its holder runs, for the biller's row and for the lock file.
THEOREM LockRespected == LeaseSpec => LiveLockIsRespected
<1> DEFINE Respects(p, q) ==
        (/\ Kind # "keeper" /\ ~deploy.stalls
         /\ p # q /\ Holds(q) /\ Runs(q) /\ pc[p] = "idle")
        => pc'[p] # "insert"
<1>1. IInv /\ [LeaseNext]_lease => \A p, q \in Proc : Respects(p, q)
  <2> SUFFICES ASSUME IInv, [LeaseNext]_lease, NEW p \in Proc, NEW q \in Proc,
                      Kind # "keeper", ~deploy.stalls, p # q, Holds(q), Runs(q),
                      pc[p] = "idle"
      PROVE  pc'[p] # "insert"
    OBVIOUS
  <2>1. Held(p)
    <3>1. row.age < Stale
      BY LeaseAssumption DEF IInv, RunnersAreFresh, LeaseTypeOK, Runs, Holds, NoRow
    <3> QED
      BY <3>1 DEF Held, RowHeld, LockHeldByLiveProcess, HolderAlive, Holds, Runs
  <2>2. ASSUME NEW r \in Proc, Step(r) PROVE pc'[p] # "insert"
    <3>1. CASE r # p
      BY <2>2, <3>1, LocksMove DEF IInv
    <3>2. CASE r = p
      BY <2>1, <2>2, <3>2 DEF Step, AcquireRead, AcquireWrite, RunAgain, Beat,
         BeatFails, StandDown, ServiceStop, KeeperTick, KeeperAbort, Close, Die, Gone, Boot,
         PidReused, IInv, LeaseTypeOK
    <3> QED
      BY <3>1, <3>2
  <2>3. CASE Tick \/ UNCHANGED lease
    BY <2>3 DEF Tick, lease
  <2> QED
    BY <2>2, <2>3 DEF LeaseNext
<1>2. IInv /\ [LeaseNext]_lease =>
        [\A p, q \in Proc : Respects(p, q)]_lease
  BY <1>1
<1> QED
  BY <1>2, Invariant, PTL DEF LeaseSpec, LiveLockIsRespected

\* A biller's or keeper's row is not freed by another process's close, release
\* or crash while its holder runs.
THEOREM LockSurvives == LeaseSpec => OthersLockSurvives
<1> DEFINE Survives(p) ==
        (/\ Kind # "file" /\ Holds(p) /\ Runs(p) /\ ~stopped[p])
        => (row' # NoRow \/ pc'[p] # "run" \/ stopped'[p])
<1>1. LeaseTypeOK /\ [LeaseNext]_lease => \A p \in Proc : Survives(p)
  <2> SUFFICES ASSUME LeaseTypeOK, [LeaseNext]_lease, NEW p \in Proc,
                      Kind # "file", Holds(p), Runs(p), ~stopped[p]
      PROVE  row' # NoRow \/ pc'[p] # "run" \/ stopped'[p]
    OBVIOUS
  <2>1. \A q \in Proc : RowOf(q) # NoRow
    BY LeaseAssumption DEF RowOf, NoRow
  <2>2. ASSUME NEW q \in Proc, Step(q)
        PROVE  row' # NoRow \/ pc'[p] # "run" \/ stopped'[p]
    <3>1. CASE ServiceStop(q)
      BY <3>1 DEF ServiceStop, RowReleased, Holds, LeaseTypeOK
    <3>2. CASE Close(q)
      BY <3>2 DEF Close, RowReleased, Holds, Runs
    <3>3. CASE ~ServiceStop(q) /\ ~Close(q)
      BY <2>1, <2>2, <3>3 DEF Step, AcquireRead, AcquireWrite, RowAcquired, RunAgain,
         Beat, RowRenewed, BeatFails, StandDown, KeeperTick, FileSaved, KeeperAbort,
         Die, Boot, PidReused, Holds
    <3> QED
      BY <3>1, <3>2, <3>3
  <2>3. CASE Tick
    BY <2>3, LeaseAssumption DEF Tick, Holds, LeaseTypeOK, NoRow
  <2>4. CASE UNCHANGED lease
    BY <2>4 DEF lease, Holds
  <2> QED
    BY <2>2, <2>3, <2>4 DEF LeaseNext
<1> QED
  BY <1>1, LeaseTypes, PTL DEF LeaseSpec, OthersLockSurvives
=============================================================================
