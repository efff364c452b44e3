------------------------------- MODULE Lease -------------------------------
(***************************************************************************)
(* The single-instance lock of the billing processes: the row lock of      *)
(* sdk/src/sql-store.ts (biller and keeper) and the lock file of           *)
(* sdk/src/store-file.ts (keeper), with the run loops that take it, keep   *)
(* it fresh and give it back.                                              *)
(*                                                                         *)
(* A process is named by its pid.  Acquiring is a read and then a write:   *)
(* other processes take steps between the two.  Time is kept as ages: of   *)
(* the lock's heartbeat, up to Stale, and of each process since its last   *)
(* renewal, up to Renew.                                                   *)
(***************************************************************************)
EXTENDS Integers

CONSTANTS
    Proc,        \* the pids
    Kinds,       \* the deployments: "biller", "keeper" (row locks), "file"
    Stale,       \* LOCK_STALE_MS, in ticks
    Renew,       \* leaseRenewMs or pollMs, in ticks
    MaxCrashes   \* bound on crashes

ASSUME LeaseAssumption ==
    /\ Kinds \subseteq {"biller", "keeper", "file"}
    /\ Stale \in Nat /\ Renew \in Nat /\ MaxCrashes \in Nat
    /\ 0 < Renew /\ Renew < Stale
    /\ "none" \notin Proc

VARIABLES
    deploy,   \* [kind, stalls, far]: which store; may processes stall; are
              \* they on different hosts
    row,      \* the lock: NoRow, or its holder and the heartbeat's age
    os,       \* what each pid is: our process, nothing, another program
    pc,       \* where each process is
    ready,    \* initialized: set by init, never reset
    saw,      \* the answer of acquireLock's read: may it take the lock
    lost,     \* the heartbeat found the lock taken
    stopped,  \* the loop's signal is aborted
    quiet,    \* ticks since the process renewed
    crashes

lease == <<deploy, row, os, pc, ready, saw, lost, stopped, quiet, crashes>>
local == <<ready, saw, lost, stopped, quiet>>

NoRow == [holder |-> "none", age |-> 0]
RowOf(p) == [holder |-> p, age |-> 0]
Kind == deploy.kind
Cap(n, max) == IF n < max THEN n + 1 ELSE max

LeaseTypeOK ==
    /\ deploy \in [kind : Kinds, stalls : BOOLEAN, far : BOOLEAN]
    /\ row = NoRow \/ row \in [holder : Proc, age : 0..Stale]
    /\ os \in [Proc -> {"up", "down", "reused"}]
    /\ pc \in [Proc -> {"idle", "insert", "run", "closing"}]
    /\ ready \in [Proc -> BOOLEAN]
    /\ lost \in [Proc -> BOOLEAN]
    /\ stopped \in [Proc -> BOOLEAN]
    /\ saw \in [Proc -> {"unread", "free", "held"}]
    /\ quiet \in [Proc -> 0..Renew]
    /\ crashes \in 0..MaxCrashes
    /\ \A p \in Proc : os[p] # "up" => pc[p] = "idle"

LeaseInit ==
    /\ deploy \in [kind : Kinds, stalls : BOOLEAN, far : BOOLEAN]
    /\ deploy.kind = "file" => ~deploy.far
    /\ row = NoRow
    /\ os = [p \in Proc |-> "up"]
    /\ pc = [p \in Proc |-> "idle"]
    /\ ready = [p \in Proc |-> FALSE]
    /\ lost = [p \in Proc |-> FALSE]
    /\ stopped = [p \in Proc |-> FALSE]
    /\ saw = [p \in Proc |-> "unread"]
    /\ quiet = [p \in Proc |-> 0]
    /\ crashes = 0

-----------------------------------------------------------------------------
(* The stores.                                                             *)

\* A holder on another host is taken to be alive; on this host its pid is
\* probed, and the pid may be another program's by now.
HolderAlive(p, h) == (h # p /\ deploy.far) \/ os[h] # "down"

RowHeld_Early(p) == row # NoRow /\ row.age < Stale - 1 /\ HolderAlive(p, row.holder)
RowHeld_Forever(p) == row # NoRow /\ HolderAlive(p, row.holder)
RowHeld(p) == row # NoRow /\ row.age < Stale /\ HolderAlive(p, row.holder)
LockHeldByLiveProcess == row # NoRow /\ row.age < Stale /\ os[row.holder] # "down"

RowAcquired(p) == row' = RowOf(p)
RowRenewed_Silent(p) == /\ row' = IF row # NoRow /\ row.holder = p THEN RowOf(p) ELSE row
                        /\ lost' = lost
RowRenewed(p) == IF row # NoRow /\ row.holder = p
                    THEN row' = RowOf(p) /\ lost' = lost
                    ELSE lost' = [lost EXCEPT ![p] = TRUE] /\ row' = row
RowReleased_Any(p) == row' = NoRow
RowReleased(p) == row' = IF row.holder = p THEN NoRow ELSE row

\* The file's heartbeat is the save of the tracks: it writes this process's
\* pid into whatever lock file is there.
FileSaved(p) == row' = IF row # NoRow THEN RowOf(p) ELSE row
FileReleased(p) == row' = NoRow

Held(p) == IF Kind = "file" THEN LockHeldByLiveProcess ELSE RowHeld(p)

-----------------------------------------------------------------------------
(* init: the lock is read, and then written.                               *)

AcquireRead(p) ==
    /\ os[p] = "up" /\ pc[p] = "idle" /\ ~ready[p]
    /\ saw' = [saw EXCEPT ![p] = IF Held(p) THEN "held" ELSE "free"]
    /\ pc' = [pc EXCEPT ![p] = IF Held(p) THEN "idle" ELSE "insert"]
    /\ UNCHANGED <<deploy, row, os, ready, lost, stopped, quiet, crashes>>

AcquireWrite(p) ==
    /\ pc[p] = "insert"
    /\ RowAcquired(p)
    /\ pc' = [pc EXCEPT ![p] = "run"]
    /\ ready' = [ready EXCEPT ![p] = TRUE]
    /\ quiet' = [quiet EXCEPT ![p] = 0]
    /\ UNCHANGED <<deploy, os, saw, lost, stopped, crashes>>

\* initialized stays TRUE after close: run starts again without the lock.
RunAgain(p) ==
    /\ os[p] = "up" /\ pc[p] = "idle" /\ ready[p]
    /\ pc' = [pc EXCEPT ![p] = "run"]
    /\ lost' = [lost EXCEPT ![p] = FALSE]
    /\ stopped' = [stopped EXCEPT ![p] = FALSE]
    /\ quiet' = [quiet EXCEPT ![p] = 0]
    /\ UNCHANGED <<deploy, row, os, ready, saw, crashes>>

-----------------------------------------------------------------------------
(* The run loops.                                                          *)

\* The biller's interval timer; it runs also while a flush does.
Beat(p) ==
    /\ Kind = "biller" /\ pc[p] = "run"
    /\ RowRenewed(p)
    /\ quiet' = [quiet EXCEPT ![p] = 0]
    /\ UNCHANGED <<deploy, os, pc, ready, saw, stopped, crashes>>

\* A renewal that throws for another reason has the same effect on the loop.
BeatFails(p) ==
    /\ Kind = "biller" /\ pc[p] = "run"
    /\ lost' = [lost EXCEPT ![p] = TRUE]
    /\ UNCHANGED <<deploy, row, os, pc, ready, saw, stopped, quiet, crashes>>

\* The biller's loop sees lost or the signal when its flush ends.
StandDown(p) ==
    /\ Kind = "biller" /\ pc[p] = "run" /\ (lost[p] \/ stopped[p])
    /\ pc' = [pc EXCEPT ![p] = "closing"]
    /\ UNCHANGED <<deploy, row, os, local, crashes>>

\* The service's stop aborts the loop and closes the biller at once, while
\* the loop's flush may still be running.
ServiceStop(p) ==
    /\ Kind = "biller" /\ pc[p] = "run" /\ ~stopped[p]
    /\ stopped' = [stopped EXCEPT ![p] = TRUE]
    /\ RowReleased(p)
    /\ UNCHANGED <<deploy, os, pc, ready, saw, lost, quiet, crashes>>

\* A keeper's sweep ends with a save: a heartbeat with the file only.
KeeperTick(p) ==
    /\ Kind # "biller" /\ pc[p] = "run"
    /\ IF Kind = "file" THEN FileSaved(p) ELSE row' = row
    /\ quiet' = [quiet EXCEPT ![p] = 0]
    /\ UNCHANGED <<deploy, os, pc, ready, saw, lost, stopped, crashes>>

KeeperAbort(p) ==
    /\ Kind # "biller" /\ pc[p] = "run"
    /\ pc' = [pc EXCEPT ![p] = "closing"]
    /\ UNCHANGED <<deploy, row, os, local, crashes>>

\* close: the row goes if it is this process's, the file goes.
Close(p) ==
    /\ pc[p] = "closing"
    /\ IF Kind = "file" THEN FileReleased(p) ELSE RowReleased(p)
    /\ pc' = [pc EXCEPT ![p] = "idle"]
    /\ UNCHANGED <<deploy, os, local, crashes>>

-----------------------------------------------------------------------------
(* The environment.                                                        *)

Gone(p) ==
    /\ pc' = [pc EXCEPT ![p] = "idle"]
    /\ ready' = [ready EXCEPT ![p] = FALSE]
    /\ lost' = [lost EXCEPT ![p] = FALSE]
    /\ stopped' = [stopped EXCEPT ![p] = FALSE]
    /\ saw' = [saw EXCEPT ![p] = "unread"]
    /\ quiet' = [quiet EXCEPT ![p] = 0]

Die(p) ==
    /\ os[p] = "up" /\ crashes < MaxCrashes
    /\ crashes' = crashes + 1
    /\ os' = [os EXCEPT ![p] = "down"]
    /\ Gone(p)
    /\ UNCHANGED <<deploy, row>>

\* The supervisor starts the program; a container gets the same pid again.
Boot(p) ==
    /\ os[p] = "down"
    /\ os' = [os EXCEPT ![p] = "up"]
    /\ UNCHANGED <<deploy, row, pc, local, crashes>>

\* Some pid is left for the program.
PidReused(p) ==
    /\ os[p] = "down" /\ \E q \in Proc \ {p} : os[q] # "reused"
    /\ os' = [os EXCEPT ![p] = "reused"]
    /\ UNCHANGED <<deploy, row, pc, local, crashes>>

\* Without stalls, a renewal is never later than Renew.
Tick ==
    /\ ~deploy.stalls => \A p \in Proc : pc[p] = "run" => quiet[p] < Renew
    /\ row' = IF row = NoRow THEN row ELSE [row EXCEPT !.age = Cap(@, Stale)]
    /\ quiet' = [p \in Proc |-> IF pc[p] = "run" THEN Cap(quiet[p], Renew) ELSE 0]
    /\ UNCHANGED <<deploy, os, pc, ready, saw, lost, stopped, crashes>>

Step(p) ==
    \/ AcquireRead(p) \/ AcquireWrite(p) \/ RunAgain(p)
    \/ Beat(p) \/ BeatFails(p) \/ StandDown(p) \/ ServiceStop(p)
    \/ KeeperTick(p) \/ KeeperAbort(p) \/ Close(p)
    \/ Die(p) \/ Boot(p) \/ PidReused(p)

LeaseNext == Tick \/ \E p \in Proc : Step(p)

LeaseSpec == LeaseInit /\ [][LeaseNext]_lease

-----------------------------------------------------------------------------
(* Properties.                                                             *)

Runs(p) == os[p] = "up" /\ pc[p] = "run"
Holds(p) == row # NoRow /\ row.holder = p

\* As long as nobody stalls, a process decides to take the lock (the read of
\* acquireLock) only when its holder does not run: two instances run at a
\* time only if their reads and writes overlapped.
LiveLockIsRespected ==
    [][\A p, q \in Proc :
        (/\ Kind # "keeper" /\ ~deploy.stalls
         /\ p # q /\ Holds(q) /\ Runs(q) /\ pc[p] = "idle")
        => pc'[p] # "insert"]_lease

\* A biller that runs without the lock, because it lost a race, stalled, was
\* taken for dead or was started a second time, is told by its heartbeat and
\* stops running.
SupersededStandsDown ==
    \A p \in Proc :
        (Kind = "biller" /\ Runs(p) /\ ~Holds(p)) ~> (~Runs(p) \/ Holds(p))

\* No other process frees the lock of a biller or keeper that runs and holds
\* the row: close of a superseded instance leaves the row of the next one.
OthersLockSurvives ==
    [][\A p \in Proc :
        (/\ Kind # "file" /\ Holds(p) /\ Runs(p) /\ ~stopped[p])
        => (row' # NoRow \/ pc'[p] # "run" \/ stopped'[p])]_lease

\* When the holder dies, the lock does not stay with it: whatever its pid has
\* become and on whatever host it was, some instance runs again.
BillingResumes == (\A p \in Proc : ~Runs(p)) ~> (\E p \in Proc : Runs(p))
=============================================================================
