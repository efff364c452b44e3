------------------------------- MODULE Keeper -------------------------------
(***************************************************************************)
(* The keeper of Fixed mandates: sdk/src/keeper.ts with its stores         *)
(* (store.ts, store-file.ts, sql-store.ts) and the reconciliation of its   *)
(* journal with the chain (reconcile.ts).                                  *)
(*                                                                         *)
(* The chain is what the contract shows of a mandate: how often it was     *)
(* charged, its status, and how long until the next charge is allowed.     *)
(* All mandates pull Price from one account.  Anyone may trigger a due     *)
(* charge, and a transaction whose call failed may land later.  Durations  *)
(* are countdowns and ages: wait and trial to the two bounds of the next   *)
(* charge, since to the entry into a lifecycle state.                      *)
(***************************************************************************)
EXTENDS Integers, Sequences, SequencesExt, Functions, FiniteSets

CONSTANTS
    Mandate,
    Price,       \* what one charge pulls
    Budget,      \* charges a mandate's total budget covers
    Interval,    \* ticks between charges
    Grace,       \* dunning.graceMs, in ticks
    KeepsRows,   \* the store keeps the rows of unwatched mandates (sqlStore)
    Funds,       \* the account's first balance
    Moving,      \* bound: the mandates whose parties act
    MaxUpsets    \* bound: moves of others, crashes, stops, failing calls

ASSUME KeeperAssumption ==
    /\ {Price, Budget, Interval, Grace} \subseteq Nat \ {0}
    /\ {Funds, MaxUpsets} \subseteq Nat /\ KeepsRows \in BOOLEAN
    /\ Moving \subseteq Mandate /\ Mandate # {}

VARIABLES
    chain,    \* per mandate: seq, status, wait, trial, expired
    late,     \* mandates with a transaction out whose call has failed
    bal,      \* the account
    tracks,   \* the keeper's memory: per mandate its track, or Untracked
    sweep,    \* the tick in progress: phase, snap (of the
              \* mandates still to visit), cache, cur, seq, lag
    saved,    \* the tracks of the store
    journal,  \* the store's journal, its charged and observed entries
    base,     \* history: the count at the first sight of each mandate, or -1
    raced,    \* history: the chain moved under the tick in progress
    storeOk,  \* history: no operation of the store has failed
    upsets    \* how many upsets there were

store == <<saved, journal>>
vars == <<chain, late, bal, tracks, sweep, saved, journal, base, raced,
          storeOk, upsets>>

-----------------------------------------------------------------------------
(* Types of the store.                                                     *)

Lifecycle == {"active", "past_due", "lapsed", "paused", "expired", "revoked"}
TERMINAL == {"lapsed", "expired", "revoked"}
NoCount == -1

MandateTrack == [state : Lifecycle, since : 0..Grace + 1, count : NoCount..Budget]
Untracked == [state |-> "untracked", since |-> 0, count |-> NoCount]
NewTrack == [state |-> "active", since |-> 0, count |-> NoCount]
JournalEntry == [kind : {"charged", "observed"}, seq : 1..Budget]

MandateState ==
    [seq : 0..Budget, status : {"active", "paused", "revoked"},
     wait : 0..Interval, trial : 0..Interval, expired : BOOLEAN]
Unreadable == [seq |-> 0, status |-> "unreadable", wait |-> 0, trial |-> 0,
               expired |-> FALSE]
Unread == -1

Rest == [phase |-> "rest", snap |-> [m \in {} |-> Unreadable],
         cache |-> Unread, cur |-> CHOOSE m \in Mandate : TRUE, seq |-> 0, lag |-> 0]

TypeOK ==
    /\ chain \in [Mandate -> MandateState]
    /\ late \subseteq Mandate
    /\ bal \in Nat
    /\ tracks \in [Mandate -> MandateTrack \cup {Untracked}]
    /\ saved \in [Mandate -> MandateTrack \cup {Untracked}]
    /\ sweep.phase \in {"down", "rest", "visit", "submit", "charged", "persist"}
    /\ DOMAIN sweep.snap \subseteq Mandate /\ sweep.cur \in Mandate
    /\ \A m \in DOMAIN sweep.snap : sweep.snap[m] \in MandateState \cup {Unreadable}
    /\ \A m \in Mandate : journal[m] \in Seq(JournalEntry)
    /\ base \in [Mandate -> NoCount..Budget]
    /\ raced \in BOOLEAN

Init ==
    /\ \E trial \in 0..Interval, seq \in 0..1 :
        chain = [m \in Mandate |->
                    [seq |-> seq, status |-> "active", wait |-> 0,
                     trial |-> trial, expired |-> FALSE]]
    /\ late = {}
    /\ bal = Funds
    /\ tracks = [m \in Mandate |-> NewTrack]
    /\ saved = [m \in Mandate |-> Untracked]
    /\ sweep = Rest
    /\ journal = [m \in Mandate |-> <<>>]
    /\ base = [m \in Mandate |-> NoCount]
    /\ raced = FALSE
    /\ storeOk = TRUE /\ upsets = 0

counters == <<storeOk, upsets>>
Upset == upsets < MaxUpsets /\ upsets' = upsets + 1 /\ storeOk' = storeOk
StoreFails == upsets < MaxUpsets /\ upsets' = upsets + 1 /\ storeOk' = FALSE

-----------------------------------------------------------------------------
(* The chain.                                                              *)

Chargeable(m) ==
    /\ chain[m].status = "active" /\ ~chain[m].expired
    /\ chain[m].wait = 0 /\ chain[m].trial = 0
    /\ chain[m].seq < Budget /\ bal >= Price

Charged(m) ==
    /\ chain' = [chain EXCEPT ![m].seq = @ + 1, ![m].wait = Interval]
    /\ bal' = bal - Price

AnyoneCharges(m) ==
    /\ Upset /\ Chargeable(m)
    /\ Charged(m) /\ raced' = TRUE
    /\ UNCHANGED <<late, tracks, sweep, store, base>>

\* A transaction whose call failed lands after all, or is dropped.
LateLanding(m) ==
    /\ m \in late /\ late' = late \ {m}
    /\ \/ Chargeable(m) /\ Charged(m) /\ raced' = TRUE
       \/ UNCHANGED <<chain, bal, raced>>
    /\ UNCHANGED <<tracks, sweep, store, base, counters>>

\* The parties of a mandate move it; a resume starts a new interval.
Moves(m, from, state) ==
    /\ chain[m].status \in from /\ Upset
    /\ chain' = [chain EXCEPT ![m] = state]
    /\ raced' = TRUE
    /\ UNCHANGED <<late, bal, tracks, sweep, store, base>>

Pause(m) == Moves(m, {"active"}, [chain[m] EXCEPT !.status = "paused"])
Resume(m) == Moves(m, {"paused"}, [chain[m] EXCEPT !.status = "active", !.wait = Interval])
Revoke(m) == Moves(m, {"active", "paused"}, [chain[m] EXCEPT !.status = "revoked"])

Withdraw ==
    /\ bal > 0 /\ Upset
    /\ bal' = 0 /\ raced' = TRUE
    /\ UNCHANGED <<chain, late, tracks, sweep, store, base>>

TopUp ==
    /\ Upset /\ bal' = bal + Price
    /\ UNCHANGED <<chain, late, tracks, sweep, store, base, raced>>

\* Time: the two dates come nearer, also while a mandate is paused; ages grow.
Down(n) == IF n = 0 THEN 0 ELSE n - 1
Older(t) == IF t # Untracked /\ t.since <= Grace THEN [t EXCEPT !.since = @ + 1] ELSE t

Elapse ==
    /\ sweep.lag = 0
    /\ chain' = [m \in Mandate |->
                    [chain[m] EXCEPT !.wait = Down(@), !.trial = Down(@)]]
    /\ tracks' = [m \in Mandate |-> Older(tracks[m])]
    /\ saved' = [m \in Mandate |-> Older(saved[m])]
    /\ sweep' = [sweep EXCEPT !.lag = IF sweep.phase \in {"down", "rest"} THEN 0 ELSE 1]
    /\ UNCHANGED <<late, bal, journal, base, raced, counters>>

Expire(m) ==
    /\ ~chain[m].expired /\ Upset
    /\ chain' = [chain EXCEPT ![m].expired = TRUE]
    /\ raced' = TRUE
    /\ UNCHANGED <<late, bal, tracks, sweep, store, base>>

-----------------------------------------------------------------------------
(* The stores.                                                             *)

Persisted(ts) ==
    saved' = [m \in Mandate |->
                IF ts[m] = Untracked /\ KeepsRows THEN saved[m] ELSE ts[m]]

AppendJournal(m, kind, seq) ==
    journal' = [journal EXCEPT ![m] = Append(@, [kind |-> kind, seq |-> seq])]

-----------------------------------------------------------------------------
(* The keeper: lifecycle of the process and of the watch set.              *)

Watching_ActiveOnly == {m \in Mandate : tracks[m].state = "active"}
Watching == {m \in Mandate : tracks[m] # Untracked /\ tracks[m].state \notin TERMINAL}
Up == sweep.phase # "down"

\* init: the persisted tracks, and the seed ids that are not among them.
Start ==
    /\ ~Up /\ sweep' = Rest
    /\ tracks' = [m \in Mandate |-> IF saved[m] = Untracked THEN NewTrack ELSE saved[m]]
    /\ UNCHANGED <<chain, late, bal, store, base, raced, counters>>

Ended == sweep' = [Rest EXCEPT !.phase = "down"]

Stop ==
    /\ sweep.phase = "rest" /\ Upset /\ Ended
    /\ Persisted(tracks)
    /\ tracks' = [m \in Mandate |-> Untracked]
    /\ UNCHANGED <<chain, late, bal, journal, base, raced>>

Crash ==
    /\ Up /\ Upset /\ Ended
    /\ tracks' = [m \in Mandate |-> Untracked]
    /\ UNCHANGED <<chain, late, bal, store, base, raced>>

Watch(m) ==
    /\ Up /\ tracks[m] = Untracked
    /\ tracks' = [tracks EXCEPT ![m] = NewTrack]
    /\ UNCHANGED <<chain, late, bal, sweep, store, base, raced, counters>>

\* scripts/keeper.ts: every 15 s the index's active, unexhausted mandates.
Discover(m) == chain[m].status = "active" /\ chain[m].seq < Budget /\ Watch(m)

Unwatch(m) ==
    /\ Up /\ tracks[m] # Untracked /\ Upset
    /\ tracks' = [tracks EXCEPT ![m] = Untracked]
    /\ UNCHANGED <<chain, late, bal, sweep, store, base, raced>>

-----------------------------------------------------------------------------
(* One tick: the mandates are read in one batch and visited one by one.    *)

BatchRead ==
    /\ sweep.phase = "rest"
    /\ \E missing \in SUBSET Watching :
        /\ IF missing = {} THEN UNCHANGED counters ELSE Upset
        /\ sweep' = [Rest EXCEPT !.phase = "visit",
                        !.snap = [m \in Watching |->
                            IF m \in missing THEN Unreadable ELSE chain[m]]]
    /\ raced' = FALSE
    /\ UNCHANGED <<chain, late, bal, tracks, store, base>>

Enter(t, state) == [t EXCEPT !.state = state, !.since = sweep.lag]

\* The chain's counter: a baseline at first sight, charges of others after.
Jumped(t, s) == t.count # NoCount /\ s.seq > t.count
Synced(t, s) == [(IF Jumped(t, s) /\ t.state = "past_due" THEN Enter(t, "active") ELSE t)
                    EXCEPT !.count = IF t.count = NoCount \/ Jumped(t, s) THEN s.seq ELSE @]

\* The chain's status.
Followed(t, s) ==
    CASE s.status = "revoked" -> Enter(t, "revoked")
      [] s.status = "paused" -> IF t.state = "paused" THEN t ELSE Enter(t, "paused")
      [] s.expired -> Enter(t, "expired")
      [] t.state = "paused" -> Enter(t, "active")
      [] OTHER -> t

Billable(s) == s.status = "active" /\ ~s.expired
EarliestReached_NoTrial(s) == s.wait = 0
EarliestReached(s) == s.wait = 0 /\ s.trial = 0
WithinBudget(s) == s.seq < Budget
Due(s) == Billable(s) /\ EarliestReached(s) /\ WithinBudget(s)

\* The account is read once per tick and debited for every charge after.
CachedBalance == IF sweep.cache = Unread THEN bal ELSE sweep.cache

Short(m) == Due(sweep.snap[m]) /\ CachedBalance < Price

Dunned(t) ==
    CASE t.state = "active" -> Enter(t, "past_due")
      [] t.state = "past_due" /\ t.since - sweep.lag >= Grace -> Enter(t, "lapsed")
      [] OTHER -> t

ToVisit(m) == sweep.phase = "visit" /\ m \in DOMAIN sweep.snap
Visited(m) == RestrictDomain(sweep.snap, LAMBDA n : n # m)

\* The part of the visit that every mandate goes through.
Visiting(m) ==
    /\ ToVisit(m)
    /\ sweep.snap[m] # Unreadable /\ tracks[m] # Untracked

Current(m) == Followed(Synced(tracks[m], sweep.snap[m]), sweep.snap[m])

Sync(m) ==
    /\ IF Jumped(tracks[m], sweep.snap[m])
          THEN AppendJournal(m, "observed", sweep.snap[m].seq)
          ELSE journal' = journal
    /\ base' = IF tracks[m].count = NoCount THEN [base EXCEPT ![m] = sweep.snap[m].seq]
                                            ELSE base
    /\ UNCHANGED <<chain, late, bal, saved, raced>>

VisitUnreadable(m) ==
    /\ ToVisit(m) /\ sweep.snap[m] = Unreadable
    /\ sweep' = [sweep EXCEPT !.snap = Visited(m)]
    /\ UNCHANGED <<chain, late, bal, tracks, store, base, raced, counters>>

\* A mandate unwatched after the batch was read has no track: the sweep
\* throws, and the tick's save is skipped.
VisitUnwatched(m) ==
    /\ ToVisit(m)
    /\ sweep.snap[m] # Unreadable /\ tracks[m] = Untracked
    /\ sweep' = Rest
    /\ UNCHANGED <<chain, late, bal, tracks, store, base, raced, counters>>

VisitNotDue(m) ==
    /\ Visiting(m) /\ ~Due(sweep.snap[m]) /\ Sync(m)
    /\ tracks' = [tracks EXCEPT ![m] = Current(m)]
    /\ sweep' = [sweep EXCEPT !.snap = Visited(m)]
    /\ UNCHANGED counters

VisitShort(m) ==
    /\ Visiting(m) /\ Short(m) /\ Sync(m)
    /\ tracks' = [tracks EXCEPT ![m] = Dunned(Current(m))]
    /\ sweep' = [sweep EXCEPT !.snap = Visited(m), !.cache = CachedBalance]
    /\ UNCHANGED counters

VisitDue(m) ==
    /\ Visiting(m) /\ Due(sweep.snap[m]) /\ ~Short(m) /\ Sync(m)
    /\ tracks' = [tracks EXCEPT ![m] = Current(m)]
    /\ sweep' = [sweep EXCEPT !.phase = "submit", !.snap = Visited(m), !.cur = m,
                              !.cache = CachedBalance, !.seq = Current(m).count + 1]
    /\ UNCHANGED counters

\* A journal append throws: the sweep ends unsaved.  The track was changed
\* before its entry was appended.
AppendThrows(m) ==
    /\ Visiting(m) /\ StoreFails /\ sweep' = Rest
    /\ \/ /\ Jumped(tracks[m], sweep.snap[m])
          /\ tracks' = [tracks EXCEPT ![m].count = sweep.snap[m].seq]
          /\ UNCHANGED <<chain, late, bal, store, base, raced>>
       \/ /\ Sync(m)
          /\ \E t \in {Synced(tracks[m], sweep.snap[m]), Current(m), Dunned(Current(m))} :
                /\ t = Dunned(Current(m)) => t = Current(m) \/ Short(m)
                /\ tracks' = [tracks EXCEPT ![m] = t]

\* The read of the account throws.
AccountThrows(m) ==
    /\ Visiting(m) /\ Due(sweep.snap[m]) /\ sweep.cache = Unread
    /\ Upset /\ sweep' = Rest /\ Sync(m)
    /\ tracks' = [tracks EXCEPT ![m] = Current(m)]

-----------------------------------------------------------------------------
(* The charge of a due mandate: submit is journaled, then it is called.    *)

Submitting(m) == sweep.phase = "submit" /\ sweep.cur = m
CatchOrGoOn == sweep' = [sweep EXCEPT !.phase = "visit", !.cur = Rest.cur, !.seq = 0]

\* The catch journals the failure; when that throws too, the sweep ends.
CatchThrows == sweep' = Rest /\ StoreFails

\* An unwatched track is changed by nobody else, and no longer saved.
Counted(m) ==
    tracks' = IF tracks[m] = Untracked THEN tracks
              ELSE [tracks EXCEPT ![m].count = sweep.seq]

ChargeLands(m) ==
    /\ Submitting(m) /\ Chargeable(m) /\ Charged(m) /\ Counted(m)
    /\ sweep' = [sweep EXCEPT !.phase = "charged", !.cache = @ - Price]
    /\ UNCHANGED <<late, store, base, raced, counters>>

ChargeAborts(m) ==
    /\ Submitting(m) /\ ~Chargeable(m)
    /\ (CatchOrGoOn /\ UNCHANGED counters) \/ CatchThrows
    /\ UNCHANGED <<chain, late, bal, tracks, store, base, raced>>

\* The call fails: the charge has landed, will land, or never does.
ChargeLost(m) ==
    /\ Submitting(m)
    /\ (CatchOrGoOn /\ Upset) \/ CatchThrows
    /\ \/ Chargeable(m) /\ Charged(m) /\ raced' = TRUE /\ late' = late
       \/ late' \in {late, late \cup {m}} /\ UNCHANGED <<chain, bal, raced>>
    /\ UNCHANGED <<tracks, store, base>>

\* The charged entry, and the save right after it (K-5).
JournalCharge(m) ==
    /\ sweep.phase = "charged" /\ sweep.cur = m
    /\ AppendJournal(m, "charged", sweep.seq) /\ sweep' = [sweep EXCEPT !.phase = "persist"]
    /\ UNCHANGED <<chain, late, bal, tracks, saved, base, raced, counters>>

PersistCharge(m) ==
    /\ sweep.phase = "persist" /\ sweep.cur = m
    /\ Persisted(tracks) /\ CatchOrGoOn
    /\ tracks' = IF tracks[m].state = "past_due"
                    THEN [tracks EXCEPT ![m] = Enter(@, "active")] ELSE tracks
    /\ UNCHANGED <<chain, late, bal, journal, base, raced, counters>>

\* Either throws into the catch of the charge: it is journaled as a failure.
RecordThrows ==
    /\ sweep.phase \in {"charged", "persist"}
    /\ (CatchOrGoOn /\ StoreFails) \/ CatchThrows
    /\ UNCHANGED <<chain, late, bal, tracks, store, base, raced>>

EndSweep ==
    /\ sweep.phase = "visit" /\ DOMAIN sweep.snap = {} /\ sweep' = Rest
    /\ \/ Persisted(tracks) /\ UNCHANGED counters
       \/ saved' = saved /\ StoreFails
    /\ UNCHANGED <<chain, late, bal, tracks, journal, base, raced>>

Tick(m) ==
    \/ VisitUnreadable(m) \/ VisitUnwatched(m) \/ VisitNotDue(m)
    \/ VisitShort(m) \/ VisitDue(m)
    \/ ChargeLands(m) \/ ChargeAborts(m) \/ JournalCharge(m) \/ PersistCharge(m)

Fault(m) == LateLanding(m) \/ AppendThrows(m) \/ AccountThrows(m) \/ ChargeLost(m) \/ RecordThrows

World(m) ==
    \/ AnyoneCharges(m) \/ Pause(m) \/ Resume(m) \/ Revoke(m)
    \/ Expire(m) \/ Watch(m) \/ Discover(m) \/ Unwatch(m)

Next ==
    \/ Start \/ Stop \/ Crash \/ BatchRead \/ EndSweep
    \/ Elapse \/ TopUp \/ Withdraw
    \/ \E m \in Mandate : Tick(m) \/ Fault(m)
    \/ \E m \in Moving : World(m)

Spec == Init /\ [][Next]_vars

\* The loop polls, each await returns, time passes, and a supervisor starts
\* the keeper again.
FairSpec ==
    /\ Spec /\ WF_vars(Start) /\ WF_vars(BatchRead) /\ WF_vars(EndSweep)
    /\ WF_vars(Elapse) /\ WF_vars(\E m \in Mandate : Tick(m))

-----------------------------------------------------------------------------
(* Reconciliation.                                                         *)

JournaledCount(m) ==
    Cardinality({i \in DOMAIN journal[m] : journal[m][i].kind = "charged"})

NothingWalked == [accounted |-> 0, observed |-> 0]
Walk_NoHighWater(w, j) ==
    IF j.kind = "observed" /\ j.seq > w.accounted
       THEN [accounted |-> j.seq, observed |-> w.observed + j.seq - w.accounted] ELSE w
\* The walk over the journal with the highest sequence number accounted for.
Walk(w, j) ==
    IF j.seq <= w.accounted THEN w
    ELSE [accounted |-> j.seq,
          observed |-> w.observed + (IF j.kind = "observed" THEN j.seq - w.accounted ELSE 0)]

ObservedCount(m) ==
    FoldLeft(Walk, NothingWalked, journal[m]).observed

CountDrift(m) == chain[m].seq - JournaledCount(m) - ObservedCount(m)

-----------------------------------------------------------------------------
(* Properties.                                                             *)

\* A charge is submitted only if the chain would take it, unless somebody
\* moved the chain during the tick or an answer was lost in it: trials,
\* intervals, the budget and the balance, debited by the tick's own charges,
\* are all looked at.
AbortsAreRaces == sweep.phase = "submit" /\ ~Chargeable(sweep.cur) => raced

\* The keeper never believes in a charge that is not on the chain, in memory
\* or in the store: every later charge of others is a jump it will see.
CountNeverAhead ==
    \A m \in Mandate : tracks[m].count <= chain[m].seq /\ saved[m].count <= chain[m].seq

\* Lost answers, restarts and charges of others are never counted twice: the
\* entries of the journal account for at most the charges of the chain.
NothingCountedTwice == \A m \in Mandate : CountDrift(m) >= 0

\* What the keeper has counted since a mandate without charges was added is in
\* its journal, as long as the store takes what it is given.
CountedIsJournaled ==
    \A m \in Mandate :
        base[m] = 0 /\ storeOk /\ sweep.phase \notin {"charged", "persist"} =>
            JournaledCount(m) + ObservedCount(m) >= tracks[m].count

\* No two charged entries of a mandate have the same sequence number, which is
\* the key recordCharge drops duplicates by.
ChargeSeqsAreUnique ==
    \A m \in Mandate : \A i, j \in DOMAIN journal[m] :
        (/\ journal[m][i].kind = "charged" /\ journal[m][j].kind = "charged"
         /\ journal[m][i].seq = journal[m][j].seq) => i = j

\* The journal and the keeper's counter tell the same story as the chain,
\* through charges of others, lost answers, late landings and crashes between
\* any two awaits of a tick: the drift of reconcile.ts means what it says.
JournalIsTrue ==
    /\ TypeOK
    /\ CountNeverAhead /\ NothingCountedTwice /\ CountedIsJournaled /\ ChargeSeqsAreUnique

\* A mandate the chain would charge is charged, through crashes, stops and
\* failing calls, as long as it is watched and was not given up.
DueIsCharged ==
    \A m \in Mandate :
        Chargeable(m) ~>
            ~Chargeable(m) \/ (Up /\ (tracks[m] = Untracked \/ tracks[m].state \in TERMINAL))
=============================================================================
