---------------------------- MODULE MCScheduler ----------------------------
(***************************************************************************)
(* The scheduler on a plan that goes down, is metered and rises; signed at *)
(* the last price, it is a trial and two downgrades.                       *)
(***************************************************************************)
EXTENDS Scheduler

Falls == <<[start |-> 0, kind |-> "fixed", price |-> 2],
           [start |-> 1, kind |-> "fixed", price |-> 1],
           [start |-> 2, kind |-> "payg", price |-> 0],
           [start |-> 3, kind |-> "fixed", price |-> 3]>>

\* Charges, faults and registrations, an overlap for two: five while the clock
\* is low, fewer when it is high.  The safety properties say nothing more of a
\* plan whose schedule was replaced while it was in use.
Load ==
    charge_seq(1) + charge_seq(2) + faults + Len(objs) + (IF slips.overlap THEN 2 ELSE 0)
Bounded == ~slips.replaced /\ Load <= 5 /\ now + Load <= 6

\* The merchant's process ticks again and again.
FairSpec ==
    /\ SchedulerSpec
    /\ \A t \in Ticks : WF_scheduler(TickStart(t)) /\ WF_scheduler(TickStep(t))
=============================================================================
