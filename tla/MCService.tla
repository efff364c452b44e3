----------------------------- MODULE MCService -----------------------------
(***************************************************************************)
(* What runs in the merchant's server, for TLC: calls that replay, overlap,*)
(* rotate their keys and are priced by meters that round up, down and to   *)
(* the nearest; or the lock between the billing processes.  The two share  *)
(* no state; which of them moves is chosen at the start.                   *)
(***************************************************************************)
EXTENDS Service, Lease

VARIABLE part
Lives == <<1, 0>>

MeterOf(num, den, included, min, rounding) ==
    [priceNum |-> num, priceDen |-> den, units |-> 1, includedQty |-> included,
     minCharge |-> min, rounding |-> rounding]
Meters == [up |-> MeterOf(1, 3, 1, 0, "ceil"), down |-> MeterOf(2, 3, 0, 0, "floor"),
           near |-> MeterOf(1, 2, 0, 0, "half_up"), least |-> MeterOf(1, 4, 0, 2, "ceil")]
Item(key, qty) == [key |-> key, qty |-> qty]

Plain == [door |-> "gateway", sound |-> TRUE, key |-> "ok", price |-> "flat",
          amount |-> 2, items |-> <<>>, id |-> 1, signer |-> 1, until |-> 2, cert |-> 1]
New == [Plain EXCEPT !.signer = 2, !.cert = 2, !.id = 2]
Metered(items) == [Plain EXCEPT !.door = "x402", !.price = "metered", !.id = 3,
                                !.items = items]
Refused == {<<[Plain EXCEPT !.sound = FALSE], [Plain EXCEPT !.key = "unknown"]>>,
            <<[Plain EXCEPT !.key = "unrouted"], [Plain EXCEPT !.amount = 0]>>,
            <<[Plain EXCEPT !.door = "listen", !.sound = FALSE],
              [Plain EXCEPT !.door = "listen", !.signer = 0]>>,
            <<[Metered(<<>>) EXCEPT !.price = "no_card"], Metered(<<Item("none", 1)>>)>>,
            <<Metered(<<Item("up", 1)>>), Metered(<<Item("down", 9)>>)>>}
Asks == Refused \cup
    {<<Plain, Plain>>, <<Plain, New>>, <<New, [Plain EXCEPT !.door = "merchant"]>>,
     <<Plain, [Metered(<<Item("up", 2), Item("near", 1)>>) EXCEPT !.cert = 0]>>,
     <<Plain, Metered(<<Item("down", 2), Item("least", 1)>>)>>}

\* While calls are served a biller runs, and holds the lock.
BillerRuns ==
    LET all(x) == [p \in Proc |-> x]
        p1Else(x, y) == [p \in Proc |-> IF p = "p1" THEN x ELSE y]
    IN  /\ deploy = [kind |-> "biller", stalls |-> FALSE, far |-> FALSE]
        /\ row = RowOf("p1") /\ os = p1Else("up", "down") /\ pc = p1Else("run", "idle")
        /\ ready = p1Else(TRUE, FALSE) /\ saw = p1Else("free", "unread")
        /\ lost = all(FALSE) /\ stopped = all(FALSE) /\ quiet = all(0) /\ crashes = 0

ServerInit ==
    \/ part = "calls" /\ Init /\ BillerRuns
    \/ part = "lock" /\ LeaseInit /\ Init /\ req = <<Plain, Plain>> /\ chain.ours

ServerNext ==
    \/ part = "calls" /\ Next /\ UNCHANGED <<part, lease>>
    \/ part = "lock" /\ LeaseNext /\ UNCHANGED <<part, vars>>

OfCalls(A) == part = "calls" /\ A
OfLock(A) == part = "lock" /\ A

\* The fairness of Service's FairSpec.  For the lock: timers fire, loops turn,
\* close runs, the clock advances and a supervisor keeps starting a program
\* that is not running.
ServerSpec ==
    /\ ServerInit /\ [][ServerNext]_<<part, vars, lease>>
    /\ \A c \in Calls : WF_vars(OfCalls(CallStep(c)))
    /\ WF_vars(OfCalls(ReadChain)) /\ WF_vars(OfCalls(SetSession)) /\ WF_vars(OfCalls(Settle))
    /\ WF_lease(OfLock(Tick))
    /\ \A p \in Proc :
        /\ WF_lease(OfLock(AcquireRead(p))) /\ WF_lease(OfLock(AcquireWrite(p)))
        /\ WF_lease(OfLock(RunAgain(p))) /\ WF_lease(OfLock(Boot(p)))
        /\ WF_lease(OfLock(Beat(p))) /\ WF_lease(OfLock(StandDown(p)))
        /\ WF_lease(OfLock(KeeperTick(p))) /\ WF_lease(OfLock(Close(p)))
=============================================================================
