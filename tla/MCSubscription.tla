-------------------------- MODULE MCSubscription --------------------------
(***************************************************************************)
(* Small instances of Subscription.  Money is counted in single coins and  *)
(* time in single ticks, so that every boundary (the tick a charge falls   *)
(* due, the last one before expiry, the last coin) is met exactly.         *)
(***************************************************************************)
EXTENDS Subscription, TLC

None == {}

\* One price, at one coin every other tick.
OneFixed == {[price |-> 1, interval_ms |-> 2]}

\* One rate, at one coin every two ticks.
OnePayg == {[rate_cap |-> 1, rate_window_ms |-> 2]}

Limit(budget, expiry, delay, max) ==
    [total_budget |-> budget, expiry_ms |-> expiry,
     first_charge_after_ms |-> delay, max_per_charge |-> max]

FixedLimits == {Limit(2, 6, 1, 0), Limit(2, 5, 0, 0)}
PaygLimits == {Limit(3, 7, 0, 1)}

\* A mandate of one subscriber over all ticks, or the mandates of two at one
\* tick, with few coins at stake and no more than a charge of each.
Alone ==
    /\ \E s \in Owner : \A t \in Owner \ {s} :
          /\ wallet[t] = Supply[t]
          /\ \A a \in DOMAIN accounts : accounts[a].owner = s
          /\ \A m \in DOMAIN consent : consent[m].subscriber = s
    /\ Cardinality(DOMAIN accounts \cup (deleted \cap AccountId)) <= 1
    /\ Cardinality(DOMAIN consent) <= 1
Together ==
    /\ clock = 2 /\ resumes = {}
    /\ \A s \in Address : wallet[s] > 0
    /\ \A m \in DOMAIN consent : consent[m].not_before_ms = 2 /\ consent[m].expiry_ms = 5
    /\ \A m \in DOMAIN mandates : mandates[m].status # "PAUSED"
    /\ \A m \in MandateId : Cardinality({c \in charges : c.mandate = m}) <= 1
FixedBound == Alone \/ Together

\* Coins at the start, for the subscriber and everyone else.
Rich(n) == [s \in Address |-> IF s = "sub" THEN n ELSE 0]
TwoAndOne == [s \in Address |-> IF s \in Owner THEN 2 ELSE 1]
RichThree == Rich(3)

\* The subscribers, and the ids of their objects, are alike.
Alike == Permutations(Owner) \cup Permutations(AccountId)
           \cup Permutations(MandateId)
=============================================================================
