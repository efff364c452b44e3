----------------------------- MODULE DeskProofs -----------------------------
(***************************************************************************)
(* Theorems about the six components around a merchant's desk: X402, for   *)
(* any payments, coins and number of overlapping settles; Agent, for any   *)
(* plans, terms, budgets, calls and persons and any number of mandates and *)
(* lost answers; Webhook, for any number of events and attempts; Probes,   *)
(* for any terms, amounts and moves of the chain; Records, for any page    *)
(* size, events, charges and months; and Dashboard, for any wallets and    *)
(* any number of loads, reads and actions at once.                         *)
(***************************************************************************)
EXTENDS Records, Probes, X402, Webhook, Agent, Dashboard, FiniteSetTheorems, SumTheorems, TLAPS

-----------------------------------------------------------------------------
(* Exact settlement: what settle calls final is paid.                      *)

Signed(p) == payment[p] # NotSigned

Stage == {"idle", "verify", "execute", "refused", "error", "failed", "not exact", "final"}

X402TypeOK ==
    /\ payment \in [Payments -> [coin : Coins, maker : {"helper", "third party"}]
                                    \cup {NotSigned}]
    /\ whole \subseteq Coins
    /\ landed \in [Payments -> {NotLanded, "exact", "inexact", "none", "aborted"}]
    /\ settle \in [Settles -> [at : Stage, payment : Payments \cup {"none"}, again : BOOLEAN]]

\* What has landed has used its coin up, which no other payment can use.
CoinsAreSpentOnce ==
    /\ \A p \in Payments : landed[p] # NotLanded => Signed(p) /\ payment[p].coin \notin whole
    /\ \A p, q \in Payments :
        p # q /\ landed[p] # NotLanded /\ landed[q] # NotLanded
            => payment[p].coin # payment[q].coin

\* What a settle knows at each stage.
SettleKnows(t) ==
    LET s == settle[t] IN
    /\ s.at # "idle" => s.payment \in Payments /\ Signed(s.payment)
    /\ s.at = "final" => landed[s.payment] = "exact"
    /\ s.again => s.at \in {"verify", "refused"} /\ landed[s.payment] = "exact"
    /\ s.at \in {"failed", "not exact"} =>
        landed[s.payment] # "exact" /\ ~Executable(s.payment)

SettleInv == X402TypeOK /\ CoinsAreSpentOnce /\ \A t \in Settles : SettleKnows(t)

\* Where the calls are about to go does not disturb what is known of payments
\* that are signed, whose coins stay spent, and which keep what they did.
LEMMA PaymentsAge ==
    ASSUME SettleInv, UNCHANGED settle, X402TypeOK',
           \A p \in Payments : Signed(p) => payment'[p] = payment[p],
           \A p \in Payments : landed[p] # NotLanded => landed'[p] = landed[p],
           \A p \in Payments : Signed(p) /\ payment[p].coin \notin whole =>
               landed'[p] = landed[p],
           whole' \subseteq whole
    PROVE  \A t \in Settles : SettleKnows(t)'
<1> SUFFICES ASSUME NEW t \in Settles PROVE SettleKnows(t)'
  OBVIOUS
<1>1. SettleKnows(t)
  BY DEF SettleInv
<1> DEFINE p == settle[t].payment
<1>2. CASE settle[t].at = "idle"
  BY <1>1, <1>2 DEF SettleKnows
<1>3. CASE settle[t].at # "idle"
  <2>1. p \in Payments /\ Signed(p) /\ payment'[p] = payment[p] /\ Signed(p)'
    BY <1>1, <1>3 DEF SettleKnows, Signed
  <2>2. ~Executable(p) => ~Executable(p)' /\ landed'[p] = landed[p]
    BY <2>1 DEF Executable
  <2>3. landed[p] # NotLanded => landed'[p] = landed[p]
    BY <2>1
  <2>4. "exact" # NotLanded
    BY DEF NotLanded
  <2> QED
    BY <1>1, <1>3, <2>1, <2>2, <2>3, <2>4 DEF SettleKnows
<1> QED
  BY <1>2, <1>3

\* A landing keeps the types and uses up one coin for one payment.
LEMMA LandSpends ==
    ASSUME SettleInv, NEW p \in Payments, Signed(p),
           NEW effect \in {"exact", "inexact", "none", "aborted"},
           Land(p, effect), UNCHANGED payment
    PROVE  /\ CoinsAreSpentOnce'
           /\ landed' \in [Payments -> {NotLanded, "exact", "inexact", "none", "aborted"}]
           /\ whole' \subseteq Coins
           /\ landed'[p] = effect /\ landed[p] = NotLanded
           /\ \A q \in Payments : landed[q] # NotLanded => landed'[q] = landed[q]
           /\ \A q \in Payments : Signed(q) /\ payment[q].coin \notin whole =>
                 landed'[q] = landed[q]
           /\ whole' \subseteq whole
BY DEF SettleInv, X402TypeOK, CoinsAreSpentOnce, Signed, Land, Executable, NotLanded

\* The buyer's steps and the chain's own.
LEMMA BuyerSteps ==
    ASSUME SettleInv,
           \/ SpendElsewhere
           \/ \E p \in Payments : createExactPayment(p) \/ BytesLand(p)
    PROVE  SettleInv'
<1>1. CASE SpendElsewhere
  <2>1. X402TypeOK' /\ CoinsAreSpentOnce'
    BY <1>1 DEF SettleInv, X402TypeOK, CoinsAreSpentOnce, SpendElsewhere, Signed
  <2> QED
    BY <1>1, <2>1, PaymentsAge DEF SpendElsewhere, SettleInv
<1>2. ASSUME NEW p \in Payments, createExactPayment(p)
      PROVE  SettleInv'
  <2>1. X402TypeOK'
    <3>1. PICK coin \in whole, maker \in {"helper", "third party"} :
              payment' = [payment EXCEPT ![p] = [coin |-> coin, maker |-> maker]]
      BY <1>2 DEF createExactPayment
    <3>2. [coin |-> coin, maker |-> maker] \in [coin : Coins, maker : {"helper", "third party"}]
      BY <3>1 DEF SettleInv, X402TypeOK
    <3>3. payment' \in [Payments -> [coin : Coins, maker : {"helper", "third party"}]
                                        \cup {NotSigned}]
      BY <3>1, <3>2 DEF SettleInv, X402TypeOK
    <3> QED
      BY <1>2, <3>3 DEF SettleInv, X402TypeOK, createExactPayment
  <2>2. \A q \in Payments : Signed(q) => payment'[q] = payment[q]
    BY <1>2 DEF SettleInv, X402TypeOK, createExactPayment, Signed
  <2>3. CoinsAreSpentOnce'
    BY <1>2, <2>2 DEF SettleInv, CoinsAreSpentOnce, createExactPayment, Signed
  <2> QED
    BY <1>2, <2>1, <2>2, <2>3, PaymentsAge DEF createExactPayment, SettleInv
<1>3. ASSUME NEW p \in Payments, BytesLand(p)
      PROVE  SettleInv'
  <2>1. PICK effect \in Credits(p) \cup {"aborted"} : Land(p, effect)
    BY <1>3 DEF BytesLand
  <2>2. effect \in {"exact", "inexact", "none", "aborted"} /\ Signed(p)
    BY <1>3 DEF Credits, BytesLand, Signed
  <2>3. UNCHANGED payment /\ UNCHANGED settle
    BY <1>3 DEF BytesLand
  <2>4. X402TypeOK'
    BY <2>1, <2>2, <2>3, LandSpends DEF SettleInv, X402TypeOK
  <2> QED
    BY <2>1, <2>2, <2>3, <2>4, LandSpends, PaymentsAge DEF SettleInv
<1> QED
  BY <1>1, <1>2, <1>3

\* What is known at a settle's new stage, when the others are where they were.
LEMMA SettleMoves ==
    ASSUME SettleInv, NEW t \in Settles, NEW at \in Stage, At(t, at), UNCHANGED payment,
           NEW p \in Payments, settle[t].payment = p,
           settle[t].at # "idle", settle[t].again => at = "refused",
           landed' \in [Payments -> {NotLanded, "exact", "inexact", "none", "aborted"}],
           whole' \subseteq whole,
           \A q \in Payments : landed[q] # NotLanded => landed'[q] = landed[q],
           \A q \in Payments : Signed(q) /\ payment[q].coin \notin whole =>
               landed'[q] = landed[q],
           at = "final" => landed'[p] = "exact",
           at \in {"failed", "not exact"} => landed'[p] # "exact" /\ ~Executable(p)'
    PROVE  X402TypeOK' /\ \A u \in Settles : SettleKnows(u)'
<1>1. X402TypeOK'
  <2>1. ASSUME NEW s \in [at : Stage, payment : Payments \cup {"none"}, again : BOOLEAN]
        PROVE  [s EXCEPT !.at = at] \in
                   [at : Stage, payment : Payments \cup {"none"}, again : BOOLEAN]
    OBVIOUS
  <2>2. settle' \in [Settles -> [at : Stage, payment : Payments \cup {"none"}, again : BOOLEAN]]
    BY <2>1 DEF SettleInv, X402TypeOK, At
  <2> QED
    BY <2>2 DEF SettleInv, X402TypeOK
<1>2. ASSUME NEW u \in Settles PROVE SettleKnows(u)'
  <2>1. SettleKnows(u) /\ SettleKnows(t)
    BY DEF SettleInv
  <2>2. settle'[u] = IF u = t THEN [settle[t] EXCEPT !.at = at] ELSE settle[u]
    BY DEF SettleInv, X402TypeOK, At
  <2>3. CASE settle[u].at = "idle"
    BY <2>1, <2>2, <2>3 DEF SettleKnows
  <2>4. CASE settle[u].at # "idle"
    <3>1. PICK b \in Payments : settle[u].payment = b /\ Signed(b)
      BY <2>1, <2>4 DEF SettleKnows
    <3>2. ~Executable(b) => ~Executable(b)' /\ landed'[b] = landed[b]
      BY <3>1 DEF Executable
    <3>3. landed[b] = "exact" => landed'[b] = "exact"
      BY <3>1 DEF NotLanded
    <3>4. Signed(b)'
      BY <3>1 DEF Signed
    <3>5. CASE u # t
      BY <2>1, <2>2, <2>4, <3>1, <3>2, <3>3, <3>4, <3>5 DEF SettleKnows
    <3>6. CASE u = t
      <4>1. settle[t] \in [at : Stage, payment : Payments \cup {"none"}, again : BOOLEAN]
        BY DEF SettleInv, X402TypeOK
      <4>2. settle'[t] = [settle[t] EXCEPT !.at = at]
        BY <2>2, <3>6
      <4>3. /\ settle'[t].at = at /\ settle'[t].payment = p
            /\ settle'[t].again = settle[t].again
        BY <4>1, <4>2
      <4> QED
        BY <2>1, <3>1, <3>3, <3>4, <3>6, <4>3 DEF SettleKnows
    <3> QED
      BY <3>5, <3>6
  <2> QED
    BY <2>3, <2>4
<1> QED
  BY <1>1, <1>2

LEMMA AskStep ==
    ASSUME SettleInv, NEW t \in Settles, NEW p \in Payments, Ask(t, p)
    PROVE  SettleInv'
<1>1. settle'[t] = [at |-> "verify", payment |-> p,
                    again |-> \E u \in Settles : Final(u) /\ settle[u].payment = p]
  BY DEF SettleInv, X402TypeOK, Ask
<1>2. \A u \in Settles \ {t} : settle'[u] = settle[u]
  BY DEF SettleInv, X402TypeOK, Ask
<1>3. X402TypeOK' /\ CoinsAreSpentOnce'
  BY DEF SettleInv, X402TypeOK, CoinsAreSpentOnce, Ask, Stage, Signed
<1>4. SettleKnows(t)'
  <2>1. (\E u \in Settles : Final(u) /\ settle[u].payment = p) => landed[p] = "exact"
    BY DEF SettleInv, SettleKnows, Final
  <2>2. /\ settle'[t].at = "verify" /\ settle'[t].payment = p
        /\ settle'[t].again => landed'[p] = "exact"
    BY <1>1, <2>1 DEF Ask
  <2>3. Signed(p)'
    BY DEF Ask, Signed
  <2> QED
    BY <2>2, <2>3 DEF SettleKnows
<1>5. ASSUME NEW u \in Settles \ {t} PROVE SettleKnows(u)'
  <2>1. SettleKnows(u) /\ settle'[u] = settle[u] /\ UNCHANGED <<payment, whole, landed>>
    BY <1>2 DEF SettleInv, Ask
  <2> QED
    BY <2>1 DEF SettleKnows, Signed, Executable
<1> QED
  BY <1>3, <1>4, <1>5 DEF SettleInv

LEMMA VerifyStep ==
    ASSUME SettleInv, NEW t \in Settles, verify(t)
    PROVE  SettleInv'
<1>1. settle[t].at = "verify" /\ SettleKnows(t) /\ UNCHANGED <<payment, whole, landed>>
  BY DEF SettleInv, verify
<1>0. PICK p \in Payments : settle[t].payment = p
  BY <1>1 DEF SettleKnows
<1>2. PICK at \in {"refused", "execute"} : At(t, at) /\ (at = "execute" => Executable(p))
  BY <1>0 DEF verify
<1>3. settle[t].again => at = "refused"
  BY <1>0, <1>1, <1>2 DEF SettleKnows, Executable, NotLanded
<1>4. X402TypeOK' /\ \A u \in Settles : SettleKnows(u)'
  BY <1>0, <1>1, <1>2, <1>3, SettleMoves DEF SettleInv, X402TypeOK, Stage
<1> QED
  BY <1>1, <1>4 DEF SettleInv, CoinsAreSpentOnce, Signed

LEMMA ExecuteStep ==
    ASSUME SettleInv, NEW t \in Settles, execute(t)
    PROVE  SettleInv'
<1>1. settle[t].at = "execute" /\ SettleKnows(t) /\ UNCHANGED payment
  BY DEF SettleInv, execute
<1>2. PICK p \in Payments : settle[t].payment = p /\ Signed(p) /\ ~settle[t].again
  BY <1>1 DEF SettleKnows
<1>3. ASSUME NEW effect \in {"exact", "inexact", "none", "aborted"}
      PROVE  /\ Confirmed(effect) \in Stage
             /\ Confirmed(effect) = "final" <=> effect = "exact"
             /\ Confirmed(effect) \in {"final", "failed", "not exact"}
  BY DEF Confirmed, merchantCredit, Stage
<1>4. ASSUME NEW effect \in Credits(p) \cup {"aborted"}, Land(p, effect),
             At(t, Confirmed(effect)) \/ At(t, "error")
      PROVE  SettleInv'
  <2>1. effect \in {"exact", "inexact", "none", "aborted"}
    BY <1>4 DEF Credits
  <2>2. PICK at \in {Confirmed(effect), "error"} : At(t, at)
    BY <1>4
  <2>3. landed'[p] = effect /\ ~Executable(p)'
    BY <1>2, <1>4, <2>1, <1>1, LandSpends DEF Executable, NotLanded
  <2>4. at \in Stage /\ (at = "final" => effect = "exact")
        /\ (at \in {"failed", "not exact"} => effect # "exact")
    BY <1>3, <2>1, <2>2 DEF Stage
  <2>5. X402TypeOK' /\ \A u \in Settles : SettleKnows(u)'
    BY <1>1, <1>2, <1>4, <2>1, <2>2, <2>3, <2>4, LandSpends, SettleMoves, ZenonT(40)
  <2> QED
    BY <1>1, <1>2, <1>4, <2>1, <2>5, LandSpends DEF SettleInv
<1>5. ASSUME UNCHANGED <<whole, landed>>, NEW at \in Stage, At(t, at),
             at = "final" => landed[p] = "exact",
             at \in {"failed", "not exact"} => landed[p] # "exact" /\ ~Executable(p)
      PROVE  SettleInv'
  <2>1. X402TypeOK' /\ \A u \in Settles : SettleKnows(u)'
    <3>1. landed' \in [Payments -> {NotLanded, "exact", "inexact", "none", "aborted"}]
          /\ whole' \subseteq whole
      BY <1>5 DEF SettleInv, X402TypeOK
    <3>2. Executable(p)' = Executable(p)
      BY <1>1, <1>5 DEF Executable
    <3> QED
      BY <1>1, <1>2, <1>5, <3>1, <3>2, SettleMoves
  <2> QED
    BY <1>1, <1>5, <2>1 DEF SettleInv, CoinsAreSpentOnce, Signed
<1>6. CASE landed[p] # NotLanded /\ At(t, Confirmed(landed[p])) /\ UNCHANGED <<whole, landed>>
  <2>1. landed[p] \in {"exact", "inexact", "none", "aborted"} /\ ~Executable(p)
    BY <1>2, <1>6 DEF SettleInv, X402TypeOK, Executable
  <2> QED
    BY <1>3, <1>5, <1>6, <2>1
<1>7. CASE /\ landed[p] = NotLanded /\ ~Executable(p) /\ At(t, "failed")
           /\ UNCHANGED <<whole, landed>>
  BY <1>5, <1>7 DEF Stage, NotLanded
<1>8. CASE At(t, "error") /\ UNCHANGED <<whole, landed>>
  BY <1>5, <1>8 DEF Stage
<1> QED
  BY <1>2, <1>4, <1>6, <1>7, <1>8 DEF execute

\* What the settles know holds in every state.
THEOREM SettleInvariant == X402Spec => []SettleInv
<1>1. X402Init => SettleInv
  <2> SUFFICES ASSUME X402Init PROVE SettleInv
    OBVIOUS
  <2>1. Idle \in [at : Stage, payment : Payments \cup {"none"}, again : BOOLEAN]
    BY DEF Idle, Stage
  <2>2. X402TypeOK
    BY <2>1 DEF X402Init, X402TypeOK
  <2>3. CoinsAreSpentOnce
    BY DEF X402Init, CoinsAreSpentOnce
  <2>4. \A t \in Settles : SettleKnows(t)
    BY DEF X402Init, SettleKnows, Idle
  <2> QED
    BY <2>2, <2>3, <2>4 DEF SettleInv
<1>2. SettleInv /\ [X402Next]_x402 => SettleInv'
  <2> SUFFICES ASSUME SettleInv, [X402Next]_x402 PROVE SettleInv'
    OBVIOUS
  <2>1. CASE UNCHANGED x402
    BY <2>1 DEF x402, SettleInv, X402TypeOK, CoinsAreSpentOnce, SettleKnows, Signed, Executable
  <2> QED
    BY <2>1, BuyerSteps, AskStep, VerifyStep, ExecuteStep DEF X402Next
<1> QED
  BY <1>1, <1>2, PTL DEF X402Spec

\* A settle is final only when its bytes have paid exactly, with a coin no
\* other success spent and not for the second time; and it fails only when they
\* never will (ExactFacilitator.settle).
THEOREM FinalSettlesPaid == X402Spec => []FinalMeansPaid
<1>1. SettleInv => FinalMeansPaid
  <2> SUFFICES ASSUME SettleInv, NEW t \in Settles
      PROVE  LET p == settle[t].payment IN
             /\ Final(t) => /\ landed[p] = "exact" /\ ~settle[t].again
                            /\ \A u \in Settles : Final(u) /\ settle[u].payment # p
                                   => payment[settle[u].payment].coin # payment[p].coin
             /\ settle[t].at \in {"failed", "not exact"} =>
                    landed[p] # "exact" /\ ~Executable(p)
    BY DEF FinalMeansPaid
  <2>1. \A u \in Settles : Final(u) => /\ settle[u].payment \in Payments
                                       /\ landed[settle[u].payment] = "exact"
    BY DEF SettleInv, SettleKnows, Final
  <2>2. Final(t) => ~settle[t].again
    BY DEF SettleInv, SettleKnows, Final
  <2>3. \A u \in Settles : Final(t) /\ Final(u) /\ settle[u].payment # settle[t].payment
            => payment[settle[u].payment].coin # payment[settle[t].payment].coin
    BY <2>1 DEF SettleInv, CoinsAreSpentOnce, NotLanded
  <2>4. settle[t].at \in {"failed", "not exact"} =>
            landed[settle[t].payment] # "exact" /\ ~Executable(settle[t].payment)
    BY DEF SettleInv, SettleKnows
  <2> QED
    BY <2>1, <2>2, <2>3, <2>4
<1> QED
  BY <1>1, SettleInvariant, PTL

-----------------------------------------------------------------------------
(* The agent: what its transactions and its messages are.                  *)

Callers == Tools \cup People
Signers == {"agent", "person"}
Maxes == Prices \cup {Unset, maxPerCharge}
Messages == {Nobody} \cup
    [plan : Plans, echo : {Echo(t) : t \in Terms}, budget : Budgets, max : Maxes]

AuthorizeTxs == [kind : {"authorize"}, by : Signers, plan : Plans, expected : Terms,
                 budget : Budgets, max : Maxes, message : Messages]
Txs == AuthorizeTxs \cup [kind : {"revoke"}, id : Nat]
SignedMandates == [by : Signers, plan : Plans, terms : Terms, budget : Budgets, max : Maxes,
             state : {"active", "paused", "revoked", "closed"}, message : Messages]
OnSale == [terms : Terms, state : {"on sale", "off sale", "closed"}]

Calls ==
    {NoCall}
    \cup [at : {"resolve"}, plan : Plans, budget : Budgets]
    \cup [at : {"quoted"}, plan : Plans, quote : OnSale]
    \cup [at : {"sign"}, tx : Txs]
    \cup [at : {"answer"}, kind : {"authorize", "revoke"}, id : Nat]
    \cup [at : {"reading"}, ids : SUBSET Nat, listed : SUBSET Nat, must : SUBSET Nat]
    \cup [at : {"reported"}, listed : SUBSET Nat, must : SUBSET Nat]

AgentTypes ==
    /\ policy \in [allowed : [AllowedPlans -> Terms], allowOpen : BOOLEAN]
    /\ plans \in [Plans -> OnSale]
    /\ signed \in Seq(SignedMandates)
    /\ unanswered \in SUBSET Txs
    /\ call \in [Callers -> Calls]

-----------------------------------------------------------------------------
(* The inductive invariant.  ReviewedTermsBind speaks of what is signed;   *)
(* it needs what is about to be, wherever that is: in a call that signs or *)
(* in a transaction that may land later.  StatusIsComplete speaks of       *)
(* answers; it needs what a call that reads has still to read, and that    *)
(* the agent forgets an id only after the chain has revoked it.            *)

\* An authorization, before the chain has seen it, has what was reviewed.
Reviewed(tx, pol) ==
    tx.kind = "authorize" =>
        IF tx.by = "person"
        THEN tx.message = [plan |-> tx.plan, echo |-> Echo(tx.expected), budget |-> tx.budget,
                           max |-> Ceiling(tx.expected, tx.max)]
        ELSE IF tx.plan \in AllowedPlans
        THEN /\ tx.expected = pol.allowed[tx.plan] /\ tx.budget <= maxTotalBudget
             /\ tx.max = Throttle(maxPerCharge, tx.expected)
        ELSE pol.allowOpen

\* A transaction that may be sent: it has been reviewed, or revokes what exists.
Fit(tx, s, pol) == Reviewed(tx, pol) /\ (tx.kind = "revoke" => tx.id \in DOMAIN s)

\* A mandate has what was reviewed: ReviewedTermsBind, of one mandate.
Bound(m, pol) ==
    IF m.by = "person"
    THEN m.message = [plan |-> m.plan, echo |-> Echo(m.terms), budget |-> m.budget, max |-> m.max]
    ELSE IF m.plan \in AllowedPlans
    THEN /\ Echo(m.terms) = Echo(pol.allowed[m.plan])
         /\ m.budget <= maxTotalBudget /\ m.max = Ceiling(m.terms, maxPerCharge)
    ELSE pol.allowOpen

Over == {"revoked", "closed"}

\* What the ids a status call owes are, given those it has or will have read.
Owes(must, covered, s) ==
    /\ must \subseteq DOMAIN s
    /\ \A id \in must : s[id].state \in Over \/ (s[id].state = "active" /\ id \in covered)

\* What a call knows of the mandates s and of the policy.
Knows(k, s, pol) ==
    /\ k.at = "resolve" => k.plan \notin AllowedPlans /\ pol.allowOpen
    /\ k.at = "sign" => Fit(k.tx, s, pol)
    /\ k.at = "answer" =>
        k.id \in DOMAIN s /\ (k.kind = "revoke" => s[k.id].state \in Over)
    /\ k.at = "reading" => k.ids \subseteq DOMAIN s /\ Owes(k.must, k.ids \cup k.listed, s)
    /\ k.at = "reported" => Owes(k.must, k.listed, s)

\* An id that was given is watched until its mandate is over.
Watches(kn, w, s) ==
    /\ kn \cup w \subseteq DOMAIN s
    /\ \A id \in kn : s[id].state \in Over \/ id \in w

AgentInv ==
    /\ AgentTypes
    /\ \A id \in DOMAIN signed : Bound(signed[id], policy)
    /\ \A tx \in unanswered : Fit(tx, signed, policy)
    /\ \A c \in Callers : Knows(call[c], signed, policy)
    /\ Watches(known, watched, signed)

-----------------------------------------------------------------------------
(* Lemmas about terms.                                                     *)

\* Plans that authorize does not tell apart have one ceiling.
LEMMA EchoDecides ==
    ASSUME NEW s \in Terms, NEW t \in Terms, Echo(s) = Echo(t)
    PROVE  /\ s.mode = t.mode /\ s.price = t.price
           /\ \A max : Ceiling(s, max) = Ceiling(t, max)
<1>1. s.mode = t.mode /\ s.price = t.price
    <2> /\ s \in [mode : {"fixed", "payg"}, price : Nat \ {0}, keeper : {u.keeper : u \in Terms}]
        /\ t \in [mode : {"fixed", "payg"}, price : Nat \ {0}, keeper : {u.keeper : u \in Terms}]
        BY AgentAssumption DEF AgentAssumption
    <2>1. Echo(s).mode = s.mode /\ Echo(s).price = s.price  BY DEF Echo
    <2>2. Echo(t).mode = t.mode /\ Echo(t).price = t.price  BY DEF Echo
    <2> QED  BY <2>1, <2>2
<1> QED  BY <1>1 DEF Ceiling, Throttle

\* Throttling twice is throttling once: a price is never Unset.
LEMMA ThrottleTwice ==
    ASSUME NEW t \in Terms, NEW max
    PROVE  /\ Ceiling(t, Throttle(max, t)) = Ceiling(t, max)
           /\ t.price \in Nat \ {0}
<1>1. t.price \in Nat \ {0}  BY AgentAssumption DEF AgentAssumption
<1> QED  BY <1>1 DEF Ceiling, Throttle, Unset

\* Ceilings and throttles are in Maxes.
LEMMA MaxesClosed ==
    ASSUME NEW t \in Terms, NEW max \in Maxes
    PROVE  Throttle(max, t) \in Maxes /\ Ceiling(t, max) \in Maxes
BY DEF Throttle, Ceiling, Maxes, Prices

-----------------------------------------------------------------------------
(* Lemmas about mandates that come and go.                                 *)

\* From s to t no mandate is lost, and each keeps its status or is over.
Wanes(s, t) ==
    /\ DOMAIN s \subseteq DOMAIN t
    /\ \A id \in DOMAIN s : t[id].state = s[id].state \/ t[id].state \in Over

\* What is known of the mandates outlasts such a step.
LEMMA KnowledgeLasts ==
    ASSUME NEW s, NEW t, Wanes(s, t)
    PROVE  /\ \A k, pol : Knows(k, s, pol) => Knows(k, t, pol)
           /\ \A tx, pol : Fit(tx, s, pol) => Fit(tx, t, pol)
           /\ \A kn, w : Watches(kn, w, s) => Watches(kn, w, t)
<1>1. \A tx, pol : Fit(tx, s, pol) => Fit(tx, t, pol)  BY DEF Wanes, Fit
<1>2. \A must, covered : Owes(must, covered, s) => Owes(must, covered, t)
    BY DEF Wanes, Owes, Over
<1>3. ASSUME NEW k, NEW pol, Knows(k, s, pol)
      PROVE  Knows(k, t, pol)
    <2>1. k.at = "answer" =>
            k.id \in DOMAIN t /\ (k.kind = "revoke" => t[k.id].state \in Over)
        BY <1>3 DEF Knows, Wanes
    <2>2. k.at = "reading" => k.ids \subseteq DOMAIN t /\ Owes(k.must, k.ids \cup k.listed, t)
        BY <1>2, <1>3 DEF Knows, Wanes
    <2> QED  BY <1>1, <1>2, <1>3, <2>1, <2>2 DEF Knows
<1>4. \A kn, w : Watches(kn, w, s) => Watches(kn, w, t)
    BY DEF Wanes, Watches
<1> QED  BY <1>1, <1>3, <1>4

\* The chain signs only what was reviewed.
LEMMA ChainSigns ==
    ASSUME AgentTypes, NEW tx \in Txs, Fit(tx, signed, policy), tx.kind = "authorize",
           Accepts(tx), SignMandate(tx), \A id \in DOMAIN signed : Bound(signed[id], policy)
    PROVE  /\ signed' \in Seq(SignedMandates) /\ Wanes(signed, signed')
           /\ \A id \in DOMAIN signed' : Bound(signed'[id], policy)
           /\ Len(signed) + 1 \in DOMAIN signed'
<1> DEFINE offer == plans[tx.plan].terms
           m == [by |-> tx.by, plan |-> tx.plan, terms |-> offer, budget |-> tx.budget,
                 max |-> Ceiling(offer, tx.max), state |-> "active", message |-> tx.message]
<1>1. tx \in AuthorizeTxs /\ plans[tx.plan] \in OnSale /\ offer \in Terms
    BY DEF AgentTypes, Txs, AuthorizeTxs, OnSale
<1>2. m \in SignedMandates
    BY <1>1, MaxesClosed DEF SignedMandates, AuthorizeTxs
<1>3. Echo(offer) = Echo(tx.expected) /\ tx.expected \in Terms
    BY <1>1 DEF Accepts, AuthorizeTxs
<1>4. Ceiling(offer, tx.max) = Ceiling(tx.expected, tx.max)
    BY <1>1, <1>3, EchoDecides
<1>5. Bound(m, policy)
    <2>1. CASE tx.by = "person"
        BY <2>1, <1>3, <1>4 DEF Bound, Fit, Reviewed
    <2>2. CASE tx.by # "person" /\ tx.plan \in AllowedPlans
        <3>1. /\ tx.expected = policy.allowed[tx.plan] /\ tx.budget <= maxTotalBudget
              /\ tx.max = Throttle(maxPerCharge, tx.expected)
            BY <2>2 DEF Fit, Reviewed
        <3>2. Ceiling(offer, tx.max) = Ceiling(tx.expected, maxPerCharge)
            BY <1>3, <1>4, <3>1, ThrottleTwice
        <3>3. Ceiling(tx.expected, maxPerCharge) = Ceiling(offer, maxPerCharge)
            BY <1>1, <1>3, EchoDecides
        <3> QED  BY <1>3, <2>2, <3>1, <3>2, <3>3 DEF Bound
    <2>3. CASE tx.by # "person" /\ tx.plan \notin AllowedPlans
        BY <2>3 DEF Bound, Fit, Reviewed
    <2> QED  BY <2>1, <2>2, <2>3
<1>6. signed' = Append(signed, m)  BY DEF SignMandate
<1> HIDE DEF m
<1>7. /\ signed' \in Seq(SignedMandates)
      /\ DOMAIN signed' = DOMAIN signed \cup {Len(signed) + 1}
      /\ \A id \in DOMAIN signed : signed'[id] = signed[id]
      /\ signed'[Len(signed) + 1] = m
    BY <1>2, <1>6 DEF AgentTypes
<1> QED  BY <1>5, <1>7 DEF Wanes

\* A revocation changes the status of one mandate, for good.
LEMMA ChainRevokes ==
    ASSUME AgentTypes, NEW id \in DOMAIN signed, Revoke(id),
           \A i \in DOMAIN signed : Bound(signed[i], policy)
    PROVE  /\ signed' \in Seq(SignedMandates) /\ Wanes(signed, signed')
           /\ \A i \in DOMAIN signed' : Bound(signed'[i], policy)
           /\ signed'[id].state \in Over
<1>1. signed[id] \in SignedMandates  BY DEF AgentTypes
<1> DEFINE m == [signed[id] EXCEPT !.state = "revoked"]
<1>2. m \in SignedMandates /\ m.state = "revoked"  BY <1>1 DEF SignedMandates
<1>3. Bound(m, policy)
    <2>1. /\ m.by = signed[id].by /\ m.plan = signed[id].plan /\ m.terms = signed[id].terms
          /\ m.budget = signed[id].budget /\ m.max = signed[id].max
          /\ m.message = signed[id].message
        BY <1>1 DEF SignedMandates
    <2> QED  BY <2>1 DEF Bound
<1>4. signed' = [signed EXCEPT ![id] = m]  BY DEF Revoke
<1> HIDE DEF m
<1>5. signed' \in Seq(SignedMandates)  BY <1>2, <1>4 DEF AgentTypes
<1>6. /\ DOMAIN signed' = DOMAIN signed /\ signed'[id] = m
      /\ \A i \in DOMAIN signed \ {id} : signed'[i] = signed[i]
    BY <1>4 DEF AgentTypes
<1> QED  BY <1>2, <1>3, <1>5, <1>6 DEF Wanes, Over

\* Whatever lands, now or later.
LEMMA Landing ==
    ASSUME AgentTypes, NEW tx \in Txs, Fit(tx, signed, policy), Executes(tx),
           \A id \in DOMAIN signed : Bound(signed[id], policy)
    PROVE  /\ signed' \in Seq(SignedMandates) /\ Wanes(signed, signed')
           /\ \A id \in DOMAIN signed' : Bound(signed'[id], policy)
           /\ tx.kind = "authorize" => Len(signed) + 1 \in DOMAIN signed'
           /\ tx.kind = "revoke" => signed'[tx.id].state \in Over
<1>1. CASE tx.kind = "authorize"  BY <1>1, ChainSigns DEF Executes
<1>2. CASE tx.kind # "authorize"
    <2>1. tx.kind = "revoke"  BY <1>2 DEF Txs, AuthorizeTxs
    <2>2. tx.id \in DOMAIN signed  BY <2>1 DEF Fit
    <2>3. Revoke(tx.id)  BY <1>2 DEF Executes
    <2> QED  BY <1>2, <2>2, <2>3, ChainRevokes
<1> QED  BY <1>1, <1>2

-----------------------------------------------------------------------------
(* The steps.                                                              *)

\* A step of one caller that signs nothing and is given no id.
LEMMA QuietStep ==
    ASSUME AgentInv, NEW c \in Callers, NEW to \in Calls, Knows(to, signed, policy),
           Goes(c, to), NothingSigned, watched' = watched, known' = known
    PROVE  AgentInv'
<1>1. AgentTypes'  BY DEF AgentInv, AgentTypes, Goes, NothingSigned
<1>2. \A d \in Callers : call'[d] = call[d] \/ call'[d] = to
    BY DEF AgentInv, AgentTypes, Goes
<1>3. \A d \in Callers : Knows(call'[d], signed', policy')
    BY <1>2 DEF AgentInv, NothingSigned
<1>4. \A id \in DOMAIN signed' : Bound(signed'[id], policy')  BY DEF AgentInv, NothingSigned
<1>5. \A tx \in unanswered' : Fit(tx, signed', policy')  BY DEF AgentInv, NothingSigned
<1>6. Watches(known', watched', signed')  BY DEF AgentInv, NothingSigned
<1> QED  BY <1>1, <1>3, <1>4, <1>5, <1>6 DEF AgentInv

\* To be idle is to know nothing.
LEMMA IdleKnows == NoCall \in Calls /\ \A s, pol : Knows(NoCall, s, pol)
BY DEF Calls, NoCall, Knows

\* What the agent sends for a plan it may subscribe to.
LEMMA AgentReviews ==
    ASSUME AgentTypes, NEW p \in Plans, NEW offer \in Terms, NEW budget \in Budgets,
           NEW max \in Maxes,
           \/ p \in AllowedPlans /\ offer = policy.allowed[p] /\ budget <= maxTotalBudget
              /\ max = maxPerCharge
           \/ p \notin AllowedPlans /\ policy.allowOpen
    PROVE  /\ ByAgent(p, offer, budget, max) \in Calls
           /\ Knows(ByAgent(p, offer, budget, max), signed, policy)
<1> DEFINE tx == AuthorizeTx("agent", p, offer, budget, Throttle(max, offer), Nobody)
<1>1. tx \in AuthorizeTxs
    BY MaxesClosed DEF AuthorizeTx, AuthorizeTxs, Signers, Messages
<1>2. Reviewed(tx, policy) /\ tx.kind = "authorize"  BY DEF AuthorizeTx, Reviewed
<1>3. ByAgent(p, offer, budget, max) = [at |-> "sign", tx |-> tx]  BY DEF ByAgent, Signing
<1> HIDE DEF tx
<1>4. ByAgent(p, offer, budget, max) \in Calls  BY <1>1, <1>3 DEF Calls, Txs
<1> QED  BY <1>2, <1>3, <1>4 DEF Knows, Fit

\* What a person sends for the quote he has read.
LEMMA PersonReviews ==
    ASSUME NEW p \in Plans, NEW quote \in OnSale, NEW budget \in Budgets, NEW max \in Maxes,
           NEW s, NEW pol
    PROVE  LET to == Signing(AuthorizeTx("person", p, quote.terms, budget,
                        Throttle(max, quote.terms), consentMessage(p, quote, budget, max)))
           IN  to \in Calls /\ Knows(to, s, pol)
<1> DEFINE message == consentMessage(p, quote, budget, max)
           tx == AuthorizeTx("person", p, quote.terms, budget, Throttle(max, quote.terms), message)
<1>1. quote.terms \in Terms  BY DEF OnSale
<1>2. message \in Messages
    BY <1>1, MaxesClosed DEF consentMessage, Messages
<1>3. message = [plan |-> p, echo |-> Echo(quote.terms), budget |-> budget,
                 max |-> Ceiling(quote.terms, Throttle(max, quote.terms))]
    BY <1>1, ThrottleTwice DEF consentMessage
<1> HIDE DEF message
<1>4. tx \in AuthorizeTxs
    BY <1>1, <1>2, MaxesClosed DEF AuthorizeTx, AuthorizeTxs, Signers
<1>5. Reviewed(tx, pol) /\ tx.kind = "authorize"  BY <1>3 DEF AuthorizeTx, Reviewed
<1>6. Signing(tx) = [at |-> "sign", tx |-> tx]  BY DEF Signing
<1> HIDE DEF tx
<1>7. Signing(tx) \in Calls  BY <1>4, <1>6 DEF Calls, Txs
<1>8. Knows(Signing(tx), s, pol)  BY <1>5, <1>6 DEF Knows, Fit
<1> QED  BY <1>7, <1>8 DEF tx, message

\* A call in each place is the record that belongs there.
LEMMA CallShapes ==
    ASSUME NEW k \in Calls
    PROVE  /\ k.at = "resolve" => k \in [at : {"resolve"}, plan : Plans, budget : Budgets]
           /\ k.at = "quoted" => k \in [at : {"quoted"}, plan : Plans, quote : OnSale]
           /\ k.at = "sign" => k \in [at : {"sign"}, tx : Txs]
           /\ k.at = "answer" => k \in [at : {"answer"}, kind : {"authorize", "revoke"}, id : Nat]
           /\ k.at = "reading" =>
                k \in [at : {"reading"}, ids : SUBSET Nat, listed : SUBSET Nat, must : SUBSET Nat]
           /\ k.at = "reported" =>
                k \in [at : {"reported"}, listed : SUBSET Nat, must : SUBSET Nat]
BY DEF Calls, NoCall

\* The agent's calls, up to the signature.
LEMMA AgentAsks ==
    ASSUME AgentInv, NEW c \in Tools, subscribe(c) \/ resolveOpen(c) \/ unsubscribe(c)
    PROVE  AgentInv'
<1> c \in Callers  BY DEF Callers
<1> AgentTypes  BY DEF AgentInv
<1>1. CASE subscribe(c)
    <2> PICK p \in Plans, budget \in Budgets :
            \/ /\ p \in AllowedPlans /\ budget <= maxTotalBudget
               /\ Goes(c, ByAgent(p, policy.allowed[p], budget, maxPerCharge))
            \/ /\ p \notin AllowedPlans /\ policy.allowOpen
               /\ Goes(c, [at |-> "resolve", plan |-> p, budget |-> budget])
        BY <1>1 DEF subscribe
    <2> NothingSigned /\ watched' = watched /\ known' = known  BY <1>1 DEF subscribe
    <2>1. CASE p \in AllowedPlans
        <3>1. policy.allowed[p] \in Terms  BY <2>1 DEF AgentTypes
        <3>2. maxPerCharge \in Maxes  BY DEF Maxes
        <3>3. budget <= maxTotalBudget
              /\ Goes(c, ByAgent(p, policy.allowed[p], budget, maxPerCharge))
            BY <2>1
        <3> QED  BY <2>1, <3>1, <3>2, <3>3, AgentReviews, QuietStep
    <2>2. CASE p \notin AllowedPlans
        <3> DEFINE to == [at |-> "resolve", plan |-> p, budget |-> budget]
        <3>1. to \in Calls  BY DEF Calls
        <3>2. Knows(to, signed, policy)  BY <2>2 DEF Knows
        <3>3. Goes(c, to)  BY <2>2
        <3> QED  BY <3>1, <3>2, <3>3, QuietStep
    <2> QED  BY <2>1, <2>2
<1>2. CASE resolveOpen(c)
    <2> DEFINE k == call[c]
               p == k.plan
    <2>1. k \in [at : {"resolve"}, plan : Plans, budget : Budgets]
        BY <1>2, CallShapes DEF AgentTypes, resolveOpen
    <2>2. p \notin AllowedPlans /\ policy.allowOpen  BY <1>2 DEF AgentInv, Knows, resolveOpen
    <2>3. plans[p].terms \in Terms  BY <2>1 DEF AgentTypes, OnSale
    <2>4. Unset \in Maxes  BY DEF Maxes
    <2>5. /\ ByAgent(p, plans[p].terms, k.budget, Unset) \in Calls
          /\ Knows(ByAgent(p, plans[p].terms, k.budget, Unset), signed, policy)
        BY <2>1, <2>2, <2>3, <2>4, AgentReviews
    <2>6. Goes(c, NoCall) \/ Goes(c, ByAgent(p, plans[p].terms, k.budget, Unset))
        BY <1>2 DEF resolveOpen
    <2> QED  BY <1>2, <2>5, <2>6, IdleKnows, QuietStep DEF resolveOpen
<1>3. CASE unsubscribe(c)
    <2> PICK id \in DOMAIN signed : Goes(c, Signing([kind |-> "revoke", id |-> id]))
        BY <1>3 DEF unsubscribe
    <2> DEFINE to == Signing([kind |-> "revoke", id |-> id])
    <2>1. id \in Nat  BY DEF AgentTypes
    <2>2. to \in Calls  BY <2>1 DEF Signing, Calls, Txs
    <2>3. Knows(to, signed, policy)  BY DEF Signing, Knows, Fit, Reviewed
    <2> HIDE DEF to
    <2>4. Goes(c, to)  BY DEF to
    <2> QED  BY <1>3, <2>2, <2>3, <2>4, QuietStep DEF unsubscribe
<1> QED  BY <1>1, <1>2, <1>3

\* A status call: what it reads it no longer has to, and what it no longer
\* has to read and is in force it lists.
LEMMA AgentReads ==
    ASSUME AgentInv, NEW c \in Tools, budgetStatus(c) \/ getMandate(c) \/ Report(c) \/ Done(c)
    PROVE  AgentInv'
<1> c \in Callers  BY DEF Callers
<1> call[c] \in Calls  BY DEF AgentInv, AgentTypes
<1> DOMAIN signed \subseteq Nat  BY DEF AgentInv, AgentTypes
<1> USE IdleKnows, QuietStep
<1>1. CASE budgetStatus(c)
    <2> DEFINE to == [at |-> "reading", ids |-> watched, listed |-> {},
                      must |-> {id \in known : signed[id].state = "active"}]
    <2>1. watched \subseteq DOMAIN signed /\ known \subseteq DOMAIN signed
        BY DEF AgentInv, Watches
    <2>2. to \in Calls  BY <2>1 DEF Calls
    <2>3. Owes(to.must, to.ids \cup to.listed, signed)
        BY <2>1 DEF AgentInv, Watches, Owes, Over
    <2>4. Knows(to, signed, policy)  BY <2>1, <2>3 DEF Knows
    <2>5. Goes(c, to) /\ NothingSigned /\ watched' = watched /\ known' = known
        BY <1>1 DEF budgetStatus
    <2> QED  BY <2>2, <2>4, <2>5
<1>2. CASE getMandate(c)
    <2> DEFINE k == call[c]
    <2>1. k \in [at : {"reading"}, ids : SUBSET Nat, listed : SUBSET Nat, must : SUBSET Nat]
        BY <1>2, CallShapes DEF getMandate
    <2>2. k.ids \subseteq DOMAIN signed /\ Owes(k.must, k.ids \cup k.listed, signed)
        BY <1>2 DEF AgentInv, Knows, getMandate
    <2> PICK id \in k.ids :
            Goes(c, IF signed[id].state = "closed" THEN NoCall
                    ELSE [k EXCEPT !.ids = @ \ {id},
                             !.listed = IF signed[id].state = "active" THEN @ \cup {id} ELSE @])
        BY <1>2 DEF getMandate
    <2> DEFINE listed == IF signed[id].state = "active" THEN k.listed \cup {id} ELSE k.listed
               to == [k EXCEPT !.ids = k.ids \ {id}, !.listed = listed]
    <2>3. /\ to \in [at : {"reading"}, ids : SUBSET Nat, listed : SUBSET Nat, must : SUBSET Nat]
          /\ to.ids = k.ids \ {id} /\ to.listed = listed /\ to.must = k.must
        BY <2>1
    <2>4. to \in Calls  BY <2>3 DEF Calls
    <2>5. Owes(to.must, to.ids \cup to.listed, signed)  BY <2>2, <2>3 DEF Owes, Over
    <2>6. Knows(to, signed, policy)  BY <2>2, <2>3, <2>5 DEF Knows
    <2>7. Goes(c, NoCall) \/ Goes(c, to)  OBVIOUS
    <2> HIDE DEF to
    <2> QED  BY <1>2, <2>4, <2>6, <2>7 DEF getMandate
<1>3. CASE Report(c)
    <2> DEFINE k == call[c]
               to == [at |-> "reported", listed |-> k.listed, must |-> k.must]
    <2>1. k \in [at : {"reading"}, ids : SUBSET Nat, listed : SUBSET Nat, must : SUBSET Nat]
        BY <1>3, CallShapes DEF Report
    <2>2. to \in Calls  BY <2>1 DEF Calls
    <2>3. Owes(k.must, k.ids \cup k.listed, signed) /\ k.ids = {}
        BY <1>3 DEF AgentInv, Knows, Report
    <2>4. Knows(to, signed, policy)  BY <2>3 DEF Knows
    <2>5. Goes(c, to) /\ NothingSigned /\ watched' = watched /\ known' = known
        BY <1>3 DEF Report
    <2> QED  BY <2>2, <2>4, <2>5
<1>4. CASE Done(c)  BY <1>4 DEF Done
<1> QED  BY <1>1, <1>2, <1>3, <1>4

\* A person signs what the quote said, whatever the plan has become.
LEMMA PersonActs ==
    ASSUME AgentInv, NEW c \in People, (\E p \in Plans : quoteFromPlan(c, p)) \/ buildConsent(c)
    PROVE  AgentInv'
<1> c \in Callers  BY DEF Callers
<1> AgentTypes  BY DEF AgentInv
<1> call[c] \in Calls  BY DEF AgentTypes
<1>1. ASSUME NEW p \in Plans, quoteFromPlan(c, p)
      PROVE  AgentInv'
    <2> DEFINE to == [at |-> "quoted", plan |-> p, quote |-> plans[p]]
    <2>1. to \in Calls  BY DEF Calls, AgentTypes
    <2>2. Knows(to, signed, policy)  BY DEF Knows
    <2>3. Goes(c, to)  BY <1>1 DEF quoteFromPlan
    <2> QED  BY <1>1, <2>1, <2>2, <2>3, QuietStep DEF quoteFromPlan
<1>2. CASE buildConsent(c)
    <2> DEFINE p == call[c].plan
               quote == call[c].quote
               to(budget, max) == Signing(AuthorizeTx("person", p, quote.terms, budget,
                    Throttle(max, quote.terms), consentMessage(p, quote, budget, max)))
    <2>1. p \in Plans /\ quote \in OnSale
        BY <1>2, CallShapes DEF buildConsent
    <2>2. Prices \cup {Unset} \subseteq Maxes  BY DEF Maxes
    <2>3. \A budget \in Budgets : \A max \in Maxes :
            to(budget, max) \in Calls /\ Knows(to(budget, max), signed, policy)
        BY <2>1, PersonReviews
    <2>4. \/ \E budget \in Budgets : \E max \in Prices \cup {Unset} : Goes(c, to(budget, max))
          \/ Goes(c, NoCall)
        BY <1>2 DEF buildConsent
    <2> HIDE DEF to
    <2> QED  BY <1>2, <2>2, <2>3, <2>4, IdleKnows, QuietStep DEF buildConsent
<1> QED  BY <1>1, <1>2

\* The transaction is executed, or its answer arrives, or neither.
LEMMA ClientActs ==
    ASSUME AgentInv, NEW c \in Callers, exec(c) \/ ExecAborts(c) \/ ExecLost(c) \/ Answer(c)
    PROVE  AgentInv'
<1> AgentTypes  BY DEF AgentInv
<1> call[c] \in Calls  BY DEF AgentTypes
<1> DOMAIN signed \subseteq Nat  BY DEF AgentTypes
<1>1. CASE exec(c)
    <2> DEFINE tx == call[c].tx
               to == [at |-> "answer", kind |-> tx.kind,
                      id |-> IF tx.kind = "authorize" THEN Len(signed) + 1 ELSE tx.id]
    <2>1. tx \in Txs /\ Fit(tx, signed, policy)
        BY <1>1, CallShapes DEF AgentInv, Knows, exec
    <2>2. Executes(tx) /\ \A id \in DOMAIN signed : Bound(signed[id], policy)
        BY <1>1 DEF exec, AgentInv
    <2>3. /\ signed' \in Seq(SignedMandates) /\ Wanes(signed, signed')
          /\ \A id \in DOMAIN signed' : Bound(signed'[id], policy)
          /\ tx.kind = "authorize" => Len(signed) + 1 \in DOMAIN signed'
          /\ tx.kind = "revoke" => signed'[tx.id].state \in Over
        BY <2>1, <2>2, Landing
    <2>4. tx.kind \in {"authorize", "revoke"}  BY <2>1 DEF Txs, AuthorizeTxs
    <2>5. to \in Calls  BY <2>1, <2>4 DEF Calls, Txs, AuthorizeTxs, AgentTypes
    <2>6. tx.kind = "revoke" => tx.id \in DOMAIN signed'
        BY <2>1, <2>3 DEF Fit, Wanes
    <2>7. Knows(to, signed', policy)  BY <2>3, <2>4, <2>6 DEF Knows
    <2>8. Goes(c, to) /\ UNCHANGED <<policy, plans, unanswered, watched, known>>
        BY <1>1 DEF exec
    <2> HIDE DEF to, tx
    <2>9. \A d \in Callers : call'[d] = call[d] \/ call'[d] = to
        BY <2>8 DEF AgentTypes, Goes
    <2>10. \A d \in Callers : Knows(call'[d], signed', policy')
        BY <2>3, <2>7, <2>8, <2>9, KnowledgeLasts DEF AgentInv
    <2>11. AgentTypes'  BY <2>3, <2>5, <2>8 DEF AgentTypes, Goes
    <2>12. \A tx_1 \in unanswered' : Fit(tx_1, signed', policy')
        BY <2>3, <2>8, KnowledgeLasts DEF AgentInv
    <2>13. Watches(known', watched', signed')
        BY <2>3, <2>8, KnowledgeLasts DEF AgentInv
    <2> QED  BY <2>3, <2>8, <2>10, <2>11, <2>12, <2>13 DEF AgentInv
<1>2. CASE ExecAborts(c)  BY <1>2, IdleKnows, QuietStep DEF ExecAborts
<1>3. CASE ExecLost(c)
    <2>1. call[c].tx \in Txs /\ Fit(call[c].tx, signed, policy)
        BY <1>3, CallShapes DEF AgentInv, Knows, ExecLost
    <2>2. /\ unanswered' = unanswered \cup {call[c].tx} /\ Goes(c, NoCall)
          /\ UNCHANGED <<policy, plans, signed, watched, known>>
        BY <1>3 DEF ExecLost
    <2>3. AgentTypes'  BY <2>1, <2>2, IdleKnows DEF AgentTypes, Goes
    <2>4. \A d \in Callers : Knows(call'[d], signed', policy')
        BY <2>2, IdleKnows DEF AgentInv, AgentTypes, Goes
    <2> QED  BY <2>1, <2>2, <2>3, <2>4 DEF AgentInv
<1>4. CASE Answer(c)
    <2> DEFINE k == call[c]
    <2>1. k.id \in DOMAIN signed /\ (k.kind = "revoke" => signed[k.id].state \in Over)
        BY <1>4 DEF AgentInv, Knows, Answer
    <2>2. k.kind \in {"authorize", "revoke"}  BY <1>4, CallShapes DEF Answer
    <2>3. Goes(c, NoCall) /\ NothingSigned  BY <1>4 DEF Answer
    <2> DEFINE mine == c \in Tools
    <2>a. /\ watched' = IF ~mine THEN watched
                      ELSE IF k.kind = "authorize" THEN watched \cup {k.id} ELSE watched \ {k.id}
          /\ known' = IF mine /\ k.kind = "authorize" THEN known \cup {k.id} ELSE known
        BY <1>4 DEF Answer
    <2> HIDE DEF k, mine
    <2>4. /\ known' \subseteq known \cup {k.id} /\ watched' \subseteq watched \cup {k.id}
          /\ \A id \in known' :
                \/ id \in known /\ (id \in watched => id \in watched')
                \/ id \in watched'
                \/ id = k.id /\ k.kind = "revoke"
        <3>1. CASE mine /\ k.kind = "authorize"  BY <2>a, <3>1
        <3>2. CASE mine /\ k.kind = "revoke"  BY <2>a, <3>2
        <3>3. CASE ~mine  BY <2>a, <3>3
        <3> QED  BY <2>2, <3>1, <3>2, <3>3
    <2>5. Watches(known', watched', signed)  BY <2>1, <2>4 DEF AgentInv, Watches
    <2>6. AgentTypes'  BY <2>3, IdleKnows DEF AgentTypes, Goes, NothingSigned
    <2>7. \A d \in Callers : Knows(call'[d], signed', policy')
        BY <2>3, IdleKnows DEF AgentInv, AgentTypes, Goes, NothingSigned
    <2> QED  BY <2>3, <2>5, <2>6, <2>7 DEF AgentInv, NothingSigned
<1> QED  BY <1>1, <1>2, <1>3, <1>4

\* The merchant, the owner, what lands late, a restart.
LEMMA OthersAct ==
    ASSUME AgentInv, MerchantActs \/ OwnerActs \/ LandsUnanswered \/ RestartAgent
    PROVE  AgentInv'
<1> AgentTypes  BY DEF AgentInv
<1> DOMAIN signed \subseteq Nat  BY DEF AgentTypes
<1>1. CASE MerchantActs
    <2>1. plans' \in [Plans -> OnSale]
        BY <1>1, ZenonT(40) DEF MerchantActs, AgentTypes, OnSale
    <2> QED  BY <1>1, <2>1 DEF MerchantActs, AgentInv, AgentTypes
<1>2. CASE OwnerActs
    <2>p. PICK id \in DOMAIN signed : \E step \in {<<"active", "paused">>, <<"paused", "active">>,
            <<"active", "revoked">>, <<"paused", "revoked">>, <<"revoked", "closed">>} :
            /\ signed[id].state = step[1]
            /\ signed' = [signed EXCEPT ![id].state = step[2]]
            /\ call' = [c \in DOMAIN call |->
                  IF call[c].at \in {"reading", "reported"}
                  THEN [call[c] EXCEPT !.must = @ \ {id}] ELSE call[c]]
        BY <1>2 DEF OwnerActs
    <2>q. PICK step \in {<<"active", "paused">>, <<"paused", "active">>,
            <<"active", "revoked">>, <<"paused", "revoked">>, <<"revoked", "closed">>} :
            /\ signed[id].state = step[1]
            /\ signed' = [signed EXCEPT ![id].state = step[2]]
            /\ call' = [c \in DOMAIN call |->
                  IF call[c].at \in {"reading", "reported"}
                  THEN [call[c] EXCEPT !.must = @ \ {id}] ELSE call[c]]
        BY <2>p
    <2> DEFINE to == step[2]
    <2>t. /\ to \in {"active", "paused", "revoked", "closed"}
          /\ signed[id].state \in Over => to \in Over
        BY <2>q DEF Over
    <2>s. signed' = [signed EXCEPT ![id].state = to]  BY <2>q
    <2>c. call' = [c \in DOMAIN call |->
            IF call[c].at \in {"reading", "reported"}
            THEN [call[c] EXCEPT !.must = @ \ {id}] ELSE call[c]]
        BY <2>q
    <2> HIDE DEF to
    <2>u. UNCHANGED <<policy, plans, unanswered, watched, known>>  BY <1>2 DEF OwnerActs
    <2> DEFINE m == [signed[id] EXCEPT !.state = to]
    <2>1. signed[id] \in SignedMandates  BY DEF AgentTypes
    <2>2. m \in SignedMandates /\ m.state = to  BY <2>1, <2>t DEF SignedMandates
    <2>3. Bound(m, policy)
        <3>1. /\ m.by = signed[id].by /\ m.plan = signed[id].plan /\ m.terms = signed[id].terms
              /\ m.budget = signed[id].budget /\ m.max = signed[id].max
              /\ m.message = signed[id].message
            BY <2>1 DEF SignedMandates
        <3> QED  BY <3>1 DEF Bound, AgentInv
    <2>4. signed' = [signed EXCEPT ![id] = m]  BY <2>s
    <2> HIDE DEF m
    <2>5. signed' \in Seq(SignedMandates)  BY <2>2, <2>4 DEF AgentTypes
    <2>6. /\ DOMAIN signed' = DOMAIN signed /\ signed'[id] = m
          /\ \A i \in DOMAIN signed \ {id} : signed'[i] = signed[i]
        BY <2>4 DEF AgentTypes
    <2>7. \A i \in DOMAIN signed : signed[i].state \in Over => signed'[i].state \in Over
        BY <2>2, <2>6, <2>t
    <2>8. \A i \in DOMAIN signed' : Bound(signed'[i], policy')
        BY <2>3, <2>6, <2>u DEF AgentInv
    <2>9. \A tx \in unanswered' : Fit(tx, signed', policy')
        BY <2>6, <2>u DEF AgentInv, Fit
    <2>10. Watches(known', watched', signed')
        BY <2>6, <2>7, <2>u DEF AgentInv, Watches
    <2>11. ASSUME NEW c \in Callers
           PROVE  call'[c] \in Calls /\ Knows(call'[c], signed', policy')
        <3> DEFINE k == call[c]
                   k2 == [k EXCEPT !.must = k.must \ {id}]
        <3>1. k \in Calls /\ Knows(k, signed, policy)  BY DEF AgentInv, AgentTypes
        <3>2. call'[c] = IF k.at \in {"reading", "reported"} THEN k2 ELSE k
            BY <2>c DEF AgentTypes
        <3>3. CASE k.at = "reading"
            <4>1. /\ k2 \in [at : {"reading"}, ids : SUBSET Nat, listed : SUBSET Nat, must : SUBSET Nat]
                  /\ k2.ids = k.ids /\ k2.listed = k.listed /\ k2.must = k.must \ {id}
                BY <3>1, <3>3, CallShapes
            <4>2. k.ids \subseteq DOMAIN signed /\ Owes(k.must, k.ids \cup k.listed, signed)
                BY <3>1, <3>3 DEF Knows
            <4>3. Owes(k2.must, k2.ids \cup k2.listed, signed')
                BY <2>6, <4>1, <4>2 DEF Owes
            <4>4. k2 \in Calls  BY <4>1 DEF Calls
            <4>5. Knows(k2, signed', policy')  BY <2>6, <4>1, <4>2, <4>3 DEF Knows
            <4> QED  BY <3>2, <3>3, <4>4, <4>5
        <3>4. CASE k.at = "reported"
            <4>1. /\ k2 \in [at : {"reported"}, listed : SUBSET Nat, must : SUBSET Nat]
                  /\ k2.listed = k.listed /\ k2.must = k.must \ {id}
                BY <3>1, <3>4, CallShapes
            <4>2. Owes(k.must, k.listed, signed)  BY <3>1, <3>4 DEF Knows
            <4>3. Owes(k2.must, k2.listed, signed')  BY <2>6, <4>1, <4>2 DEF Owes
            <4>4. k2 \in Calls  BY <4>1 DEF Calls
            <4>5. Knows(k2, signed', policy')  BY <4>1, <4>3 DEF Knows
            <4> QED  BY <3>2, <3>4, <4>4, <4>5
        <3>5. CASE k.at \notin {"reading", "reported"}
            <4>1. Knows(k, signed', policy')
                BY <2>6, <2>7, <2>u, <3>1, <3>5 DEF Knows, Fit
            <4> QED  BY <3>1, <3>2, <3>5, <4>1
        <3> QED  BY <3>3, <3>4, <3>5
    <2>12. call' \in [Callers -> Calls]  BY <2>11, <2>c DEF AgentTypes
    <2>13. AgentTypes'  BY <2>5, <2>12, <2>u DEF AgentTypes
    <2> QED  BY <2>8, <2>9, <2>10, <2>11, <2>13 DEF AgentInv
<1>3. CASE LandsUnanswered
    <2> PICK tx \in unanswered : Executes(tx) /\ unanswered' = unanswered \ {tx}
        BY <1>3 DEF LandsUnanswered
    <2>1. UNCHANGED <<policy, plans, call, watched, known>>  BY <1>3 DEF LandsUnanswered
    <2>2. tx \in Txs /\ Fit(tx, signed, policy)  BY DEF AgentInv, AgentTypes
    <2>3. \A id \in DOMAIN signed : Bound(signed[id], policy)  BY DEF AgentInv
    <2>4. /\ signed' \in Seq(SignedMandates) /\ Wanes(signed, signed')
          /\ \A id \in DOMAIN signed' : Bound(signed'[id], policy)
        BY <2>2, <2>3, Landing
    <2>5. AgentTypes'  BY <2>1, <2>4 DEF AgentTypes
    <2>6. \A c \in Callers : Knows(call'[c], signed', policy')
        BY <2>1, <2>4, KnowledgeLasts DEF AgentInv
    <2>7. \A t \in unanswered' : Fit(t, signed', policy')
        BY <2>1, <2>4, KnowledgeLasts DEF AgentInv
    <2>8. Watches(known', watched', signed')  BY <2>1, <2>4, KnowledgeLasts DEF AgentInv
    <2> QED  BY <2>1, <2>4, <2>5, <2>6, <2>7, <2>8 DEF AgentInv
<1>4. CASE RestartAgent
    <2> DEFINE inFlight == {call[c].tx : c \in {d \in Tools : call[d].at = "sign"}}
    <2>1. /\ watched' = {} /\ known' = {} /\ unanswered' = unanswered \cup inFlight
          /\ call' = [c \in DOMAIN call |-> IF c \in Tools THEN NoCall ELSE call[c]]
          /\ UNCHANGED <<policy, plans, signed>>
        BY <1>4 DEF RestartAgent
    <2>2. \A tx \in inFlight : tx \in Txs /\ Fit(tx, signed, policy)
        <3>1. ASSUME NEW c \in Tools, call[c].at = "sign"
              PROVE  call[c].tx \in Txs /\ Fit(call[c].tx, signed, policy)
            <4>1. call[c] \in Calls /\ Knows(call[c], signed, policy)
                BY DEF AgentInv, AgentTypes, Callers
            <4> QED  BY <3>1, <4>1, CallShapes DEF Knows
        <3> QED  BY <3>1
    <2>3. AgentTypes'  BY <2>1, <2>2, IdleKnows DEF AgentTypes
    <2>4. \A c \in Callers : Knows(call'[c], signed', policy')
        BY <2>1, IdleKnows DEF AgentInv, AgentTypes
    <2>5. Watches(known', watched', signed')  BY <2>1 DEF Watches
    <2>6. \A tx \in unanswered' : Fit(tx, signed', policy')  BY <2>1, <2>2 DEF AgentInv
    <2> QED  BY <2>1, <2>3, <2>4, <2>5, <2>6 DEF AgentInv
<1> QED  BY <1>1, <1>2, <1>3, <1>4

-----------------------------------------------------------------------------
(* The theorems.                                                           *)

\* Nothing is signed, known or on its way at first.
LEMMA Start == AgentInit => AgentInv
<1> SUFFICES ASSUME AgentInit PROVE AgentInv  OBVIOUS
<1>1. policy \in [allowed : [AllowedPlans -> Terms], allowOpen : BOOLEAN]  BY DEF AgentInit
<1>2. plans \in [Plans -> OnSale]  BY DEF AgentInit, OnSale
<1>3. signed = <<>> /\ unanswered = {} /\ watched = {} /\ known = {}  BY DEF AgentInit
<1>4. call = [c \in Callers |-> NoCall]  BY DEF AgentInit, Callers
<1>5. signed \in Seq(SignedMandates) /\ DOMAIN signed = {}  BY <1>3
<1>6. AgentTypes  BY <1>1, <1>2, <1>3, <1>4, <1>5, IdleKnows DEF AgentTypes
<1>7. \A c \in Callers : Knows(call[c], signed, policy)  BY <1>4, IdleKnows
<1>8. Watches(known, watched, signed)  BY <1>3 DEF Watches
<1> QED  BY <1>3, <1>5, <1>6, <1>7, <1>8 DEF AgentInv

\* The invariant holds: every transaction on its way was reviewed, and every id
\* the agent was given is watched until its mandate is over (agent.ts 78-182).
THEOREM AgentInvariant == AgentSpec => []AgentInv
<1>1. AgentInv /\ [AgentNext]_agent => AgentInv'
    <2> SUFFICES ASSUME AgentInv, [AgentNext]_agent PROVE AgentInv'  OBVIOUS
    <2>1. ASSUME NEW c \in Tools,
                 \/ subscribe(c) \/ resolveOpen(c) \/ unsubscribe(c)
                 \/ budgetStatus(c) \/ getMandate(c) \/ Report(c) \/ Done(c)
          PROVE  AgentInv'
        BY <2>1, AgentAsks, AgentReads
    <2>2. ASSUME NEW c \in People, (\E p \in Plans : quoteFromPlan(c, p)) \/ buildConsent(c)
          PROVE  AgentInv'
        BY <2>2, PersonActs
    <2>3. ASSUME NEW c \in Tools \cup People, exec(c) \/ ExecAborts(c) \/ ExecLost(c) \/ Answer(c)
          PROVE  AgentInv'
        BY <2>3, ClientActs DEF Callers
    <2>4. CASE MerchantActs \/ OwnerActs \/ LandsUnanswered \/ RestartAgent
        BY <2>4, OthersAct
    <2>5. CASE UNCHANGED agent
        BY <2>5 DEF agent, AgentInv, AgentTypes
    <2> QED  BY <2>1, <2>2, <2>3, <2>4, <2>5 DEF AgentNext
<1> QED  BY <1>1, Start, PTL DEF AgentSpec

\* What the human approved binds every mandate, and a status that answers is
\* complete (agent.ts 4-10, 182), for any policy, plans and number of calls.
THEOREM PolicyKept == AgentSpec => []AgentKeepsToItsPolicy
<1>1. AgentInv => AgentKeepsToItsPolicy
    <2> SUFFICES ASSUME AgentInv PROVE AgentKeepsToItsPolicy  OBVIOUS
    <2>1. ReviewedTermsBind  BY DEF AgentInv, Bound, ReviewedTermsBind
    <2>2. ASSUME NEW c \in Tools, call[c].at = "reported"
          PROVE  {id \in call[c].must : signed[id].state = "active"} \subseteq call[c].listed
        <3>1. Owes(call[c].must, call[c].listed, signed)
            BY <2>2 DEF AgentInv, Knows, Callers
        <3> QED  BY <3>1 DEF Owes, Over
    <2> QED  BY <2>1, <2>2 DEF AgentKeepsToItsPolicy, StatusIsComplete
<1> QED  BY <1>1, AgentInvariant, PTL

-----------------------------------------------------------------------------
(* The dispatcher: the queue is the events after the settled ones, and     *)
(* what is left to send of an event is what was not sent of it yet.        *)

SettledEvents == enqueued - Len(chainOf)
Requests == [event : Events, signed : Nat]
Receipts == [event : Events, signed : Nat, at : Nat]

WebhookTypes ==
    /\ enqueued \in 0..MaxEnqueued /\ chainOf \in Seq(Events) /\ attempt \in 0..maxAttempts
    /\ posting \in Requests \cup {NoPost} /\ flying \subseteq Requests /\ IsFiniteSet(flying)
    /\ receipts \in Seq(Receipts) /\ clock \in Nat
    /\ fate \in [Events -> {"none", "queued", "delivered", "dead letter", "lost"}]

\* The chain of promises settles in order, its head being sent.
InOrder ==
    /\ Len(chainOf) <= enqueued
    /\ \A i \in DOMAIN chainOf : chainOf[i] = SettledEvents + i
    /\ \A e \in Events : fate[e] = "queued" <=> e \in (SettledEvents + 1)..enqueued
    /\ posting # NoPost => chainOf # <<>> /\ posting.event = SettledEvents + 1
    /\ posting = NoPost => attempt < maxAttempts
    /\ chainOf = <<>> => attempt = 0

\* What was sent of an event: received, on its way, or being posted.
ReceiptsOf(e) == {i \in DOMAIN receipts : receipts[i].event = e}
FlyingOf(e) == {r \in flying : r.event = e}
Sent(e) ==
    Cardinality(ReceiptsOf(e)) + Cardinality(FlyingOf(e))
        + (IF posting # NoPost /\ posting.event = e THEN 1 ELSE 0)
Allowed(e) ==
    IF e <= SettledEvents THEN maxAttempts ELSE IF e = SettledEvents + 1 THEN attempt ELSE 0
SentInTurn == \A e \in Events : Sent(e) <= Allowed(e)

\* A delivered event was received before any event after it.
ReceivedInOrder ==
    \A e \in Events : fate[e] = "delivered" =>
        \E i \in DOMAIN receipts :
            receipts[i].event = e /\ \A j \in 1..i : receipts[j].event <= e
ReceivedInTime == \A i \in DOMAIN receipts : receipts[i].at - receipts[i].signed <= tolerance

WebhookInv == WebhookTypes /\ InOrder /\ SentInTurn /\ ReceivedInOrder /\ ReceivedInTime


LEMMA WebhookNumbers ==
    maxAttempts \in Nat /\ maxAttempts > 0 /\ MaxEnqueued \in Nat /\ MaxEnqueued > 0
BY WebhookAssumption DEF WebhookAssumption

LEMMA EventsAreNumbers == \A e \in Events : e \in Nat /\ e >= 1 /\ e <= MaxEnqueued
BY WebhookNumbers DEF Events

\* What the types say of one variable at a time.
LEMMA CountsAreNumbers ==
    ASSUME WebhookTypes
    PROVE  /\ attempt \in 0..maxAttempts /\ attempt \in Nat /\ attempt <= maxAttempts
           /\ enqueued \in 0..MaxEnqueued /\ enqueued \in Nat /\ enqueued <= MaxEnqueued
           /\ clock \in Nat
<1>1. attempt \in 0..maxAttempts /\ enqueued \in 0..MaxEnqueued /\ clock \in Nat
  BY Zenon DEF WebhookTypes
<1> QED BY <1>1, WebhookNumbers

LEMMA ChainIsASequence ==
    ASSUME WebhookTypes
    PROVE  /\ chainOf \in Seq(Events) /\ Len(chainOf) \in Nat
           /\ DOMAIN chainOf = 1..Len(chainOf)
           /\ Len(chainOf) = 0 <=> chainOf = <<>>
<1>1. chainOf \in Seq(Events)
  BY Zenon DEF WebhookTypes
<1> QED BY <1>1

LEMMA ReceiptsAreASequence ==
    ASSUME WebhookTypes
    PROVE  /\ receipts \in Seq(Receipts) /\ Len(receipts) \in Nat
           /\ DOMAIN receipts = 1..Len(receipts)
           /\ \A i \in DOMAIN receipts : receipts[i] \in Receipts /\ receipts[i].event \in Events
<1>1. receipts \in Seq(Receipts)
  BY Zenon DEF WebhookTypes
<1>2. Len(receipts) \in Nat /\ DOMAIN receipts = 1..Len(receipts)
  BY <1>1
<1>3. \A i \in DOMAIN receipts : receipts[i] \in Receipts
  BY <1>1
<1> QED BY <1>1, <1>2, <1>3 DEF Receipts

\* Sets of receipts and of requests are finite.
LEMMA SentIsCounted ==
    ASSUME WebhookTypes, NEW e
    PROVE  /\ IsFiniteSet(ReceiptsOf(e)) /\ IsFiniteSet(FlyingOf(e))
           /\ Cardinality(ReceiptsOf(e)) \in Nat /\ Cardinality(FlyingOf(e)) \in Nat
<1>1. IsFiniteSet(DOMAIN receipts)
  <2>1. DOMAIN receipts = 1..Len(receipts) /\ Len(receipts) \in Nat
    BY ReceiptsAreASequence
  <2> QED BY <2>1, FS_Interval
<1>2. ReceiptsOf(e) \in SUBSET DOMAIN receipts /\ FlyingOf(e) \in SUBSET flying
  BY DEF ReceiptsOf, FlyingOf
<1>3. IsFiniteSet(ReceiptsOf(e)) /\ IsFiniteSet(FlyingOf(e))
  <2>1. IsFiniteSet(flying)
    BY DEF WebhookTypes
  <2> QED BY <1>1, <1>2, <2>1, FS_Subset
<1> QED BY <1>3, FS_CardinalityType

\* What the receiver makes of a request: one receipt more, if it is fresh.
LEMMA Processing ==
    ASSUME WebhookTypes, ReceivedInTime, NEW r \in Requests, Processed(r)
    PROVE  /\ receipts' \in Seq(Receipts) /\ ReceivedInTime'
           /\ \A i \in DOMAIN receipts : i \in DOMAIN receipts' /\ receipts'[i] = receipts[i]
           /\ \A e : Cardinality(ReceiptsOf(e)') <= Cardinality(ReceiptsOf(e))
                                                    + (IF r.event = e THEN 1 ELSE 0)
           /\ \A e : Cardinality(ReceiptsOf(e)') \in Nat
           /\ verifyWebhook(r) =>
                /\ Len(receipts) + 1 \in DOMAIN receipts'
                /\ receipts'[Len(receipts) + 1].event = r.event
<1>1. receipts \in Seq(Receipts) /\ clock \in Nat /\ r.event \in Events /\ r.signed \in Nat
  BY DEF WebhookTypes, Requests
<1>2. CASE ~verifyWebhook(r)
  <2>1. receipts' = receipts
    BY <1>2 DEF Processed
  <2>2. ReceivedInTime'
    BY <2>1 DEF ReceivedInTime
  <2>3. \A e : ReceiptsOf(e)' = ReceiptsOf(e)
    BY <2>1 DEF ReceiptsOf
  <2>4. \A e : Cardinality(ReceiptsOf(e)) \in Nat
    BY SentIsCounted
  <2>5. \A n \in Nat : n <= n + 1 /\ n <= n + 0
    OBVIOUS
  <2> QED BY <1>1, <1>2, <2>1, <2>2, <2>3, <2>4, <2>5
<1>3. CASE verifyWebhook(r)
  <2> DEFINE x == [event |-> r.event, signed |-> r.signed, at |-> clock]
             n == Len(receipts) + 1
  <2>1. x \in Receipts /\ x.event = r.event /\ x.at - x.signed <= tolerance
    BY <1>1, <1>3 DEF Receipts, verifyWebhook
  <2>2. receipts' = Append(receipts, x)
    BY <1>3 DEF Processed
  <2> HIDE DEF x
  <2>3. /\ receipts' \in Seq(Receipts) /\ DOMAIN receipts = 1..Len(receipts)
        /\ DOMAIN receipts' = DOMAIN receipts \cup {n} /\ n \notin DOMAIN receipts
        /\ receipts'[n] = x /\ \A i \in DOMAIN receipts : receipts'[i] = receipts[i]
    BY <1>1, <2>1, <2>2
  <2> HIDE DEF n
  <2>4. ReceivedInTime'
    BY <2>1, <2>3 DEF ReceivedInTime
  <2>5. ASSUME NEW e
        PROVE  /\ Cardinality(ReceiptsOf(e)') \in Nat
               /\ Cardinality(ReceiptsOf(e)') <= Cardinality(ReceiptsOf(e))
                                                    + (IF r.event = e THEN 1 ELSE 0)
    <3> PICK R : R = ReceiptsOf(e)
      OBVIOUS
    <3>1. IsFiniteSet(R) /\ Cardinality(R) \in Nat
      BY SentIsCounted
    <3>2. ReceiptsOf(e)' = IF r.event = e THEN R \cup {n} ELSE R
      BY <2>1, <2>3 DEF ReceiptsOf
    <3>3. n \notin R
      BY <2>3 DEF ReceiptsOf
    <3>4. Cardinality(R \cup {n}) = Cardinality(R) + 1
      BY <3>1, <3>3, FS_AddElement
    <3>5. CASE r.event = e
      BY <3>1, <3>2, <3>4, <3>5
    <3>6. CASE r.event # e
      BY <3>1, <3>2, <3>6
    <3> QED BY <3>5, <3>6
  <2> QED BY <2>1, <2>3, <2>4, <2>5 DEF n
<1> QED BY <1>2, <1>3

\* One request more or less on its way.
LEMMA Flying ==
    ASSUME WebhookTypes, NEW r \in Requests
    PROVE  /\ flying' = flying => \A e : FlyingOf(e)' = FlyingOf(e)
           /\ flying' = flying \cup {r} =>
                /\ flying' \subseteq Requests /\ IsFiniteSet(flying')
                /\ \A e : /\ Cardinality(FlyingOf(e)') \in Nat
                          /\ Cardinality(FlyingOf(e)') <= Cardinality(FlyingOf(e))
                                                          + (IF r.event = e THEN 1 ELSE 0)
           /\ r \in flying /\ flying' = flying \ {r} =>
                /\ flying' \subseteq Requests /\ IsFiniteSet(flying')
                /\ \A e : /\ Cardinality(FlyingOf(e)') \in Nat
                          /\ Cardinality(FlyingOf(e)') = Cardinality(FlyingOf(e))
                                                         - (IF r.event = e THEN 1 ELSE 0)
<1>1. IsFiniteSet(flying) /\ flying \subseteq Requests
  BY DEF WebhookTypes
<1>2. IsFiniteSet(flying \cup {r}) /\ IsFiniteSet(flying \ {r})
  BY <1>1, FS_AddElement, FS_RemoveElement
<1>3. flying' = flying => \A e : FlyingOf(e)' = FlyingOf(e)
  BY DEF FlyingOf
<1>4. ASSUME NEW e, flying' = flying \cup {r}
      PROVE  /\ Cardinality(FlyingOf(e)') \in Nat
             /\ Cardinality(FlyingOf(e)') <= Cardinality(FlyingOf(e))
                                             + (IF r.event = e THEN 1 ELSE 0)
  <2> PICK F : F = FlyingOf(e)
    OBVIOUS
  <2>1. IsFiniteSet(F) /\ Cardinality(F) \in Nat
    BY SentIsCounted
  <2>2. FlyingOf(e)' = IF r.event = e THEN F \cup {r} ELSE F
    BY <1>4 DEF FlyingOf
  <2>3. Cardinality(F \cup {r}) \in {Cardinality(F), Cardinality(F) + 1}
    BY <2>1, FS_AddElement
  <2>4. CASE r.event = e
    BY <2>1, <2>2, <2>3, <2>4
  <2>5. CASE r.event # e
    BY <2>1, <2>2, <2>5
  <2> QED BY <2>4, <2>5
<1>5. ASSUME NEW e, r \in flying, flying' = flying \ {r}
      PROVE  /\ Cardinality(FlyingOf(e)') \in Nat
             /\ Cardinality(FlyingOf(e)') = Cardinality(FlyingOf(e))
                                            - (IF r.event = e THEN 1 ELSE 0)
  <2> PICK F : F = FlyingOf(e)
    OBVIOUS
  <2>1. IsFiniteSet(F) /\ Cardinality(F) \in Nat
    BY SentIsCounted
  <2>2. FlyingOf(e)' = IF r.event = e THEN F \ {r} ELSE F
    BY <1>5 DEF FlyingOf
  <2>3. CASE r.event = e
    <3>1. r \in F
      BY <1>5, <2>3 DEF FlyingOf
    <3>2. IsFiniteSet(F \ {r}) /\ Cardinality(F \ {r}) = Cardinality(F) - 1
      BY <2>1, <3>1, FS_RemoveElement
    <3>3. Cardinality(F \ {r}) \in Nat
      BY <3>2, FS_CardinalityType
    <3> QED BY <2>2, <2>3, <3>2, <3>3
  <2>4. CASE r.event # e
    BY <2>1, <2>2, <2>4
  <2> QED BY <2>3, <2>4
<1> QED BY <1>1, <1>2, <1>3, <1>4, <1>5

\* The state of the queue, in numbers.
LEMMA QueueNumbers ==
    ASSUME WebhookTypes, InOrder
    PROVE  /\ Len(chainOf) \in Nat /\ DOMAIN chainOf = 1..Len(chainOf)
           /\ SettledEvents \in Nat /\ enqueued = SettledEvents + Len(chainOf) /\ enqueued \in Nat
           /\ enqueued <= MaxEnqueued
           /\ chainOf # <<>> => /\ Len(chainOf) > 0 /\ Head(chainOf) = SettledEvents + 1
                                /\ SettledEvents + 1 \in Events /\ SettledEvents + 1 <= enqueued
                                /\ Tail(chainOf) \in Seq(Events)
                                /\ Len(Tail(chainOf)) = Len(chainOf) - 1
                                /\ \A i \in DOMAIN Tail(chainOf) : Tail(chainOf)[i] = SettledEvents + 1 + i
           /\ chainOf = <<>> => Len(chainOf) = 0
<1> PICK q, n, s : q = chainOf /\ n = Len(chainOf) /\ s = SettledEvents
  OBVIOUS
<1>1. q \in Seq(Events) /\ n = Len(q) /\ n \in Nat /\ DOMAIN q = 1..n
      /\ enqueued \in 0..MaxEnqueued /\ n <= enqueued /\ s = enqueued - n
  BY CountsAreNumbers, ChainIsASequence DEF InOrder, SettledEvents
<1>2. s \in Nat /\ enqueued = s + n /\ enqueued \in Nat /\ enqueued <= MaxEnqueued
  BY <1>1, WebhookNumbers
<1>3. ASSUME q # <<>>
      PROVE  /\ n > 0 /\ Head(q) = s + 1
             /\ s + 1 \in Events /\ s + 1 <= enqueued
             /\ Tail(q) \in Seq(Events) /\ Len(Tail(q)) = n - 1
             /\ \A i \in DOMAIN Tail(q) : Tail(q)[i] = s + 1 + i
  <2>1. n > 0 /\ Head(q) = q[1] /\ Tail(q) \in Seq(Events) /\ Len(Tail(q)) = n - 1
        /\ DOMAIN Tail(q) = 1..(n - 1)
        /\ \A i \in 1..(n - 1) : Tail(q)[i] = q[i + 1] /\ i + 1 \in 1..n
    BY <1>1, <1>3
  <2>2. \A i \in 1..n : q[i] = s + i
    BY <1>1 DEF InOrder
  <2>3. q[1] = s + 1 /\ q[1] \in Events
    BY <1>1, <2>1, <2>2
  <2>4. \A i \in 1..(n - 1) : Tail(q)[i] = s + 1 + i
    BY <1>1, <1>2, <2>1, <2>2
  <2>5. s + 1 <= enqueued
    BY <1>1, <1>2, <2>1
  <2> QED BY <2>1, <2>3, <2>4, <2>5
<1>4. q = <<>> => n = 0
  BY <1>1
<1> QED BY <1>1, <1>2, <1>3, <1>4


\* Received or on its way.
Gone(e) == Cardinality(ReceiptsOf(e)) + Cardinality(FlyingOf(e))

\* An attempt ends: nothing is sent that was not, and what is received stays.
AttemptEnds ==
    /\ enqueued' = enqueued /\ clock' \in Nat
    /\ receipts' \in Seq(Receipts) /\ flying' \subseteq Requests /\ IsFiniteSet(flying')
    /\ ReceivedInTime'
    /\ \A i \in DOMAIN receipts : i \in DOMAIN receipts' /\ receipts'[i] = receipts[i]
    /\ \A e \in Events : Gone(e)' \in Nat /\ Gone(e)' <= Sent(e)

\* What was received first stays first.
LEMMA StaysReceived ==
    ASSUME WebhookTypes, NEW e \in Events,
           \A i \in DOMAIN receipts : i \in DOMAIN receipts' /\ receipts'[i] = receipts[i],
           \E i \in DOMAIN receipts :
               receipts[i].event = e /\ \A j \in 1..i : receipts[j].event <= e
    PROVE  \E i \in DOMAIN receipts' :
               receipts'[i].event = e /\ \A j \in 1..i : receipts'[j].event <= e
<1>1. PICK i \in DOMAIN receipts :
          receipts[i].event = e /\ \A j \in 1..i : receipts[j].event <= e
  OBVIOUS
<1>2. \A j \in 1..i : j \in DOMAIN receipts
  <2>1. receipts \in Seq(Receipts)
    BY DEF WebhookTypes
  <2> QED BY <2>1
<1> QED BY <1>1, <1>2

\* Of the events after the head nothing was sent.
LEMMA OnlyTheHead ==
    ASSUME WebhookInv, NEW e \in Events, e > SettledEvents + 1
    PROVE  ReceiptsOf(e) = {}
<1>1. WebhookTypes /\ InOrder /\ SentInTurn
  BY DEF WebhookInv
<1> PICK a, b, s, p : a = Cardinality(ReceiptsOf(e)) /\ b = Cardinality(FlyingOf(e)) /\ s = SettledEvents
                      /\ p = (IF posting # NoPost /\ posting.event = e THEN 1 ELSE 0)
  OBVIOUS
<1>2. IsFiniteSet(ReceiptsOf(e)) /\ a \in Nat /\ b \in Nat /\ p \in {0, 1}
  BY <1>1, SentIsCounted
<1>3. s \in Nat /\ e \in Nat /\ e > s + 1
  BY <1>1, QueueNumbers, WebhookNumbers DEF Events
<1>4. a + b + p <= 0
  <2>1. Sent(e) <= Allowed(e)
    BY <1>1 DEF SentInTurn
  <2>2. Allowed(e) = 0
    BY <1>3 DEF Allowed
  <2> QED BY <2>1, <2>2 DEF Sent
<1>5. a = 0
  BY <1>2, <1>4
<1> QED BY <1>2, <1>5, FS_EmptySet

Outcomes == {"delivered", "dead letter"}

\* The head of the queue is what was received last.
HeadReceived ==
    /\ Len(receipts) + 1 \in DOMAIN receipts'
    /\ receipts'[Len(receipts) + 1].event = SettledEvents + 1

\* The parts of Sent, of any event.
LEMMA SentParts ==
    ASSUME WebhookTypes, NEW e
    PROVE  /\ Sent(e) = Gone(e) + (IF posting # NoPost /\ posting.event = e THEN 1 ELSE 0)
           /\ Gone(e) \in Nat /\ Sent(e) \in Nat
<1>1. Cardinality(ReceiptsOf(e)) \in Nat /\ Cardinality(FlyingOf(e)) \in Nat
  BY SentIsCounted
<1>2. Gone(e) \in Nat
  BY <1>1 DEF Gone
<1>3. Sent(e) = Gone(e) + (IF posting # NoPost /\ posting.event = e THEN 1 ELSE 0)
  BY DEF Sent, Gone
<1> QED BY <1>2, <1>3

\* The head is settled.
LEMMA HeadSettles ==
    ASSUME WebhookInv, AttemptEnds, chainOf # <<>>, NEW how \in Outcomes,
           Settle(how),
           how = "delivered" => HeadReceived
    PROVE  WebhookInv'
<1>1. WebhookTypes /\ InOrder /\ SentInTurn /\ ReceivedInOrder
  BY DEF WebhookInv
<1> PICK s, n, k : s = SettledEvents /\ n = Len(chainOf) /\ k = enqueued
  OBVIOUS
<1>0. /\ n \in Nat /\ n > 0 /\ s \in Nat /\ k = s + n /\ k <= MaxEnqueued /\ k \in Nat
      /\ s + 1 \in Events /\ s + 1 <= k
  BY <1>1, QueueNumbers
<1>2. /\ Head(chainOf) = s + 1
      /\ Tail(chainOf) \in Seq(Events) /\ Len(Tail(chainOf)) = n - 1
      /\ \A i \in DOMAIN Tail(chainOf) : Tail(chainOf)[i] = s + 1 + i
  BY <1>1, QueueNumbers
<1>3. /\ chainOf' = Tail(chainOf) /\ attempt' = 0 /\ posting' = NoPost
      /\ fate' = [fate EXCEPT ![s + 1] = how]
  BY <1>2 DEF Settle
<1>4. SettledEvents' = s + 1
  <2>1. SettledEvents' = k - (n - 1)
    BY <1>2, <1>3 DEF SettledEvents, AttemptEnds
  <2> QED BY <1>0, <2>1
<1>5. WebhookTypes'
  <2>1. fate' \in [Events -> {"none", "queued", "delivered", "dead letter", "lost"}]
    BY <1>0, <1>1, <1>3 DEF WebhookTypes, Outcomes
  <2>2. attempt' \in 0..maxAttempts
    <3>1. 0 \in 0..maxAttempts
      BY WebhookNumbers
    <3> QED BY <1>3, <3>1
  <2> QED BY <1>1, <1>2, <1>3, <2>1, <2>2 DEF WebhookTypes, AttemptEnds
<1>6. InOrder'
  <2>1. Len(chainOf') <= enqueued'
    <3>1. n - 1 <= k
      BY <1>0
    <3> QED BY <1>2, <1>3, <3>1 DEF AttemptEnds
  <2>2. \A e \in Events : fate'[e] = "queued" <=> e \in (s + 1 + 1)..k
    <3> TAKE e \in Events
    <3>1. fate[e] = "queued" <=> e \in (s + 1)..k
      BY <1>1 DEF InOrder
    <3>2. e \in Nat
      BY EventsAreNumbers
    <3>3. CASE e = s + 1
      <4>1. fate'[e] = how
        BY <1>0, <1>1, <1>3, <3>3 DEF WebhookTypes
      <4>3. how # "queued"
        BY DEF Outcomes
      <4>2. e \notin (s + 1 + 1)..k
        BY <1>0, <3>2, <3>3
      <4> QED BY <4>1, <4>2, <4>3
    <3>4. CASE e # s + 1
      <4>1. fate'[e] = fate[e]
        BY <1>1, <1>3, <3>4 DEF WebhookTypes
      <4>2. e \in (s + 1)..k <=> e \in (s + 1 + 1)..k
        BY <1>0, <3>2, <3>4
      <4> QED BY <3>1, <4>1, <4>2
    <3> QED BY <3>3, <3>4
  <2>3. attempt' < maxAttempts
    BY <1>3, WebhookNumbers
  <2> QED BY <1>0, <1>2, <1>3, <1>4, <2>1, <2>2, <2>3 DEF InOrder, AttemptEnds
<1>7. SentInTurn'
  <2> SUFFICES ASSUME NEW e \in Events PROVE Sent(e)' <= Allowed(e)'
    BY DEF SentInTurn
  <2> PICK g, x, a : g = Gone(e)' /\ x = Sent(e) /\ a = attempt
    OBVIOUS
  <2>1. Sent(e)' = g + 0
    BY <1>3 DEF Sent, Gone
  <2>2. g \in Nat /\ g <= x /\ x <= Allowed(e) /\ a \in 0..maxAttempts /\ e \in Nat
    <3>1. e \in Nat
      BY EventsAreNumbers
    <3> QED BY <1>1, <3>1 DEF AttemptEnds, SentInTurn, WebhookTypes
  <2>3. x \in Nat
    BY <1>1, SentParts
  <2>4. Allowed(e) = IF e <= s THEN maxAttempts ELSE IF e = s + 1 THEN a ELSE 0
    BY DEF Allowed
  <2>5. Allowed(e)' = IF e <= s + 1 THEN maxAttempts ELSE 0
    BY <1>3, <1>4 DEF Allowed
  <2>6. g + 0 <= IF e <= s + 1 THEN maxAttempts ELSE 0
    BY <1>0, <2>2, <2>3, <2>4, WebhookNumbers
  <2> QED BY <2>1, <2>5, <2>6
<1>8. ReceivedInOrder'
  <2> SUFFICES ASSUME NEW e \in Events, fate'[e] = "delivered"
               PROVE  \E i \in DOMAIN receipts' :
                          receipts'[i].event = e /\ \A j \in 1..i : receipts'[j].event <= e
    BY DEF ReceivedInOrder
  <2>1. CASE e # s + 1
    <3>1. fate[e] = "delivered"
      BY <1>1, <1>3, <2>1 DEF WebhookTypes
    <3> QED BY <1>1, <3>1, StaysReceived DEF AttemptEnds, ReceivedInOrder
  <2>2. CASE e = s + 1
    <3>1. how = "delivered"
      BY <1>0, <1>1, <1>3, <2>2 DEF WebhookTypes
    <3>2. /\ Len(receipts) + 1 \in DOMAIN receipts'
          /\ receipts'[Len(receipts) + 1].event = e
      BY <2>2, <3>1 DEF HeadReceived
    <3>3. ASSUME NEW j \in 1..(Len(receipts) + 1) PROVE receipts'[j].event <= e
      <4> PICK l : l = Len(receipts)
        OBVIOUS
      <4>0. l \in Nat /\ DOMAIN receipts = 1..l /\ j \in 1..(l + 1) /\ e \in Nat
        BY <1>1, ReceiptsAreASequence, EventsAreNumbers
      <4>1. CASE j = l + 1
        <5>1. receipts'[j].event = e
          BY <3>2, <4>1
        <5> QED BY <4>0, <5>1
      <4>2. CASE j # l + 1
        <5>1. j \in DOMAIN receipts
          BY <4>0, <4>2
        <5> PICK f : f = receipts[j].event
          OBVIOUS
        <5>2. receipts'[j].event = f /\ f \in Events /\ f \in Nat
          <6>2. f \in Events
            BY <1>1, <5>1, ReceiptsAreASequence
          <6>3. f \in Nat
            BY <6>2, EventsAreNumbers
          <6>4. receipts'[j] = receipts[j]
            BY <5>1 DEF AttemptEnds
          <6> QED BY <6>2, <6>3, <6>4
        <5>3. ~(f > s + 1)
          <6> SUFFICES ASSUME f > s + 1 PROVE FALSE
            OBVIOUS
          <6>1. ReceiptsOf(f) = {}
            BY <5>2, OnlyTheHead
          <6> QED BY <5>1, <6>1 DEF ReceiptsOf
        <5>4. f <= e
          BY <1>0, <2>2, <5>2, <5>3
        <5> QED BY <5>2, <5>4
      <4> QED BY <4>1, <4>2
    <3> QED BY <3>2, <3>3
  <2> QED BY <2>1, <2>2
<1> QED BY <1>5, <1>6, <1>7, <1>8 DEF WebhookInv, AttemptEnds

\* An attempt has failed: the head is posted again, or given up.
LEMMA HeadFails ==
    ASSUME WebhookInv, AttemptEnds, posting # NoPost, AfterFailure
    PROVE  WebhookInv'
<1>1. WebhookTypes /\ InOrder /\ SentInTurn /\ ReceivedInOrder
  BY DEF WebhookInv
<1>2. chainOf # <<>>
  BY <1>1 DEF InOrder
<1>3. CASE attempt < maxAttempts
  <2>1. posting' = NoPost /\ UNCHANGED <<chainOf, attempt, fate, enqueued>>
    BY <1>3 DEF AfterFailure, AttemptEnds
  <2>2. SettledEvents' = SettledEvents
    BY <2>1 DEF SettledEvents
  <2>3. WebhookTypes'
    BY <1>1, <2>1 DEF WebhookTypes, AttemptEnds
  <2>4. InOrder'
    BY <1>1, <1>2, <1>3, <2>1, <2>2 DEF InOrder
  <2>5. SentInTurn'
    <3> SUFFICES ASSUME NEW e \in Events PROVE Sent(e)' <= Allowed(e)'
      BY DEF SentInTurn
    <3> PICK g, x, y : g = Gone(e)' /\ x = Sent(e) /\ y = Allowed(e)
      OBVIOUS
    <3>1. Sent(e)' = g + 0 /\ Allowed(e)' = y
      BY <2>1, <2>2 DEF Sent, Gone, Allowed
    <3>2. g \in Nat /\ g <= x /\ x <= y /\ x \in Int /\ y \in Int
      <4>1. Cardinality(ReceiptsOf(e)) \in Nat /\ Cardinality(FlyingOf(e)) \in Nat
        BY <1>1, SentIsCounted
      <4>2. x \in Int
        BY <4>1 DEF Sent
      <4>3. attempt \in Int
        BY <1>1, CountsAreNumbers
      <4>4. y \in Int
        BY <4>3, WebhookNumbers DEF Allowed
      <4> QED BY <1>1, <4>2, <4>4 DEF AttemptEnds, SentInTurn
    <3>3. g + 0 <= y
      BY <3>2
    <3> QED BY <3>1, <3>3
  <2>6. ReceivedInOrder'
    BY <1>1, <2>1, StaysReceived DEF ReceivedInOrder, AttemptEnds
  <2> QED BY <2>3, <2>4, <2>5, <2>6 DEF WebhookInv, AttemptEnds
<1>4. CASE ~(attempt < maxAttempts)
  <2>1. Settle("dead letter") /\ "dead letter" \in Outcomes /\ "dead letter" # "delivered"
    BY <1>4 DEF AfterFailure, Outcomes
  <2> QED BY <1>2, <2>1, HeadSettles
<1> QED BY <1>3, <1>4


LEMMA AnsweredStep ==
    ASSUME WebhookInv, Answered
    PROVE  WebhookInv'
<1>1. WebhookTypes /\ InOrder /\ ReceivedInTime /\ posting # NoPost /\ posting \in Requests
  BY DEF WebhookInv, Answered, WebhookTypes
<1>2. Processed(posting) /\ UNCHANGED <<enqueued, flying, clock>>
  BY DEF Answered
<1> PICK r : r = posting
  OBVIOUS
<1>3. /\ receipts' \in Seq(Receipts) /\ ReceivedInTime'
      /\ \A i \in DOMAIN receipts : i \in DOMAIN receipts' /\ receipts'[i] = receipts[i]
      /\ \A e : Cardinality(ReceiptsOf(e)') <= Cardinality(ReceiptsOf(e))
                                               + (IF r.event = e THEN 1 ELSE 0)
      /\ \A e : Cardinality(ReceiptsOf(e)') \in Nat
      /\ verifyWebhook(r) =>
           /\ Len(receipts) + 1 \in DOMAIN receipts'
           /\ receipts'[Len(receipts) + 1].event = r.event
  BY <1>1, <1>2, Processing
<1>4. \A e : FlyingOf(e)' = FlyingOf(e)
  BY <1>1, <1>2, Flying
<1>5. ASSUME NEW e \in Events PROVE Gone(e)' \in Nat /\ Gone(e)' <= Sent(e)
  <2> PICK a, b, c, p : a = Cardinality(ReceiptsOf(e)) /\ b = Cardinality(FlyingOf(e))
                        /\ c = Cardinality(ReceiptsOf(e)') /\ p = (IF r.event = e THEN 1 ELSE 0)
    OBVIOUS
  <2>1. a \in Nat /\ b \in Nat /\ c \in Nat /\ p \in {0, 1} /\ c <= a + p
    BY <1>1, <1>3, SentIsCounted
  <2>2. Gone(e)' = c + b
    BY <1>4 DEF Gone
  <2>3. Sent(e) = a + b + p
    BY <1>1 DEF Sent
  <2>4. c + b \in Nat /\ c + b <= a + b + p
    BY <2>1
  <2> QED BY <2>2, <2>3, <2>4
<1>6. AttemptEnds
  BY <1>1, <1>2, <1>3, <1>5 DEF AttemptEnds, WebhookTypes
<1>7. CASE verifyWebhook(r) /\ Settle("delivered")
  <2>1. r.event = SettledEvents + 1 /\ chainOf # <<>>
    BY <1>1 DEF InOrder
  <2> QED BY <1>3, <1>6, <1>7, <2>1, HeadSettles DEF HeadReceived, Outcomes
<1>8. CASE AfterFailure
  BY <1>1, <1>6, <1>8, HeadFails
<1> QED BY <1>7, <1>8 DEF Answered

LEMMA UnansweredStep ==
    ASSUME WebhookInv, Unanswered
    PROVE  WebhookInv'
<1>1. WebhookTypes /\ InOrder /\ ReceivedInTime /\ posting # NoPost /\ posting \in Requests
  BY DEF WebhookInv, Unanswered, WebhookTypes
<1>2. /\ flying' \in {flying, flying \cup {posting}} /\ AfterFailure
      /\ UNCHANGED <<enqueued, receipts, clock>>
  BY DEF Unanswered
<1>3. flying' \subseteq Requests /\ IsFiniteSet(flying')
  BY <1>1, <1>2, Flying DEF WebhookTypes
<1>4. \A e : ReceiptsOf(e)' = ReceiptsOf(e)
  BY <1>2 DEF ReceiptsOf
<1>5. ASSUME NEW e \in Events PROVE Gone(e)' \in Nat /\ Gone(e)' <= Sent(e)
  <2> PICK a, b, d, p : a = Cardinality(ReceiptsOf(e)) /\ b = Cardinality(FlyingOf(e))
                        /\ d = Cardinality(FlyingOf(e)')
                        /\ p = (IF posting.event = e THEN 1 ELSE 0)
    OBVIOUS
  <2>1. a \in Nat /\ b \in Nat /\ p \in {0, 1}
    BY <1>1, SentIsCounted
  <2>2. d \in Nat /\ d <= b + p
    <3>1. CASE flying' = flying
      <4>1. d = b
        BY <1>1, <3>1, Flying
      <4> QED BY <2>1, <4>1
    <3>2. CASE flying' = flying \cup {posting}
      BY <1>1, <3>2, Flying
    <3> QED BY <1>2, <3>1, <3>2
  <2>3. Gone(e)' = a + d
    BY <1>4 DEF Gone
  <2>4. Sent(e) = a + b + p
    BY <1>1 DEF Sent
  <2>5. a + d \in Nat /\ a + d <= a + b + p
    BY <2>1, <2>2
  <2> QED BY <2>3, <2>4, <2>5
<1>6. AttemptEnds
  BY <1>1, <1>2, <1>3, <1>5 DEF AttemptEnds, WebhookTypes, ReceivedInTime
<1> QED BY <1>1, <1>2, <1>6, HeadFails

LEMMA ProcessedLateStep ==
    ASSUME WebhookInv, ProcessedLate
    PROVE  WebhookInv'
<1>1. WebhookTypes /\ InOrder /\ SentInTurn /\ ReceivedInOrder /\ ReceivedInTime
  BY DEF WebhookInv
<1>2. PICK r \in flying : flying' = flying \ {r} /\ Processed(r)
  BY DEF ProcessedLate
<1>3. r \in Requests /\ UNCHANGED <<enqueued, chainOf, attempt, posting, fate, clock>>
  BY <1>1 DEF ProcessedLate, WebhookTypes
<1>4. /\ receipts' \in Seq(Receipts) /\ ReceivedInTime'
      /\ \A i \in DOMAIN receipts : i \in DOMAIN receipts' /\ receipts'[i] = receipts[i]
      /\ \A e : Cardinality(ReceiptsOf(e)') <= Cardinality(ReceiptsOf(e))
                                               + (IF r.event = e THEN 1 ELSE 0)
      /\ \A e : Cardinality(ReceiptsOf(e)') \in Nat
  BY <1>1, <1>2, <1>3, Processing
<1>5. /\ flying' \subseteq Requests /\ IsFiniteSet(flying')
      /\ \A e : /\ Cardinality(FlyingOf(e)') \in Nat
                /\ Cardinality(FlyingOf(e)') = Cardinality(FlyingOf(e))
                                               - (IF r.event = e THEN 1 ELSE 0)
  BY <1>1, <1>2, <1>3, Flying
<1>6. WebhookTypes'
  BY <1>1, <1>3, <1>4, <1>5 DEF WebhookTypes
<1>7. InOrder'
  BY <1>1, <1>3 DEF InOrder, SettledEvents
<1>8. SentInTurn'
  <2> SUFFICES ASSUME NEW e \in Events PROVE Sent(e)' <= Allowed(e)'
    BY DEF SentInTurn
  <2> PICK a, b, c, d, p, q, y : a = Cardinality(ReceiptsOf(e)) /\ b = Cardinality(FlyingOf(e))
                        /\ c = Cardinality(ReceiptsOf(e)') /\ d = Cardinality(FlyingOf(e)')
                        /\ p = (IF r.event = e THEN 1 ELSE 0)
                        /\ q = (IF posting # NoPost /\ posting.event = e THEN 1 ELSE 0)
                        /\ y = Allowed(e)
    OBVIOUS
  <2>1. a \in Nat /\ b \in Nat /\ p \in {0, 1} /\ q \in {0, 1}
        /\ c \in Nat /\ c <= a + p /\ d \in Nat /\ d = b - p
    BY <1>1, <1>4, <1>5, SentIsCounted
  <2>2. a + b + q <= y /\ Allowed(e)' = y
    BY <1>1, <1>3 DEF SentInTurn, Sent, Allowed, SettledEvents
  <2>3. Sent(e)' = c + d + q
    BY <1>3 DEF Sent
  <2>4. y \in Int
    <3>1. attempt \in Int
      BY <1>1, CountsAreNumbers
    <3> QED BY <3>1, WebhookNumbers DEF Allowed
  <2>5. c + d + q <= y
    BY <2>1, <2>2, <2>4
  <2> QED BY <2>2, <2>3, <2>5
<1>9. ReceivedInOrder'
  BY <1>1, <1>3, <1>4, StaysReceived DEF ReceivedInOrder
<1> QED BY <1>4, <1>6, <1>7, <1>8, <1>9 DEF WebhookInv

LEMMA EnqueueStep ==
    ASSUME WebhookInv, enqueue
    PROVE  WebhookInv'
<1>1. WebhookTypes /\ InOrder /\ SentInTurn /\ ReceivedInOrder /\ ReceivedInTime
  BY DEF WebhookInv
<1> PICK s, n, k : s = SettledEvents /\ n = Len(chainOf) /\ k = enqueued + 1
  OBVIOUS
<1>2. /\ n \in Nat /\ s \in Nat /\ enqueued = s + n /\ enqueued \in Nat
      /\ enqueued <= MaxEnqueued /\ DOMAIN chainOf = 1..n
  BY <1>1, QueueNumbers
<1>3. /\ enqueued < MaxEnqueued /\ enqueued' = k /\ chainOf' = Append(chainOf, k)
      /\ fate' = [fate EXCEPT ![k] = "queued"]
      /\ UNCHANGED <<attempt, posting, flying, receipts, clock>>
  BY DEF enqueue
<1>4. k \in Events /\ k \in 0..MaxEnqueued /\ k = s + (n + 1) /\ chainOf \in Seq(Events)
  BY <1>1, <1>2, <1>3, WebhookNumbers, ChainIsASequence DEF Events
<1>5. /\ chainOf' \in Seq(Events) /\ Len(chainOf') = n + 1 /\ DOMAIN chainOf' = 1..(n + 1)
      /\ chainOf'[n + 1] = k /\ \A i \in 1..n : chainOf'[i] = chainOf[i]
  BY <1>2, <1>3, <1>4
<1>6. SettledEvents' = s
  <2>1. SettledEvents' = k - (n + 1)
    BY <1>3, <1>5 DEF SettledEvents
  <2> QED BY <1>2, <1>4, <2>1
<1>7. WebhookTypes'
  BY <1>1, <1>3, <1>4, <1>5 DEF WebhookTypes
<1>8. InOrder'
  <2>1. n + 1 <= k
    BY <1>2, <1>4
  <2>2. \A i \in 1..(n + 1) : chainOf'[i] = s + i
    <3>1. \A i \in 1..n : chainOf[i] = s + i
      BY <1>1, <1>2 DEF InOrder
    <3> QED BY <1>2, <1>4, <1>5, <3>1
  <2>3. \A e \in Events : fate'[e] = "queued" <=> e \in (s + 1)..k
    <3> TAKE e \in Events
    <3>1. e \in Nat /\ (fate[e] = "queued" <=> e \in (s + 1)..enqueued)
      BY <1>1, WebhookNumbers DEF InOrder, Events
    <3>2. CASE e = k
      <4>1. fate'[e] = "queued"
        BY <1>1, <1>3, <3>2 DEF WebhookTypes
      <4> QED BY <1>2, <1>4, <3>2, <4>1
    <3>3. CASE e # k
      <4>1. fate'[e] = fate[e]
        BY <1>1, <1>3, <3>3 DEF WebhookTypes
      <4>2. e \in (s + 1)..k <=> e \in (s + 1)..enqueued
        BY <1>2, <1>4, <3>1, <3>3
      <4> QED BY <3>1, <4>1, <4>2
    <3> QED BY <3>2, <3>3
  <2>4. chainOf' # <<>>
    BY <1>2, <1>5
  <2>5. posting' # NoPost => posting'.event = s + 1
    BY <1>1, <1>3 DEF InOrder
  <2>6. posting' = NoPost => attempt' < maxAttempts
    BY <1>1, <1>3 DEF InOrder
  <2> QED BY <1>3, <1>5, <1>6, <2>1, <2>2, <2>3, <2>4, <2>5, <2>6 DEF InOrder
<1>9. SentInTurn'
  <2> SUFFICES ASSUME NEW e \in Events PROVE Sent(e)' <= Allowed(e)'
    BY DEF SentInTurn
  <2>1. Sent(e)' = Sent(e) /\ Allowed(e)' = Allowed(e)
    BY <1>3, <1>6 DEF Sent, ReceiptsOf, FlyingOf, Allowed
  <2> QED BY <1>1, <2>1 DEF SentInTurn
<1>10. ReceivedInOrder'
  <2>1. \A e \in Events : fate'[e] = "delivered" => fate[e] = "delivered"
    BY <1>1, <1>3 DEF WebhookTypes
  <2> QED BY <1>1, <1>3, <2>1 DEF ReceivedInOrder
<1> QED BY <1>1, <1>3, <1>7, <1>8, <1>9, <1>10 DEF WebhookInv, ReceivedInTime

LEMMA PostStep ==
    ASSUME WebhookInv, Post
    PROVE  WebhookInv'
<1>1. WebhookTypes /\ InOrder /\ SentInTurn /\ ReceivedInOrder /\ ReceivedInTime
  BY DEF WebhookInv
<1> PICK s, h, a : s = SettledEvents /\ h = SettledEvents + 1 /\ a = attempt
  OBVIOUS
<1>2. /\ chainOf # <<>> /\ posting = NoPost /\ attempt' = a + 1
      /\ posting' = [event |-> Head(chainOf), signed |-> clock]
      /\ UNCHANGED <<enqueued, chainOf, flying, receipts, fate, clock>>
  BY DEF Post, signWebhook
<1>3. Head(chainOf) = h /\ h \in Events /\ s \in Nat /\ h = s + 1
  BY <1>1, <1>2, QueueNumbers
<1>4. a \in Nat /\ a < maxAttempts
  BY <1>1, <1>2, CountsAreNumbers DEF InOrder
<1>5. posting' \in Requests /\ posting' # NoPost /\ posting'.event = h
  <2>1. posting' = [event |-> h, signed |-> clock] /\ h # 0 /\ clock \in Nat
    BY <1>1, <1>2, <1>3, CountsAreNumbers, EventsAreNumbers
  <2> QED BY <1>3, <2>1 DEF Requests, NoPost
<1>6. WebhookTypes'
  <2>1. a + 1 \in 0..maxAttempts
    BY <1>4, WebhookNumbers
  <2> QED BY <1>1, <1>2, <1>5, <2>1 DEF WebhookTypes
<1>7. SettledEvents' = s
  BY <1>2 DEF SettledEvents
<1>8. InOrder'
  BY <1>1, <1>2, <1>5, <1>7 DEF InOrder
<1>9. SentInTurn'
  <2> SUFFICES ASSUME NEW e \in Events PROVE Sent(e)' <= Allowed(e)'
    BY DEF SentInTurn
  <2> PICK g, p : g = Gone(e) /\ p = (IF h = e THEN 1 ELSE 0)
    OBVIOUS
  <2>1. g \in Nat /\ Sent(e) = g + 0 /\ e \in Nat
    BY <1>1, <1>2, SentParts, WebhookNumbers DEF Events
  <2>2. Sent(e)' = g + p
    <3>1. Gone(e)' = g
      BY <1>2 DEF Gone, ReceiptsOf, FlyingOf
    <3>2. Sent(e)' = Gone(e)' + p
      BY <1>5 DEF Sent, Gone
    <3> QED BY <3>1, <3>2
  <2>3. g + 0 <= IF e <= s THEN maxAttempts ELSE IF e = s + 1 THEN a ELSE 0
    BY <1>1, <2>1 DEF SentInTurn, Allowed
  <2>4. Allowed(e)' = IF e <= s THEN maxAttempts ELSE IF e = s + 1 THEN a + 1 ELSE 0
    BY <1>2, <1>7 DEF Allowed
  <2>5. g + p <= IF e <= s THEN maxAttempts ELSE IF e = s + 1 THEN a + 1 ELSE 0
    BY <1>3, <1>4, <2>1, <2>3, WebhookNumbers
  <2> QED BY <2>2, <2>4, <2>5
<1>10. ReceivedInOrder' /\ ReceivedInTime'
  BY <1>1, <1>2 DEF ReceivedInOrder, ReceivedInTime
<1> QED BY <1>6, <1>8, <1>9, <1>10 DEF WebhookInv

LEMMA CrashStep ==
    ASSUME WebhookInv, CrashDispatcher
    PROVE  WebhookInv'
<1>1. WebhookTypes /\ InOrder /\ SentInTurn /\ ReceivedInOrder /\ ReceivedInTime
  BY DEF WebhookInv
<1>2. /\ flying' = IF posting = NoPost THEN flying ELSE flying \cup {posting}
      /\ fate' = [e \in Events |-> IF Contains(chainOf, e) THEN "lost" ELSE fate[e]]
      /\ chainOf' = <<>> /\ attempt' = 0 /\ posting' = NoPost
      /\ UNCHANGED <<enqueued, receipts, clock>>
  BY DEF CrashDispatcher
<1> PICK s, n : s = SettledEvents /\ n = Len(chainOf)
  OBVIOUS
<1>3. /\ n \in Nat /\ s \in Nat /\ enqueued = s + n /\ enqueued \in Nat
      /\ enqueued <= MaxEnqueued /\ DOMAIN chainOf = 1..n
  BY <1>1, QueueNumbers
<1>4. SettledEvents' = enqueued
  <2>1. SettledEvents' = enqueued - 0
    <3>1. Len(<<>>) = 0
      OBVIOUS
    <3> QED BY <1>2, <3>1 DEF SettledEvents
  <2> QED BY <1>3, <2>1
<1>5. flying' \subseteq Requests /\ IsFiniteSet(flying')
  <2>1. CASE posting = NoPost
    BY <1>1, <1>2, <2>1 DEF WebhookTypes
  <2>2. CASE posting # NoPost
    <3>1. posting \in Requests
      BY <1>1, <2>2 DEF WebhookTypes
    <3> QED BY <1>1, <1>2, <2>2, <3>1, Flying
  <2> QED BY <2>1, <2>2
<1>6. /\ fate' \in [Events -> {"none", "queued", "delivered", "dead letter", "lost"}]
      /\ \A e \in Events : fate'[e] # "queued"
      /\ \A e \in Events : fate'[e] = "delivered" => fate[e] = "delivered"
  <2>1. ASSUME NEW e \in Events
        PROVE  /\ fate'[e] \in {"none", "delivered", "dead letter", "lost"}
               /\ fate'[e] = "delivered" => fate[e] = "delivered"
    <3>1. fate[e] \in {"none", "queued", "delivered", "dead letter", "lost"}
          /\ fate'[e] = IF Contains(chainOf, e) THEN "lost" ELSE fate[e]
      BY <1>1, <1>2 DEF WebhookTypes
    <3>2. fate[e] = "queued" => Contains(chainOf, e)
      <4> SUFFICES ASSUME fate[e] = "queued" PROVE Contains(chainOf, e)
        OBVIOUS
      <4>1. e \in (s + 1)..enqueued /\ e \in Nat
        BY <1>1, WebhookNumbers DEF InOrder, Events
      <4>2. e - s \in 1..n /\ s + (e - s) = e
        BY <1>3, <4>1
      <4>3. chainOf[e - s] = e
        BY <1>1, <1>3, <4>2 DEF InOrder
      <4> QED BY <1>3, <4>2, <4>3 DEF Contains
    <3> QED BY <3>1, <3>2
  <2> QED BY <1>2, <2>1
<1>7. WebhookTypes'
  <2>1. attempt' \in 0..maxAttempts /\ <<>> \in Seq(Events)
    BY <1>2, WebhookNumbers
  <2> QED BY <1>1, <1>2, <1>5, <1>6, <2>1 DEF WebhookTypes
<1>8. InOrder'
  <2>1. Len(chainOf') = 0 /\ DOMAIN chainOf' = {}
    BY <1>2
  <2>2. \A e \in Events : e \notin (enqueued + 1)..enqueued
    BY <1>3
  <2>3. 0 <= enqueued /\ 0 < maxAttempts
    BY <1>3, WebhookNumbers
  <2> QED BY <1>2, <1>4, <1>6, <2>1, <2>2, <2>3 DEF InOrder
<1>9. SentInTurn'
  <2> SUFFICES ASSUME NEW e \in Events PROVE Sent(e)' <= Allowed(e)'
    BY DEF SentInTurn
  <2> PICK a, b, d, p, y : a = Cardinality(ReceiptsOf(e)) /\ b = Cardinality(FlyingOf(e))
                        /\ d = Cardinality(FlyingOf(e)')
                        /\ p = (IF posting # NoPost /\ posting.event = e THEN 1 ELSE 0)
                        /\ y = attempt
    OBVIOUS
  <2>1. a \in Nat /\ b \in Nat /\ p \in {0, 1} /\ e \in Nat /\ y \in 0..maxAttempts
    BY <1>1, SentIsCounted, CountsAreNumbers, EventsAreNumbers
  <2>2. d \in Nat /\ d <= b + p
    <3>1. CASE posting = NoPost
      <4>1. d = b
        BY <1>2, <3>1 DEF FlyingOf
      <4> QED BY <2>1, <4>1
    <3>2. CASE posting # NoPost
      <4>1. posting \in Requests /\ flying' = flying \cup {posting}
        BY <1>1, <1>2, <3>2 DEF WebhookTypes
      <4> QED BY <1>1, <3>2, <4>1, Flying
    <3> QED BY <3>1, <3>2
  <2>3. a + b + p <= IF e <= s THEN maxAttempts ELSE IF e = s + 1 THEN y ELSE 0
    BY <1>1 DEF SentInTurn, Sent, Allowed
  <2>4. Sent(e)' = a + d + 0
    BY <1>2 DEF Sent, ReceiptsOf
  <2>5. Allowed(e)' = IF e <= enqueued THEN maxAttempts ELSE 0
    BY <1>2, <1>4 DEF Allowed
  <2>6. a + d + 0 <= IF e <= enqueued THEN maxAttempts ELSE 0
    <3>1. n = 0 => y = 0
      <4>1. n = 0 => chainOf = <<>>
        BY <1>1, ChainIsASequence
      <4> QED BY <1>1, <4>1 DEF InOrder
    <3>2. CASE e <= enqueued
      <4>1. a + b + p <= maxAttempts
        <5>1. y <= maxAttempts /\ 0 <= maxAttempts
          BY <2>1, WebhookNumbers
        <5>2. maxAttempts \in Nat /\ y \in Nat
          BY <2>1, WebhookNumbers
        <5>3. CASE e <= s
          BY <2>3, <5>3
        <5>4. CASE ~(e <= s) /\ e = s + 1
          <6>1. a + b + p <= y
            BY <2>3, <5>4
          <6> QED BY <2>1, <5>1, <5>2, <6>1
        <5>5. CASE ~(e <= s) /\ e # s + 1
          <6>1. a + b + p <= 0
            BY <2>3, <5>5
          <6> QED BY <2>1, <5>1, <5>2, <6>1
        <5> QED BY <5>3, <5>4, <5>5
      <4> QED BY <2>1, <2>2, <3>2, <4>1, WebhookNumbers, SMTT(30)
    <3>3. CASE e > enqueued
      <4>1. e > s /\ (e = s + 1 => n = 0)
        BY <1>3, <2>1, <3>3
      <4>2. a + b + p <= 0
        BY <1>3, <2>1, <2>3, <3>1, <4>1
      <4>3. a + d + 0 <= 0
        BY <2>1, <2>2, <4>2, SMTT(30)
      <4> QED BY <1>3, <2>1, <3>3, <4>3
    <3> QED BY <1>3, <2>1, <3>2, <3>3
  <2> QED BY <2>4, <2>5, <2>6
<1>10. ReceivedInOrder' /\ ReceivedInTime'
  BY <1>1, <1>2, <1>6 DEF ReceivedInOrder, ReceivedInTime
<1> QED BY <1>7, <1>8, <1>9, <1>10 DEF WebhookInv

LEMMA WebhookStart == WebhookInit => WebhookInv
<1> SUFFICES ASSUME WebhookInit PROVE WebhookInv
  OBVIOUS
<1>1. /\ enqueued = 0 /\ chainOf = <<>> /\ attempt = 0 /\ posting = NoPost
      /\ flying = {} /\ receipts = <<>> /\ fate = [e \in Events |-> "none"] /\ clock = 0
  BY DEF WebhookInit
<1>2. WebhookTypes
  <2>1. 0 \in 0..MaxEnqueued /\ 0 \in 0..maxAttempts /\ IsFiniteSet({})
    BY WebhookNumbers, FS_EmptySet
  <2> QED BY <1>1, <2>1 DEF WebhookTypes
<1>3. SettledEvents = 0 /\ Len(chainOf) = 0 /\ DOMAIN chainOf = {} /\ DOMAIN receipts = {}
  <2>1. Len(chainOf) = 0 /\ DOMAIN chainOf = {} /\ DOMAIN receipts = {}
    BY <1>1
  <2>2. SettledEvents = 0 - 0
    BY <1>1, <2>1 DEF SettledEvents
  <2> QED BY <2>1, <2>2
<1>4. InOrder
  <2>1. \A e \in Events : e \notin (0 + 1)..0
    OBVIOUS
  <2> QED BY <1>1, <1>3, <2>1, WebhookNumbers DEF InOrder
<1>5. SentInTurn
  <2> SUFFICES ASSUME NEW e \in Events PROVE Sent(e) <= Allowed(e)
    BY DEF SentInTurn
  <2>1. ReceiptsOf(e) = {} /\ FlyingOf(e) = {}
    BY <1>1, <1>3 DEF ReceiptsOf, FlyingOf
  <2>2. Sent(e) = 0
    <3> PICK z : z = Cardinality({})
      OBVIOUS
    <3>1. z = 0
      BY FS_EmptySet
    <3>2. Sent(e) = z + z + 0
      BY <1>1, <2>1 DEF Sent
    <3> QED BY <3>1, <3>2
  <2>3. Allowed(e) \in Nat
    BY <1>1, WebhookNumbers DEF Allowed
  <2> QED BY <2>2, <2>3
<1> QED BY <1>1, <1>2, <1>3, <1>4, <1>5 DEF WebhookInv, ReceivedInOrder, ReceivedInTime

\* The dispatcher sends in order, and no event more often than allowed.
THEOREM WebhookInvariant == WebhookSpec => []WebhookInv
<1>1. WebhookInv /\ [WebhookNext]_webhook => WebhookInv'
  <2> SUFFICES ASSUME WebhookInv, [WebhookNext]_webhook PROVE WebhookInv'
    OBVIOUS
  <2>1. CASE ClockTick
    <3>1. clock' = clock + 1
          /\ UNCHANGED <<enqueued, chainOf, attempt, posting, flying, receipts, fate>>
      BY <2>1 DEF ClockTick
    <3>2. WebhookTypes'
      <4>1. clock' \in Nat
        BY <3>1, CountsAreNumbers DEF WebhookInv
      <4> QED BY <3>1, <4>1 DEF WebhookInv, WebhookTypes
    <3> QED BY <3>1, <3>2 DEF WebhookInv, InOrder, SettledEvents, SentInTurn, Sent, ReceiptsOf, FlyingOf,
                              Allowed, ReceivedInOrder, ReceivedInTime
  <2>2. CASE UNCHANGED webhook
    <3>1. UNCHANGED <<enqueued, chainOf, attempt, posting, flying, receipts, fate, clock>>
      BY <2>2 DEF webhook
    <3> QED BY <3>1 DEF WebhookInv, WebhookTypes, InOrder, SettledEvents, SentInTurn, Sent, ReceiptsOf,
                        FlyingOf, Allowed, ReceivedInOrder, ReceivedInTime
  <2> QED BY <2>1, <2>2, EnqueueStep, PostStep, AnsweredStep, UnansweredStep, ProcessedLateStep,
             CrashStep DEF WebhookNext
<1> QED BY <1>1, WebhookStart, PTL DEF WebhookSpec

\* webhook.ts: a delivered event was received, before any event after it;
\* every event is in the queue, in order, until it is settled; an event is
\* received at most maxAttempts times, and never older than the tolerance; for
\* any number of events, attempts, lost answers, late requests and crashes.
THEOREM DeliveriesOrdered == WebhookSpec => []DeliveriesAreOrdered
<1>1. WebhookInv => DeliveriesAreOrdered
  <2> SUFFICES ASSUME WebhookInv PROVE DeliveriesAreOrdered
    OBVIOUS
  <2>1. WebhookTypes /\ InOrder /\ SentInTurn /\ ReceivedInOrder /\ ReceivedInTime
    BY DEF WebhookInv
  <2> PICK s, n : s = SettledEvents /\ n = Len(chainOf)
    OBVIOUS
  <2>2. /\ n \in Nat /\ s \in Nat /\ enqueued = s + n /\ DOMAIN chainOf = 1..n
        /\ \A i \in 1..n : chainOf[i] = s + i
        /\ DOMAIN receipts = 1..Len(receipts) /\ Len(receipts) \in Nat
    BY <2>1, QueueNumbers, ReceiptsAreASequence DEF InOrder
  <2>3. ASSUME NEW e \in Events, fate[e] = "delivered" PROVE Received(e)
    BY <2>1, <2>3 DEF ReceivedInOrder, Received
  <2>4. ASSUME NEW e \in Events PROVE fate[e] = "queued" <=> Contains(chainOf, e)
    <3>1. e \in Nat /\ (fate[e] = "queued" <=> e \in (s + 1)..enqueued)
      BY <2>1, WebhookNumbers DEF Events, InOrder
    <3>2. Contains(chainOf, e) <=> \E i \in 1..n : s + i = e
      BY <2>2 DEF Contains
    <3>3. (\E i \in 1..n : s + i = e) <=> e \in (s + 1)..enqueued
      <4>1. e \in (s + 1)..enqueued => e - s \in 1..n /\ s + (e - s) = e
        BY <2>2, <3>1
      <4>2. \A i \in 1..n : s + i \in (s + 1)..enqueued
        BY <2>2
      <4> QED BY <4>1, <4>2
    <3> QED BY <3>1, <3>2, <3>3
  <2>5. ASSUME NEW e \in Events PROVE Cardinality(ReceiptsOf(e)) <= maxAttempts
    <3> PICK a, b, p, y : a = Cardinality(ReceiptsOf(e)) /\ b = Cardinality(FlyingOf(e))
                          /\ p = (IF posting # NoPost /\ posting.event = e THEN 1 ELSE 0)
                          /\ y = attempt
      OBVIOUS
    <3>1. a \in Nat /\ b \in Nat /\ p \in {0, 1} /\ e \in Nat /\ y \in 0..maxAttempts
      BY <2>1, SentIsCounted, CountsAreNumbers, EventsAreNumbers
    <3>2. a + b + p <= IF e <= s THEN maxAttempts ELSE IF e = s + 1 THEN y ELSE 0
      BY <2>1 DEF SentInTurn, Sent, Allowed
    <3>3. a <= maxAttempts
      BY <2>2, <3>1, <3>2, WebhookNumbers, SMTT(30)
    <3> QED BY <3>3
  <2>6. ASSUME NEW e \in Events, fate[e] = "delivered", NEW f \in (e + 1)..MaxEnqueued, Received(f)
        PROVE  First(e) < First(f)
    <3>1. PICK i \in DOMAIN receipts :
              receipts[i].event = e /\ \A j \in 1..i : receipts[j].event <= e
      BY <2>1, <2>6 DEF ReceivedInOrder
    <3>2. ASSUME NEW x, Received(x)
          PROVE  /\ First(x) \in DOMAIN receipts /\ receipts[First(x)].event = x
                 /\ \A j \in 1..(First(x) - 1) : receipts[j].event # x
      <4> DEFINE R == {k \in DOMAIN receipts : receipts[k].event = x}
      <4>1. R \subseteq Nat /\ R # {}
        BY <2>2, <3>2 DEF Received
      <4>2. PICK k \in R : \A j \in R : k <= j
        BY <4>1, LeastNumber
      <4>3. \A j \in 1..(k - 1) : j \notin R /\ j \in DOMAIN receipts
        <5> TAKE j \in 1..(k - 1)
        <5>1. k \in 1..Len(receipts) /\ Len(receipts) \in Nat
          BY <2>2, <4>2
        <5>2. j \in 1..Len(receipts) /\ ~(k <= j)
          BY <5>1
        <5> QED BY <2>2, <4>2, <5>2
      <4>4. \E l \in DOMAIN receipts :
                receipts[l].event = x /\ \A j \in 1..(l - 1) : receipts[j].event # x
        BY <4>2, <4>3
      <4> QED BY <4>4 DEF First
    <3>3. Received(e)
      BY <3>1 DEF Received
    <3> PICK a, b : a = First(e) /\ b = First(f)
      OBVIOUS
    <3>4. /\ a \in DOMAIN receipts /\ receipts[a].event = e
          /\ \A j \in 1..(a - 1) : receipts[j].event # e
          /\ b \in DOMAIN receipts /\ receipts[b].event = f
      BY <2>6, <3>2, <3>3
    <3>5. a \in Nat /\ b \in Nat /\ i \in Nat /\ i >= 1 /\ b >= 1
      BY <2>2, <3>1, <3>4
    <3>6. a <= i
      <4> SUFFICES ASSUME a > i PROVE FALSE
        BY <3>5
      <4>1. i \in 1..(a - 1)
        BY <3>5
      <4> QED BY <3>1, <3>4, <4>1
    <3>7. b > i
      <4> SUFFICES ASSUME b <= i PROVE FALSE
        BY <3>5
      <4>1. b \in 1..i
        BY <3>5
      <4>2. f <= e
        BY <3>1, <3>4, <4>1
      <4>3. e \in Nat /\ f > e /\ f \in Nat
        BY <2>6, WebhookNumbers DEF Events
      <4> QED BY <4>2, <4>3
    <3>8. a < b
      BY <3>5, <3>6, <3>7
    <3> QED BY <3>8
  <2>7. \A i, j \in DOMAIN chainOf : i < j => chainOf[i] < chainOf[j]
    BY <2>2
  <2> QED BY <2>1, <2>3, <2>4, <2>5, <2>6, <2>7 DEF DeliveriesAreOrdered, ReceivedInTime, ReceiptsOf
<1> QED BY <1>1, WebhookInvariant, PTL

-----------------------------------------------------------------------------
(* The probes: what was read bounds what can still be charged, and is what *)
(* the chain still says while nothing has moved.                           *)

States == {"active", "paused", "revoked", "expired", "unreadable", "payg_headroom", "behind",
           "on_schedule", "arrears_fundable", "arrears_starved"}
Row == [state : States, headroom : Int]
Answers == {NoRows} \cup [All -> Row]
MandateTerms == [status : {"active", "paused", "revoked"}, spent : 0..TotalBudget, wait : Int,
           window : Int, expired : BOOLEAN]

ProbesTypes ==
    /\ terms \in [All -> MandateTerms]
    /\ trial \in Int /\ account \in Nat /\ pulled \in Nat /\ acted \subseteq Moves
    /\ probe \in [kind : {"none", "exposure", "lag"}, authorized : Nat \cup {Unread},
                  rows : Answers, balance : Nat \cup {Unread}]
    /\ report \in [kind : {"none", "exposure", "lag"}, atRisk : Int, rows : Answers, owed : Int]

\* What exposure has read, and what it has answered less what was pulled since.
ExposureInv ==
    "subscriber" \notin acted =>
        /\ probe.kind = "exposure" =>
            /\ probe.authorized # Unread => totalAuthorized <= probe.authorized
            /\ probe.balance # Unread => account <= probe.balance
        /\ report.kind = "exposure" =>
            \/ pulled + totalAuthorized <= report.atRisk
            \/ pulled + account <= report.atRisk

\* What lag has read, and answered, is so.
Unreadable == [state |-> "unreadable", headroom |-> 0]
ProbeAnswer(m) ==
    IF lagRow(m).state # "behind" THEN lagRow(m)
    ELSE [lagRow(m) EXCEPT !.state = IF account >= Fee THEN "arrears_fundable" ELSE "arrears_starved"]
Fundable(rows) == {m \in All : rows[m].state = "arrears_fundable"}
LagInv ==
    acted = {} =>
        /\ probe.kind = "lag" =>
            /\ probe.rows # NoRows => \A m \in All : probe.rows[m] \in {lagRow(m), Unreadable}
            /\ probe.balance # Unread => probe.balance = account
        /\ report.kind = "lag" =>
            /\ \A m \in All : report.rows[m] \in {ProbeAnswer(m), Unreadable}
            /\ report.owed = Fee * Cardinality(Fundable(report.rows))

ProbesInv == ProbesTypes /\ ExposureInv /\ LagInv

LEMMA ProbesNumbers ==
    /\ Fee \in Nat /\ TotalBudget \in Nat /\ RateCap \in Nat /\ Period \in Nat /\ Margin \in Nat
    /\ \A a \in Amounts : a \in Nat /\ a > 0
    /\ Deposits \subseteq Nat
    /\ IsFiniteSet(All)
<1>1. {Fee, TotalBudget, RateCap, Period, Margin} \subseteq Nat
  BY Zenon, ProbesAssumption DEF ProbesAssumption
<1>2. Amounts \subseteq Nat \ {0} /\ Deposits \subseteq Nat /\ IsFiniteSet(All)
  BY Zenon, ProbesAssumption DEF ProbesAssumption, All
<1> QED BY <1>1, <1>2

\* The lesser and the greater of two numbers.
LEMMA MinOfTwo ==
    ASSUME NEW a \in Int, NEW b \in Int
    PROVE  Min({a, b}) = IF a <= b THEN a ELSE b
<1>1. \E x \in {a, b} : \A y \in {a, b} : x <= y
  OBVIOUS
<1>2. Min({a, b}) \in {a, b} /\ \A y \in {a, b} : Min({a, b}) <= y
  BY <1>1 DEF Min
<1> QED BY <1>2

LEMMA MaxOfTwo ==
    ASSUME NEW a \in Int, NEW b \in Int
    PROVE  Max({a, b}) = IF a >= b THEN a ELSE b
<1>1. \E x \in {a, b} : \A y \in {a, b} : x >= y
  OBVIOUS
<1>2. Max({a, b}) \in {a, b} /\ \A y \in {a, b} : Max({a, b}) >= y
  BY <1>1 DEF Max
<1> QED BY <1>2

\* What the types say of one mandate.
LEMMA MandateTypes ==
    ASSUME ProbesTypes, NEW m \in All
    PROVE  /\ terms[m] \in MandateTerms
           /\ terms[m].spent \in Nat /\ terms[m].spent <= TotalBudget
           /\ terms[m].wait \in Int /\ terms[m].window \in Int
           /\ remaining(terms[m]) \in Nat /\ remaining(terms[m]) = TotalBudget - terms[m].spent
<1>1. terms[m] \in MandateTerms
  BY DEF ProbesTypes
<1>2. terms[m].spent \in 0..TotalBudget /\ terms[m].wait \in Int /\ terms[m].window \in Int
  BY <1>1 DEF MandateTerms
<1> QED BY <1>1, <1>2, ProbesNumbers DEF remaining

\* What is authorized, as a sum.
Active == {m \in All : terms[m].status = "active"}
LeftOf == [m \in All |-> remaining(terms[m])]

LEMMA AuthorizedIsASum ==
    ASSUME ProbesTypes
    PROVE  /\ totalAuthorized = SumFunctionOnSet(LeftOf, Active)
           /\ IsFiniteSet(Active) /\ Active \subseteq All
           /\ \A m \in Active : LeftOf[m] \in Nat
           /\ totalAuthorized \in Nat
<1>1. totalAuthorized = SumFunctionOnSet(LeftOf, Active)
  BY DEF totalAuthorized, LeftOf, Active
<1>2. IsFiniteSet(Active)
  <2>1. Active \in SUBSET All
    BY DEF Active
  <2> QED BY <2>1, ProbesNumbers, FS_Subset
<1>3. Active \subseteq All
  BY DEF Active
<1>4. \A m \in Active : LeftOf[m] \in Nat
  BY <1>3, MandateTypes DEF LeftOf
<1>5. SumFunctionOnSet(LeftOf, Active) \in Nat
  BY <1>2, <1>4, SumNat
<1> QED BY <1>1, <1>2, <1>3, <1>4, <1>5

\* Terms that change in their dates alone authorize as much.
LEMMA SameAuthorized ==
    ASSUME ProbesTypes, ProbesTypes',
           \A m \in All : terms'[m].status = terms[m].status /\ terms'[m].spent = terms[m].spent
    PROVE  totalAuthorized' = totalAuthorized
<1>1. Active' = Active
  BY DEF Active
<1>2. \A m \in All : LeftOf'[m] = LeftOf[m]
  BY DEF LeftOf, remaining
<1> PICK f, g, S : f = LeftOf /\ g = LeftOf' /\ S = Active
  OBVIOUS
<1>3. totalAuthorized = SumFunctionOnSet(f, S) /\ IsFiniteSet(S) /\ S \subseteq All
  BY AuthorizedIsASum
<1>4. totalAuthorized' = SumFunctionOnSet(g, S)
  BY <1>1 DEF totalAuthorized, LeftOf, Active
<1>5. \A m \in S : f[m] = g[m]
  BY <1>2, <1>3
<1>6. SumFunctionOnSet(f, S) = SumFunctionOnSet(g, S)
  BY <1>3, <1>5, SumSame
<1> QED BY <1>3, <1>4, <1>6

\* A charge lowers it by its amount.
LEMMA LessAuthorized ==
    ASSUME ProbesTypes, ProbesTypes', NEW m \in All, NEW a \in Nat,
           terms[m].status = "active",
           \A k \in All : terms'[k].status = terms[k].status,
           \A k \in All \ {m} : terms'[k].spent = terms[k].spent,
           terms'[m].spent = terms[m].spent + a
    PROVE  totalAuthorized' = totalAuthorized - a
<1>1. Active' = Active /\ m \in Active
  BY DEF Active
<1> PICK f, g, S : f = LeftOf /\ g = LeftOf' /\ S = Active
  OBVIOUS
<1>2. totalAuthorized = SumFunctionOnSet(f, S) /\ IsFiniteSet(S) /\ S \subseteq All
      /\ \A k \in S : f[k] \in Nat
  BY AuthorizedIsASum
<1>3. totalAuthorized' = SumFunctionOnSet(g, S)
  BY <1>1 DEF totalAuthorized, LeftOf, Active
<1>4. \A k \in S \ {m} : g[k] = f[k]
  BY <1>2 DEF LeftOf, remaining
<1>5. g[m] = f[m] - a
  <2>1. f[m] = TotalBudget - terms[m].spent /\ g[m] = TotalBudget - (terms[m].spent + a)
    BY DEF LeftOf, remaining
  <2>2. terms[m].spent \in Nat
    BY MandateTypes
  <2> QED BY <2>1, <2>2, ProbesNumbers
<1>6. f[m] \in Int /\ g[m] \in Int
  BY <1>1, <1>2, <1>5
<1>7. SumFunctionOnSet(g, S) = SumFunctionOnSet(f, S) - f[m] + g[m]
  <2>1. \A k \in S : f[k] \in Int
    BY <1>2
  <2>2. m \in S
    BY <1>1
  <2> QED BY <1>2, <1>4, <1>6, <2>1, <2>2, SumUpdate
<1>8. SumFunctionOnSet(f, S) \in Nat
  BY <1>2, SumNat
<1> QED BY <1>2, <1>3, <1>5, <1>6, <1>7, <1>8

\* The chain moves while a probe runs or has answered, or nobody looks.
LEMMA MovedKeeps ==
    ASSUME ProbesTypes, NEW who \in Moves, Moved(who)
    PROVE  /\ probe' = probe /\ report' \in {report, NoReport} /\ acted' \subseteq Moves
           /\ report'.kind # "none" => report' = report /\ who # "subscriber"
           /\ probe.kind # "none" \/ report'.kind # "none" => acted' = acted \cup {who}
<1>1. probe' = probe /\ report' \in {report, NoReport}
  BY DEF Moved
<1>2. acted' \subseteq Moves
  BY DEF Moved, ProbesTypes
<1>3. NoReport.kind = "none"
  BY DEF NoReport
<1>4. report'.kind # "none" => report' = report /\ who # "subscriber" /\ report # NoReport
  BY <1>1, <1>3 DEF Moved
<1>5. probe.kind # "none" \/ report # NoReport => acted' = acted \cup {who}
  BY DEF Moved
<1> QED BY <1>1, <1>2, <1>4, <1>5

LEMMA NoReportTyped ==
    /\ NoReport \in [kind : {"none", "exposure", "lag"}, atRisk : Int, rows : Answers, owed : Int]
    /\ NoReport.kind = "none" /\ NoReport.rows = NoRows
<1> PICK z : z = 0
  OBVIOUS
<1>1. NoReport = [kind |-> "none", atRisk |-> z, rows |-> NoRows, owed |-> z] /\ z \in Int
  BY DEF NoReport
<1> QED BY <1>1 DEF Answers

LEMMA AtRestTyped ==
    /\ AtRest \in [kind : {"none", "exposure", "lag"}, authorized : Nat \cup {Unread},
                   rows : Answers, balance : Nat \cup {Unread}]
    /\ AtRest.kind = "none" /\ AtRest.rows = NoRows
    /\ AtRest.authorized = Unread /\ AtRest.balance = Unread
BY DEF AtRest, Answers

\* Charges and time, by which what is authorized and the balance go down alike.
LEMMA ChainMoves ==
    ASSUME ProbesInv, ProbesTypes', NEW who \in {"charge", "time"}, Moved(who), NEW a \in Nat,
           totalAuthorized' = totalAuthorized - a, account' = account - a,
           report.kind = "exposure" => pulled' = pulled + a
    PROVE  ProbesInv'
<1>0. who \in Moves /\ who # "subscriber" /\ ProbesTypes
  BY DEF Moves, ProbesInv
<1>1. /\ probe' = probe
      /\ report'.kind # "none" => report' = report
      /\ probe.kind # "none" \/ report'.kind # "none" => acted' = acted \cup {who}
  BY <1>0, MovedKeeps
<1>2. LagInv'
  BY <1>1 DEF LagInv
<1> PICK s, s2, b, b2, u : /\ s = totalAuthorized /\ s2 = totalAuthorized' /\ b = account
                           /\ b2 = account' /\ u = pulled
  OBVIOUS
<1>3. s \in Nat /\ b \in Nat /\ s2 = s - a /\ b2 = b - a /\ u \in Nat
  BY <1>0, AuthorizedIsASum DEF ProbesTypes
<1>4. ASSUME "subscriber" \notin acted', probe'.kind = "exposure"
      PROVE  /\ probe'.authorized # Unread => s2 <= probe'.authorized
             /\ probe'.balance # Unread => b2 <= probe'.balance
  <2> PICK x, y : x = probe.authorized /\ y = probe.balance
    OBVIOUS
  <2>1. x \in Nat \cup {Unread} /\ y \in Nat \cup {Unread}
    BY <1>0 DEF ProbesTypes
  <2>2. (x # Unread => s <= x) /\ (y # Unread => b <= y)
    BY <1>0, <1>1, <1>4 DEF ProbesInv, ExposureInv
  <2>3. (x # Unread => s2 <= x) /\ (y # Unread => b2 <= y)
    BY <1>3, <2>1, <2>2
  <2> QED BY <1>1, <2>3
<1>5. ASSUME "subscriber" \notin acted', report'.kind = "exposure"
      PROVE  pulled' + s2 <= report'.atRisk \/ pulled' + b2 <= report'.atRisk
  <2> PICK x, v : x = report.atRisk /\ v = pulled'
    OBVIOUS
  <2>1. x \in Int /\ v = u + a /\ report' = report
    BY <1>0, <1>1, <1>5 DEF ProbesTypes
  <2>2. u + s <= x \/ u + b <= x
    BY <1>0, <1>1, <1>5, <2>1 DEF ProbesInv, ExposureInv
  <2>3. v + s2 <= x \/ v + b2 <= x
    BY <1>3, <2>1, <2>2
  <2> QED BY <2>1, <2>3
<1> QED BY <1>2, <1>4, <1>5 DEF ProbesInv, ExposureInv

LEMMA PullStep ==
    ASSUME ProbesInv, NEW m \in All, NEW a \in Amounts \cup {Fee}, Pull(m, a)
    PROVE  ProbesInv'
<1>0. ProbesTypes
  BY DEF ProbesInv
<1>1. a \in Nat
  BY ProbesNumbers
<1>2. /\ InForce(m) /\ a <= Left(m) /\ a <= account
      /\ account' = account - a /\ Moved("charge") /\ trial' = trial
      /\ pulled' = IF report.kind = "exposure" THEN pulled + a ELSE 0
  BY DEF Pull, Charges
<1>3. terms[m].status = "active" /\ a <= TotalBudget - terms[m].spent
  BY <1>2 DEF InForce, Left
<1> PICK t, n, w : /\ t = terms[m] /\ n = (IF t.wait <= 0 THEN Period ELSE t.wait)
                   /\ w = (IF m \in Fixed THEN 0 ELSE IF t.wait <= 0 THEN a ELSE t.window + a)
  OBVIOUS
<1>4. t \in MandateTerms /\ t.spent \in Nat /\ t.wait \in Int /\ t.window \in Int /\ t.status = "active"
  BY <1>0, <1>3, MandateTypes
<1>5. n \in Int /\ w \in Int
  BY <1>1, <1>4, ProbesNumbers
<1>6. terms' = [terms EXCEPT ![m] = [t EXCEPT !.spent = t.spent + a, !.wait = n, !.window = w]]
  BY DEF Pull
<1>7. t.spent + a \in 0..TotalBudget
  BY <1>1, <1>3, <1>4, ProbesNumbers
<1> PICK d : d = t.spent + a
  OBVIOUS
<1>8. /\ \A k \in All \ {m} : terms'[k] = terms[k]
      /\ terms'[m] = [t EXCEPT !.spent = d, !.wait = n, !.window = w]
      /\ terms' = [terms EXCEPT ![m] = terms'[m]]
  BY <1>0, <1>6 DEF ProbesTypes
<1>9. terms'[m] \in MandateTerms /\ terms'[m].status = t.status /\ terms'[m].spent = d
  BY <1>4, <1>5, <1>7, <1>8 DEF MandateTerms
<1>10. terms' \in [All -> MandateTerms]
  BY <1>0, <1>8, <1>9 DEF ProbesTypes
<1>11. ProbesTypes'
  <2>1. "charge" \in Moves
    BY DEF Moves
  <2>2. probe' = probe /\ report' \in {report, NoReport} /\ acted' \subseteq Moves
    BY <1>0, <1>2, <2>1, MovedKeeps
  <2>3. account' \in Nat /\ pulled' \in Nat
    <3>1. account \in Nat /\ pulled \in Nat
      BY <1>0 DEF ProbesTypes
    <3>2. account' \in Nat
      BY <1>1, <1>2, <3>1
    <3>3. pulled' \in Nat
      BY <1>1, <1>2, <3>1
    <3> QED BY <3>2, <3>3
  <2> QED BY <1>0, <1>2, <1>10, <2>2, <2>3, NoReportTyped DEF ProbesTypes
<1>12. totalAuthorized' = totalAuthorized - a
  <2>1. \A k \in All : terms'[k].status = terms[k].status
    BY <1>8, <1>9
  <2>2. \A k \in All \ {m} : terms'[k].spent = terms[k].spent
    BY <1>8
  <2>3. terms'[m].spent = terms[m].spent + a
    BY <1>9
  <2> QED BY <1>0, <1>1, <1>3, <1>11, <2>1, <2>2, <2>3, LessAuthorized
<1> QED BY <1>1, <1>2, <1>11, <1>12, ChainMoves

LEMMA PassTimeStep ==
    ASSUME ProbesInv, PassTime
    PROVE  ProbesInv'
<1>0. ProbesTypes
  BY DEF ProbesInv
<1>1. PICK gone \in SUBSET All :
          terms' = [m \in All |-> [terms[m] EXCEPT !.wait = Lower(@), !.expired = @ \/ m \in gone]]
  BY DEF PassTime
<1>2. trial' = Lower(trial) /\ Moved("time") /\ account' = account /\ pulled' = pulled
  BY DEF PassTime
<1>3. \A n \in Int : Lower(n) \in Int
  BY DEF Lower
<1>4. ASSUME NEW m \in All
      PROVE  terms'[m] \in MandateTerms /\ terms'[m].status = terms[m].status
             /\ terms'[m].spent = terms[m].spent
  <2> PICK t, n, x : t = terms[m] /\ n = Lower(t.wait) /\ x = (t.expired \/ m \in gone)
    OBVIOUS
  <2>1. t \in MandateTerms /\ n \in Int
    BY <1>0, <1>3, MandateTypes
  <2>2. x \in BOOLEAN
    OBVIOUS
  <2>3. terms'[m] = [t EXCEPT !.wait = n, !.expired = x]
    BY <1>1, Zenon
  <2> QED BY <2>1, <2>2, <2>3 DEF MandateTerms
<1>5. terms' \in [All -> MandateTerms]
  BY <1>1, <1>4
<1>6. ProbesTypes'
  <2>1. "time" \in Moves
    BY DEF Moves
  <2>2. probe' = probe /\ report' \in {report, NoReport} /\ acted' \subseteq Moves
    BY <1>0, <1>2, <2>1, MovedKeeps
  <2>3. trial' \in Int
    BY <1>0, <1>2, <1>3 DEF ProbesTypes
  <2> QED BY <1>0, <1>2, <1>5, <2>2, <2>3, NoReportTyped DEF ProbesTypes
<1>7. totalAuthorized' = totalAuthorized
  BY <1>0, <1>4, <1>6, SameAuthorized
<1> PICK z : z = 0
  OBVIOUS
<1>8. totalAuthorized' = totalAuthorized - z /\ account' = account - z /\ pulled' = pulled + z /\ z \in Nat
  BY <1>0, <1>2, <1>7, AuthorizedIsASum DEF ProbesTypes
<1> QED BY <1>2, <1>6, <1>8, ChainMoves

LEMMA SubscriberStep ==
    ASSUME ProbesInv, SubscriberActs
    PROVE  ProbesInv'
<1>0. ProbesTypes
  BY DEF ProbesInv
<1>1. Moved("subscriber") /\ pulled' = 0 /\ trial' = trial
  BY DEF SubscriberActs
<1>2. "subscriber" \in Moves
  BY DEF Moves
<1>3. /\ probe' = probe /\ report' \in {report, NoReport} /\ acted' \subseteq Moves
      /\ report'.kind = "none"
      /\ probe.kind # "none" => "subscriber" \in acted'
  BY <1>0, <1>1, <1>2, MovedKeeps
<1>4. account' \in Nat /\ terms' \in [All -> MandateTerms]
  <2>1. CASE account' \in Deposits \ {account} /\ terms' = terms
    BY <1>0, <2>1, ProbesNumbers DEF ProbesTypes
  <2>2. ASSUME account' = account, NEW m \in All, NEW s \in {"active", "paused", "revoked"},
               terms' = [terms EXCEPT ![m].status = s]
        PROVE  account' \in Nat /\ terms' \in [All -> MandateTerms]
    <3> PICK t : t = [terms[m] EXCEPT !.status = s]
      OBVIOUS
    <3>1. t \in MandateTerms
      BY <1>0, MandateTypes DEF MandateTerms
    <3>2. terms' = [terms EXCEPT ![m] = t]
      BY <2>2
    <3> QED BY <1>0, <2>2, <3>1, <3>2 DEF ProbesTypes
  <2> QED BY <2>1, <2>2 DEF SubscriberActs
<1>5. ProbesTypes'
  <2> PICK z : z = 0
    OBVIOUS
  <2>1. pulled' \in Nat
    BY <1>1
  <2> QED BY <1>0, <1>1, <1>3, <1>4, <2>1, NoReportTyped DEF ProbesTypes
<1>6. ExposureInv' /\ LagInv'
  BY <1>3 DEF ExposureInv, LagInv
<1> QED BY <1>5, <1>6 DEF ProbesInv

\* A row is of the chain alone.
LEMMA SameRows ==
    ASSUME UNCHANGED <<terms, trial, account>>
    PROVE  \A m \in All : lagRow(m)' = lagRow(m) /\ ProbeAnswer(m)' = ProbeAnswer(m)
BY DEF ProbeAnswer, lagRow, lagState, InForce, untilDue, windowHeadroom, remaining

LEMMA BeginStep ==
    ASSUME ProbesInv, NEW kind \in {"exposure", "lag"}, Begin(kind)
    PROVE  ProbesInv'
<1>0. ProbesTypes
  BY DEF ProbesInv
<1>1. /\ probe' = [AtRest EXCEPT !.kind = kind] /\ report' = NoReport /\ acted' = {}
      /\ pulled' = 0 /\ UNCHANGED <<terms, trial, account>>
  BY DEF Begin, Chain
<1>2. /\ probe' \in [kind : {"none", "exposure", "lag"}, authorized : Nat \cup {Unread},
                     rows : Answers, balance : Nat \cup {Unread}]
      /\ probe'.authorized = Unread /\ probe'.balance = Unread /\ probe'.rows = NoRows
  BY <1>1, AtRestTyped
<1>3. ProbesTypes'
  <2>1. pulled' \in Nat
    BY <1>1
  <2> QED BY <1>0, <1>1, <1>2, <2>1, NoReportTyped DEF ProbesTypes
<1>4. ExposureInv' /\ LagInv'
  BY <1>1, <1>2, NoReportTyped DEF ExposureInv, LagInv
<1> QED BY <1>3, <1>4 DEF ProbesInv

LEMMA ReadMandatesStep ==
    ASSUME ProbesInv, ReadMandates
    PROVE  ProbesInv'
<1>0. ProbesTypes
  BY DEF ProbesInv
<1> PICK n : n = totalAuthorized
  OBVIOUS
<1>1. /\ probe' = [probe EXCEPT !.authorized = n] /\ probe.kind = "exposure"
      /\ UNCHANGED <<terms, trial, account, report, pulled, acted>>
  BY DEF ReadMandates, Chain
<1>2. n \in Nat
  BY <1>0, AuthorizedIsASum
<1>3. /\ probe' \in [kind : {"none", "exposure", "lag"}, authorized : Nat \cup {Unread},
                     rows : Answers, balance : Nat \cup {Unread}]
      /\ probe'.authorized = n /\ probe'.balance = probe.balance /\ probe'.kind = "exposure"
  BY <1>0, <1>1, <1>2 DEF ProbesTypes
<1>4. ProbesTypes'
  BY <1>0, <1>1, <1>3 DEF ProbesTypes
<1>5. totalAuthorized' = n
  BY <1>1 DEF totalAuthorized
<1>6. ExposureInv'
  <2>1. n <= n
    BY <1>2
  <2> QED BY <1>1, <1>3, <1>5, <2>1 DEF ProbesInv, ExposureInv
<1>7. LagInv'
  BY <1>1, <1>3, SameRows DEF ProbesInv, LagInv
<1> QED BY <1>4, <1>6, <1>7 DEF ProbesInv

LEMMA ReadAccountStep ==
    ASSUME ProbesInv, ReadAccount
    PROVE  ProbesInv'
<1>0. ProbesTypes
  BY DEF ProbesInv
<1>1. /\ probe' = [probe EXCEPT !.balance = account]
      /\ UNCHANGED <<terms, trial, account, report, pulled, acted>>
  BY DEF ReadAccount, Chain
<1>2. account \in Nat
  BY <1>0 DEF ProbesTypes
<1>3. /\ probe' \in [kind : {"none", "exposure", "lag"}, authorized : Nat \cup {Unread},
                     rows : Answers, balance : Nat \cup {Unread}]
      /\ probe'.balance = account /\ probe'.kind = probe.kind /\ probe'.rows = probe.rows
      /\ probe'.authorized = probe.authorized
  BY <1>0, <1>1, <1>2 DEF ProbesTypes
<1>4. ProbesTypes'
  BY <1>0, <1>1, <1>3 DEF ProbesTypes
<1>5. totalAuthorized' = totalAuthorized
  BY <1>1 DEF totalAuthorized
<1>6. ExposureInv'
  <2>1. account <= account
    BY <1>2
  <2> QED BY <1>1, <1>3, <1>5, <2>1 DEF ProbesInv, ExposureInv
<1>7. LagInv'
  BY <1>1, <1>3, SameRows DEF ProbesInv, LagInv
<1> QED BY <1>4, <1>6, <1>7 DEF ProbesInv

\* The lesser of what is authorized and the balance bounds what can be pulled.
LEMMA ExposureStep ==
    ASSUME ProbesInv, accountExposure
    PROVE  ProbesInv'
<1>0. ProbesTypes
  BY DEF ProbesInv
<1> PICK x, y, l : x = probe.authorized /\ y = probe.balance /\ l = Min({x, y})
  OBVIOUS
<1>1. /\ probe.kind = "exposure" /\ x # Unread /\ y # Unread
      /\ report' = [NoReport EXCEPT !.kind = "exposure", !.atRisk = l]
      /\ probe' = AtRest /\ pulled' = 0 /\ UNCHANGED <<terms, trial, account, acted>>
  BY DEF accountExposure, Chain
<1>2. x \in Nat /\ y \in Nat /\ l \in {x, y} /\ l \in Int
  <2>1. x \in Nat /\ y \in Nat
    BY <1>0, <1>1 DEF ProbesTypes
  <2>2. l = IF x <= y THEN x ELSE y
    BY <2>1, MinOfTwo
  <2> QED BY <2>1, <2>2
<1>3. /\ report' \in [kind : {"none", "exposure", "lag"}, atRisk : Int, rows : Answers, owed : Int]
      /\ report'.kind = "exposure" /\ report'.atRisk = l
  BY <1>1, <1>2, NoReportTyped
<1>4. ProbesTypes'
  <2>1. pulled' \in Nat
    BY <1>1
  <2> QED BY <1>0, <1>1, <1>3, <2>1, AtRestTyped DEF ProbesTypes
<1>5. totalAuthorized' = totalAuthorized
  BY <1>1 DEF totalAuthorized
<1>6. ExposureInv'
  <2> SUFFICES ASSUME "subscriber" \notin acted
               PROVE  pulled' + totalAuthorized <= l \/ pulled' + account <= l
    BY <1>1, <1>3, <1>5, AtRestTyped DEF ExposureInv
  <2> PICK s, b : s = totalAuthorized /\ b = account
    OBVIOUS
  <2>1. s <= x /\ b <= y
    BY <1>1 DEF ProbesInv, ExposureInv
  <2>2. s \in Nat /\ b \in Nat
    BY <1>0, AuthorizedIsASum DEF ProbesTypes
  <2>3. 0 + s <= l \/ 0 + b <= l
    BY <1>2, <2>1, <2>2
  <2> QED BY <1>1, <2>3
<1>7. LagInv'
  BY <1>1, <1>3, AtRestTyped DEF LagInv
<1> QED BY <1>4, <1>6, <1>7 DEF ProbesInv

\* The row of a mandate is one.
LEMMA LagRowTyped ==
    ASSUME ProbesTypes, NEW m \in All
    PROVE  lagRow(m) \in Row /\ lagState(m, terms[m]) \in States
<1> PICK t, p : t = terms[m] /\ p = lagState(m, terms[m])
  OBVIOUS
<1>1. t.status \in {"active", "paused", "revoked"} /\ t.spent \in Nat /\ t.wait \in Int /\ t.window \in Int
      /\ remaining(t) \in Nat
  BY MandateTypes DEF MandateTerms
<1>2. p \in States
  <2>1. m \in Payg \/ m \in Fixed
    BY DEF All
  <2> QED BY <1>1, <2>1 DEF lagState, InForce, States
<1>3. windowHeadroom(t) \in Int
  <2>1. RateCap - t.window \in Int /\ 0 \in Int /\ RateCap \in Int
    BY <1>1, ProbesNumbers
  <2>2. Max({RateCap - t.window, 0}) \in Int
    BY <2>1, MaxOfTwo
  <2> QED BY <2>1, <2>2 DEF windowHeadroom
<1> PICK h : h = lagRow(m).headroom
  OBVIOUS
<1>4. h \in Int
  <2>1. Min({windowHeadroom(t), remaining(t)}) \in Int
    <3>1. remaining(t) \in Int
      BY <1>1
    <3> QED BY <1>3, <3>1, MinOfTwo
  <2>2. h = IF p = "payg_headroom" THEN Min({windowHeadroom(t), remaining(t)}) ELSE 0
    BY DEF lagRow
  <2> QED BY <2>1, <2>2
<1>5. lagRow(m) = [state |-> p, headroom |-> h]
  BY DEF lagRow
<1> QED BY <1>2, <1>4, <1>5 DEF Row

LEMMA UnreadableTyped == Unreadable \in Row /\ Unreadable.state = "unreadable"
<1> PICK z : z = 0
  OBVIOUS
<1>1. Unreadable = [state |-> "unreadable", headroom |-> z] /\ z \in Int
  BY DEF Unreadable
<1> QED BY <1>1 DEF Row, States

LEMMA ReadRowsStep ==
    ASSUME ProbesInv, ReadRows
    PROVE  ProbesInv'
<1>0. ProbesTypes
  BY DEF ProbesInv
<1>1. PICK missing \in SUBSET All :
          probe' = [probe EXCEPT !.rows = [m \in All |->
              IF m \in missing THEN [state |-> "unreadable", headroom |-> 0] ELSE lagRow(m)]]
  BY DEF ReadRows
<1>2. probe.kind = "lag" /\ UNCHANGED <<terms, trial, account, report, pulled, acted>>
  BY DEF ReadRows, Chain
<1> PICK r : r = [m \in All |-> IF m \in missing THEN Unreadable ELSE lagRow(m)]
  OBVIOUS
<1>3. probe' = [probe EXCEPT !.rows = r]
  BY <1>1 DEF Unreadable
<1>4. r \in Answers /\ \A m \in All : r[m] \in {lagRow(m), Unreadable}
  <2>1. \A m \in All : r[m] \in {lagRow(m), Unreadable} /\ r[m] \in Row
    BY <1>0, LagRowTyped, UnreadableTyped
  <2> QED BY <2>1 DEF Answers
<1>5. /\ probe' \in [kind : {"none", "exposure", "lag"}, authorized : Nat \cup {Unread},
                     rows : Answers, balance : Nat \cup {Unread}]
      /\ probe'.balance = probe.balance /\ probe'.kind = "lag" /\ probe'.rows = r
      /\ probe'.authorized = probe.authorized
  BY <1>0, <1>2, <1>3, <1>4 DEF ProbesTypes
<1>6. ProbesTypes'
  BY <1>0, <1>2, <1>5 DEF ProbesTypes
<1>7. totalAuthorized' = totalAuthorized
  BY <1>2 DEF totalAuthorized
<1>8. ExposureInv'
  BY <1>2, <1>5, <1>7 DEF ProbesInv, ExposureInv
<1>9. \A m \in All : lagRow(m)' = lagRow(m) /\ ProbeAnswer(m)' = ProbeAnswer(m)
  BY <1>2, SameRows
<1>10. LagInv'
  BY <1>2, <1>4, <1>5, <1>9 DEF ProbesInv, LagInv
<1> QED BY <1>6, <1>8, <1>10 DEF ProbesInv

LEMMA LagStep ==
    ASSUME ProbesInv, scheduleLag
    PROVE  ProbesInv'
<1>0. ProbesTypes
  BY DEF ProbesInv
<1> PICK r, n : /\ r = [m \in All |-> Settled(probe.rows[m])]
                /\ n = Fee * Cardinality(Fundable(r))
  OBVIOUS
<1>1. /\ probe.kind = "lag" /\ probe.rows # NoRows
      /\ probe.balance # Unread \/ \A m \in All : probe.rows[m].state # "behind"
      /\ probe' = AtRest /\ pulled' = 0 /\ UNCHANGED <<terms, trial, account, acted>>
  BY DEF scheduleLag, Chain
<1> PICK z : z = 0
  OBVIOUS
<1>2. report' = [kind |-> "lag", atRisk |-> z, rows |-> r, owed |-> n]
  BY DEF scheduleLag, Fundable
<1>3. probe.rows \in [All -> Row]
  BY <1>0, <1>1 DEF ProbesTypes, Answers
<1>4. r \in Answers
  <2>1. ASSUME NEW m \in All PROVE r[m] \in Row
    <3> PICK row : row = probe.rows[m]
      OBVIOUS
    <3>1. row \in Row /\ r[m] = Settled(row)
      BY <1>3
    <3> QED BY <3>1 DEF Settled, Row, States
  <2> QED BY <2>1 DEF Answers
<1>5. n \in Int
  <2>1. Fundable(r) \in SUBSET All
    BY DEF Fundable
  <2>2. Cardinality(Fundable(r)) \in Nat
    BY <2>1, ProbesNumbers, FS_Subset, FS_CardinalityType
  <2> QED BY <2>2, ProbesNumbers
<1>6. /\ report' \in [kind : {"none", "exposure", "lag"}, atRisk : Int, rows : Answers, owed : Int]
      /\ report'.kind = "lag" /\ report'.rows = r /\ report'.owed = n
  BY <1>2, <1>4, <1>5
<1>7. ProbesTypes'
  <2>1. pulled' \in Nat
    BY <1>1
  <2> QED BY <1>0, <1>1, <1>6, <2>1, AtRestTyped DEF ProbesTypes
<1>8. ExposureInv'
  BY <1>6, <1>1, AtRestTyped DEF ExposureInv
<1>9. \A m \in All : ProbeAnswer(m)' = ProbeAnswer(m)
  BY <1>1, SameRows
<1>10. LagInv'
  <2> SUFFICES ASSUME acted = {}, NEW m \in All PROVE r[m] \in {ProbeAnswer(m), Unreadable}
    BY <1>1, <1>6, <1>9, AtRestTyped DEF LagInv, Fundable
  <2> PICK row : row = probe.rows[m]
    OBVIOUS
  <2>1. row \in {lagRow(m), Unreadable} /\ r[m] = Settled(row)
    BY <1>1 DEF ProbesInv, LagInv
  <2>2. CASE row.state # "behind"
    BY <2>1, <2>2 DEF Settled, ProbeAnswer
  <2>3. CASE row.state = "behind"
    <3>1. row = lagRow(m) /\ probe.balance = account
      BY <1>1, <2>1, <2>3, UnreadableTyped DEF ProbesInv, LagInv
    <3> QED BY <2>1, <2>3, <3>1 DEF Settled, ProbeAnswer
  <2> QED BY <2>2, <2>3
<1> QED BY <1>7, <1>8, <1>10 DEF ProbesInv

LEMMA ProbesStart == ProbesInit => ProbesInv
<1> SUFFICES ASSUME ProbesInit PROVE ProbesInv
  OBVIOUS
<1> PICK z : z = 0
  OBVIOUS
<1>1. /\ terms = [m \in All |-> [status |-> "active", spent |-> z, wait |-> z,
                                 window |-> z, expired |-> FALSE]]
      /\ trial \in {0, Period + Margin} /\ account \in Deposits
      /\ probe = AtRest /\ report = NoReport /\ pulled = z /\ acted = {}
  BY DEF ProbesInit
<1>2. z \in Int /\ z \in Nat /\ z \in 0..TotalBudget
  BY ProbesNumbers
<1>3. terms \in [All -> MandateTerms]
  BY <1>1, <1>2 DEF MandateTerms
<1>4. trial \in Int /\ account \in Nat
  BY <1>1, ProbesNumbers
<1>5. ProbesTypes
  BY <1>1, <1>2, <1>3, <1>4, AtRestTyped, NoReportTyped DEF ProbesTypes
<1>6. ExposureInv /\ LagInv
  BY <1>1, AtRestTyped, NoReportTyped DEF ExposureInv, LagInv
<1> QED BY <1>5, <1>6 DEF ProbesInv

\* The probes read what bounds the charges, and what the chain says.
THEOREM ProbesInvariant == ProbesSpec => []ProbesInv
<1>1. ProbesInv /\ [ProbesNext]_probes => ProbesInv'
  <2> SUFFICES ASSUME ProbesInv, [ProbesNext]_probes PROVE ProbesInv'
    OBVIOUS
  <2>1. CASE UNCHANGED probes
    <3>1. UNCHANGED <<terms, trial, account, probe, report, pulled, acted>>
      BY <2>1 DEF probes
    <3>2. totalAuthorized' = totalAuthorized
      BY <3>1 DEF totalAuthorized
    <3>3. ProbesTypes' /\ ExposureInv'
      BY <3>1, <3>2 DEF ProbesInv, ProbesTypes, ExposureInv
    <3>4. LagInv'
      BY <3>1, SameRows DEF ProbesInv, LagInv
    <3> QED BY <3>3, <3>4 DEF ProbesInv
  <2>2. CASE Begin("exposure") \/ Begin("lag")
    BY <2>2, BeginStep
  <2> QED BY <2>1, <2>2, PullStep, SubscriberStep, PassTimeStep, ReadMandatesStep, ReadRowsStep,
             ReadAccountStep, ExposureStep, LagStep DEF ProbesNext
<1> QED BY <1>1, ProbesStart, PTL DEF ProbesSpec

\* When the row of a FIXED mandate says "behind".
LEMMA BehindMeansDue ==
    ASSUME ProbesTypes, NEW m \in Fixed
    PROVE  /\ lagRow(m).state = "behind" <=>
                /\ InForce(m) /\ terms[m].spent + Fee <= TotalBudget
                /\ untilDue(terms[m]) <= -Margin
           /\ untilDue(terms[m]) <= -Margin => terms[m].wait <= 0 /\ trial <= 0
<1>0. m \in All /\ m \notin Payg
  BY ProbesAssumption DEF ProbesAssumption, All
<1> PICK t : t = terms[m]
  OBVIOUS
<1>1. t.status \in {"active", "paused", "revoked"} /\ t.wait \in Int /\ trial \in Int
  BY <1>0, MandateTypes DEF MandateTerms, ProbesTypes
<1>2. lagRow(m).state = lagState(m, t)
  BY DEF lagRow
<1>3. lagState(m, t) = "behind" <=> InForce(m) /\ t.spent + Fee <= TotalBudget /\ untilDue(t) <= -Margin
  BY <1>0, <1>1 DEF lagState, InForce
<1>4. untilDue(t) = IF t.wait >= trial THEN t.wait ELSE trial
  BY <1>1, MaxOfTwo DEF untilDue
<1>5. untilDue(t) <= -Margin => t.wait <= 0 /\ trial <= 0
  <2> PICK w, y, v : w = t.wait /\ y = trial /\ v = untilDue(t)
    OBVIOUS
  <2>1. w \in Int /\ y \in Int /\ v = IF w >= y THEN w ELSE y
    BY <1>1, <1>4
  <2> QED BY <2>1, ProbesNumbers
<1> QED BY <1>2, <1>3, <1>5

\* What the headroom of a PAYG mandate is.
LEMMA HeadroomIsWhatIsLeft ==
    ASSUME ProbesTypes, NEW m \in Payg, lagRow(m).state = "payg_headroom", trial <= 0,
           NEW a \in Amounts
    PROVE  Charges(m, a) <=> a <= lagRow(m).headroom /\ a <= account
<1>0. m \in All /\ m \notin Fixed
  BY ProbesAssumption DEF ProbesAssumption, All
<1> PICK t, l, u, h, s : /\ t = terms[m] /\ l = remaining(t) /\ u = t.window
                         /\ h = windowHeadroom(t) /\ s = TotalBudget - t.spent
  OBVIOUS
<1>1. t.status \in {"active", "paused", "revoked"} /\ t.wait \in Int /\ u \in Int /\ l \in Nat /\ l = s
  BY <1>0, MandateTypes DEF MandateTerms
<1>2. lagState(m, t) = "payg_headroom"
  BY DEF lagRow
<1>3. InForce(m)
  BY <1>0, <1>1, <1>2 DEF lagState, InForce
<1>4. h = IF t.wait <= 0 THEN RateCap ELSE Max({RateCap - u, 0})
  BY DEF windowHeadroom
<1>5. RateCap - u \in Int /\ RateCap \in Int /\ a \in Nat /\ a > 0
  BY <1>1, ProbesNumbers
<1>6. Max({RateCap - u, 0}) = IF RateCap - u >= 0 THEN RateCap - u ELSE 0
  BY <1>5, MaxOfTwo
<1>7. h \in Int
  BY <1>4, <1>5, <1>6
<1>8. lagRow(m).headroom = IF h <= l THEN h ELSE l
  <2>1. lagRow(m).headroom = Min({h, l})
    BY <1>2 DEF lagRow
  <2>2. l \in Int
    BY <1>1
  <2> QED BY <1>7, <2>1, <2>2, MinOfTwo
<1>9. a <= lagRow(m).headroom <=> a <= h /\ a <= l
  BY <1>1, <1>5, <1>7, <1>8
<1>10. a <= h <=> (IF t.wait <= 0 THEN 0 ELSE u) + a <= RateCap
  <2>1. CASE t.wait <= 0
    BY <1>4, <1>5, <2>1
  <2>2. CASE ~(t.wait <= 0)
    BY <1>1, <1>4, <1>5, <1>6, <2>2
  <2> QED BY <2>1, <2>2
<1>11. Charges(m, a) <=> /\ a <= s /\ a <= account
                         /\ (IF t.wait <= 0 THEN 0 ELSE u) + a <= RateCap
  BY <1>0, <1>3 DEF Charges, Left
<1> QED BY <1>1, <1>9, <1>10, <1>11

\* More mandates owe more.
LEMMA MoreOwed ==
    ASSUME NEW S, NEW T \in SUBSET S, IsFiniteSet(S)
    PROVE  Fee * Cardinality(T) <= Fee * Cardinality(S)
<1> PICK k, n : k = Cardinality(T) /\ n = Cardinality(S)
  OBVIOUS
<1>1. k \in Nat /\ n \in Nat /\ k <= n
  BY FS_Subset, FS_CardinalityType
<1>2. Fee \in Nat
  BY ProbesNumbers
<1>3. \A f, x, y \in Nat : x <= y => f * x <= f * y
  OBVIOUS
<1> QED BY <1>1, <1>2, <1>3

\* exposure.ts 23 and lag.ts: no more than atRisk is pulled after the answer,
\* and a lag report is what the contract would do; for any mandates, prices,
\* balances, charges and moves of the subscriber.
THEOREM ProbesTrue == ProbesSpec => []ProbesAreTrue
<1>1. ProbesInv => ProbesAreTrue
  <2> SUFFICES ASSUME ProbesInv PROVE ProbesAreTrue
    OBVIOUS
  <2>0. ProbesTypes
    BY DEF ProbesInv
  <2>1. LossIsWithinAtRisk
    <3> SUFFICES ASSUME report.kind = "exposure", "subscriber" \notin acted
                 PROVE  pulled <= report.atRisk
      BY DEF LossIsWithinAtRisk
    <3> PICK u, s, b, r : u = pulled /\ s = totalAuthorized /\ b = account /\ r = report.atRisk
      OBVIOUS
    <3>1. u \in Nat /\ s \in Nat /\ b \in Nat /\ r \in Int
      BY <2>0, AuthorizedIsASum DEF ProbesTypes
    <3>2. u + s <= r \/ u + b <= r
      BY DEF ProbesInv, ExposureInv
    <3>3. u <= r
      BY <3>1, <3>2
    <3> QED BY <3>3
  <2>2. LagAgreesWithContract
    <3> SUFFICES ASSUME report.kind = "lag", acted = {}
                 PROVE  LagAgreesWithContract
      BY DEF LagAgreesWithContract
    <3> DEFINE state == [m \in All |-> report.rows[m].state]
               overdue == {m \in Fixed : Charges(m, Fee) /\ untilDue(terms[m]) <= -Margin
                                         /\ state[m] # "unreadable"}
    <3>0. Fixed \subseteq All /\ Payg \subseteq All
      BY DEF All
    <3>1. \A m \in All : report.rows[m] \in {ProbeAnswer(m), Unreadable} /\ state[m] = report.rows[m].state
      BY DEF ProbesInv, LagInv
    <3>2. report.owed = Fee * Cardinality(Fundable(report.rows))
      BY DEF ProbesInv, LagInv
    <3> HIDE DEF state
    <3>3. ASSUME NEW m \in All
          PROVE  /\ ProbeAnswer(m).state = "payg_headroom" => ProbeAnswer(m) = lagRow(m)
                 /\ ProbeAnswer(m).state = "arrears_fundable" <=> lagRow(m).state = "behind" /\ account >= Fee
      <4>1. lagRow(m) \in Row
        BY <2>0, LagRowTyped
      <4>2. lagRow(m).state # "arrears_fundable"
        <5>1. m \in Payg \/ m \in Fixed
          BY DEF All
        <5>2. terms[m].status \in {"active", "paused", "revoked"}
          BY <2>0, MandateTypes DEF MandateTerms
        <5> QED BY <5>1, <5>2 DEF lagRow, lagState, InForce
      <4> QED BY <4>1, <4>2 DEF ProbeAnswer, Row
    <3>4. ASSUME NEW m \in Fixed, state[m] = "arrears_fundable" PROVE Charges(m, Fee)
      <4>1. ProbeAnswer(m).state = "arrears_fundable"
        BY <3>0, <3>1, <3>4, UnreadableTyped
      <4>2. lagRow(m).state = "behind" /\ account >= Fee
        BY <3>0, <3>3, <4>1
      <4>3. InForce(m) /\ terms[m].spent + Fee <= TotalBudget /\ terms[m].wait <= 0 /\ trial <= 0
        BY <2>0, <4>2, BehindMeansDue
      <4>4. Fee <= Left(m)
        <5>1. terms[m].spent \in Nat
          BY <2>0, <3>0, MandateTypes
        <5> QED BY <4>3, <5>1, ProbesNumbers DEF Left
      <4>5. Fee <= account
        BY <2>0, <4>2, ProbesNumbers DEF ProbesTypes
      <4> QED BY <4>3, <4>4, <4>5 DEF Charges
    <3>5. ASSUME NEW m \in overdue PROVE state[m] = "arrears_fundable"
      <4>1. m \in Fixed /\ Charges(m, Fee) /\ untilDue(terms[m]) <= -Margin /\ state[m] # "unreadable"
        BY DEF overdue
      <4>2. InForce(m) /\ Fee <= TotalBudget - terms[m].spent /\ Fee <= account
        BY <4>1 DEF Charges, Left
      <4>3. terms[m].spent + Fee <= TotalBudget
        <5>1. terms[m].spent \in Nat
          BY <2>0, <3>0, <4>1, MandateTypes
        <5> QED BY <4>2, <5>1, ProbesNumbers
      <4>4. lagRow(m).state = "behind"
        BY <2>0, <4>1, <4>2, <4>3, BehindMeansDue
      <4>5. account >= Fee
        BY <2>0, <4>2, ProbesNumbers DEF ProbesTypes
      <4>6. ProbeAnswer(m).state = "arrears_fundable"
        BY <3>0, <3>3, <4>1, <4>4, <4>5
      <4> QED BY <3>0, <3>1, <4>1, <4>6, UnreadableTyped
    <3>6. ASSUME trial <= 0, NEW m \in Payg, state[m] = "payg_headroom", NEW a \in Amounts
          PROVE  Charges(m, a) <=> a <= report.rows[m].headroom /\ a <= account
      <4>1. report.rows[m] = ProbeAnswer(m) /\ ProbeAnswer(m).state = "payg_headroom"
        BY <3>0, <3>1, <3>6, UnreadableTyped
      <4>2. report.rows[m] = lagRow(m)
        BY <3>0, <3>3, <4>1
      <4> QED BY <2>0, <3>6, <4>1, <4>2, HeadroomIsWhatIsLeft
    <3>7. ASSUME NEW due \in SUBSET overdue PROVE Fee * Cardinality(due) <= report.owed
      <4>1. due \in SUBSET Fundable(report.rows)
        BY <3>0, <3>1, <3>5 DEF Fundable, overdue
      <4>2. IsFiniteSet(Fundable(report.rows))
        <5>1. Fundable(report.rows) \in SUBSET All
          BY DEF Fundable
        <5> QED BY <5>1, ProbesNumbers, FS_Subset
      <4> QED BY <3>2, <4>1, <4>2, MoreOwed
    <3> QED BY <3>4, <3>5, <3>6, <3>7 DEF LagAgreesWithContract, state
  <2> QED BY <2>1, <2>2 DEF ProbesAreTrue
<1> QED BY <1>1, ProbesInvariant, PTL

-----------------------------------------------------------------------------
(* The records: what a scan has still to find is on the pages it has still *)
(* to read, and the mirror has one row per charge it was told of.          *)

Event == Mandates \cup {"other"}
Settlement == [mandate : Mandates, seq : Nat, by : {"keeper", "biller", "backend"},
               at : 1..MaxMonth]
Line == [mandate : Mandates, seq : Int, at : 1..MaxMonth, of : Nat]

RecordsTypes ==
    /\ objects \in [Mandates -> {"none", "live", "closed"}]
    /\ history \in Seq(Event) /\ idx \subseteq Mandates
    /\ ingest \in [{"web", "scan"} -> Mandates \cup {NoMandate}]
    /\ scan \in [at : {"idle", "page", "known", "ingest", "answered"}, cursor : Int, pages : Nat,
                 ids : SUBSET Mandates, must : SUBSET Mandates, skipped : SUBSET Mandates,
                 answer : SUBSET Mandates]
    /\ settled \in Seq(Settlement) /\ told \subseteq DOMAIN settled
    /\ charges \in Seq(Line) /\ month \in 1..MaxMonth

\* Every mandate has its event.
EventsAreKept ==
    \A m \in Mandates : objects[m] # "none" => \E i \in DOMAIN history : history[i] = m

\* The pages left reach every event the scan must find and has not found.
Reach == PageLimit * (MaxPages - scan.pages)
ToBeFound(m) == \E i \in DOMAIN history : i < scan.cursor /\ history[i] = m /\ i + Reach >= scan.cursor
ScanInv ==
    /\ scan.at = "page" =>
        /\ scan.pages < MaxPages
        /\ scan.cursor = Null => scan.pages = 0
        /\ scan.cursor # Null =>
            /\ scan.cursor - 1 \in {0} \cup DOMAIN history
            /\ \A m \in scan.must : m \in scan.ids \/ ToBeFound(m)
    /\ scan.at = "known" => scan.must \subseteq scan.ids
    /\ scan.at = "ingest" => scan.must \subseteq scan.ids \cup scan.skipped \cup idx
    /\ scan.at = "answered" => scan.must \subseteq scan.skipped \cup scan.answer

\* Charges are numbered, and a charge that was told of has one row.
Numbered ==
    /\ \A m \in Mandates : \A i \in DOMAIN settled :
          settled[i].mandate = m => settled[i].seq <= SettledSeq(m)
    /\ \A i, j \in DOMAIN settled :
          settled[i].mandate = settled[j].mandate /\ settled[i].seq = settled[j].seq => i = j
RowIsOf(r, i) ==
    /\ r.of = i /\ r.mandate = settled[i].mandate
    /\ r.seq = IF settled[i].by = "backend" THEN Null ELSE settled[i].seq
MirroredOnce ==
    /\ \A r \in DOMAIN charges : \E i \in told : RowIsOf(charges[r], i)
    /\ \A r, s \in DOMAIN charges : charges[r].of = charges[s].of => r = s
    /\ \A i \in told : \E r \in DOMAIN charges : charges[r].of = i

RecordsInv == RecordsTypes /\ EventsAreKept /\ ScanInv /\ Numbered /\ MirroredOnce

LEMMA RecordsNumbers ==
    /\ PageLimit \in Nat /\ PageLimit > 0 /\ MaxPages \in Nat /\ MaxPages > 0
    /\ MaxMonth \in Nat /\ MaxMonth > 0 /\ "other" \notin Mandates
BY RecordsAssumption DEF RecordsAssumption

Scans == [at : {"idle", "page", "known", "ingest", "answered"}, cursor : Int, pages : Nat,
          ids : SUBSET Mandates, must : SUBSET Mandates, skipped : SUBSET Mandates,
          answer : SUBSET Mandates]

LEMMA HistoryIsASequence ==
    ASSUME RecordsTypes
    PROVE  history \in Seq(Event) /\ Len(history) \in Nat /\ DOMAIN history = 1..Len(history)
           /\ \A i \in DOMAIN history : history[i] \in Event
<1>1. history \in Seq(Event)
  BY Zenon DEF RecordsTypes
<1> QED BY <1>1

\* An event is kept when another one follows.
LEMMA EventAdded ==
    ASSUME RecordsTypes, NEW e \in Event, Emit(e)
    PROVE  /\ history' \in Seq(Event)
           /\ \A i \in DOMAIN history : i \in DOMAIN history' /\ history'[i] = history[i]
           /\ \E i \in DOMAIN history' : history'[i] = e
<1> PICK n : n = Len(history) + 1
  OBVIOUS
<1>1. history' = Append(history, e) /\ history \in Seq(Event)
  BY HistoryIsASequence DEF Emit
<1>2. n \in DOMAIN history' /\ history'[n] = e
  BY <1>1
<1> QED BY <1>1, <1>2

\* The chain moves under a scan.
LEMMA ChainKeepsTheScan ==
    ASSUME RecordsTypes, ScanInv,
           \A i \in DOMAIN history : i \in DOMAIN history' /\ history'[i] = history[i],
           scan' = scan, idx' = idx
    PROVE  ScanInv'
<1>1. \A m : ToBeFound(m) => ToBeFound(m)'
  BY DEF ToBeFound, Reach
<1>2. (scan.at = "page" /\ scan.cursor # Null) =>
          /\ scan.cursor - 1 \in {0} \cup DOMAIN history'
          /\ \A m \in scan.must : m \in scan.ids \/ ToBeFound(m)'
  BY <1>1 DEF ScanInv
<1> QED BY <1>2 DEF ScanInv

LEMMA AuthorizeStep ==
    ASSUME RecordsInv, NEW m \in Mandates, Authorize(m)
    PROVE  RecordsInv'
<1>0. RecordsTypes /\ EventsAreKept /\ ScanInv /\ Numbered /\ MirroredOnce
  BY DEF RecordsInv
<1>1. /\ Emit(m) /\ objects' = [objects EXCEPT ![m] = "live"]
      /\ UNCHANGED <<settled, idx, ingest, scan, told, charges, month>>
  BY DEF Authorize, OffChain, mirror
<1>2. m \in Event
  BY DEF Event
<1>3. /\ history' \in Seq(Event)
      /\ \A i \in DOMAIN history : i \in DOMAIN history' /\ history'[i] = history[i]
      /\ \E i \in DOMAIN history' : history'[i] = m
  BY <1>0, <1>1, <1>2, EventAdded
<1>4. RecordsTypes'
  BY <1>0, <1>1, <1>3 DEF RecordsTypes
<1>5. EventsAreKept'
  <2> SUFFICES ASSUME NEW k \in Mandates, objects'[k] # "none"
               PROVE  \E i \in DOMAIN history' : history'[i] = k
    BY DEF EventsAreKept
  <2>1. CASE k = m
    BY <1>3, <2>1
  <2>2. CASE k # m
    <3>1. objects[k] # "none"
      BY <1>0, <1>1, <2>2 DEF RecordsTypes
    <3> QED BY <1>0, <1>3, <3>1 DEF EventsAreKept
  <2> QED BY <2>1, <2>2
<1>6. ScanInv'
  BY <1>0, <1>1, <1>3, ChainKeepsTheScan
<1>7. Numbered' /\ MirroredOnce'
  BY <1>0, <1>1 DEF Numbered, MirroredOnce, RowIsOf, SettledSeq
<1> QED BY <1>4, <1>5, <1>6, <1>7 DEF RecordsInv

LEMMA OtherSteps ==
    ASSUME RecordsInv, (\E m \in Mandates : CloseMandate(m)) \/ OtherEvent
    PROVE  RecordsInv'
<1>0. RecordsTypes /\ EventsAreKept /\ ScanInv /\ Numbered /\ MirroredOnce
  BY DEF RecordsInv
<1>1. Emit("other") /\ UNCHANGED <<settled, idx, ingest, scan, told, charges, month>>
  BY DEF CloseMandate, OtherEvent, OffChain, mirror
<1>2. "other" \in Event
  BY DEF Event
<1>3. /\ history' \in Seq(Event)
      /\ \A i \in DOMAIN history : i \in DOMAIN history' /\ history'[i] = history[i]
  BY <1>0, <1>1, <1>2, EventAdded
<1>4. objects' \in [Mandates -> {"none", "live", "closed"}]
      /\ \A k \in Mandates : objects'[k] # "none" => objects[k] # "none"
  <2>1. ASSUME NEW m \in Mandates, CloseMandate(m)
        PROVE  objects' \in [Mandates -> {"none", "live", "closed"}]
               /\ \A k \in Mandates : objects'[k] # "none" => objects[k] # "none"
    BY <1>0, <2>1 DEF CloseMandate, RecordsTypes
  <2>2. CASE OtherEvent
    BY <1>0, <2>2 DEF OtherEvent, RecordsTypes
  <2> QED BY <2>1, <2>2
<1>5. RecordsTypes'
  BY <1>0, <1>1, <1>3, <1>4 DEF RecordsTypes
<1>6. EventsAreKept'
  <2> SUFFICES ASSUME NEW k \in Mandates, objects'[k] # "none"
               PROVE  \E i \in DOMAIN history' : history'[i] = k
    BY DEF EventsAreKept
  <2>1. \E i \in DOMAIN history : history[i] = k
    BY <1>0, <1>4 DEF EventsAreKept
  <2> QED BY <1>3, <2>1
<1>7. ScanInv'
  BY <1>0, <1>1, <1>3, ChainKeepsTheScan
<1>8. Numbered' /\ MirroredOnce'
  BY <1>0, <1>1 DEF Numbered, MirroredOnce, RowIsOf, SettledSeq
<1> QED BY <1>5, <1>6, <1>7, <1>8 DEF RecordsInv

\* The charges of a mandate, which one more makes one more.
SettledOf(m) == {i \in DOMAIN settled : settled[i].mandate = m}

LEMMA SettledIsASequence ==
    ASSUME RecordsTypes
    PROVE  /\ settled \in Seq(Settlement) /\ Len(settled) \in Nat
           /\ DOMAIN settled = 1..Len(settled)
           /\ \A i \in DOMAIN settled : settled[i].mandate \in Mandates /\ settled[i].seq \in Nat
           /\ \A m : /\ IsFiniteSet(SettledOf(m)) /\ SettledSeq(m) = Cardinality(SettledOf(m))
                     /\ SettledSeq(m) \in Nat
<1>1. settled \in Seq(Settlement)
  BY Zenon DEF RecordsTypes
<1>2. Len(settled) \in Nat /\ DOMAIN settled = 1..Len(settled)
      /\ \A i \in DOMAIN settled : settled[i] \in Settlement
  BY <1>1
<1>3. IsFiniteSet(DOMAIN settled)
  BY <1>2, FS_Interval
<1>4. ASSUME NEW m
      PROVE  /\ IsFiniteSet(SettledOf(m)) /\ SettledSeq(m) = Cardinality(SettledOf(m))
             /\ SettledSeq(m) \in Nat
  <2>1. SettledOf(m) \in SUBSET DOMAIN settled
    BY DEF SettledOf
  <2>2. IsFiniteSet(SettledOf(m))
    BY <1>3, <2>1, FS_Subset
  <2>3. SettledSeq(m) = Cardinality(SettledOf(m))
    BY DEF SettledSeq, SettledOf
  <2> QED BY <2>2, <2>3, FS_CardinalityType
<1> QED BY <1>1, <1>2, <1>4 DEF Settlement

LEMMA SettleStep ==
    ASSUME RecordsInv, NEW m \in Mandates, SettleCharge(m)
    PROVE  RecordsInv'
<1>0. RecordsTypes /\ EventsAreKept /\ ScanInv /\ Numbered /\ MirroredOnce
  BY DEF RecordsInv
<1>a. PICK by \in {"keeper", "biller", "backend"} :
        settled' = Append(settled, [mandate |-> m, seq |-> SettledSeq(m) + 1, by |-> by, at |-> month])
  BY DEF SettleCharge
<1> PICK n, k, c : /\ n = Len(settled) + 1 /\ k = SettledSeq(m) + 1
                   /\ c = [mandate |-> m, seq |-> k, by |-> by, at |-> month]
  OBVIOUS
<1>1. settled' = Append(settled, c) /\ UNCHANGED <<objects, history, idx, ingest, scan, told, charges, month>>
  BY <1>a DEF SettleCharge, OffChain, mirror
<1>2. k \in Nat /\ k = Cardinality(SettledOf(m)) + 1 /\ IsFiniteSet(SettledOf(m))
  BY <1>0, SettledIsASequence
<1>3. c \in Settlement /\ c.mandate = m /\ c.seq = k
  <2>1. month \in 1..MaxMonth
    BY Zenon, <1>0 DEF RecordsTypes
  <2> QED BY <1>2, <2>1 DEF Settlement
<1>4. /\ settled' \in Seq(Settlement) /\ n \notin DOMAIN settled
      /\ DOMAIN settled' = DOMAIN settled \cup {n} /\ settled'[n] = c
      /\ \A i \in DOMAIN settled : settled'[i] = settled[i]
  BY <1>0, <1>1, <1>3, SettledIsASequence
<1>5. RecordsTypes'
  BY <1>0, <1>1, <1>4 DEF RecordsTypes
<1>6. EventsAreKept' /\ ScanInv'
  BY <1>0, <1>1 DEF EventsAreKept, ScanInv, ToBeFound, Reach
<1>7. ASSUME NEW x
      PROVE  SettledSeq(x)' = IF x = m THEN k ELSE SettledSeq(x)
  <2>1. SettledSeq(x)' = Cardinality(SettledOf(x)')
    BY DEF SettledSeq, SettledOf
  <2>2. CASE x = m
    <3>1. SettledOf(x)' = SettledOf(m) \cup {n} /\ n \notin SettledOf(m)
      BY <1>3, <1>4, <2>2 DEF SettledOf
    <3>2. Cardinality(SettledOf(m) \cup {n}) = Cardinality(SettledOf(m)) + 1
      BY <1>2, <3>1, FS_AddElement
    <3> QED BY <1>2, <2>1, <2>2, <3>1, <3>2
  <2>3. CASE x # m
    <3>1. SettledOf(x)' = SettledOf(x)
      BY <1>3, <1>4, <2>3 DEF SettledOf
    <3>2. SettledSeq(x) = Cardinality(SettledOf(x))
      BY DEF SettledSeq, SettledOf
    <3> QED BY <2>1, <2>3, <3>1, <3>2
  <2> QED BY <2>2, <2>3
<1>8. ASSUME NEW x \in Mandates, NEW i \in DOMAIN settled', settled'[i].mandate = x
      PROVE  settled'[i].seq <= SettledSeq(x)'
  <2>1. CASE i = n
    <3>1. SettledSeq(x)' = k /\ settled'[i].seq = k
      BY <1>3, <1>4, <1>7, <1>8, <2>1
    <3> QED BY <1>2, <3>1
  <2>2. CASE i # n
    <3> PICK q, y : q = settled[i].seq /\ y = SettledSeq(x)
      OBVIOUS
    <3>1. i \in DOMAIN settled /\ settled'[i] = settled[i]
      BY <1>4, <2>2
    <3>2. q \in Nat /\ y \in Nat /\ q <= y
      BY <1>0, <1>8, <3>1, SettledIsASequence DEF Numbered
    <3>3. SettledSeq(x)' \in {y, y + 1}
      BY <1>7
    <3>4. q <= SettledSeq(x)'
      BY <3>2, <3>3
    <3> QED BY <3>1, <3>4
  <2> QED BY <2>1, <2>2
<1>9. \A i \in DOMAIN settled : settled[i].mandate = m => settled[i].seq < k
  <2> SUFFICES ASSUME NEW i \in DOMAIN settled, settled[i].mandate = m PROVE settled[i].seq < k
    OBVIOUS
  <2>1. settled[i].seq <= SettledSeq(m) /\ settled[i].seq \in Nat /\ SettledSeq(m) \in Nat
    BY <1>0, SettledIsASequence DEF Numbered
  <2> QED BY <2>1
<1>10. Numbered'
  <2>1. ASSUME NEW i \in DOMAIN settled', NEW j \in DOMAIN settled',
               settled'[i].mandate = settled'[j].mandate, settled'[i].seq = settled'[j].seq
        PROVE  i = j
    <3>1. \A q \in DOMAIN settled : settled'[q].mandate = m => settled'[q].seq < k
      BY <1>4, <1>9
    <3>2. settled'[n].mandate = m /\ settled'[n].seq = k
      BY <1>3, <1>4
    <3>3. CASE i = n \/ j = n
      BY <1>2, <1>4, <2>1, <3>1, <3>2, <3>3
    <3>4. CASE i # n /\ j # n
      BY <1>0, <1>4, <2>1, <3>4 DEF Numbered
    <3> QED BY <3>3, <3>4
  <2> QED BY <1>8, <2>1 DEF Numbered
<1>11. MirroredOnce'
  <2>1. \A i \in told : i \in DOMAIN settled /\ settled'[i] = settled[i]
    BY <1>0, <1>4 DEF RecordsTypes
  <2> QED BY <1>0, <1>1, <2>1 DEF MirroredOnce, RowIsOf
<1> QED BY <1>5, <1>6, <1>10, <1>11 DEF RecordsInv

LEMMA ScanTypes ==
    ASSUME RecordsTypes
    PROVE  /\ scan \in Scans /\ scan.cursor \in Int /\ scan.pages \in Nat
           /\ scan.ids \subseteq Mandates /\ scan.must \subseteq Mandates
           /\ scan.skipped \subseteq Mandates /\ scan.answer \subseteq Mandates
<1>1. scan \in Scans
  BY Zenon DEF RecordsTypes, Scans
<1> QED BY <1>1 DEF Scans

\* Where a page begins and ends.
LEMMA Pages ==
    ASSUME RecordsTypes, ScanInv, scan.at = "page"
    PROVE  /\ PageEnd \in Nat /\ PageEnd <= Len(history)
           /\ PageStart \in Nat /\ PageStart >= 1
           /\ PageStart = IF PageEnd - PageLimit + 1 >= 1 THEN PageEnd - PageLimit + 1 ELSE 1
           /\ PageEnd = IF scan.cursor = Null THEN Len(history) ELSE scan.cursor - 1
<1> PICK c, n, e, l, b : /\ c = scan.cursor /\ n = Len(history) /\ e = PageEnd /\ l = PageLimit
                         /\ b = PageStart
  OBVIOUS
<1>1. c \in Int /\ n \in Nat /\ l \in Nat /\ l > 0
  BY ScanTypes, HistoryIsASequence, RecordsNumbers
<1>2. c # Null => c - 1 \in 0..n
  <2>1. c # Null => c - 1 \in {0} \cup DOMAIN history
    BY DEF ScanInv
  <2>2. DOMAIN history = 1..n
    BY HistoryIsASequence
  <2> QED BY <1>1, <2>1, <2>2
<1>3. e = IF c = Null THEN n ELSE c - 1
  BY DEF PageEnd
<1>4. e \in Nat /\ e <= n
  BY <1>1, <1>2, <1>3
<1> PICK x : x = e - l + 1
  OBVIOUS
<1>5. x \in Int
  BY <1>1, <1>4
<1>6. \E y \in {1, x} : \A z \in {1, x} : y >= z
  BY <1>5
<1>7. b = Max({1, x})
  BY DEF PageStart
<1>8. b \in {1, x} /\ \A z \in {1, x} : b >= z
  BY <1>6, <1>7 DEF Max
<1>9. b = (IF x >= 1 THEN x ELSE 1) /\ b \in Nat /\ b >= 1
  BY <1>5, <1>8
<1> QED BY <1>1, <1>3, <1>4, <1>9

\* One page fewer reaches one page less far.
LEMMA OnePageFewer ==
    ASSUME NEW l \in Nat, NEW k \in Nat, k > 0
    PROVE  l * (k - 1) = l * k - l /\ l * (k - 1) \in Nat /\ l * k \in Nat /\ l * 0 = 0
OBVIOUS

\* What a page adds, and what it leaves to the next ones.
LEMMA ScanPageStep ==
    ASSUME RecordsInv, ScanPage
    PROVE  RecordsInv'
<1>0. RecordsTypes /\ EventsAreKept /\ ScanInv /\ Numbered /\ MirroredOnce
  BY DEF RecordsInv
<1>a. PICK c, n, e, b, p, l, i0, u : /\ c = scan.cursor /\ n = Len(history) /\ e = PageEnd
                         /\ b = PageStart /\ p = scan.pages /\ l = PageLimit
                         /\ i0 = scan.ids \cup AuthorizedOn(b, e) /\ u = Must
  OBVIOUS
<1>b. PICK a, q : a = (IF MorePages THEN "page" ELSE "known") /\ q = p + 1
  OBVIOUS
<1>1. /\ scan.at = "page" /\ UNCHANGED <<objects, history, idx, ingest, settled, told, charges, month>>
      /\ scan' = [scan EXCEPT !.ids = i0, !.cursor = b, !.pages = q, !.must = u, !.at = a]
  <2>1. scan.at = "page" /\ UNCHANGED <<objects, history, idx, ingest, settled, mirror, month>>
        /\ scan' = [scan EXCEPT !.ids = i0, !.cursor = b, !.pages = q, !.must = u, !.at = a]
    BY <1>a, <1>b DEF ScanPage
  <2> QED BY <2>1 DEF mirror
<1>2. /\ e \in Nat /\ e <= n /\ b \in Nat /\ b >= 1 /\ n \in Nat /\ p \in Nat /\ l \in Nat /\ l > 0
      /\ c \in Int /\ b = (IF e - l + 1 >= 1 THEN e - l + 1 ELSE 1)
      /\ e = (IF c = Null THEN n ELSE c - 1)
  BY <1>0, <1>1, <1>a, Pages, ScanTypes, HistoryIsASequence, RecordsNumbers
<1>3. p < MaxPages /\ (c = Null => p = 0) /\ q \in Nat
  <2>1. p < MaxPages /\ (c = Null => p = 0)
    BY <1>0, <1>1, <1>a DEF ScanInv
  <2> QED BY <1>2, <1>b, <2>1
<1>c. PICK k, g : k = MaxPages - p /\ g = l * k
  OBVIOUS
<1>4a. k \in Nat /\ k > 0
  <2>1. p \in Nat /\ p < MaxPages /\ k = MaxPages - p
    BY <1>2, <1>3, <1>c
  <2> QED BY <2>1, RecordsNumbers
<1>4b. l * (k - 1) = g - l /\ (k = 1 => g = l)
  BY <1>2, <1>4a, <1>c, OnePageFewer
<1>4. g \in Nat
  BY <1>2, <1>4a, <1>c, OnePageFewer
<1>5. u \subseteq Mandates
  BY <1>0, <1>a, ScanTypes DEF Must, Live
<1>6. AuthorizedOn(b, e) \subseteq Mandates
  <2> SUFFICES ASSUME NEW x \in AuthorizedOn(b, e) PROVE x \in Mandates
    OBVIOUS
  <2>1. PICK i \in b..e : x = history[i]
    BY DEF AuthorizedOn
  <2>2. i \in DOMAIN history
    BY <1>0, <1>2, <1>a, <2>1, HistoryIsASequence
  <2>3. x \in Event
    BY <1>0, <2>1, <2>2, HistoryIsASequence
  <2> QED BY <2>3 DEF AuthorizedOn, Event
\* Every mandate to be found is among the events of the pages left.
<1>7. ASSUME NEW m \in u
      PROVE  m \in scan.ids \/ \E i \in DOMAIN history : i <= e /\ history[i] = m /\ i + g > e
  <2>1. CASE c = Null
    <3>1. m \in Mandates /\ objects[m] = "live" /\ m \notin {history[i] : i \in Deep}
      BY <1>a, <2>1 DEF Must, Live
    <3>2. PICK i \in DOMAIN history : history[i] = m
      BY <1>0, <3>1 DEF EventsAreKept
    <3>3. i \notin Deep
      BY <3>1, <3>2
    <3>4. ~(i + l * MaxPages <= n)
      BY <1>a, <3>3 DEF Deep
    <3>5. l * MaxPages = g
      <4>1. k = MaxPages
        <5>1. p = 0 /\ k = MaxPages - p
          BY <1>3, <1>c, <2>1
        <5> QED BY <5>1, RecordsNumbers
      <4> QED BY <1>c, <4>1
    <3>6. i \in 1..n
      BY <1>0, <1>a, HistoryIsASequence
    <3>7. i <= e /\ i + g > e
      <4>1. e = n /\ n \in Nat /\ i \in Nat /\ i <= n /\ ~(i + g <= n)
        BY <1>2, <2>1, <3>4, <3>5, <3>6
      <4> QED BY <1>4, <4>1
    <3> QED BY <3>2, <3>7
  <2>2. CASE c # Null
    <3>1. u = scan.must
      BY <1>a, <2>2 DEF Must
    <3>2. m \in scan.ids \/ ToBeFound(m)
      BY <1>0, <1>1, <1>a, <2>2, <3>1 DEF ScanInv
    <3>3. ASSUME ToBeFound(m)
          PROVE  \E i \in DOMAIN history : i <= e /\ history[i] = m /\ i + g > e
      <4>1. PICK i \in DOMAIN history : i < c /\ history[i] = m /\ i + g >= c
        BY <1>a, <1>c, <3>3 DEF ToBeFound, Reach
      <4>2. i \in 1..n
        BY <1>0, <1>a, HistoryIsASequence
      <4>3. i <= e /\ i + g > e
        <5>1. e = c - 1 /\ c \in Int /\ i \in Nat /\ i < c /\ i + g >= c
          BY <1>2, <2>2, <4>1, <4>2
        <5> QED BY <1>4, <5>1
      <4> QED BY <4>1, <4>3
    <3> QED BY <3>2, <3>3
  <2> QED BY <2>1, <2>2
\* It is on this page, or on one of the next.
<1>8. ASSUME NEW m \in u, m \notin i0
      PROVE  \E i \in DOMAIN history : i < b /\ history[i] = m /\ i + (g - l) >= b
  <2>1. PICK i \in DOMAIN history : i <= e /\ history[i] = m /\ i + g > e
    BY <1>7, <1>8, <1>a
  <2>2. i \in 1..n
    BY <1>0, <1>a, HistoryIsASequence
  <2>3. m # "other"
    BY <1>5, RecordsNumbers
  <2>4. i \notin b..e
    BY <1>8, <1>a, <2>1, <2>3 DEF AuthorizedOn
  <2>5. i < b
    BY <1>2, <2>1, <2>2, <2>4
  <2>6. i + (g - l) >= b
    <3>1. b = e - l + 1
      BY <1>2, <2>2, <2>5
    <3>2. e \in Nat /\ l \in Nat /\ i \in Nat /\ i + g > e
      BY <1>2, <2>1, <2>2
    <3> QED BY <1>4, <3>1, <3>2
  <2> QED BY <2>1, <2>5, <2>6
<1>9. a = "page" => k > 1 /\ b > 1
  <2> SUFFICES ASSUME a = "page" PROVE k > 1 /\ b > 1
    OBVIOUS
  <2>1. b > 1 /\ p + 1 < MaxPages
    BY <1>a, <1>b DEF MorePages, hasNextPage
  <2>2. k = MaxPages - p /\ p \in Nat
    BY <1>2, <1>c
  <2> QED BY <2>1, <2>2, RecordsNumbers
<1>10. a = "known" => k = 1 \/ b = 1
  <2> SUFFICES ASSUME a = "known" PROVE k = 1 \/ b = 1
    OBVIOUS
  <2>1. ~(b > 1) \/ ~(p + 1 < MaxPages)
    BY <1>a, <1>b DEF MorePages, hasNextPage
  <2>2. k = MaxPages - p /\ p \in Nat /\ p < MaxPages /\ b \in Nat /\ b >= 1
    BY <1>2, <1>3, <1>c
  <2> QED BY <2>1, <2>2, RecordsNumbers
<1>11. a \in {"page", "known"}
  BY <1>b
<1>12. i0 \subseteq Mandates
  BY <1>0, <1>6, <1>a, ScanTypes
<1>13. /\ scan' \in Scans /\ scan'.at = a /\ scan'.cursor = b /\ scan'.pages = q /\ scan'.ids = i0
       /\ scan'.must = u
  <2>1. scan \in Scans
    BY <1>0, ScanTypes
  <2>2. a \in {"idle", "page", "known", "ingest", "answered"} /\ b \in Int
    BY <1>2, <1>11
  <2> QED BY <1>1, <1>3, <1>5, <1>12, <2>1, <2>2 DEF Scans
<1>14. RecordsTypes'
  BY <1>0, <1>1, <1>13 DEF RecordsTypes, Scans
<1>15. ScanInv'
  <2>1. CASE a = "page"
    <3>1. q < MaxPages
      <4>1. k > 1 /\ k = MaxPages - p /\ q = p + 1 /\ p \in Nat
        BY <1>2, <1>9, <1>b, <1>c, <2>1
      <4> QED BY <4>1, RecordsNumbers
    <3>2. b # Null
      BY <1>2 DEF Null
    <3>3. b - 1 \in {0} \cup DOMAIN history
      <4>1. b - 1 \in 0..n
        <5>1. b \in Nat /\ b >= 1 /\ b <= e + 1 /\ e <= n /\ n \in Nat /\ e \in Nat
          BY <1>2
        <5> QED BY <5>1
      <4>2. DOMAIN history = 1..n
        BY <1>0, <1>a, HistoryIsASequence
      <4>3. \A x \in 0..n : x = 0 \/ x \in 1..n
        BY <1>2
      <4> QED BY <4>1, <4>2, <4>3
    <3>4. ASSUME NEW m \in u, m \notin i0 PROVE ToBeFound(m)'
      <4>1. Reach' = g - l
        <5>1. Reach' = l * (MaxPages - q)
          BY <1>13, <1>a DEF Reach
        <5>2. MaxPages - q = k - 1
          BY <1>2, <1>b, <1>c, RecordsNumbers
        <5> QED BY <1>4b, <5>1, <5>2
      <4>2. PICK i \in DOMAIN history : i < b /\ history[i] = m /\ i + (g - l) >= b
        BY <1>8, <3>4
      <4> QED BY <1>1, <1>13, <4>1, <4>2 DEF ToBeFound
    <3> QED BY <1>1, <1>13, <2>1, <3>1, <3>2, <3>3, <3>4 DEF ScanInv
  <2>2. CASE a = "known"
    <3>1. ASSUME NEW m \in u, m \notin i0 PROVE FALSE
      <4>1. PICK i \in DOMAIN history : i < b /\ history[i] = m /\ i + (g - l) >= b
        BY <1>8, <3>1
      <4>2. i \in 1..n
        BY <1>0, <1>a, HistoryIsASequence
      <4>3. CASE b = 1
        BY <4>1, <4>2, <4>3
      <4>4. CASE k = 1
        <5>1. g = l
          BY <1>4b, <4>4
        <5>2. g - l = 0
          BY <1>2, <5>1
        <5>3. i < b /\ i + 0 >= b /\ i \in Nat /\ b \in Nat
          BY <1>2, <4>1, <4>2, <5>2
        <5> QED BY <5>3
      <4> QED BY <1>10, <2>2, <4>3, <4>4
    <3> QED BY <1>13, <2>2, <3>1 DEF ScanInv
  <2> QED BY <1>11, <2>1, <2>2
<1>16. EventsAreKept' /\ Numbered' /\ MirroredOnce'
  BY <1>0, <1>1 DEF EventsAreKept, Numbered, MirroredOnce, RowIsOf, SettledSeq
<1> QED BY <1>14, <1>15, <1>16 DEF RecordsInv

\* The index and the ingests.
LEMMA IndexSteps ==
    ASSUME RecordsInv, WebIngest
    PROVE  RecordsInv'
<1>0. RecordsTypes /\ EventsAreKept /\ ScanInv /\ Numbered /\ MirroredOnce
  BY DEF RecordsInv
<1>1. UNCHANGED <<objects, history, scan, settled, told, charges, month>>
  BY DEF WebIngest, mirror
<1>2. idx \subseteq idx' /\ idx' \subseteq Mandates
      /\ ingest' \in [{"web", "scan"} -> Mandates \cup {NoMandate}]
  <2>1. idx \subseteq Mandates /\ ingest \in [{"web", "scan"} -> Mandates \cup {NoMandate}]
    BY Zenon, <1>0 DEF RecordsTypes
  <2>2. CASE ingest["web"] = NoMandate
    BY <2>1, <2>2 DEF WebIngest, IngestRead
  <2>3. CASE ingest["web"] # NoMandate
    BY <2>1, <2>3 DEF WebIngest, ingestMandate
  <2> QED BY <2>2, <2>3
<1>3. RecordsTypes'
  BY <1>0, <1>1, <1>2 DEF RecordsTypes
<1>4. ScanInv'
  BY <1>0, <1>1, <1>2 DEF ScanInv, ToBeFound, Reach
<1>5. EventsAreKept' /\ Numbered' /\ MirroredOnce'
  BY <1>0, <1>1 DEF EventsAreKept, Numbered, MirroredOnce, RowIsOf, SettledSeq
<1> QED BY <1>3, <1>4, <1>5 DEF RecordsInv

LEMMA MonthStep ==
    ASSUME RecordsInv, NextMonth
    PROVE  RecordsInv'
<1>0. RecordsTypes /\ EventsAreKept /\ ScanInv /\ Numbered /\ MirroredOnce
  BY DEF RecordsInv
<1>1. month' \in 1..MaxMonth /\ UNCHANGED <<objects, history, idx, ingest, scan, settled, told, charges>>
  <2>1. month \in 1..MaxMonth
    BY Zenon, <1>0 DEF RecordsTypes
  <2> QED BY <2>1, RecordsNumbers DEF NextMonth, mirror
<1>2. RecordsTypes'
  BY <1>0, <1>1 DEF RecordsTypes
<1>3. EventsAreKept' /\ ScanInv' /\ Numbered' /\ MirroredOnce'
  BY <1>0, <1>1 DEF EventsAreKept, ScanInv, ToBeFound, Reach, Numbered, MirroredOnce, RowIsOf, SettledSeq
<1> QED BY <1>2, <1>3 DEF RecordsInv

\* The scan, but for its pages.
LEMMA ScanSteps ==
    ASSUME RecordsInv, StartScan \/ ScanFails \/ NextScan \/ KnownIds \/ discoverMandatesBySubscriber
    PROVE  RecordsInv'
<1>0. RecordsTypes /\ EventsAreKept /\ ScanInv /\ Numbered /\ MirroredOnce
  BY DEF RecordsInv
<1>1. UNCHANGED <<objects, history, idx, ingest, settled, told, charges, month>>
  BY DEF StartScan, ScanFails, NextScan, KnownIds, discoverMandatesBySubscriber, mirror
<1>2. scan \in Scans /\ idx \subseteq Mandates
  BY Zenon, <1>0, ScanTypes DEF RecordsTypes
<1> PICK z : z = 0
  OBVIOUS
<1>3. NotScanning = [at |-> "idle", cursor |-> Null, pages |-> z, ids |-> {},
                     must |-> {}, skipped |-> {}, answer |-> {}] /\ z \in Nat /\ Null \in Int
  BY DEF NotScanning, Null
<1>4. NotScanning \in Scans
  BY <1>3 DEF Scans
<1>5. ASSUME ScanFails \/ NextScan PROVE scan' \in Scans /\ ScanInv'
  <2>1. scan' \in Scans /\ scan'.at = "idle"
    BY <1>3, <1>4, <1>5 DEF ScanFails, NextScan
  <2> QED BY <2>1 DEF ScanInv
<1>6. ASSUME StartScan PROVE scan' \in Scans /\ ScanInv'
  <2>1. scan' = [NotScanning EXCEPT !.at = "page"]
    BY <1>6 DEF StartScan
  <2>2. scan' \in Scans /\ scan'.at = "page" /\ scan'.cursor = Null /\ scan'.pages = 0
    BY <1>3, <1>4, <2>1 DEF Scans
  <2>3. 0 < MaxPages
    BY RecordsNumbers
  <2>4. ScanInv'
    BY <2>2, <2>3 DEF ScanInv
  <2> QED BY <2>2, <2>4
<1>7. ASSUME KnownIds PROVE scan' \in Scans /\ ScanInv'
  <2>1. scan.at = "known" /\ scan' = [scan EXCEPT !.at = "ingest", !.ids = scan.ids \ idx]
    BY <1>7 DEF KnownIds, mandatesBySubscriber
  <2>2. /\ scan' \in Scans /\ scan'.at = "ingest" /\ scan'.ids = scan.ids \ idx
        /\ scan'.must = scan.must
    BY <1>2, <2>1 DEF Scans
  <2>3. scan.must \subseteq scan.ids
    BY <1>0, <2>1 DEF ScanInv
  <2>4. ScanInv'
    BY <1>1, <2>2, <2>3 DEF ScanInv
  <2> QED BY <2>2, <2>4
<1>8. ASSUME discoverMandatesBySubscriber PROVE scan' \in Scans /\ ScanInv'
  <2>1. scan.at = "ingest" /\ scan.ids = {}
        /\ scan' = [scan EXCEPT !.at = "answered", !.answer = idx]
    BY <1>8 DEF discoverMandatesBySubscriber, mandatesBySubscriber
  <2>2. /\ scan' \in Scans /\ scan'.at = "answered" /\ scan'.answer = idx
        /\ scan'.must = scan.must /\ scan'.skipped = scan.skipped
    BY <1>2, <2>1 DEF Scans
  <2>3. scan.must \subseteq scan.ids \cup scan.skipped \cup idx
    BY <1>0, <2>1 DEF ScanInv
  <2>4. ScanInv'
    BY <2>1, <2>2, <2>3 DEF ScanInv
  <2> QED BY <2>2, <2>4
<1>9. scan' \in Scans /\ ScanInv'
  BY <1>5, <1>6, <1>7, <1>8
<1>10. RecordsTypes'
  BY <1>0, <1>1, <1>9 DEF RecordsTypes, Scans
<1>11. EventsAreKept' /\ Numbered' /\ MirroredOnce'
  BY <1>0, <1>1 DEF EventsAreKept, Numbered, MirroredOnce, RowIsOf, SettledSeq
<1> QED BY <1>9, <1>10, <1>11 DEF RecordsInv

LEMMA ScanIngestStep ==
    ASSUME RecordsInv, ScanIngest
    PROVE  RecordsInv'
<1>0. RecordsTypes /\ EventsAreKept /\ ScanInv /\ Numbered /\ MirroredOnce
  BY DEF RecordsInv
<1>1. scan.at = "ingest" /\ UNCHANGED <<objects, history, settled, told, charges, month>>
  BY DEF ScanIngest, mirror
<1>2. scan \in Scans /\ idx \subseteq Mandates
      /\ ingest \in [{"web", "scan"} -> Mandates \cup {NoMandate}]
  BY Zenon, <1>0, ScanTypes DEF RecordsTypes
<1>3. scan.must \subseteq scan.ids \cup scan.skipped \cup idx
  BY <1>0, <1>1 DEF ScanInv
<1> DEFINE Ok == /\ scan' \in Scans /\ idx' \subseteq Mandates
                 /\ ingest' \in [{"web", "scan"} -> Mandates \cup {NoMandate}]
                 /\ scan'.at = "ingest" /\ scan'.must = scan.must
                 /\ scan.ids \cup scan.skipped \cup idx \subseteq scan'.ids \cup scan'.skipped \cup idx'
<1>4. ASSUME NEW m \in scan.ids, IngestRead("scan", m), UNCHANGED <<idx, scan>>
      PROVE  Ok
  <2>1. m \in Mandates
    BY <1>2 DEF Scans
  <2>2. ingest' = [ingest EXCEPT !["scan"] = m]
    BY <1>4 DEF IngestRead
  <2>3. ingest' \in [{"web", "scan"} -> Mandates \cup {NoMandate}]
    BY <1>2, <2>1, <2>2
  <2> QED BY <1>1, <1>2, <1>4, <2>3
<1>5. ASSUME NEW m \in scan.ids, UNCHANGED <<idx, ingest>>,
             scan' = [scan EXCEPT !.ids = @ \ {m}, !.skipped = @ \cup {m}]
      PROVE  Ok
  <2> PICK i, k : i = scan.ids \ {m} /\ k = scan.skipped \cup {m}
    OBVIOUS
  <2>1. scan' = [scan EXCEPT !.ids = i, !.skipped = k]
    BY <1>5
  <2>2. i \subseteq Mandates /\ k \subseteq Mandates
    BY <1>2 DEF Scans
  <2>3. /\ scan' \in Scans /\ scan'.ids = i /\ scan'.skipped = k /\ scan'.at = scan.at
        /\ scan'.must = scan.must
    BY <1>2, <2>1, <2>2 DEF Scans
  <2> QED BY <1>1, <1>2, <1>5, <2>3
<1>6. ASSUME ingest["scan"] # NoMandate, ingestMandate("scan"),
             scan' = [scan EXCEPT !.ids = @ \ {ingest["scan"]}]
      PROVE  Ok
  <2> PICK i, m : i = scan.ids \ {m} /\ m = ingest["scan"]
    OBVIOUS
  <2>1. scan' = [scan EXCEPT !.ids = i]
    BY <1>6
  <2>2. i \subseteq Mandates /\ m \in Mandates
    BY <1>2, <1>6 DEF Scans
  <2>3. /\ scan' \in Scans /\ scan'.ids = i /\ scan'.skipped = scan.skipped /\ scan'.at = scan.at
        /\ scan'.must = scan.must
    BY <1>2, <2>1, <2>2 DEF Scans
  <2>4. idx' = idx \cup {m} /\ ingest' \in [{"web", "scan"} -> Mandates \cup {NoMandate}]
    BY <1>2, <1>6 DEF ingestMandate
  <2> QED BY <1>1, <1>2, <2>2, <2>3, <2>4
<1>7. Ok
  BY <1>4, <1>5, <1>6 DEF ScanIngest
<1>8. ScanInv'
  BY <1>3, <1>7 DEF ScanInv
<1>9. RecordsTypes'
  BY <1>0, <1>1, <1>7 DEF RecordsTypes, Scans
<1>10. EventsAreKept' /\ Numbered' /\ MirroredOnce'
  BY <1>0, <1>1 DEF EventsAreKept, Numbered, MirroredOnce, RowIsOf, SettledSeq
<1> QED BY <1>8, <1>9, <1>10 DEF RecordsInv

\* One more row, of a charge that has none.
LEMMA RowIsAdded ==
    ASSUME RecordsInv, NEW i \in DOMAIN settled, Tells(i), Added(i),
           \A r \in DOMAIN charges : charges[r].of # i
    PROVE  RecordsInv'
<1>0. RecordsTypes /\ EventsAreKept /\ ScanInv /\ Numbered /\ MirroredOnce
  BY DEF RecordsInv
<1>1. UNCHANGED <<objects, history, idx, ingest, scan, settled, month>> /\ told' = told \cup {i}
  BY DEF Tells
<1>2. PICK at \in {settled[i].at, month} : charges' = Append(charges, RowOf(i, at))
  BY DEF Added
<1>3. /\ charges \in Seq(Line) /\ month \in 1..MaxMonth /\ told \subseteq DOMAIN settled
      /\ settled \in Seq(Settlement) /\ Len(settled) \in Nat /\ DOMAIN settled = 1..Len(settled)
  <2>1. charges \in Seq(Line) /\ month \in 1..MaxMonth /\ told \subseteq DOMAIN settled
    BY Zenon, <1>0 DEF RecordsTypes
  <2> QED BY <1>0, <2>1, SettledIsASequence
<1>4. settled[i] \in Settlement /\ i \in Nat
  BY <1>3
<1> PICK x, n : x = RowOf(i, at) /\ n = Len(charges) + 1
  OBVIOUS
<1>5. x \in Line /\ RowIsOf(x, i)
  <2>1. Null \in Int
    BY DEF Null
  <2> QED BY <1>3, <1>4, <2>1 DEF RowOf, RowIsOf, Line, Settlement
<1>6. /\ charges' \in Seq(Line) /\ DOMAIN charges' = DOMAIN charges \cup {n} /\ charges'[n] = x
      /\ n \notin DOMAIN charges /\ \A r \in DOMAIN charges : charges'[r] = charges[r]
  BY <1>2, <1>3, <1>5
<1>7. MirroredOnce'
  <2>1. \A r \in DOMAIN charges' : \E j \in told' : RowIsOf(charges'[r], j)
    BY <1>0, <1>1, <1>5, <1>6 DEF MirroredOnce
  <2>2. \A r \in DOMAIN charges : charges'[r].of # i
    BY <1>6
  <2>3. charges'[n].of = i
    BY <1>5, <1>6 DEF RowIsOf
  <2>4. \A r, s \in DOMAIN charges' : charges'[r].of = charges'[s].of => r = s
    BY <1>0, <1>6, <2>2, <2>3 DEF MirroredOnce
  <2>5. \A j \in told' : \E r \in DOMAIN charges' : charges'[r].of = j
    BY <1>0, <1>1, <1>6, <2>3 DEF MirroredOnce
  <2>6. settled' = settled
    BY <1>1
  <2> QED BY <2>1, <2>4, <2>5, <2>6 DEF MirroredOnce, RowIsOf
<1>8. RecordsTypes'
  BY <1>0, <1>1, <1>3, <1>6 DEF RecordsTypes
<1>9. EventsAreKept' /\ ScanInv' /\ Numbered'
  BY <1>0, <1>1 DEF EventsAreKept, ScanInv, ToBeFound, Reach, Numbered, SettledSeq
<1> QED BY <1>7, <1>8, <1>9 DEF RecordsInv

\* The row with a charge's number is that charge's; one of the keeper's has it.
LEMMA RecordStep ==
    ASSUME RecordsInv, NEW i \in DOMAIN settled, recordCharge(i)
    PROVE  RecordsInv'
<1>0. RecordsTypes /\ EventsAreKept /\ ScanInv /\ Numbered /\ MirroredOnce
  BY DEF RecordsInv
<1>1. settled[i].by = "keeper" /\ Tells(i) /\ told \subseteq DOMAIN settled
  BY <1>0 DEF recordCharge, RecordsTypes
<1>2. \A j \in DOMAIN settled : settled[j].seq # Null
  BY <1>0, SettledIsASequence DEF Null
<1>3. CASE ~Mirrored(settled[i])
  <2>1. Added(i)
    BY <1>3 DEF recordCharge
  <2>2. \A r \in DOMAIN charges : charges[r].of # i
    BY <1>0, <1>1, <1>3 DEF MirroredOnce, RowIsOf, Mirrored
  <2> QED BY <1>1, <2>1, <2>2, RowIsAdded
<1>4. CASE Mirrored(settled[i])
  <2>1. /\ UNCHANGED <<objects, history, idx, ingest, scan, settled, charges, month>>
        /\ told' = told \cup {i}
    BY <1>1, <1>4 DEF recordCharge, Tells
  <2>2. PICK r \in DOMAIN charges :
            charges[r].mandate = settled[i].mandate /\ charges[r].seq = settled[i].seq
    BY <1>4 DEF Mirrored
  <2>3. PICK j \in told : RowIsOf(charges[r], j)
    BY <1>0 DEF MirroredOnce
  <2>4. settled[j].mandate = settled[i].mandate /\ settled[j].seq = settled[i].seq
    BY <1>2, <2>2, <2>3 DEF RowIsOf
  <2>5. j = i
    BY <1>0, <1>1, <2>4 DEF Numbered
  <2>6. told' = told
    BY <2>1, <2>5
  <2>7. RecordsTypes'
    BY <1>0, <2>1, <2>6 DEF RecordsTypes
  <2>8. EventsAreKept' /\ ScanInv' /\ Numbered'
    BY <1>0, <2>1 DEF EventsAreKept, ScanInv, ToBeFound, Reach, Numbered, SettledSeq
  <2>9. MirroredOnce'
    BY <1>0, <2>1, <2>6 DEF MirroredOnce, RowIsOf
  <2> QED BY <2>7, <2>8, <2>9 DEF RecordsInv
<1> QED BY <1>3, <1>4

LEMMA JournalStep ==
    ASSUME RecordsInv, NEW i \in DOMAIN settled, appendJournal(i)
    PROVE  RecordsInv'
<1>1. Tells(i) /\ Added(i) /\ i \notin told
  BY DEF appendJournal
<1>2. \A r \in DOMAIN charges : charges[r].of # i
  BY <1>1 DEF RecordsInv, MirroredOnce, RowIsOf
<1> QED BY <1>1, <1>2, RowIsAdded

LEMMA RecordsStart == RecordsInit => RecordsInv
<1> SUFFICES ASSUME RecordsInit PROVE RecordsInv
  OBVIOUS
<1> PICK z, o : z = 0 /\ o = 1
  OBVIOUS
<1>1. /\ objects = [m \in Mandates |-> "none"] /\ history = <<>> /\ idx = {}
      /\ ingest = [t \in {"web", "scan"} |-> NoMandate]
      /\ scan = [at |-> "idle", cursor |-> Null, pages |-> z, ids |-> {},
                 must |-> {}, skipped |-> {}, answer |-> {}]
      /\ settled = <<>> /\ told = {} /\ charges = <<>> /\ month = o
  BY DEF RecordsInit, NotScanning
<1>2. z \in Nat /\ Null \in Int /\ o \in 1..MaxMonth
  BY RecordsNumbers DEF Null
<1>3. RecordsTypes
  BY <1>1, <1>2 DEF RecordsTypes
<1>4. DOMAIN history = {} /\ DOMAIN settled = {} /\ DOMAIN charges = {}
  BY <1>1
<1>5. EventsAreKept /\ ScanInv /\ Numbered /\ MirroredOnce
  BY <1>1, <1>4 DEF EventsAreKept, ScanInv, Numbered, MirroredOnce
<1> QED BY <1>3, <1>5 DEF RecordsInv

\* A scan's pages reach what it has to find, and the mirror is of the chain.
THEOREM RecordsInvariant == RecordsSpec => []RecordsInv
<1>1. RecordsInv /\ [RecordsNext]_records => RecordsInv'
  <2> SUFFICES ASSUME RecordsInv, [RecordsNext]_records PROVE RecordsInv'
    OBVIOUS
  <2>1. CASE UNCHANGED records
    <3>1. UNCHANGED <<objects, history, idx, ingest, scan, settled, told, charges, month>>
      BY <2>1 DEF records
    <3> QED BY <3>1 DEF RecordsInv, RecordsTypes, EventsAreKept, ScanInv, ToBeFound, Reach, Numbered,
                        SettledSeq, MirroredOnce, RowIsOf
  <2> QED BY <2>1, AuthorizeStep, OtherSteps, SettleStep, MonthStep, IndexSteps, ScanPageStep, ScanSteps,
             ScanIngestStep, RecordStep, JournalStep DEF RecordsNext
<1> QED BY <1>1, RecordsStart, PTL DEF RecordsSpec

\* discovery.ts and relations.ts 147-150: an answer has every mandate that
\* existed when the first page was served, but for those closed, unreadable or
\* beyond the pages; for any page size, number of pages, events and ingests.
THEOREM DiscoveryComplete == RecordsSpec => []DiscoveryIsComplete
<1>1. RecordsInv => DiscoveryIsComplete
  BY DEF RecordsInv, ScanInv, DiscoveryIsComplete
<1> QED BY <1>1, RecordsInvariant, PTL

LEMMA MirrorRows ==
    ASSUME RecordsInv
    PROVE  /\ IsFiniteSet(DOMAIN charges)
           /\ \A r \in DOMAIN charges : /\ charges[r].at \in 1..MaxMonth /\ charges[r].at \in Nat
                                        /\ r \in Nat
<1>1. charges \in Seq(Line)
  BY Zenon DEF RecordsInv, RecordsTypes
<1>2. /\ DOMAIN charges = 1..Len(charges) /\ Len(charges) \in Nat
      /\ \A r \in DOMAIN charges : charges[r] \in Line
  BY <1>1
<1>3. IsFiniteSet(DOMAIN charges)
  <2>1. IsFiniteSet(1..Len(charges))
    BY <1>2, FS_Interval
  <2> QED BY <1>2, <2>1
<1>4. ASSUME NEW r \in DOMAIN charges
      PROVE  charges[r].at \in 1..MaxMonth /\ charges[r].at \in Nat /\ r \in Nat
  <2>1. charges[r] \in Line
    BY <1>2
  <2>2. r \in Nat
    BY <1>2
  <2> QED BY <2>1, <2>2, RecordsNumbers DEF Line
<1> QED BY <1>3, <1>4

\* The lines of a report: the rows of the indexed mandates whose month it is.
LEMMA LinesOfTheMonth ==
    ASSUME RecordsInv
    PROVE  \A x : x \in ReportLines <=>
              \E r \in reportRoute : x = <<charges[r].at, r>> /\ r \in DOMAIN charges
<1>1. reportRoute \subseteq DOMAIN charges
  BY DEF reportRoute, chargesByMandate, RowsOf
<1>2. ASSUME NEW n \in 1..MaxMonth
      PROVE  buildComplianceReport(n).rows = {r \in reportRoute : charges[r].at = n}
  <2>1. \A r \in reportRoute : Within(charges[r].at, monthRangeUtc(n)) <=> charges[r].at = n
    BY <1>1, MirrorRows, RecordsNumbers DEF Within, monthRangeUtc
  <2> QED BY <2>1 DEF buildComplianceReport
<1> SUFFICES ASSUME NEW x
             PROVE  x \in ReportLines <=>
                       \E r \in reportRoute : x = <<charges[r].at, r>> /\ r \in DOMAIN charges
  OBVIOUS
<1>3. x \in ReportLines <=> \E n \in 1..MaxMonth : x \in {n} \X buildComplianceReport(n).rows
  BY DEF ReportLines
<1>4. ASSUME NEW n \in 1..MaxMonth
      PROVE  x \in {n} \X buildComplianceReport(n).rows
                <=> \E r \in reportRoute : charges[r].at = n /\ x = <<n, r>>
  BY <1>2
<1>5. x \in ReportLines <=>
          \E n \in 1..MaxMonth : \E r \in reportRoute : charges[r].at = n /\ x = <<n, r>>
  BY <1>3, <1>4
<1>6. \A r \in reportRoute : charges[r].at \in 1..MaxMonth
  BY <1>1, MirrorRows
<1> QED BY <1>1, <1>5, <1>6

\* A mandate's rows are all returned while they are no more than Limit.
LEMMA FewRowsAreReturned ==
    ASSUME RecordsInv, NEW m, Cardinality(RowsOf(m)) <= Limit
    PROVE  chargesByMandate(m) = RowsOf(m)
<1>1. IsFiniteSet(RowsOf(m)) /\ RowsOf(m) \subseteq DOMAIN charges
  BY MirrorRows, FS_Subset DEF RowsOf
<1>2. Limit \in Nat
  BY RecordsAssumption DEF RecordsAssumption
<1>3. ASSUME NEW r \in RowsOf(m)
      PROVE  Cardinality({s \in RowsOf(m) : Older(s, r)}) < Limit
  <2> DEFINE S == {s \in RowsOf(m) : Older(s, r)}
  <2>1. r \notin S
    <3>1. charges[r].at \in Nat /\ r \in Nat
      BY <1>1, MirrorRows
    <3> QED BY <3>1 DEF Older
  <2>2. S \subseteq RowsOf(m) /\ S # RowsOf(m)
    BY <2>1
  <2> HIDE DEF S
  <2>3. /\ Cardinality(S) < Cardinality(RowsOf(m))
        /\ Cardinality(S) \in Nat /\ Cardinality(RowsOf(m)) \in Nat
    <3>1. IsFiniteSet(S) /\ Cardinality(S) <= Cardinality(RowsOf(m))
          /\ (Cardinality(S) = Cardinality(RowsOf(m)) => S = RowsOf(m))
      BY <1>1, <2>2, FS_Subset
    <3>2. Cardinality(S) \in Nat /\ Cardinality(RowsOf(m)) \in Nat
      BY <1>1, <3>1, FS_CardinalityType
    <3> QED BY <2>2, <3>1, <3>2
  <2>4. Cardinality(S) < Limit
    BY <1>2, <2>3
  <2> QED BY <2>4 DEF S
<1> QED BY <1>3 DEF chargesByMandate

\* compliance.ts: the reports have a charge on one line at most, and every
\* charge the mirror was told of, up to Limit per mandate; for any months,
\* tellers and repetitions, and whatever order the rows are written in.
THEOREM ReportedOnce == RecordsSpec => []ChargesAreReportedOnce
<1>1. ASSUME RecordsInv PROVE ChargesAreReportedOnce
  <2>1. MirroredOnce /\ \A x \in ReportLines : \E r \in DOMAIN charges : x = <<charges[r].at, r>>
    BY <1>1, LinesOfTheMonth DEF RecordsInv
  <2>2. \A x, y \in ReportLines : ChargeOn(x) = ChargeOn(y) => x = y
    BY <2>1 DEF MirroredOnce, ChargeOn
  <2>3. \A x \in ReportLines :
            ChargeOn(x) \in told /\ settled[ChargeOn(x)].mandate = charges[x[2]].mandate
    BY <2>1 DEF MirroredOnce, RowIsOf, ChargeOn
  <2>4. ASSUME NEW i \in told, settled[i].mandate \in idx,
               Cardinality(RowsOf(settled[i].mandate)) <= Limit
        PROVE  \E x \in ReportLines : ChargeOn(x) = i
    <3>1. PICK r \in DOMAIN charges : charges[r].of = i
      BY <2>1 DEF MirroredOnce
    <3>2. charges[r].mandate = settled[i].mandate
      BY <2>1, <3>1 DEF MirroredOnce, RowIsOf
    <3>3. r \in chargesByMandate(settled[i].mandate)
      BY <1>1, <2>4, <3>2, FewRowsAreReturned DEF RowsOf
    <3>4. r \in reportRoute
      BY <2>4, <3>3 DEF reportRoute, mandatesBySubscriber
    <3>5. <<charges[r].at, r>> \in ReportLines
      BY <1>1, <3>4, LinesOfTheMonth
    <3> QED BY <3>1, <3>5 DEF ChargeOn
  <2> QED BY <2>2, <2>3, <2>4 DEF ChargesAreReportedOnce
<1> QED BY <1>1, RecordsInvariant, PTL

-----------------------------------------------------------------------------
(* The dashboard: every id it keeps is one the chain has, or junk, and what *)
(* it shows as revoked is so for good.                                      *)

Status == {"active", "paused", "revoked"}
Lists == [account : Nat, mandates : SUBSET Nat, dismissed : SUBSET Nat]
Ids == {Junk} \cup DOMAIN mandates

DashboardTypes ==
    /\ accounts \in Seq(Wallets) /\ mandates \in Seq([by : Wallets, status : Status])
    /\ visitor \in Wallets \cup {NoWallet}
    /\ storage \in [Wallets -> Lists]
    /\ unread \in [Wallets -> SUBSET Nat]
    /\ screen = [accountId |-> screen.accountId, subs |-> screen.subs]
    /\ \A l \in loads : l = [of |-> l.of, acc |-> l.acc, ids |-> l.ids, found |-> l.found]
    /\ \A r \in reads : r = [ids |-> r.ids, for |-> r.for, rows |-> r.rows]

Own(w, acc) == acc = None \/ (acc \in DOMAIN accounts /\ accounts[acc] = w)

\* The lists of a wallet, and what was cleared of it as unreadable.
ListsTrue(w, s, u) ==
    /\ s.mandates \cap s.dismissed = {} /\ s.mandates \cup s.dismissed \subseteq Ids
    /\ Own(w, s.account)
    /\ \A id \in (s.dismissed \ u) \cap MandatesOf(w) : mandates[id].status = "revoked"

RowsTrue(rows) ==
    \A id \in DOMAIN rows :
        /\ id \in Ids
        /\ rows[id] # "unreadable" => id \in DOMAIN mandates
        /\ rows[id] = "revoked" => mandates[id].status = "revoked"

LoadTrue(l) ==
    /\ l.of \in Wallets /\ l.ids \subseteq Ids /\ Own(l.of, l.acc)
    /\ \A found \in l.found : /\ found.mandates \subseteq Ids
                              /\ \A acc \in found.accounts : Own(l.of, acc) /\ acc \in Nat
    /\ l.acc \in Nat
ReadTrue(r) == r.ids \subseteq Ids /\ \A rows \in r.rows : RowsTrue(rows)

\* The id to remember was not there when something was cleared last.
BusyTrue ==
    /\ busy.do \notin {"nothing", "read"} => busy.as \in Wallets
    /\ busy.do = "remember" => busy.id \in Ids /\ busy.id \notin storage[busy.as].dismissed
    /\ busy.do = "set" => busy.id \in DOMAIN mandates

StorageTrue == \A w \in Wallets : ListsTrue(w, storage[w], unread[w])
FlightTrue == (\A l \in loads : LoadTrue(l)) /\ (\A r \in reads : ReadTrue(r))

DashboardInv == DashboardTypes /\ StorageTrue /\ RowsTrue(screen.subs) /\ FlightTrue /\ BusyTrue

\* The chain only grows, and what is revoked stays so.
Grows ==
    /\ accounts' \in Seq(Wallets) /\ mandates' \in Seq([by : Wallets, status : Status])
    /\ DOMAIN accounts \subseteq DOMAIN accounts' /\ DOMAIN mandates \subseteq DOMAIN mandates'
    /\ \A acc \in DOMAIN accounts : accounts'[acc] = accounts[acc]
    /\ \A id \in DOMAIN mandates : /\ mandates'[id].by = mandates[id].by
                                   /\ mandates[id].status = "revoked" => mandates'[id].status = "revoked"

LEMMA MandatesAreIds ==
    ASSUME DashboardTypes
    PROVE  /\ DOMAIN mandates = 1..Len(mandates) /\ Len(mandates) \in Nat /\ Ids \subseteq Nat
           /\ Junk \notin DOMAIN mandates
<1>1. mandates \in Seq([by : Wallets, status : Status])
  BY Zenon DEF DashboardTypes
<1> QED BY <1>1 DEF Ids, Junk

LEMMA TrueOfALongerChain ==
    ASSUME DashboardTypes, Grows
    PROVE  /\ \A w, acc : Own(w, acc) => Own(w, acc)'
           /\ \A w, s, u : ListsTrue(w, s, u) => ListsTrue(w, s, u)'
           /\ \A rows : RowsTrue(rows) => RowsTrue(rows)'
           /\ \A l : LoadTrue(l) => LoadTrue(l)'
           /\ \A r : ReadTrue(r) => ReadTrue(r)'
<1>1. Ids \subseteq Ids'
  BY DEF Grows, Ids
<1>2. \A w, acc : Own(w, acc) => Own(w, acc)'
  BY DEF Grows, Own
<1>3. \A w, s, u : ListsTrue(w, s, u) => ListsTrue(w, s, u)'
  <2> SUFFICES ASSUME NEW w, NEW s, NEW u, ListsTrue(w, s, u) PROVE ListsTrue(w, s, u)'
    OBVIOUS
  <2>1. /\ s.mandates \cap s.dismissed = {} /\ s.mandates \cup s.dismissed \subseteq Ids /\ Own(w, s.account)
        /\ \A id \in s.dismissed \ u :
              id \in DOMAIN mandates /\ mandates[id].by = w => mandates[id].status = "revoked"
    BY DEF ListsTrue, MandatesOf
  <2>2. Junk \notin DOMAIN mandates'
    BY DEF Grows, Junk
  <2>3. \A id \in s.dismissed \ u :
            id \in DOMAIN mandates' /\ mandates'[id].by = w => mandates'[id].status = "revoked"
    BY <2>1, <2>2 DEF Grows, Ids
  <2> QED BY <1>1, <1>2, <2>1, <2>3 DEF ListsTrue, MandatesOf
<1>4. \A rows : RowsTrue(rows) => RowsTrue(rows)'
  <2> SUFFICES ASSUME NEW rows, RowsTrue(rows), NEW id \in DOMAIN rows
               PROVE  /\ id \in Ids' /\ (rows[id] # "unreadable" => id \in DOMAIN mandates')
                      /\ (rows[id] = "revoked" => mandates'[id].status = "revoked")
    BY DEF RowsTrue
  <2> QED BY <1>1 DEF RowsTrue, Grows
<1>5. \A l : LoadTrue(l) => LoadTrue(l)'
  BY <1>1, <1>2 DEF LoadTrue
<1>6. \A r : ReadTrue(r) => ReadTrue(r)'
  BY <1>1, <1>4 DEF ReadTrue
<1> QED BY <1>2, <1>3, <1>4, <1>5, <1>6

\* What a step leaves alone stays true; what it changes is for each lemma.
LEMMA Unmoved ==
    ASSUME DashboardInv, Grows
    PROVE  /\ UNCHANGED <<storage, unread>> => StorageTrue'
           /\ UNCHANGED screen => RowsTrue(screen.subs)'
           /\ UNCHANGED loads => \A l \in loads' : LoadTrue(l)'
           /\ UNCHANGED reads => \A r \in reads' : ReadTrue(r)'
           /\ (\A l \in loads' : l \in loads) => \A l \in loads' : LoadTrue(l)'
           /\ (\A r \in reads' : r \in reads) => \A r \in reads' : ReadTrue(r)'
           /\ UNCHANGED <<storage, busy>> => BusyTrue'
<1>1. DashboardTypes /\ StorageTrue /\ RowsTrue(screen.subs) /\ FlightTrue /\ BusyTrue
  BY DEF DashboardInv
<1>2. /\ \A w, s, u : ListsTrue(w, s, u) => ListsTrue(w, s, u)'
      /\ \A rows : RowsTrue(rows) => RowsTrue(rows)'
      /\ \A l : LoadTrue(l) => LoadTrue(l)'
      /\ \A r : ReadTrue(r) => ReadTrue(r)'
  BY <1>1, TrueOfALongerChain
<1>3. ASSUME UNCHANGED <<storage, unread>> PROVE StorageTrue'
  BY <1>1, <1>2, <1>3 DEF StorageTrue
<1>4. ASSUME UNCHANGED screen PROVE RowsTrue(screen.subs)'
  <2> PICK rows : rows = screen.subs
    OBVIOUS
  <2>1. RowsTrue(rows)'
    BY <1>1, <1>2
  <2> QED BY <2>1, <1>4
<1>5. ASSUME \A l \in loads' : l \in loads PROVE \A l \in loads' : LoadTrue(l)'
  BY <1>1, <1>2, <1>5 DEF FlightTrue
<1>6. ASSUME \A r \in reads' : r \in reads PROVE \A r \in reads' : ReadTrue(r)'
  BY <1>1, <1>2, <1>6 DEF FlightTrue
<1>7. ASSUME UNCHANGED <<storage, busy>> PROVE BusyTrue'
  BY <1>1, <1>7 DEF BusyTrue, Grows, Ids
<1> QED BY <1>3, <1>4, <1>5, <1>6, <1>7

LEMMA UnmovedChain ==
    ASSUME DashboardTypes, UNCHANGED <<accounts, mandates>>
    PROVE  Grows
<1>1. accounts \in Seq(Wallets) /\ mandates \in Seq([by : Wallets, status : Status])
  BY Zenon DEF DashboardTypes
<1> QED BY <1>1 DEF Grows

\* What a step writes of one wallet's lists.
LEMMA AccountWritten ==
    ASSUME NEW e \in Lists, NEW a \in Nat, NEW x, x = [e EXCEPT !.account = a]
    PROVE  x \in Lists /\ x.account = a /\ x.mandates = e.mandates /\ x.dismissed = e.dismissed
BY DEF Lists

LEMMA MandatesWritten ==
    ASSUME NEW e \in Lists, NEW m \in SUBSET Nat, NEW x, x = [e EXCEPT !.mandates = m]
    PROVE  x \in Lists /\ x.account = e.account /\ x.mandates = m /\ x.dismissed = e.dismissed
BY DEF Lists

LEMMA DismissedWritten ==
    ASSUME NEW e \in Lists, NEW d \in SUBSET Nat, NEW x, x = [e EXCEPT !.dismissed = d]
    PROVE  x \in Lists /\ x.account = e.account /\ x.mandates = e.mandates /\ x.dismissed = d
BY DEF Lists

AfterLoad(f, w, a, m) == [f EXCEPT ![w].account = a, ![w].mandates = m]
LEMMA LoadWritten ==
    ASSUME NEW S, NEW w \in S, NEW f \in [S -> Lists], NEW a \in Nat, NEW m \in SUBSET Nat,
           NEW g, g = AfterLoad(f, w, a, m)
    PROVE  /\ g \in [S -> Lists] /\ \A v \in S \ {w} : g[v] = f[v]
           /\ g[w].account = a /\ g[w].mandates = m /\ g[w].dismissed = f[w].dismissed
<1> PICK c, x, y : c = f[w] /\ x = [c EXCEPT !.account = a] /\ y = [x EXCEPT !.mandates = m]
  OBVIOUS
<1>1. x \in Lists /\ x.account = a /\ x.dismissed = c.dismissed
  BY AccountWritten
<1>2. y \in Lists /\ y.account = a /\ y.mandates = m /\ y.dismissed = c.dismissed
  BY <1>1 DEF Lists
<1>3. g = [f EXCEPT ![w] = y]
  <2> PICK h : h = [f EXCEPT ![w].account = a]
    OBVIOUS
  <2>1. h = [f EXCEPT ![w] = x]
    OBVIOUS
  <2>2. g = [h EXCEPT ![w].mandates = m]
    BY DEF AfterLoad
  <2>3. h[w] = x
    BY <2>1
  <2>4. g = [h EXCEPT ![w] = y]
    BY <2>2, <2>3
  <2> QED BY <2>1, <2>4
<1> QED BY <1>2, <1>3

AfterClear(f, w, d, m) == [f EXCEPT ![w].dismissed = d, ![w].mandates = m]
LEMMA ClearWritten ==
    ASSUME NEW S, NEW w \in S, NEW f \in [S -> Lists], NEW d \in SUBSET Nat, NEW m \in SUBSET Nat,
           NEW g, g = AfterClear(f, w, d, m)
    PROVE  /\ g \in [S -> Lists] /\ \A v \in S \ {w} : g[v] = f[v]
           /\ g[w].account = f[w].account /\ g[w].mandates = m /\ g[w].dismissed = d
<1> PICK c, x, y : c = f[w] /\ x = [c EXCEPT !.dismissed = d] /\ y = [x EXCEPT !.mandates = m]
  OBVIOUS
<1>1. x \in Lists /\ x.account = c.account /\ x.dismissed = d
  BY DismissedWritten
<1>2. y \in Lists /\ y.account = c.account /\ y.mandates = m /\ y.dismissed = d
  BY <1>1 DEF Lists
<1>3. g = [f EXCEPT ![w] = y]
  <2> PICK h : h = [f EXCEPT ![w].dismissed = d]
    OBVIOUS
  <2>1. h = [f EXCEPT ![w] = x]
    OBVIOUS
  <2>2. g = [h EXCEPT ![w].mandates = m]
    BY DEF AfterClear
  <2>3. h[w] = x
    BY <2>1
  <2>4. g = [h EXCEPT ![w] = y]
    BY <2>2, <2>3
  <2> QED BY <2>1, <2>4
<1> QED BY <1>2, <1>3

LEMMA OneMoreMandate ==
    ASSUME DashboardTypes, NEW w \in Wallets, UNCHANGED accounts,
           mandates' = Append(mandates, [by |-> w, status |-> "active"])
    PROVE  Grows /\ Len(mandates') \in DOMAIN mandates' /\ Len(mandates') \notin Ids
<1> PICK x, n : x = [by |-> w, status |-> "active"] /\ n = Len(mandates) + 1
  OBVIOUS
<1>1. accounts \in Seq(Wallets) /\ mandates \in Seq([by : Wallets, status : Status])
  BY Zenon DEF DashboardTypes
<1>2. mandates' = Append(mandates, x) /\ x \in [by : Wallets, status : Status]
  BY DEF Status
<1>3. /\ mandates' \in Seq([by : Wallets, status : Status]) /\ Len(mandates') = n /\ n \in DOMAIN mandates'
      /\ DOMAIN mandates \subseteq DOMAIN mandates' /\ \A id \in DOMAIN mandates : mandates'[id] = mandates[id]
  BY <1>1, <1>2
<1>4. n \notin Ids
  BY <1>1 DEF Ids, Junk
<1> QED BY <1>1, <1>3, <1>4 DEF Grows

LEMMA EntryOfASequence ==
    ASSUME NEW S, NEW s \in Seq(S), NEW i \in DOMAIN s
    PROVE  s[i] \in S
OBVIOUS

LEMMA StatusIsSet ==
    ASSUME DashboardTypes, NEW id \in DOMAIN mandates, NEW to \in Status, UNCHANGED accounts,
           mandates' = [mandates EXCEPT ![id].status = to],
           to = "revoked" \/ mandates[id].status # "revoked"
    PROVE  Grows
<1> PICK x, w : w = mandates[id].by /\ x = [by |-> w, status |-> to]
  OBVIOUS
<1>1. accounts \in Seq(Wallets) /\ mandates \in Seq([by : Wallets, status : Status])
  BY Zenon DEF DashboardTypes
<1>2. mandates[id] \in [by : Wallets, status : Status]
  BY <1>1, EntryOfASequence
<1>3. x \in [by : Wallets, status : Status] /\ [mandates[id] EXCEPT !.status = to] = x
  BY <1>2
<1>4. mandates' = [mandates EXCEPT ![id] = x]
  BY <1>3
<1>5. /\ mandates' \in Seq([by : Wallets, status : Status]) /\ DOMAIN mandates' = DOMAIN mandates
      /\ mandates'[id] = x /\ \A i \in DOMAIN mandates \ {id} : mandates'[i] = mandates[i]
  BY <1>1, <1>3, <1>4
<1> QED BY <1>1, <1>5 DEF Grows

LEMMA OneMoreAccount ==
    ASSUME DashboardTypes, NEW w \in Wallets, UNCHANGED mandates, accounts' = Append(accounts, w)
    PROVE  Grows /\ \E acc \in Nat : acc = Len(accounts') /\ Own(w, acc)'
<1> PICK n : n = Len(accounts) + 1
  OBVIOUS
<1>1. accounts \in Seq(Wallets) /\ mandates \in Seq([by : Wallets, status : Status])
  BY Zenon DEF DashboardTypes
<1>2. /\ accounts' \in Seq(Wallets) /\ Len(accounts') = n /\ n \in DOMAIN accounts' /\ n \in Nat
      /\ DOMAIN accounts \subseteq DOMAIN accounts' /\ \A acc \in DOMAIN accounts : accounts'[acc] = accounts[acc]
      /\ accounts'[n] = w
  BY <1>1
<1>3. Own(w, n)'
  BY <1>2 DEF Own
<1>4. UNCHANGED mandates
  OBVIOUS
<1> HIDE DEF None
<1> QED BY <1>1, <1>2, <1>3, <1>4 DEF Grows

LEMMA ReadStarts ==
    ASSUME DashboardInv, Grows, NEW ids, NEW for, ids \subseteq Ids', refreshSubs(ids, for)
    PROVE  \A r \in reads' : ReadTrue(r)' /\ r = [ids |-> r.ids, for |-> r.for, rows |-> r.rows]
<1> PICK new : new = [ids |-> ids, for |-> for, rows |-> NoAnswer]
  OBVIOUS
<1>1. reads' = reads \cup {new} /\ new.ids = ids /\ new.rows = {}
  BY DEF refreshSubs, NoAnswer
<1>2. ReadTrue(new)'
  BY <1>1 DEF ReadTrue
<1>3. DashboardTypes /\ \A r \in reads : ReadTrue(r)
  BY DEF DashboardInv, FlightTrue
<1>4. \A r \in reads : ReadTrue(r)'
  BY <1>3, TrueOfALongerChain
<1>5. \A r \in reads : r = [ids |-> r.ids, for |-> r.for, rows |-> r.rows]
  BY Zenon, <1>3 DEF DashboardTypes
<1> QED BY <1>1, <1>2, <1>4, <1>5

\* What is stored has ids of the chain, now and after a step.
LEMMA StoredAreIds ==
    ASSUME DashboardInv, Grows
    PROVE  /\ Ids \subseteq Ids' /\ Ids \subseteq Nat
           /\ \A w \in Wallets : /\ storage[w].account \in Nat /\ Own(w, storage[w].account)
                                 /\ storage[w].mandates \subseteq Ids /\ storage[w].dismissed \subseteq Ids
                                 /\ storage[w].mandates \cap storage[w].dismissed = {}
<1>1. DashboardTypes /\ \A w \in Wallets : ListsTrue(w, storage[w], unread[w])
  BY DEF DashboardInv, StorageTrue
<1>2. storage \in [Wallets -> Lists]
  BY Zenon, <1>1 DEF DashboardTypes
<1> QED BY <1>1, <1>2, MandatesAreIds DEF ListsTrue, Grows, Ids, Lists

\* A step that moves neither the lists nor the chain.
LEMMA PageSteps ==
    ASSUME DashboardInv, load \/ Poll \/ ReloadPage \/ (\E r \in reads : setSubs(r))
    PROVE  DashboardInv'
<1>0. DashboardTypes /\ StorageTrue /\ RowsTrue(screen.subs) /\ FlightTrue /\ BusyTrue
  BY DEF DashboardInv
<1>1. UNCHANGED <<storage, accounts, mandates, unread>>
  BY DEF load, Poll, ReloadPage, setSubs, Keeps
<1>2. Grows
  BY <1>0, <1>1, UnmovedChain
<1>3. StorageTrue'
  BY <1>1, <1>2, Unmoved
<1>4. /\ accounts' \in Seq(Wallets) /\ mandates' \in Seq([by : Wallets, status : Status])
      /\ storage' \in [Wallets -> Lists]
      /\ unread' \in [Wallets -> SUBSET Nat] /\ visitor \in Wallets \cup {NoWallet}
  BY <1>0, <1>1 DEF DashboardTypes
<1>5. /\ screen = [accountId |-> screen.accountId, subs |-> screen.subs]
      /\ \A l \in loads : l = [of |-> l.of, acc |-> l.acc, ids |-> l.ids, found |-> l.found]
      /\ \A r \in reads : r = [ids |-> r.ids, for |-> r.for, rows |-> r.rows]
  BY Zenon, <1>0 DEF DashboardTypes
<1>6. CASE load
  <2>1. PICK w \in (Wallets \cup {NoWallet}) \ {visitor} :
        /\ visitor' = w
        /\ IF w = NoWallet
           THEN screen' = [accountId |-> None, subs |-> <<>>] /\ loads' = loads
           ELSE /\ loads' = loads \cup {[of |-> w, acc |-> storage[w].account,
                                         ids |-> storage[w].mandates, found |-> NoAnswer]}
                /\ screen' = screen
    BY <1>6 DEF load
  <2>2. UNCHANGED <<reads, busy>>
    BY <1>6 DEF load
  <2>3. /\ screen' = [accountId |-> screen'.accountId, subs |-> screen'.subs] /\ RowsTrue(screen.subs)'
    <3>1. CASE screen' = screen
      BY <1>2, <1>5, <3>1, Unmoved
    <3>2. CASE screen' = [accountId |-> None, subs |-> <<>>]
      <4>1. DOMAIN screen'.subs = {}
        BY <3>2
      <4> QED BY <3>2, <4>1 DEF RowsTrue
    <3> QED BY <2>1, <3>1, <3>2
  <2>4. \A l \in loads' : /\ LoadTrue(l)'
                          /\ l = [of |-> l.of, acc |-> l.acc, ids |-> l.ids, found |-> l.found]
    <3>1. CASE w = NoWallet
      BY <1>2, <1>5, <2>1, <3>1, Unmoved
    <3>2. CASE w # NoWallet
      <4> PICK new : new = [of |-> w, acc |-> storage[w].account, ids |-> storage[w].mandates,
                            found |-> NoAnswer]
        OBVIOUS
      <4>1. new.of = w /\ new.acc = storage[w].account /\ new.ids = storage[w].mandates /\ new.found = {}
        BY DEF NoAnswer
      <4>2. w \in Wallets /\ loads' = loads \cup {new}
        BY <2>1, <3>2
      <4>3. LoadTrue(new)
        BY <1>2, <4>1, <4>2, StoredAreIds DEF LoadTrue
      <4>4. \A l \in loads' : LoadTrue(l)
        BY <1>0, <4>2, <4>3 DEF FlightTrue
      <4>5. \A l \in loads' : LoadTrue(l)'
        BY <1>0, <1>2, <4>4, TrueOfALongerChain
      <4> QED BY <1>5, <4>2, <4>5
    <3> QED BY <3>1, <3>2
  <2>5. BusyTrue' /\ \A r \in reads' : ReadTrue(r)'
    BY <1>1, <1>2, <2>2, Unmoved
  <2> QED BY <1>3, <1>4, <1>5, <2>1, <2>2, <2>3, <2>4, <2>5 DEF DashboardInv, DashboardTypes, FlightTrue
<1>7. CASE Poll
  <2>1. visitor \in Wallets /\ refreshSubs(storage[visitor].mandates, "page")
        /\ UNCHANGED <<visitor, screen, loads, busy>>
    BY <1>4, <1>7 DEF Poll
  <2> PICK ids : ids = storage[visitor].mandates
    OBVIOUS
  <2>2. ids \subseteq Ids'
    BY <1>2, <2>1, StoredAreIds
  <2>3. refreshSubs(ids, "page")
    BY <2>1
  <2>4. \A r \in reads' : ReadTrue(r)' /\ r = [ids |-> r.ids, for |-> r.for, rows |-> r.rows]
    BY <1>2, <2>2, <2>3, ReadStarts
  <2>5. BusyTrue' /\ RowsTrue(screen.subs)' /\ \A l \in loads' : LoadTrue(l)'
    BY <1>1, <1>2, <2>1, Unmoved
  <2> QED BY <1>3, <1>4, <1>5, <2>1, <2>4, <2>5 DEF DashboardInv, DashboardTypes, FlightTrue
<1>8. CASE ReloadPage
  <2>1. /\ visitor' = NoWallet /\ busy' = NotBusy /\ loads' = {} /\ reads' = {}
        /\ screen' = [accountId |-> None, subs |-> <<>>]
    BY <1>8 DEF ReloadPage
  <2>2. DOMAIN screen'.subs = {} /\ screen' = [accountId |-> screen'.accountId, subs |-> screen'.subs]
    BY <2>1
  <2>3. RowsTrue(screen.subs)'
    BY <2>2 DEF RowsTrue
  <2>4. BusyTrue'
    BY <2>1 DEF BusyTrue, NotBusy
  <2> QED BY <1>3, <1>4, <2>1, <2>2, <2>3, <2>4 DEF DashboardInv, DashboardTypes, FlightTrue
<1>9. ASSUME NEW r \in reads, setSubs(r) PROVE DashboardInv'
  <2>1. PICK rows \in r.rows : screen' = [screen EXCEPT !.subs = rows]
    BY <1>9 DEF setSubs
  <2>2. reads' = reads \ {r} /\ UNCHANGED <<visitor, loads>> /\ busy' \in {NotBusy, busy}
    BY <1>9 DEF setSubs
  <2>3. screen'.subs = rows /\ screen' = [accountId |-> screen'.accountId, subs |-> screen'.subs]
    BY <1>5, <2>1
  <2>4. RowsTrue(rows)
    BY <1>0 DEF FlightTrue, ReadTrue
  <2>5. RowsTrue(rows)'
    BY <1>0, <1>2, <2>4, TrueOfALongerChain
  <2>6. BusyTrue'
    <3>1. CASE busy' = NotBusy
      BY <3>1 DEF BusyTrue, NotBusy
    <3>2. CASE busy' = busy
      BY <1>1, <1>2, <3>2, Unmoved
    <3> QED BY <2>2, <3>1, <3>2
  <2>7. (\A l \in loads' : LoadTrue(l)') /\ \A x \in reads' : ReadTrue(x)'
    BY <1>2, <2>2, Unmoved
  <2> QED BY <1>3, <1>4, <1>5, <2>2, <2>3, <2>5, <2>6, <2>7 DEF DashboardInv, DashboardTypes, FlightTrue
<1> QED BY <1>6, <1>7, <1>8, <1>9

\* The gateway answers a load, and the load is written.
LEMMA LoadSteps ==
    ASSUME DashboardInv, NEW l \in loads, GatewayFinds(l) \/ LoadWrites(l)
    PROVE  DashboardInv'
<1>0. DashboardTypes /\ StorageTrue /\ RowsTrue(screen.subs) /\ FlightTrue /\ BusyTrue
  BY DEF DashboardInv
<1>1. UNCHANGED <<visitor, busy, accounts, mandates, unread>>
  BY DEF GatewayFinds, LoadWrites, LoadEnds, Keeps
<1>2. Grows
  BY <1>0, <1>1, UnmovedChain
<1>3. /\ accounts' \in Seq(Wallets) /\ mandates' \in Seq([by : Wallets, status : Status])
      /\ unread' \in [Wallets -> SUBSET Nat] /\ visitor' \in Wallets \cup {NoWallet}
  BY <1>0, <1>1 DEF DashboardTypes
<1>4. /\ screen = [accountId |-> screen.accountId, subs |-> screen.subs]
      /\ \A x \in loads : x = [of |-> x.of, acc |-> x.acc, ids |-> x.ids, found |-> x.found]
      /\ \A r \in reads : r = [ids |-> r.ids, for |-> r.for, rows |-> r.rows]
      /\ storage \in [Wallets -> Lists]
  BY Zenon, <1>0 DEF DashboardTypes
<1>5. LoadTrue(l) /\ Ids \subseteq Nat /\ Ids' = Ids
  BY <1>0, <1>1, MandatesAreIds DEF FlightTrue, Ids
<1>6. ASSUME GatewayFinds(l) PROVE DashboardInv'
  <2>1. PICK accs \in SUBSET AccountsOf(l.of) :
            loads' = (loads \ {l}) \cup {[l EXCEPT !.found = {[accounts |-> accs, mandates |-> MandatesOf(l.of)]}]}
    BY <1>6 DEF GatewayFinds
  <2> PICK f, new : /\ f = [accounts |-> accs, mandates |-> MandatesOf(l.of)]
                    /\ new = [of |-> l.of, acc |-> l.acc, ids |-> l.ids, found |-> {f}]
    OBVIOUS
  <2>2. loads' = (loads \ {l}) \cup {new}
    BY <1>4, <2>1
  <2>3. /\ new.of = l.of /\ new.acc = l.acc /\ new.ids = l.ids /\ new.found = {f}
        /\ f.accounts = accs /\ f.mandates = MandatesOf(l.of)
    OBVIOUS
  <2>4. \A acc \in accs : Own(l.of, acc) /\ acc \in Nat
    <3>1. accounts \in Seq(Wallets)
      BY Zenon, <1>0 DEF DashboardTypes
    <3> QED BY <3>1 DEF AccountsOf, Own
  <2>5. LoadTrue(new)
    BY <1>5, <2>3, <2>4 DEF LoadTrue, MandatesOf, Ids
  <2>6. \A x \in loads' : LoadTrue(x)
    BY <1>0, <2>2, <2>5 DEF FlightTrue
  <2>7. \A x \in loads' : LoadTrue(x)'
    BY <1>0, <1>2, <2>6, TrueOfALongerChain
  <2>8. UNCHANGED <<storage, screen, reads>>
    BY <1>6 DEF GatewayFinds
  <2>9. StorageTrue' /\ RowsTrue(screen.subs)' /\ BusyTrue' /\ \A r \in reads' : ReadTrue(r)'
    BY <1>1, <1>2, <2>8, Unmoved
  <2>10. \A x \in loads' : x = [of |-> x.of, acc |-> x.acc, ids |-> x.ids, found |-> x.found]
    BY <1>4, <2>2
  <2>11. DashboardTypes'
    BY <1>3, <1>4, <2>8, <2>10 DEF DashboardTypes
  <2> QED BY <2>7, <2>9, <2>11 DEF DashboardInv, FlightTrue
<1>7. ASSUME LoadWrites(l) PROVE DashboardInv'
  <2>1. PICK acc, ids : /\ LoadEnds(l, acc, ids) /\ ids \cap storage[l.of].dismissed = {}
                        /\ ids \subseteq Ids /\ acc \in Nat /\ Own(l.of, acc)
    <3>1. ASSUME NEW found \in l.found, NEW acc \in Adopted(l, found),
                 LoadEnds(l, acc, (l.ids \cup found.mandates) \ storage[l.of].dismissed)
          PROVE  \E a, i : /\ LoadEnds(l, a, i) /\ i \cap storage[l.of].dismissed = {}
                           /\ i \subseteq Ids /\ a \in Nat /\ Own(l.of, a)
      <4> PICK i : i = (l.ids \cup found.mandates) \ storage[l.of].dismissed
        OBVIOUS
      <4>1. i \subseteq Ids /\ acc \in Nat /\ Own(l.of, acc)
        BY <1>5 DEF LoadTrue, Adopted
      <4> QED BY <3>1, <4>1
    <3>2. ASSUME LoadEnds(l, l.acc, l.ids \ storage[l.of].dismissed)
          PROVE  \E a, i : /\ LoadEnds(l, a, i) /\ i \cap storage[l.of].dismissed = {}
                           /\ i \subseteq Ids /\ a \in Nat /\ Own(l.of, a)
      <4> PICK i, a : i = l.ids \ storage[l.of].dismissed /\ a = l.acc
        OBVIOUS
      <4>1. i \subseteq Ids /\ a \in Nat /\ Own(l.of, a)
        BY <1>5 DEF LoadTrue
      <4> QED BY <3>2, <4>1
    <3> QED BY <1>7, <3>1, <3>2 DEF LoadWrites
  <2>2. /\ storage' = [storage EXCEPT
              ![l.of].account = IF l.found # NoAnswer /\ acc # None THEN acc ELSE @,
              ![l.of].mandates = ids]
        /\ screen' = [screen EXCEPT !.accountId = acc] /\ loads' = loads \ {l} /\ refreshSubs(ids, "page")
    BY <2>1 DEF LoadEnds
  <2> PICK w, a, g : /\ w = l.of /\ g = storage'
                     /\ a = IF l.found # NoAnswer /\ acc # None THEN acc ELSE storage[w].account
    OBVIOUS
  <2>3. w \in Wallets
    BY <1>5 DEF LoadTrue
  <2>4. a \in Nat /\ Own(w, a) /\ ids \in SUBSET Nat
    BY <1>2, <1>5, <2>1, <2>3, StoredAreIds
  <2>5. g = AfterLoad(storage, w, a, ids)
    BY <2>2 DEF AfterLoad
  <2>6. /\ g \in [Wallets -> Lists] /\ \A v \in Wallets \ {w} : g[v] = storage[v]
        /\ g[w].account = a /\ g[w].mandates = ids /\ g[w].dismissed = storage[w].dismissed
    BY <1>4, <2>3, <2>4, <2>5, LoadWritten
  <2>13. StorageTrue'
    <3>1. ListsTrue(w, g[w], unread[w])
      BY <1>0, <2>1, <2>3, <2>4, <2>6 DEF StorageTrue, ListsTrue
    <3>2. \A v \in Wallets : ListsTrue(v, g[v], unread[v])
      BY <1>0, <2>6, <3>1 DEF StorageTrue
    <3>3. \A v \in Wallets : ListsTrue(v, g[v], unread[v])'
      BY <1>0, <1>1, <1>2, <3>2, TrueOfALongerChain
    <3> QED BY <1>1, <3>3 DEF StorageTrue
  <2>7. \A r \in reads' : ReadTrue(r)' /\ r = [ids |-> r.ids, for |-> r.for, rows |-> r.rows]
    BY <1>2, <1>5, <2>1, <2>2, ReadStarts
  <2>8. screen'.subs = screen.subs /\ screen' = [accountId |-> screen'.accountId, subs |-> screen'.subs]
    BY <1>4, <2>2
  <2>9. RowsTrue(screen.subs)'
    BY <1>0, <1>1, <2>8 DEF RowsTrue, Ids
  <2>10. BusyTrue'
    <3>1. \A v \in Wallets : storage'[v].dismissed = storage[v].dismissed
      BY <2>6
    <3> QED BY <1>0, <1>1, <3>1, <1>5 DEF BusyTrue
  <2>11. \A x \in loads' : LoadTrue(x)'
    BY <1>2, <2>2, Unmoved
  <2>12. DashboardTypes'
    <3>1. storage' \in [Wallets -> Lists]
      BY <2>6
    <3> QED BY <1>3, <1>4, <2>2, <2>7, <2>8, <3>1 DEF DashboardTypes
  <2> QED BY <2>7, <2>13, <2>9, <2>10, <2>11, <2>12 DEF DashboardInv, FlightTrue
<1> QED BY <1>6, <1>7

\* The rows of a read are what the chain says, or say that it did not answer.
LEMMA ReadStep ==
    ASSUME DashboardInv, NEW r \in reads, MandatesRead(r)
    PROVE  DashboardInv'
<1>0. DashboardTypes /\ StorageTrue /\ RowsTrue(screen.subs) /\ FlightTrue /\ BusyTrue
  BY DEF DashboardInv
<1>1. UNCHANGED <<visitor, storage, screen, loads, busy, accounts, mandates, unread>>
  BY DEF MandatesRead, Keeps
<1>2. Grows
  BY <1>0, <1>1, UnmovedChain
<1>3. \A x \in reads : x = [ids |-> x.ids, for |-> x.for, rows |-> x.rows]
  BY Zenon, <1>0 DEF DashboardTypes
<1>4. PICK failed \in SUBSET r.ids :
        /\ r.ids \ DOMAIN mandates \subseteq failed
        /\ reads' = (reads \ {r}) \cup {[r EXCEPT !.rows =
                {[id \in r.ids |-> IF id \in failed THEN "unreadable" ELSE mandates[id].status]}]}
  BY DEF MandatesRead
<1> PICK rows, new : /\ rows = [id \in r.ids |-> IF id \in failed THEN "unreadable" ELSE mandates[id].status]
                     /\ new = [ids |-> r.ids, for |-> r.for, rows |-> {rows}]
  OBVIOUS
<1>5. reads' = (reads \ {r}) \cup {new} /\ new.rows = {rows} /\ new.ids = r.ids
  BY <1>3, <1>4
<1>6. ReadTrue(r)
  BY <1>0 DEF FlightTrue
<1>7. RowsTrue(rows)
  BY <1>4, <1>6 DEF RowsTrue, ReadTrue
<1>8. ReadTrue(new)
  BY <1>5, <1>6, <1>7 DEF ReadTrue
<1>9. \A x \in reads' : ReadTrue(x)
  BY <1>0, <1>5, <1>8 DEF FlightTrue
<1>10. \A x \in reads' : ReadTrue(x)'
  BY <1>0, <1>2, <1>9, TrueOfALongerChain
<1>11. StorageTrue' /\ RowsTrue(screen.subs)' /\ BusyTrue' /\ \A x \in loads' : LoadTrue(x)'
  BY <1>1, <1>2, Unmoved
<1>12. \A x \in reads' : x = [ids |-> x.ids, for |-> x.for, rows |-> x.rows]
  BY <1>3, <1>5
<1>13. DashboardTypes'
  BY <1>0, <1>1, <1>12 DEF DashboardTypes
<1> QED BY <1>10, <1>11, <1>13 DEF DashboardInv, FlightTrue

\* A click, and an action that throws.
LEMMA ClickSteps ==
    ASSUME DashboardInv, doOpen \/ doSubscribe \/ doRow \/ Throws
    PROVE  DashboardInv'
<1>0. DashboardTypes /\ StorageTrue /\ RowsTrue(screen.subs) /\ FlightTrue /\ BusyTrue
  BY DEF DashboardInv
<1>1. UNCHANGED <<visitor, storage, screen, loads, reads, accounts, mandates, unread>>
  BY DEF doOpen, doSubscribe, doRow, Throws, Keeps
<1>2. Grows
  BY <1>0, <1>1, UnmovedChain
<1>3. visitor \in Wallets \cup {NoWallet}
  BY Zenon, <1>0 DEF DashboardTypes
<1>4. BusyTrue'
  <2>1. CASE doOpen
    <3>1. busy' = [do |-> "open", as |-> visitor] /\ visitor \in Wallets
      BY <1>3, <2>1 DEF doOpen, Click
    <3> QED BY <3>1 DEF BusyTrue
  <2>2. CASE doSubscribe
    <3>1. busy' = [do |-> IF screen.accountId = None THEN "open first" ELSE "authorize",
                   as |-> visitor, acct |-> screen.accountId] /\ visitor \in Wallets
      BY <1>3, <2>2 DEF doSubscribe, Click
    <3>2. busy'.do \in {"open first", "authorize"} /\ busy'.as \in Wallets
      BY <3>1
    <3> QED BY <3>2 DEF BusyTrue
  <2>3. CASE doRow
    <3>1. visitor \in Wallets
      BY <1>3, <2>3 DEF doRow, Click
    <3>2. PICK id \in DOMAIN screen.subs :
              screen.subs[id] \in {"active", "paused"} /\ busy'.do = "set" /\ busy'.as = visitor /\ busy'.id = id
      <4>1. PICK id \in DOMAIN screen.subs, step \in {<<"active", "paused">>, <<"paused", "active">>,
                     <<"active", "revoked">>, <<"paused", "revoked">>} :
                screen.subs[id] = step[1] /\ busy' = [do |-> "set", as |-> visitor, id |-> id, to |-> step[2]]
        BY Zenon, <2>3 DEF doRow
      <4>2. step[1] \in {"active", "paused"}
        OBVIOUS
      <4> QED BY <4>1, <4>2
    <3>3. id \in DOMAIN mandates
      BY <1>0, <3>2 DEF RowsTrue
    <3> QED BY <1>1, <3>1, <3>2, <3>3 DEF BusyTrue
  <2>4. CASE Throws
    BY <2>4 DEF Throws, BusyTrue, NotBusy
  <2> QED BY <2>1, <2>2, <2>3, <2>4
<1>5. StorageTrue' /\ RowsTrue(screen.subs)' /\ FlightTrue'
  BY <1>1, <1>2, Unmoved DEF FlightTrue
<1>6. DashboardTypes'
  BY <1>0, <1>1 DEF DashboardTypes
<1> QED BY <1>4, <1>5, <1>6 DEF DashboardInv


LEMMA TrackStep ==
    ASSUME DashboardInv, doTrack
    PROVE  DashboardInv'
<1>0. DashboardTypes /\ StorageTrue /\ RowsTrue(screen.subs) /\ FlightTrue /\ BusyTrue
  BY DEF DashboardInv
<1>1. UNCHANGED <<visitor, screen, loads, accounts, mandates, unread>> /\ busy' = Waits
  BY DEF doTrack, Keeps
<1>2. Grows
  BY <1>0, <1>1, UnmovedChain
<1>3. visitor \in Wallets /\ storage \in [Wallets -> Lists]
  <2>1. visitor \in Wallets \cup {NoWallet} /\ storage \in [Wallets -> Lists]
    BY Zenon, <1>0 DEF DashboardTypes
  <2> QED BY <2>1 DEF doTrack, Click
<1>4. PICK id \in Ids : /\ storage' = [storage EXCEPT ![visitor].dismissed = @ \ {id},
                                                     ![visitor].mandates = @ \cup {id}]
                        /\ refreshSubs(storage'[visitor].mandates, "user")
  BY DEF doTrack, Ids
<1>a. PICK w, g, d, m : /\ w = visitor /\ g = storage'
                      /\ d = storage[visitor].dismissed \ {id} /\ m = storage[visitor].mandates \cup {id}
  OBVIOUS
<1>5. d \in SUBSET Nat /\ m \in SUBSET Nat /\ m \subseteq Ids /\ w \in Wallets /\ Ids' = Ids
  BY <1>a, <1>1, <1>2, <1>3, StoredAreIds DEF Ids
<1>6. g = AfterClear(storage, w, d, m)
  <2>1. g = [storage EXCEPT ![w].dismissed = d, ![w].mandates = m]
    BY <1>a, <1>4
  <2> QED BY <2>1 DEF AfterClear
<1>7. /\ g \in [Wallets -> Lists] /\ \A v \in Wallets \ {w} : g[v] = storage[v]
      /\ g[w].account = storage[w].account /\ g[w].mandates = m /\ g[w].dismissed = d
  <2>1. storage \in [Wallets -> Lists]
    BY <1>3
  <2>2. w \in Wallets /\ d \in SUBSET Nat /\ m \in SUBSET Nat
    BY <1>5
  <2> QED BY <2>1, <2>2, <1>6, ClearWritten
<1>8. StorageTrue'
  <2>1. ListsTrue(w, g[w], unread[w])
    BY <1>a, <1>0, <1>5, <1>7 DEF StorageTrue, ListsTrue
  <2>2. \A v \in Wallets : ListsTrue(v, g[v], unread[v])
    BY <1>0, <1>7, <2>1 DEF StorageTrue
  <2>3. \A v \in Wallets : ListsTrue(v, g[v], unread[v])'
    BY <1>0, <1>1, <1>2, <2>2, TrueOfALongerChain
  <2> QED BY <1>a, <1>1, <2>3 DEF StorageTrue
<1>9. refreshSubs(m, "user")
  BY <1>a, <1>4, <1>7
<1>10. \A r \in reads' : ReadTrue(r)' /\ r = [ids |-> r.ids, for |-> r.for, rows |-> r.rows]
  BY <1>2, <1>5, <1>9, ReadStarts
<1>11. RowsTrue(screen.subs)' /\ \A l \in loads' : LoadTrue(l)'
  BY <1>1, <1>2, Unmoved
<1>12. BusyTrue'
  BY <1>1 DEF BusyTrue, Waits
<1>13. DashboardTypes'
  BY <1>a, <1>0, <1>1, <1>7, <1>10 DEF DashboardTypes
<1> QED BY <1>8, <1>10, <1>11, <1>12, <1>13 DEF DashboardInv, FlightTrue

\* What is shown as revoked is revoked, and is cleared for good.
LEMMA ClearStep ==
    ASSUME DashboardInv, doClearUnreadable \/ doClearRevoked
    PROVE  DashboardInv'
<1>0. DashboardTypes /\ StorageTrue /\ RowsTrue(screen.subs) /\ FlightTrue /\ BusyTrue
  BY DEF DashboardInv
<1>1. UNCHANGED <<visitor, loads, reads, busy, accounts, mandates>> /\ Click
  BY DEF doClearUnreadable, doClearRevoked
<1>2. Grows
  BY <1>0, <1>1, UnmovedChain
<1>3. visitor \in Wallets /\ storage \in [Wallets -> Lists] /\ unread \in [Wallets -> SUBSET Nat]
      /\ screen = [accountId |-> screen.accountId, subs |-> screen.subs]
  <2>1. visitor \in Wallets \cup {NoWallet} /\ storage \in [Wallets -> Lists] /\ unread \in [Wallets -> SUBSET Nat]
        /\ screen = [accountId |-> screen.accountId, subs |-> screen.subs]
    BY Zenon, <1>0 DEF DashboardTypes
  <2> QED BY <1>1, <2>1 DEF Click
<1>4. PICK shown \in {"unreadable", "revoked"} : ClearRows(shown)
  BY DEF doClearUnreadable, doClearRevoked
<1> PICK gone : gone = {id \in DOMAIN screen.subs : screen.subs[id] = shown}
  OBVIOUS
<1>5. /\ storage' = [storage EXCEPT ![visitor].dismissed = @ \cup gone,
                ![visitor].mandates = @ \ (gone \cup storage[visitor].dismissed)]
      /\ screen' = [screen EXCEPT !.subs = [id \in DOMAIN @ \ gone |-> @[id]]]
      /\ unread' = [unread EXCEPT ![visitor] = IF shown = "unreadable" THEN @ \cup gone ELSE @]
  BY <1>4 DEF ClearRows
<1>a. PICK w, g, u, rows, d, m : /\ w = visitor /\ g = storage' /\ u = unread'
          /\ rows = [id \in DOMAIN screen.subs \ gone |-> screen.subs[id]]
          /\ d = storage[visitor].dismissed \cup gone
          /\ m = storage[visitor].mandates \ (gone \cup storage[visitor].dismissed)
  OBVIOUS
<1>6. gone \subseteq Ids /\ gone \in SUBSET Nat
  BY <1>0, MandatesAreIds DEF RowsTrue
<1>7. d \in SUBSET Nat /\ m \in SUBSET Nat /\ m \cup d \subseteq Ids /\ w \in Wallets
  BY <1>a, <1>2, <1>3, <1>6, StoredAreIds
<1>8. g = AfterClear(storage, w, d, m)
  <2>1. g = [storage EXCEPT ![w].dismissed = d, ![w].mandates = m]
    BY <1>a, <1>5
  <2> QED BY <2>1 DEF AfterClear
<1>9. /\ g \in [Wallets -> Lists] /\ \A v \in Wallets \ {w} : g[v] = storage[v]
      /\ g[w].account = storage[w].account /\ g[w].mandates = m /\ g[w].dismissed = d
  BY <1>3, <1>7, <1>8, ClearWritten
<1>10. /\ u \in [Wallets -> SUBSET Nat] /\ \A v \in Wallets \ {w} : u[v] = unread[v]
       /\ u[w] = IF shown = "unreadable" THEN unread[w] \cup gone ELSE unread[w]
  BY <1>a, <1>3, <1>5, <1>6
<1>11. StorageTrue'
  <2>1. ListsTrue(w, storage[w], unread[w])
    BY <1>a, <1>0, <1>7 DEF StorageTrue
  <2>2. \A id \in (gone \ u[w]) \cap MandatesOf(w) : mandates[id].status = "revoked"
    BY <1>a, <1>0, <1>4, <1>10 DEF RowsTrue
  <2>3. ListsTrue(w, g[w], u[w])
    BY <1>a, <1>7, <1>9, <1>10, <2>1, <2>2 DEF ListsTrue
  <2>4. \A v \in Wallets : ListsTrue(v, g[v], u[v])
    BY <1>a, <1>0, <1>9, <1>10, <2>3 DEF StorageTrue
  <2>5. \A v \in Wallets : ListsTrue(v, g[v], u[v])'
    BY <1>a, <1>0, <1>2, <2>4, TrueOfALongerChain
  <2> QED BY <1>a, <2>5 DEF StorageTrue
<1>12. screen' = [screen EXCEPT !.subs = rows]
  BY <1>a, <1>5
<1>13. screen'.subs = rows /\ screen' = [accountId |-> screen'.accountId, subs |-> screen'.subs]
  BY <1>a, <1>3, <1>12
<1>14. RowsTrue(rows)'
  <2>1. RowsTrue(rows)
    BY <1>a, <1>0 DEF RowsTrue
  <2> QED BY <1>a, <1>0, <1>2, <2>1, TrueOfALongerChain
<1>15. FlightTrue'
  BY <1>a, <1>1, <1>2, Unmoved DEF FlightTrue
<1>16. BusyTrue'
  BY <1>a, <1>1 DEF BusyTrue, Click, NotBusy
<1>17. DashboardTypes'
  BY <1>a, <1>0, <1>1, <1>9, <1>10, <1>13 DEF DashboardTypes
<1> QED BY <1>a, <1>11, <1>13, <1>14, <1>15, <1>16, <1>17 DEF DashboardInv

\* An account is opened: it is its opener's.
OpensFor(then) == then.do = "nothing" \/ (then.do = "authorize" /\ then.as = busy.as)
LEMMA OpenStep ==
    ASSUME DashboardInv, busy.do \in {"open", "open first"}, NEW then,
           OpensFor(then), openAccount(then)
    PROVE  DashboardInv'
<1>0. DashboardTypes /\ StorageTrue /\ RowsTrue(screen.subs) /\ FlightTrue /\ BusyTrue
  BY DEF DashboardInv
<1>1. UNCHANGED <<visitor, loads, reads, mandates, unread>> /\ busy' = then
  BY DEF openAccount
<1>2. busy.as \in Wallets /\ accounts' = Append(accounts, busy.as)
  BY <1>0 DEF BusyTrue, openAccount
<1>a. PICK w, g, acc : w = busy.as /\ g = storage' /\ acc = Len(accounts')
  OBVIOUS
<1>3. w \in Wallets /\ accounts' = Append(accounts, w)
  BY <1>a, <1>2
<1>4. Grows /\ acc \in Nat /\ Own(w, acc)'
  BY <1>a, <1>0, <1>1, <1>3, OneMoreAccount
<1>5. storage \in [Wallets -> Lists] /\ screen = [accountId |-> screen.accountId, subs |-> screen.subs]
  BY Zenon, <1>0 DEF DashboardTypes
<1>6. g = [storage EXCEPT ![w].account = acc] /\ screen' = [screen EXCEPT !.accountId = acc]
  BY <1>a DEF openAccount
<1>7. /\ g \in [Wallets -> Lists] /\ \A v \in Wallets \ {w} : g[v] = storage[v]
      /\ g[w].account = acc /\ g[w].mandates = storage[w].mandates /\ g[w].dismissed = storage[w].dismissed
  <2> PICK e, x : e = storage[w] /\ x = [e EXCEPT !.account = acc]
    OBVIOUS
  <2>1. e \in Lists /\ acc \in Nat
    BY <1>3, <1>4, <1>5
  <2>2. x \in Lists /\ x.account = acc /\ x.mandates = e.mandates /\ x.dismissed = e.dismissed
    BY <2>1 DEF Lists
  <2>3. g = [storage EXCEPT ![w] = x]
    BY <1>6
  <2> QED BY <1>3, <1>5, <2>2, <2>3
<1>8. StorageTrue'
  <2> PICK f, u : f = storage /\ u = unread
    OBVIOUS
  <2>1. \A v \in Wallets : ListsTrue(v, f[v], u[v])
    BY <1>0 DEF StorageTrue
  <2>2. \A v \in Wallets : ListsTrue(v, f[v], u[v])'
    BY <1>0, <1>4, <2>1, TrueOfALongerChain
  <2>3. ListsTrue(w, g[w], u[w])'
    BY <1>3, <1>4, <1>7, <2>2 DEF ListsTrue
  <2>4. \A v \in Wallets : ListsTrue(v, g[v], u[v])'
    BY <1>7, <2>2, <2>3
  <2>5. g = storage' /\ u = unread'
    BY <1>a, <1>1
  <2> QED BY <2>4, <2>5 DEF StorageTrue
<1>9. screen'.subs = screen.subs /\ screen' = [accountId |-> screen'.accountId, subs |-> screen'.subs]
  BY <1>5, <1>6
<1>10. RowsTrue(screen.subs)'
  <2> PICK rows : rows = screen.subs
    OBVIOUS
  <2>1. RowsTrue(rows)'
    BY <1>0, <1>4, TrueOfALongerChain
  <2> QED BY <1>9, <2>1
<1>11. FlightTrue'
  BY <1>1, <1>4, Unmoved DEF FlightTrue
<1>12. BusyTrue'
  BY <1>1, <1>2 DEF BusyTrue, OpensFor
<1>13. DashboardTypes'
  BY <1>a, <1>0, <1>1, <1>4, <1>7, <1>9 DEF DashboardTypes, Grows
<1> QED BY <1>8, <1>10, <1>11, <1>12, <1>13 DEF DashboardInv

\* A mandate is signed; its id is in nobody's lists before.
LEMMA AuthorizeIdStep ==
    ASSUME DashboardInv, busy.do = "authorize", authorize
    PROVE  DashboardInv'
<1>0. DashboardTypes /\ StorageTrue /\ RowsTrue(screen.subs) /\ FlightTrue /\ BusyTrue
  BY DEF DashboardInv
<1>1. UNCHANGED <<visitor, storage, screen, loads, reads, accounts, unread>>
  BY DEF authorize
<1> PICK w, n : w = busy.as /\ n = Len(mandates')
  OBVIOUS
<1>2. w \in Wallets /\ mandates' = Append(mandates, [by |-> w, status |-> "active"])
      /\ busy' = [do |-> "remember", as |-> w, id |-> n]
  BY <1>0 DEF BusyTrue, authorize
<1>3. Grows /\ n \in DOMAIN mandates' /\ n \notin Ids
  BY <1>0, <1>1, <1>2, OneMoreMandate
<1>4. n \notin storage[w].dismissed
  BY <1>2, <1>3, StoredAreIds
<1>5. BusyTrue'
  BY <1>1, <1>2, <1>3, <1>4 DEF BusyTrue, Ids
<1>6. StorageTrue' /\ RowsTrue(screen.subs)' /\ FlightTrue'
  BY <1>1, <1>3, Unmoved DEF FlightTrue
<1>7. DashboardTypes'
  BY <1>0, <1>1, <1>3 DEF DashboardTypes, Grows
<1> QED BY <1>5, <1>6, <1>7 DEF DashboardInv

\* The new id goes to the list of the wallet that signed.
LEMMA RememberStep ==
    ASSUME DashboardInv, busy.do = "remember", Remember
    PROVE  DashboardInv'
<1>0. DashboardTypes /\ StorageTrue /\ RowsTrue(screen.subs) /\ FlightTrue /\ BusyTrue
  BY DEF DashboardInv
<1>1. UNCHANGED <<visitor, screen, loads, accounts, mandates, unread>> /\ busy' = Waits
  BY DEF Remember, Keeps
<1>2. Grows
  BY <1>0, <1>1, UnmovedChain
<1>3. busy.as \in Wallets /\ busy.id \in Ids /\ busy.id \notin storage[busy.as].dismissed
  BY <1>0 DEF BusyTrue
<1>4. storage \in [Wallets -> Lists]
  BY Zenon, <1>0 DEF DashboardTypes
<1>a. PICK w, g, m : w = busy.as /\ g = storage' /\ m = storage[w].mandates \cup {busy.id}
  OBVIOUS
<1>5. w \in Wallets /\ m \subseteq Ids /\ m \in SUBSET Nat /\ m \cap storage[w].dismissed = {} /\ Ids' = Ids
  BY <1>a, <1>1, <1>2, <1>3, StoredAreIds DEF Ids
<1>6. g = [storage EXCEPT ![w].mandates = m] /\ refreshSubs(g[w].mandates, "user")
  BY <1>a DEF Remember
<1>7. /\ g \in [Wallets -> Lists] /\ \A v \in Wallets \ {w} : g[v] = storage[v]
      /\ g[w].account = storage[w].account /\ g[w].mandates = m /\ g[w].dismissed = storage[w].dismissed
  <2> PICK e, x : e = storage[w] /\ x = [e EXCEPT !.mandates = m]
    OBVIOUS
  <2>1. e \in Lists /\ m \in SUBSET Nat
    BY <1>4, <1>5
  <2>2. x \in Lists /\ x.account = e.account /\ x.mandates = m /\ x.dismissed = e.dismissed
    BY <2>1, MandatesWritten
  <2>3. g = [storage EXCEPT ![w] = x]
    BY <1>6
  <2> QED BY <1>4, <1>5, <2>2, <2>3
<1>8. StorageTrue'
  <2>1. ListsTrue(w, g[w], unread[w])
    BY <1>0, <1>5, <1>7 DEF StorageTrue, ListsTrue
  <2>2. \A v \in Wallets : ListsTrue(v, g[v], unread[v])
    BY <1>0, <1>7, <2>1 DEF StorageTrue
  <2>3. \A v \in Wallets : ListsTrue(v, g[v], unread[v])'
    BY <1>0, <1>1, <1>2, <2>2, TrueOfALongerChain
  <2> QED BY <1>a, <1>1, <2>3 DEF StorageTrue
<1>9. refreshSubs(m, "user")
  BY <1>6, <1>7
<1>10. \A r \in reads' : ReadTrue(r)' /\ r = [ids |-> r.ids, for |-> r.for, rows |-> r.rows]
  BY <1>2, <1>5, <1>9, ReadStarts
<1>11. RowsTrue(screen.subs)' /\ \A l \in loads' : LoadTrue(l)'
  BY <1>1, <1>2, Unmoved
<1>12. BusyTrue'
  BY <1>1 DEF BusyTrue, Waits
<1>13. DashboardTypes'
  BY <1>a, <1>0, <1>1, <1>7, <1>10 DEF DashboardTypes
<1> QED BY <1>8, <1>10, <1>11, <1>12, <1>13 DEF DashboardInv, FlightTrue

\* A mandate's status is set, and the wallet's list is read again.
LEMMA SetStatusStep ==
    ASSUME DashboardInv, busy.do = "set", setStatus
    PROVE  DashboardInv'
<1>0. DashboardTypes /\ StorageTrue /\ RowsTrue(screen.subs) /\ FlightTrue /\ BusyTrue
  BY DEF DashboardInv
<1>1. UNCHANGED <<visitor, storage, screen, loads, accounts, unread>> /\ busy' = Waits
  BY DEF setStatus
<1> PICK id, to, ids : id = busy.id /\ to = busy.to /\ ids = storage[busy.as].mandates
  OBVIOUS
<1>2. id \in DOMAIN mandates /\ busy.as \in Wallets
  BY <1>0 DEF BusyTrue
<1>3. /\ to = "revoked" \/ <<mandates[id].status, to>> \in {<<"active", "paused">>, <<"paused", "active">>}
      /\ mandates' = [mandates EXCEPT ![id].status = to] /\ refreshSubs(ids, "user")
  BY DEF setStatus
<1>4. to \in Status /\ (to = "revoked" \/ mandates[id].status # "revoked")
  BY <1>3 DEF Status
<1>5. Grows
  BY <1>0, <1>1, <1>2, <1>3, <1>4, StatusIsSet
<1>6. ids \subseteq Ids'
  BY <1>2, <1>5, StoredAreIds
<1>7. \A r \in reads' : ReadTrue(r)' /\ r = [ids |-> r.ids, for |-> r.for, rows |-> r.rows]
  BY <1>3, <1>5, <1>6, ReadStarts
<1>8. StorageTrue' /\ RowsTrue(screen.subs)' /\ \A l \in loads' : LoadTrue(l)'
  BY <1>1, <1>5, Unmoved
<1>9. BusyTrue'
  BY <1>1 DEF BusyTrue, Waits
<1>10. DashboardTypes'
  BY <1>0, <1>1, <1>5, <1>7 DEF DashboardTypes, Grows
<1> QED BY <1>7, <1>8, <1>9, <1>10 DEF DashboardInv, FlightTrue

\* Somebody with the same key signs or revokes elsewhere.
LEMMA ElsewhereStep ==
    ASSUME DashboardInv, ElsewhereActs
    PROVE  DashboardInv'
<1>0. DashboardTypes /\ StorageTrue /\ RowsTrue(screen.subs) /\ FlightTrue /\ BusyTrue
  BY DEF DashboardInv
<1>1. UNCHANGED <<visitor, storage, screen, loads, reads, busy, accounts, unread>>
  BY DEF ElsewhereActs
<1>2. Grows
  <2>1. ASSUME NEW w \in Wallets, mandates' = Append(mandates, [by |-> w, status |-> "active"]) PROVE Grows
    BY <1>0, <1>1, <2>1, OneMoreMandate
  <2>2. ASSUME NEW id \in DOMAIN mandates, mandates' = [mandates EXCEPT ![id].status = "revoked"] PROVE Grows
    <3>1. "revoked" \in Status
      BY DEF Status
    <3> QED BY <1>0, <1>1, <2>2, <3>1, StatusIsSet
  <2> QED BY <2>1, <2>2 DEF ElsewhereActs
<1>3. StorageTrue' /\ RowsTrue(screen.subs)' /\ FlightTrue' /\ BusyTrue'
  BY <1>1, <1>2, Unmoved DEF FlightTrue
<1>4. DashboardTypes'
  BY <1>0, <1>1, <1>2 DEF DashboardTypes, Grows
<1> QED BY <1>3, <1>4 DEF DashboardInv

LEMMA GoesOnStep ==
    ASSUME DashboardInv, ActionGoesOn
    PROVE  DashboardInv'
<1>1. CASE busy.do = "open" /\ openAccount(NotBusy)
  <2>1. OpensFor(NotBusy)
    BY DEF NotBusy, OpensFor
  <2> QED BY <1>1, <2>1, OpenStep
<1>2. CASE busy.do = "open first" /\ openAccount([do |-> "authorize", as |-> busy.as, acct |-> Len(accounts) + 1])
  <2>a. PICK then : then = [do |-> "authorize", as |-> busy.as, acct |-> Len(accounts) + 1]
    OBVIOUS
  <2>1. busy.do \in {"open", "open first"} /\ OpensFor(then) /\ openAccount(then)
    BY <1>2, <2>a DEF OpensFor
  <2> QED BY <2>1, OpenStep
<1> QED BY <1>1, <1>2, AuthorizeIdStep, RememberStep, SetStatusStep, ClickSteps DEF ActionGoesOn

LEMMA DashboardStart == DashboardInit => DashboardInv
<1> SUFFICES ASSUME DashboardInit PROVE DashboardInv
  OBVIOUS
<1> PICK z : z = 0
  OBVIOUS
<1>1. /\ visitor = NoWallet /\ busy = NotBusy /\ loads = {} /\ reads = {}
      /\ storage = [w \in Wallets |-> [account |-> z, mandates |-> {}, dismissed |-> {}]]
      /\ screen = [accountId |-> z, subs |-> <<>>]
      /\ accounts = <<>> /\ mandates = <<>> /\ unread = [w \in Wallets |-> {}]
  BY DEF DashboardInit, None
<1>2. storage \in [Wallets -> Lists]
  BY <1>1 DEF Lists
<1>3. DashboardTypes
  BY <1>1, <1>2 DEF DashboardTypes
<1>4. /\ \A w \in Wallets : storage[w].mandates = {} /\ storage[w].dismissed = {} /\ storage[w].account = None
      /\ DOMAIN screen.subs = {}
  BY <1>1 DEF None
<1>5. StorageTrue /\ RowsTrue(screen.subs) /\ FlightTrue
  BY <1>1, <1>4 DEF StorageTrue, ListsTrue, Own, RowsTrue, FlightTrue
<1>6. BusyTrue
  BY <1>1 DEF BusyTrue, NotBusy
<1> QED BY <1>3, <1>5, <1>6 DEF DashboardInv

\* What the browser keeps and shows follows the chain, through every switch of
\* the wallet, overlap of loads, reads and actions, reload and other device.
THEOREM DashboardInvariant == DashboardSpec => []DashboardInv
<1>1. DashboardInv /\ [DashboardNext]_dashboard => DashboardInv'
  <2> SUFFICES ASSUME DashboardInv, [DashboardNext]_dashboard PROVE DashboardInv'
    OBVIOUS
  <2>1. CASE UNCHANGED dashboard
    <3>1. UNCHANGED <<visitor, storage, screen, loads, reads, busy, accounts, mandates, unread>>
      BY <2>1 DEF dashboard
    <3>2. DashboardTypes
      BY DEF DashboardInv
    <3>3. Grows
      BY <3>1, <3>2, UnmovedChain
    <3>4. StorageTrue' /\ RowsTrue(screen.subs)' /\ FlightTrue' /\ BusyTrue'
      BY <3>1, <3>3, Unmoved DEF FlightTrue
    <3>5. DashboardTypes'
      BY <3>1, <3>2 DEF DashboardTypes
    <3> QED BY <3>4, <3>5 DEF DashboardInv
  <2> QED BY <2>1, PageSteps, LoadSteps, ReadStep, ClickSteps, TrackStep, ClearStep, GoesOnStep,
             ElsewhereStep DEF DashboardNext
<1> QED BY <1>1, DashboardStart, PTL DEF DashboardSpec

\* An id leaves a list when it is cleared or by a load that had not read it.
LEMMA OnlyClearsAndLoadsForget ==
    ASSUME DashboardInv, [DashboardNext]_dashboard
    PROVE  ForgetsOnlyWhatLoadsMissed
<1>1. storage \in [Wallets -> Lists] /\ visitor \in Wallets \cup {NoWallet}
  BY Zenon DEF DashboardInv, DashboardTypes
<1>2. CASE UNCHANGED storage
  BY <1>2 DEF ForgetsOnlyWhatLoadsMissed
<1>3. ASSUME NEW l \in loads, LoadWrites(l) PROVE ForgetsOnlyWhatLoadsMissed
  <2>1. l.of \in Wallets
    BY DEF DashboardInv, FlightTrue, LoadTrue
  <2>2. PICK acc, ids : LoadEnds(l, acc, ids) /\ l.ids \ storage[l.of].dismissed \subseteq ids
    BY <1>3 DEF LoadWrites
  <2> PICK w, a, g : /\ w = l.of /\ g = storage'
                     /\ a = IF l.found # NoAnswer /\ acc # None THEN acc ELSE storage[w].account
    OBVIOUS
  <2>3. g = AfterLoad(storage, w, a, ids) /\ loads' = loads \ {l}
    BY <2>2 DEF LoadEnds, AfterLoad
  <2>4. /\ \A v \in Wallets \ {w} : g[v] = storage[v]
        /\ g[w].mandates = ids /\ g[w].dismissed = storage[w].dismissed
    <3>1. PICK h, x : h = [storage EXCEPT ![w].account = a] /\ x = [h[w] EXCEPT !.mandates = ids]
      OBVIOUS
    <3>2. g = [h EXCEPT ![w] = x]
      BY <2>3, <3>1 DEF AfterLoad
    <3> QED BY <1>1, <2>1, <3>1, <3>2 DEF Lists
  <2> QED BY <2>1, <2>2, <2>3, <2>4 DEF ForgetsOnlyWhatLoadsMissed
<1>4. CASE doTrack
  <2>1. visitor \in Wallets
    BY <1>1, <1>4 DEF doTrack, Click
  <2>2. PICK id : storage' = [storage EXCEPT ![visitor].dismissed = @ \ {id},
                                             ![visitor].mandates = @ \cup {id}]
    BY <1>4 DEF doTrack
  <2>3. \A v \in Wallets : storage[v].mandates \subseteq storage'[v].mandates
    BY <1>1, <2>1, <2>2 DEF Lists
  <2> QED BY <2>3 DEF ForgetsOnlyWhatLoadsMissed
<1>5. ASSUME NEW shown, ClearRows(shown), visitor \in Wallets PROVE ForgetsOnlyWhatLoadsMissed
  <2>1. PICK gone : storage' = [storage EXCEPT ![visitor].dismissed = @ \cup gone,
                ![visitor].mandates = @ \ (gone \cup storage[visitor].dismissed)]
    BY <1>5 DEF ClearRows
  <2>2. \A v \in Wallets : storage[v].mandates \ storage'[v].mandates \subseteq storage'[v].dismissed
    BY <1>1, <1>5, <2>1 DEF Lists
  <2> QED BY <2>2 DEF ForgetsOnlyWhatLoadsMissed
<1>6. ASSUME NEW then, openAccount(then) PROVE ForgetsOnlyWhatLoadsMissed
  <2>1. \A v \in Wallets : storage[v].mandates \subseteq storage'[v].mandates
    BY <1>1, <1>6 DEF openAccount, Lists
  <2> QED BY <2>1 DEF ForgetsOnlyWhatLoadsMissed
<1>7. CASE Remember
  <2>1. \A v \in Wallets : storage[v].mandates \subseteq storage'[v].mandates
    BY <1>1, <1>7 DEF Remember, Lists
  <2> QED BY <2>1 DEF ForgetsOnlyWhatLoadsMissed
<1>8. CASE UNCHANGED dashboard
  BY <1>2, <1>8 DEF dashboard
<1>9. CASE load \/ Poll \/ ReloadPage \/ ElsewhereActs \/ doOpen \/ doSubscribe \/ doRow
  BY <1>2, <1>9 DEF load, Poll, ReloadPage, ElsewhereActs, doOpen, doSubscribe, doRow
<1>10. ASSUME NEW l \in loads, GatewayFinds(l) PROVE ForgetsOnlyWhatLoadsMissed
  BY <1>2, <1>10 DEF GatewayFinds
<1>11. ASSUME NEW r \in reads, MandatesRead(r) \/ setSubs(r) PROVE ForgetsOnlyWhatLoadsMissed
  BY <1>2, <1>11 DEF MandatesRead, setSubs
<1>12. CASE doClearUnreadable \/ doClearRevoked
  <2>1. visitor \in Wallets
    BY <1>1, <1>12 DEF doClearUnreadable, doClearRevoked, Click
  <2> QED BY <1>5, <1>12, <2>1 DEF doClearUnreadable, doClearRevoked
<1>13. CASE ActionGoesOn
  <2>1. CASE authorize \/ setStatus \/ Throws
    BY <1>2, <2>1 DEF authorize, setStatus, Throws
  <2>2. CASE openAccount(NotBusy)
    BY <1>6, <2>2
  <2>3. CASE openAccount([do |-> "authorize", as |-> busy.as, acct |-> Len(accounts) + 1])
    <3> PICK then : then = [do |-> "authorize", as |-> busy.as, acct |-> Len(accounts) + 1]
      OBVIOUS
    <3>1. openAccount(then)
      BY <2>3
    <3> QED BY <1>6, <3>1
  <2> QED BY <1>13, <1>7, <2>1, <2>2, <2>3 DEF ActionGoesOn
<1> QED BY <1>3, <1>4, <1>8, <1>9, <1>10, <1>11, <1>12, <1>13 DEF DashboardNext

\* subscriber-dashboard.tsx 141-144, 207-248 and 305-306: what was cleared stays
\* cleared, what is hidden is revoked, accounts are their owners', and only loads
\* that had not read an id forget it; for any wallets, however much overlaps.
THEOREM DashboardKeepsLists == DashboardSpec => ListsAreKept
<1>1. DashboardInv => ClearedStayCleared /\ OnlyTheRevokedAreHidden /\ AccountsAreOwn
  <2> SUFFICES ASSUME DashboardInv PROVE ClearedStayCleared /\ OnlyTheRevokedAreHidden /\ AccountsAreOwn
    OBVIOUS
  <2>1. \A w \in Wallets : ListsTrue(w, storage[w], unread[w])
    BY DEF DashboardInv, StorageTrue
  <2> QED BY <2>1 DEF ListsTrue, Own, ClearedStayCleared, OnlyTheRevokedAreHidden, AccountsAreOwn
<1>2. DashboardInv /\ [DashboardNext]_dashboard => [ForgetsOnlyWhatLoadsMissed]_dashboard
  BY OnlyClearsAndLoadsForget
<1> QED BY <1>1, <1>2, DashboardInvariant, PTL DEF DashboardSpec, ListsAreKept
=============================================================================
